----------------------------- MODULE TCPClient -----------------------------
(***************************************************************************)
(* The TCP client of EtherSia (src/src/TCPClient.cpp, TCPClient.h): active *)
(* open, passive close, reset handling, retransmission with exponential    *)
(* backoff and the Van Jacobson round-trip estimator.                       *)
(*                                                                         *)
(* The client object's fields are the record variable tcp.  The single     *)
(* packet buffer of EtherSia is shared by every frame received and sent;   *)
(* buf holds the two of its fields that later code reads back: the TCP     *)
(* control bits and the IPv6 payload length.  out is the segment the last  *)
(* step put on the wire (None when it sent nothing).                       *)
(*                                                                         *)
(* Segments are records whose fields hold the values a receiver reads from *)
(* the wire (ports and numbers after ntohs/ntohl).  Sequence numbers are   *)
(* taken modulo SeqMod, which stands for the 2^32 of the uint32 fields:    *)
(* the code only adds to them and compares them for equality.  The uint8  *)
(* fields of the retransmission timer and the estimator keep their width.  *)
(*                                                                         *)
(* Not modelled: the statistics counters (_nrcvd, _ndropped, _nrexmit...), *)
(* write-only fields nothing reads; the millisecond clock, replaced by the *)
(* two facts a poll reads from it (has the 250 ms tick elapsed, have ten   *)
(* minutes passed without activity); the PRINT tracing.                    *)
(***************************************************************************)
EXTENDS Integers, TCPTimer

CONSTANTS
    SeqMod,        \* modulus standing for 2^32 in sequence-number arithmetic
    RemotePort,    \* _remotePort, in host order
    MaxLocalPort,  \* bound on _localPort, i.e. on the number of connect() calls
    None           \* model value: no frame in the buffer / nothing sent

ASSUME SeqMod \in Nat \ {0} /\ RemotePort \in 0..65535 /\ MaxLocalPort \in Nat

VARIABLES
    tcp,   \* the fields of the TCPClient object
    buf,   \* [flags, plen] of the shared packet buffer
    out    \* segment sent by the last step, or None

vars == <<tcp, buf, out>>

-----------------------------------------------------------------------------
(* Constants of TCPClient.h and of the TCP header layout.                   *)

TCP_HEADER_LEN == 20          \* dataOffset 5 << 4: a header without options
MSS_OPTION_LEN == 4           \* dataOffset 6 << 4 adds the MSS option line
TCP_RECEIVE_HEADER_LEN == 20  \* subtracted by payloadLength()

States == {"DISCONNECTED", "WAIT_SYN_ACK", "CONNECTED", "LAST_ACK"}
Flags == {"SYN", "ACK", "FIN", "RST"}
AppliFlags == {"ACKDATA", "NEWDATA", "REXMIT", "CLOSE", "ABORT", "CONNECTED", "RESET"}

(* C integer conversions used by the code.                                 *)
Htons(x) == ((x * 256) + ((x \div 256) % 256)) % 65536        \* EtherSia.h htons
SeqPlus(a, b) == (a + b) % SeqMod

Segment(sp, dp, sq, ak, fl, opt, len, data) ==
    [sport |-> sp, dport |-> dp, seq |-> sq, ack |-> ak,
     flags |-> fl, opt |-> opt, len |-> len, data |-> data]

(* The buffer after a segment has been written to it or read into it.      *)
BufOf(s) == [flags |-> s.flags, plen |-> TCP_HEADER_LEN + s.opt + s.len]

(* TCPClient::payloadLength(): IPv6 payload length minus the TCP header,   *)
(* as a uint16_t.                                                          *)
PayloadLength(b) == (b.plen - TCP_RECEIVE_HEADER_LEN) % 65536

(* fillTCPHeader(): ports, sequence numbers, window, MSS option when the   *)
(* data offset exceeds 5 lines; the control bits are whatever is already   *)
(* in the buffer's flags byte.                                             *)
FillTCPHeader(t, fl, opt, len, data) ==
    Segment(t.localPort, RemotePort, t.localSeqNum, t.remoteSeqNum, fl, opt, len, data)

(* The RST+ACK built by the reset: label from a received segment s: ports  *)
(* swapped, but _remotePort stored without htons; sequence number taken    *)
(* from s's acknowledgement, acknowledgement one past s's sequence number. *)
ResetReply(s) ==
    Segment(s.dport, Htons(RemotePort), s.ack, SeqPlus(s.seq, 1), {"RST", "ACK"}, 0, 0, 0)

(* The result of a step: new fields, segment sent, new buffer.             *)
Result(t, s, b) == [t |-> t, out |-> s, buf |-> b]
Sent(t, s) == Result(t, s, BufOf(s))
Emit(r) == tcp' = r.t /\ out' = r.out /\ buf' = r.buf

-----------------------------------------------------------------------------
TypeOK ==
    /\ tcp \in [state : States, timedout : BOOLEAN, appliFlags : SUBSET AppliFlags,
                localSeqNum : 0..SeqMod-1, remoteSeqNum : 0..SeqMod-1,
                unAckLen : 0..65535, timer : 0..255, rto : 0..255, sa : 0..255,
                sv : 0..255, nrtx : 0..255, localPort : 0..MaxLocalPort]
    /\ buf \in [flags : SUBSET Flags, plen : Nat]
    /\ out = None \/ out.flags \subseteq Flags

(* The accessors of TCPClient.h the application reads after a poll.      *)
Connected(t) == t.state = "CONNECTED"           \* connected(): TIMEDOUT masked off
Synacked(t) == "CONNECTED" \in t.appliFlags    \* synacked()
Rexmit(t)   == "REXMIT" \in t.appliFlags       \* rexmit()
Timedout(t) == t.timedout                       \* timedout(): the TIMEDOUT bit
Aborted(t)  == "ABORT" \in t.appliFlags        \* aborted()
Closing(t)  == "CLOSE" \in t.appliFlags        \* closing()

(* TCPClient::TCPClient(): a global object is zero-initialised before its *)
(* constructor runs, which sets _state to DISCONNECTED and clears the      *)
(* statistics counters.                                                     *)
Constructed ==
    [state |-> "DISCONNECTED", timedout |-> FALSE, appliFlags |-> {},
     localSeqNum |-> 0, remoteSeqNum |-> 0, unAckLen |-> 0, timer |-> 0,
     rto |-> 0, sa |-> 0, sv |-> 0, nrtx |-> 0, localPort |-> 0]

(* The fields after construction; the IPv6Packet constructor zeroes the   *)
(* buffer.                                                                  *)
Init ==
    /\ tcp = Constructed
    /\ buf = [flags |-> {}, plen |-> 0]
    /\ out = None

-----------------------------------------------------------------------------
(* sendInternal(): a fresh send adds to the outstanding bytes, reloads the *)
(* timer with the RTO and clears the retry count; while the last poll      *)
(* asked for a retransmission (UIP_REXMIT) the counters are left alone.    *)
AfterSend(t, len) ==
    IF "REXMIT" \in t.appliFlags THEN t
    ELSE [t EXCEPT !.unAckLen = @ + len, !.timer = t.rto, !.nrtx = 0]

(* connect(): initial sequence number isn from random(), new local port, SYN with the *)
(* MSS option, estimator reset to the uIP initial values.                  *)
Connect(isn) ==
    /\ tcp.localPort < MaxLocalPort
    /\ LET t == [tcp EXCEPT !.localSeqNum = isn, !.remoteSeqNum = 0,
                            !.localPort = @ + 1, !.unAckLen = 1,
                            !.timer = UIP_RTO, !.rto = UIP_RTO, !.sa = 0,
                            !.sv = 16, !.nrtx = 0, !.state = "WAIT_SYN_ACK",
                            !.timedout = FALSE]
       IN Emit(Sent(AfterSend(t, 0), FillTCPHeader(t, {"SYN"}, MSS_OPTION_LEN, 0, 0)))

(* Socket::send(len) -> sendInternal(): the application has written len    *)
(* bytes (standing for data) at transmitPayload(); the segment carries the *)
(* MSS option line and the control bits left in the buffer.                *)
Send(len, data) ==
    Emit(Sent(AfterSend(tcp, len), FillTCPHeader(tcp, buf.flags, MSS_OPTION_LEN, len, data)))

-----------------------------------------------------------------------------
(* The ACKING TEST: an ACK of every outstanding byte advances the local    *)
(* sequence number, feeds the estimator when nothing was retransmitted,    *)
(* reloads the timer and reports UIP_ACKDATA.                              *)
AckTestAnyAck(t, s) ==    \* mutant: acknowledgement number not compared
    IF "ACK" \in s.flags /\ t.unAckLen > 0
    THEN LET e == IF t.nrtx = 0 THEN RttUpdate(t)
                  ELSE [sa |-> t.sa, sv |-> t.sv, rto |-> t.rto]
         IN [t EXCEPT !.localSeqNum = SeqPlus(@, t.unAckLen), !.sa = e.sa,
                      !.sv = e.sv, !.rto = e.rto, !.timer = e.rto,
                      !.unAckLen = 0, !.appliFlags = {"ACKDATA"}]
    ELSE t

AckTest(t, s) ==
    IF "ACK" \in s.flags /\ t.unAckLen > 0
       /\ s.ack = SeqPlus(t.localSeqNum, t.unAckLen)
    THEN LET e == IF t.nrtx = 0 THEN RttUpdate(t)
                  ELSE [sa |-> t.sa, sv |-> t.sv, rto |-> t.rto]
         IN [t EXCEPT !.localSeqNum = SeqPlus(@, t.unAckLen), !.sa = e.sa,
                      !.sv = e.sv, !.rto = e.rto, !.timer = e.rto,
                      !.unAckLen = 0, !.appliFlags = {"ACKDATA"}]
    ELSE t

CheckForRetransmitNoFin(t, b) ==    \* mutant: the FIN+ACK is not resent
    IF t.unAckLen > 0 /\ t.timer = 0
    THEN LET t1 == [t EXCEPT !.timer = Backoff(t.nrtx)]
             t2 == [t1 EXCEPT !.nrtx = @ + 1]
         IN IF GiveUp(t)
            THEN LET t3 == [t1 EXCEPT !.timedout = TRUE]
                 IN Sent(t3, FillTCPHeader(t3, {"RST", "ACK"}, 0, 0, 0))
            ELSE CASE t.state = "WAIT_SYN_ACK" ->
                        Sent(t2, FillTCPHeader(t2, {"SYN"}, MSS_OPTION_LEN, 0, 0))
                   [] t.state = "CONNECTED" ->
                        Result([t2 EXCEPT !.appliFlags = @ \cup {"REXMIT"}], None,
                               [b EXCEPT !.flags = {"ACK"}])
                   [] t.state = "LAST_ACK" -> Result(t2, None, b)
    ELSE Result(t, None, b)

(* check_for_retransmit: when the timer of outstanding bytes has run out,  *)
(* reload it with backoff; give up with RST+ACK after the last retry, else *)
(* resend the SYN or the FIN+ACK, or ask the application to resend data.   *)
CheckForRetransmit(t, b) ==
    IF t.unAckLen > 0 /\ t.timer = 0
    THEN LET t1 == [t EXCEPT !.timer = Backoff(t.nrtx)]
             t2 == [t1 EXCEPT !.nrtx = @ + 1]
         IN IF GiveUp(t)
            THEN LET t3 == [t1 EXCEPT !.timedout = TRUE]
                 IN Sent(t3, FillTCPHeader(t3, {"RST", "ACK"}, 0, 0, 0))
            ELSE CASE t.state = "WAIT_SYN_ACK" ->
                        Sent(t2, FillTCPHeader(t2, {"SYN"}, MSS_OPTION_LEN, 0, 0))
                   [] t.state = "CONNECTED" ->
                        Result([t2 EXCEPT !.appliFlags = @ \cup {"REXMIT"}], None,
                               [b EXCEPT !.flags = {"ACK"}])
                   [] t.state = "LAST_ACK" ->
                        Sent(t2, FillTCPHeader(t2, {"FIN", "ACK"}, 0, 0, 0))
    ELSE Result(t, None, b)

-----------------------------------------------------------------------------
(* havePacket(), one poll of the application loop.  f is the frame that    *)
(* EtherSia read into the buffer before the poll, or None; tick is whether *)
(* PERIODIC_TIME_OUT has elapsed since the last tick; idle whether ten     *)
(* minutes have passed since _inactivity was last reset, which cannot be   *)
(* when the previous poll reported activity (it resets _inactivity now).   *)

SendAck(t, b) == Sent(t, FillTCPHeader(t, {"ACK"}, 0, 0, 0))

(* The frame is not a TCP segment from the remote endpoint (wrong address  *)
(* pair, protocol or source port), or there is none.                       *)
NotFromRemote(f) == f = None \/ f.sport # RemotePort

InWindowCheckFinOnly(t, f) ==    \* mutant: data segments not checked
    /\ ~(t.state = "WAIT_SYN_ACK" /\ f.flags \cap {"SYN", "ACK"} # {})
    /\ "FIN" \in f.flags
    /\ f.seq # t.remoteSeqNum

InWindowCheck(t, f) ==
    /\ ~(t.state = "WAIT_SYN_ACK" /\ f.flags \cap {"SYN", "ACK"} # {})
    /\ PayloadLength(BufOf(f)) > 0 \/ "FIN" \in f.flags
    /\ f.seq # t.remoteSeqNum

(* The state handling after the ACKING TEST, for the fields t before it,  *)
(* a after it, the frame f and the buffer b.                               *)

(* WAIT_SYN_ACK: a segment with SYN or ACK that acknowledged the SYN       *)
(* connects; anything else aborts with a RST (goto reset).                 *)
SynAckStep(t, a, f, b) ==
    IF "ACKDATA" \in a.appliFlags /\ f.flags \cap {"SYN", "ACK"} # {}
    THEN SendAck([a EXCEPT !.state = "CONNECTED", !.remoteSeqNum = SeqPlus(f.seq, 1),
                           !.appliFlags = {"CONNECTED"}], b)
    ELSE Sent([a EXCEPT !.appliFlags = {"ABORT"}, !.state = "DISCONNECTED"], ResetReply(f))

(* CONNECTED: a FIN is deferred while bytes are outstanding, else answered *)
(* with FIN+ACK (passive close); data is acknowledged.                     *)
ConnectedStepNoDefer(t, a, f, b) ==    \* mutant: FIN accepted with bytes outstanding
    LET plen == PayloadLength(b)
    IN IF "FIN" \in f.flags
       THEN LET c == [a EXCEPT !.remoteSeqNum = SeqPlus(@, plen + 1),
                               !.appliFlags = @ \cup {"CLOSE"} \cup
                                              (IF plen > 0 THEN {"NEWDATA"} ELSE {}),
                               !.unAckLen = 1, !.state = "LAST_ACK", !.nrtx = 0]
            IN Sent(c, FillTCPHeader(c, {"FIN", "ACK"}, 0, 0, 0))
       ELSE IF plen > 0
       THEN SendAck([a EXCEPT !.appliFlags = @ \cup {"NEWDATA"},
                              !.remoteSeqNum = SeqPlus(@, plen)], b)
       ELSE CheckForRetransmit(a, b)

ConnectedStep(t, a, f, b) ==
    LET plen == PayloadLength(b)
    IN IF "FIN" \in f.flags
       THEN IF a.unAckLen > 0 THEN CheckForRetransmit(a, b)
            ELSE LET c == [a EXCEPT !.remoteSeqNum = SeqPlus(@, plen + 1),
                                    !.appliFlags = @ \cup {"CLOSE"} \cup
                                                   (IF plen > 0 THEN {"NEWDATA"} ELSE {}),
                                    !.unAckLen = 1, !.state = "LAST_ACK", !.nrtx = 0]
                 IN Sent(c, FillTCPHeader(c, {"FIN", "ACK"}, 0, 0, 0))
       ELSE IF plen > 0
       THEN SendAck([a EXCEPT !.appliFlags = @ \cup {"NEWDATA"},
                              !.remoteSeqNum = SeqPlus(@, plen)], b)
       ELSE CheckForRetransmit(a, b)

(* LAST_ACK: the ACK of the FIN closes.                                    *)
LastAckStep(t, a, f, b) ==
    IF "ACKDATA" \in a.appliFlags
    THEN Result([a EXCEPT !.state = "DISCONNECTED", !.appliFlags = {"CLOSE"}], None, b)
    ELSE CheckForRetransmit(a, b)

(* label found: a segment from the remote port to the current local port.  *)
(* RST aborts; an unexpected sequence number is answered with an ACK; then  *)
(* the ACKING TEST and the handling of the connection state.               *)
Found(t, f, b) ==
    IF "RST" \in f.flags
    THEN Result([t EXCEPT !.state = "DISCONNECTED", !.appliFlags = {"ABORT"}], None, b)
    ELSE IF InWindowCheck(t, f) THEN SendAck(t, b)
    ELSE LET a == AckTest(t, f)
         IN CASE t.state = "WAIT_SYN_ACK" -> SynAckStep(t, a, f, b)
              [] t.state = "CONNECTED" -> ConnectedStep(t, a, f, b)
              [] t.state = "LAST_ACK" -> LastAckStep(t, a, f, b)

(* The step a poll takes once the prologue has run (t) with the frame in   *)
(* the buffer (b): drop what is not from the remote endpoint; to another   *)
(* local port, drop a SYN, ignore a RST and reset anything else.           *)
Process(t, f, b) ==
    IF NotFromRemote(f) THEN CheckForRetransmit(t, b)
    ELSE IF f.dport = t.localPort THEN Found(t, f, b)
    ELSE IF "SYN" \in f.flags THEN CheckForRetransmit(t, b)
    ELSE IF "RST" \in f.flags THEN Result(t, None, b)
    ELSE Sent(t, ResetReply(f))

HavePacketNoTimedoutTest(f, tick, idle) ==    \* mutant: the TIMEDOUT test missing
    /\ idle => tcp.appliFlags = {}
    /\ LET fl == IF idle THEN {"RESET"} ELSE {}
           b  == IF f = None THEN buf ELSE BufOf(f)
       IN \/ /\ tcp.state = "DISCONNECTED"
             /\ Emit(Result([tcp EXCEPT !.appliFlags = fl, !.timedout = FALSE], None, b))
          \/ /\ tcp.state # "DISCONNECTED"
             /\ LET t == [tcp EXCEPT !.appliFlags = fl,
                                     !.timer = IF tick /\ tcp.unAckLen > 0
                                               THEN Uint8(@ - 1) ELSE @]
                IN Emit(Process(t, f, b))

HavePacket(f, tick, idle) ==
    /\ idle => tcp.appliFlags = {}
    /\ LET fl == IF idle THEN {"RESET"} ELSE {}
           b  == IF f = None THEN buf ELSE BufOf(f)
       IN \/ /\ tcp.state = "DISCONNECTED"
             /\ ~tcp.timedout
             /\ Emit(Result([tcp EXCEPT !.appliFlags = fl], None, b))
          \/ /\ tcp.timedout
             /\ Emit(Result([tcp EXCEPT !.appliFlags = fl, !.state = "DISCONNECTED",
                                        !.timedout = FALSE], None, b))
          \/ /\ tcp.state # "DISCONNECTED"
             /\ ~tcp.timedout
             /\ LET t == [tcp EXCEPT !.appliFlags = fl,
                                     !.timer = IF tick /\ tcp.unAckLen > 0
                                               THEN Uint8(@ - 1) ELSE @]
                IN Emit(Process(t, f, b))

-----------------------------------------------------------------------------
(* PROPERTIES                                                              *)

(* The number of retransmissions of one segment never exceeds UIP_MAXRTX,  *)
(* and that of a SYN never exceeds UIP_MAXSYNRTX, although check_for_     *)
(* retransmit only compares _nrtx for equality and _nrtx is carried from   *)
(* the handshake into the data phase until the next fresh send.           *)
RetriesBounded ==
    /\ tcp.nrtx <= UIP_MAXRTX
    /\ tcp.state = "WAIT_SYN_ACK" => tcp.nrtx <= UIP_MAXSYNRTX

(* The retransmission timer counts down from the last value it was loaded *)
(* with: the RTO (sendInternal(), the ACKING TEST) or the backoff of       *)
(* check_for_retransmit, at most UIP_RTO << 4.  It never exceeds both.     *)
TimerWithinLoad == tcp.timer <= Backoff(4) \/ tcp.timer <= tcp.rto

(* Every segment the client sends goes to the remote endpoint's port: the  *)
(* RST+ACK that answers a late segment of an earlier connection (the      *)
(* reset: label) as much as the segments of fillTCPHeader().              *)
SentToRemotePort == out # None => out.dport = RemotePort

(* A data segment, sent by Socket::send() through sendInternal(), carries  *)
(* the ACK bit and no SYN, FIN or RST, whatever the poll before it did to  *)
(* the shared buffer.                                                      *)
DataCarriesOnlyAck == out # None /\ out.len > 0 => out.flags = {"ACK"}

(* Giving up in check_for_retransmit only adds the TIMEDOUT bit to the    *)
(* state, whose bits keep the state the client gave up in until the next  *)
(* poll.  From then on, and as long as the connection is DISCONNECTED, the *)
(* client sends nothing but the SYN of a new connect(): the RST+ACK of the *)
(* give-up is its last segment, no SYN or FIN+ACK is retransmitted and no *)
(* segment is answered (spec.md 4.4: no further SYN once the state becomes *)
(* TIMEDOUT).                                                               *)
SilentAfterGiveUp ==
    [][(Timedout(tcp) \/ tcp.state = "DISCONNECTED") /\ out' # None
         => tcp'.localPort = tcp.localPort + 1]_vars

(* When havePacket() returns true (UIP_NEWDATA), payloadLength() gives the *)
(* number of new bytes the application is to read from payload().         *)
NewDataReadable == "NEWDATA" \in tcp.appliFlags => PayloadLength(buf) > 0

=============================================================================
