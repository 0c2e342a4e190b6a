----------------------------- MODULE TCPSystem -----------------------------
(***************************************************************************)
(* The TCP client of EtherSia connected to a server over a network that    *)
(* loses, duplicates and reorders segments.                                *)
(*                                                                         *)
(* The client is TCPClient, driven by an application that follows the uIP  *)
(* discipline: it calls connect() once, sends its bytes one segment at a   *)
(* time (new data only once all sent data is acknowledged), resends the   *)
(* outstanding bytes when a poll reports UIP_REXMIT, and reads payload()   *)
(* when havePacket() returns true.  Byte i of a stream is the value i.     *)
(*                                                                         *)
(* The server is the other end of the connection as RFC 9293 describes it: *)
(* passive open, in-order receive, one segment outstanding at a time, an   *)
(* active close once it has sent its bytes, TIME-WAIT, and the RFC 5961    *)
(* challenge ACK.  It is the environment of the client: it stands for      *)
(* any conforming implementation, not for code of this repository.  Its   *)
(* retransmission timer is abstracted: it may resend its oldest            *)
(* unacknowledged segment at any time.                                     *)
(*                                                                         *)
(* The network holds a set of segments in each direction, at most NetCap   *)
(* of them: a segment sent to a full direction is lost.  A segment is      *)
(* delivered in any order; up to MaxLoss segments are lost and up to       *)
(* MaxDup deliveries leave a copy behind.  Segments to a port other than   *)
(* the server's reach no endpoint and are dropped.                         *)
(***************************************************************************)
EXTENDS TCPClient, Sequences, FiniteSets

CONSTANTS
    ClientISN,    \* values random() may return for the initial sequence number
    PeerISS,      \* the server's initial sequence number
    MaxData,      \* bytes the client application sends
    MaxPeerData,  \* bytes the server sends before it closes
    NetCap,       \* segments each direction of the network holds
    MaxLoss,      \* segments the network may lose
    MaxDup,       \* deliveries that may leave a copy behind
    DupSynReply,  \* "ACK" (RFC 9293) or "SYN_ACK" (Linux): the server's answer
                  \* to a retransmitted SYN in SYN-RECEIVED
    SlowNetwork   \* FALSE: every segment is delivered or lost within one tick

ASSUME /\ ClientISN \subseteq 0..SeqMod-1 /\ PeerISS \in 0..SeqMod-1
       /\ {MaxData, MaxPeerData, NetCap, MaxLoss, MaxDup} \subseteq Nat
       /\ DupSynReply \in {"ACK", "SYN_ACK"} /\ SlowNetwork \in BOOLEAN
       \* sequence numbers of one connection never alias modulo SeqMod
       /\ SeqMod > MaxData + 2 /\ SeqMod > MaxPeerData + 2

VARIABLES
    peer,    \* the server's connection record
    c2p,     \* segments in flight from the client to the server
    p2c,     \* segments in flight from the server to the client
    app,     \* the client application: bytes sent, bytes read, and whether
             \* it still owes the resend a UIP_REXMIT poll asked for
    faults   \* losses and duplications so far

sysvars == <<tcp, buf, out, peer, c2p, p2c, app, faults>>

PeerStates == {"LISTEN", "SYN_RCVD", "ESTAB", "CLOSE_WAIT", "LAST_ACK",
               "FIN_WAIT_1", "FIN_WAIT_2", "CLOSING", "TIME_WAIT"}

(* A sequence number of the server relative to its ISS, and one of the     *)
(* client relative to the acknowledged SYN.                                *)
PRel(x) == (x - PeerISS) % SeqMod

-----------------------------------------------------------------------------
(* The network.                                                            *)

Put(net, s) ==
    IF s = None \/ s.dport # RemotePort \/ Cardinality(net) >= NetCap
    THEN net ELSE net \cup {s}

PutToClient(net, s) ==
    IF s = None \/ Cardinality(net) >= NetCap THEN net ELSE net \cup {s}

-----------------------------------------------------------------------------
(* The server.                                                             *)

PSeg(p, sq, fl, opt, len, data) ==
    Segment(RemotePort, p.port, sq, p.rcvNxt, fl, opt, len, data)

PAck(p) == PSeg(p, p.sndNxt, {"ACK"}, 0, 0, 0)

(* The segment at p.sndUna, sent or resent.                                *)
POldest(p) ==
    CASE p.st = "SYN_RCVD" -> PSeg(p, PeerISS, {"SYN", "ACK"}, MSS_OPTION_LEN, 0, 0)
      [] p.st \in {"FIN_WAIT_1", "CLOSING", "LAST_ACK"} ->
            PSeg(p, p.sndUna, {"FIN", "ACK"}, 0, 0, 0)
      [] OTHER -> PSeg(p, p.sndUna, {"ACK"}, 0, 1, p.sent)

(* rcvd and sent record the streams and outlive the connection record.    *)
PeerInit == [st |-> "LISTEN", port |-> 0, irs |-> 0, rcvNxt |-> 0, sndUna |-> PeerISS,
             sndNxt |-> PeerISS, rcvd |-> <<>>, sent |-> 0]

PeerClosed(p) == [p EXCEPT !.st = "LISTEN"]

(* A segment with no connection (LISTEN): RST ignored, ACK answered by a   *)
(* RST, SYN opens the connection.                                          *)
PeerListen(p, s) ==
    IF "RST" \in s.flags THEN [p |-> p, r |-> None]
    ELSE IF "ACK" \in s.flags
    THEN [p |-> p, r |-> Segment(RemotePort, s.sport, s.ack, 0, {"RST"}, 0, 0, 0)]
    ELSE IF "SYN" \in s.flags
    THEN LET q == [p EXCEPT !.st = "SYN_RCVD", !.port = s.sport,
                             !.irs = s.seq, !.rcvNxt = SeqPlus(s.seq, 1),
                             !.sndUna = PeerISS, !.sndNxt = SeqPlus(PeerISS, 1)]
         IN [p |-> q, r |-> POldest(q)]
    ELSE [p |-> p, r |-> None]

(* The ACK field of an acceptable segment (RFC 9293 3.10.7.4, fifth step). *)
PeerAck(p, s) ==
    IF PRel(s.ack) <= PRel(p.sndUna) \/ PRel(s.ack) > PRel(p.sndNxt) THEN p
    ELSE LET q == [p EXCEPT !.sndUna = s.ack]
             finAcked == s.ack = p.sndNxt
         IN CASE p.st = "SYN_RCVD" -> [q EXCEPT !.st = "ESTAB"]
              [] p.st = "FIN_WAIT_1" /\ finAcked -> [q EXCEPT !.st = "FIN_WAIT_2"]
              [] p.st = "CLOSING" /\ finAcked -> [q EXCEPT !.st = "TIME_WAIT"]
              [] p.st = "LAST_ACK" /\ finAcked -> PeerClosed(q)
              [] OTHER -> q

(* Segment text and FIN of an acceptable segment (sixth to eighth steps).  *)
PeerText(p, s) ==
    LET data == s.len > 0 /\ p.st \in {"ESTAB", "FIN_WAIT_1", "FIN_WAIT_2"}
        q == IF data THEN [p EXCEPT !.rcvd = Append(@, s.data),
                                    !.rcvNxt = SeqPlus(@, s.len)]
             ELSE p
        fin == "FIN" \in s.flags /\ p.st \in {"ESTAB", "FIN_WAIT_1", "FIN_WAIT_2"}
        st == CASE ~fin -> q.st
                [] q.st = "ESTAB" -> "CLOSE_WAIT"
                [] q.st = "FIN_WAIT_1" -> "CLOSING"
                [] q.st = "FIN_WAIT_2" -> "TIME_WAIT"
        q2 == IF fin THEN [q EXCEPT !.rcvNxt = SeqPlus(@, 1), !.st = st] ELSE q
    IN [p |-> q2, r |-> IF data \/ fin \/ "FIN" \in s.flags THEN PAck(q2) ELSE None]

(* A segment for the connection (RFC 9293 3.10.7.4), window of one: the    *)
(* client only sends at the receive pointer or below it.                   *)
PeerSegment(p, s) ==
    IF s.seq # p.rcvNxt
    THEN [p |-> p, r |-> CASE "RST" \in s.flags -> None
                           [] p.st = "SYN_RCVD" /\ "SYN" \in s.flags
                                 /\ DupSynReply = "SYN_ACK" -> POldest(p)
                           [] OTHER -> PAck(p)]
    ELSE IF "RST" \in s.flags THEN [p |-> PeerClosed(p), r |-> None]
    ELSE IF "SYN" \in s.flags THEN [p |-> p, r |-> PAck(p)]
    ELSE IF "ACK" \notin s.flags THEN [p |-> p, r |-> None]
    ELSE IF p.st = "SYN_RCVD" /\ s.ack # p.sndNxt
    THEN [p |-> p, r |-> Segment(RemotePort, s.sport, s.ack, 0, {"RST"}, 0, 0, 0)]
    ELSE IF PRel(s.ack) > PRel(p.sndNxt) THEN [p |-> p, r |-> PAck(p)]
    ELSE PeerText(PeerAck(p, s), s)

PeerReceive ==
    \E s \in c2p :
        LET res == IF peer.st = "LISTEN" \/ s.sport # peer.port
                   THEN PeerListen(peer, s) ELSE PeerSegment(peer, s)
        IN /\ peer' = res.p
           /\ c2p' = c2p \ {s}
           /\ p2c' = PutToClient(p2c, res.r)
           /\ UNCHANGED <<tcp, buf, out, app, faults>>

(* The server sends its next byte once the previous one is acknowledged.   *)
PeerSend ==
    /\ peer.st \in {"ESTAB", "CLOSE_WAIT"}
    /\ peer.sndUna = peer.sndNxt
    /\ peer.sent < MaxPeerData
    /\ LET q == [peer EXCEPT !.sent = @ + 1, !.sndNxt = SeqPlus(@, 1)]
       IN /\ peer' = q
          /\ p2c' = PutToClient(p2c, PSeg(q, peer.sndNxt, {"ACK"}, 0, 1, q.sent))
    /\ UNCHANGED <<tcp, buf, out, c2p, app, faults>>

(* The server closes once its bytes are sent and acknowledged.             *)
PeerClose ==
    /\ peer.st \in {"ESTAB", "CLOSE_WAIT"}
    /\ peer.sndUna = peer.sndNxt
    /\ peer.sent = MaxPeerData
    /\ LET q == [peer EXCEPT !.sndNxt = SeqPlus(@, 1),
                             !.st = IF @ = "ESTAB" THEN "FIN_WAIT_1" ELSE "LAST_ACK"]
       IN /\ peer' = q
          /\ p2c' = PutToClient(p2c, PSeg(q, peer.sndNxt, {"FIN", "ACK"}, 0, 0, 0))
    /\ UNCHANGED <<tcp, buf, out, c2p, app, faults>>

PeerRetransmit ==
    /\ peer.sndUna # peer.sndNxt
    /\ SlowNetwork \/ c2p \cup p2c = {}
    /\ p2c' = PutToClient(p2c, POldest(peer))
    /\ p2c' # p2c
    /\ UNCHANGED <<tcp, buf, out, peer, c2p, app, faults>>

(* TIME-WAIT ends after 2 MSL and the connection record is deleted; by     *)
(* then every segment of the connection has left the network, and on a    *)
(* fast network the client's retransmissions of its FIN (a few seconds)   *)
(* are over.                                                               *)
PeerTimeWaitEnd ==
    /\ peer.st = "TIME_WAIT"
    /\ c2p \cup p2c = {}
    /\ SlowNetwork \/ tcp.state # "LAST_ACK"
    /\ peer' = PeerClosed(peer)
    /\ UNCHANGED <<tcp, buf, out, c2p, p2c, app, faults>>

-----------------------------------------------------------------------------
(* The client and its application.                                         *)

(* A tick only changes the state while bytes are outstanding; on a fast    *)
(* network no tick passes while a segment is in flight.                   *)
Ticks == IF tcp.unAckLen > 0 /\ (SlowNetwork \/ c2p \cup p2c = {})
         THEN BOOLEAN ELSE {FALSE}

(* One pass of the application loop: the next frame (a segment from the    *)
(* server, or none) is read into the buffer and havePacket() runs; when it *)
(* returns true the application reads the new bytes from payload().  When  *)
(* rexmit() is true it resends (AppResend) before the next pass.           *)
ClientStep(m, tick, keep) ==
    /\ ~app.owe
    /\ keep => m # None /\ faults.dup < MaxDup
    /\ HavePacket(m, tick, FALSE)
    /\ p2c' = IF m = None \/ keep THEN p2c ELSE p2c \ {m}
    /\ c2p' = Put(c2p, out')
    /\ app' = [app EXCEPT !.rcvd = IF "NEWDATA" \in tcp'.appliFlags
                                   THEN Append(@, m.data) ELSE @,
                          !.owe = Rexmit(tcp')
                                  /\ Connected(tcp')]
    /\ faults' = IF keep THEN [faults EXCEPT !.dup = @ + 1] ELSE faults
    /\ UNCHANGED peer

ClientPoll ==
    \E m \in p2c \cup {None}, tick \in Ticks, keep \in BOOLEAN : ClientStep(m, tick, keep)

(* The two ways a poll makes progress: it reads a segment from the server, *)
(* or it is the first poll after the 250 ms period has elapsed.            *)
ClientReceive == \E m \in p2c : ClientStep(m, FALSE, FALSE)

ClientTick == TRUE \in Ticks /\ ClientStep(None, TRUE, FALSE)

AppConnect ==
    /\ tcp.state = "DISCONNECTED"
    /\ \E isn \in ClientISN : Connect(isn)
    /\ c2p' = Put(c2p, out')
    /\ UNCHANGED <<peer, p2c, app, faults>>

AppSend ==
    /\ Connected(tcp)
    /\ tcp.unAckLen = 0
    /\ ~Rexmit(tcp)
    /\ app.sent < MaxData
    /\ Send(1, app.sent + 1)
    /\ app' = [app EXCEPT !.sent = @ + 1]
    /\ c2p' = Put(c2p, out')
    /\ UNCHANGED <<peer, p2c, faults>>

AppResend ==
    /\ Connected(tcp)
    /\ app.owe
    /\ Send(tcp.unAckLen, app.sent)
    /\ app' = [app EXCEPT !.owe = FALSE]
    /\ c2p' = Put(c2p, out')
    /\ UNCHANGED <<peer, p2c, faults>>

Lose ==
    /\ faults.loss < MaxLoss
    /\ \/ \E s \in c2p : c2p' = c2p \ {s} /\ UNCHANGED p2c
       \/ \E s \in p2c : p2c' = p2c \ {s} /\ UNCHANGED c2p
    /\ faults' = [faults EXCEPT !.loss = @ + 1]
    /\ UNCHANGED <<tcp, buf, out, peer, app>>

-----------------------------------------------------------------------------
SysInit ==
    /\ Init
    /\ peer = PeerInit
    /\ c2p = {} /\ p2c = {}
    /\ app = [sent |-> 0, rcvd |-> <<>>, owe |-> FALSE]
    /\ faults = [loss |-> 0, dup |-> 0]

SysNext ==
    \/ AppConnect \/ AppSend \/ AppResend \/ ClientPoll
    \/ PeerReceive \/ PeerSend \/ PeerClose \/ PeerRetransmit \/ PeerTimeWaitEnd
    \/ Lose

SysSpec == SysInit /\ [][SysNext]_sysvars

(* The application loop calls havePacket() forever, so a segment waiting   *)
(* in the receive buffer is read.  The millisecond clock advances whatever *)
(* arrives, so a period tick that keeps becoming possible happens (strong  *)
(* fairness: the server's retransmissions cannot postpone it forever).     *)
(* The application sends its bytes and honours UIP_REXMIT; the server is a *)
(* live TCP.  Loss is never forced.                                        *)
SysFairness ==
    /\ WF_sysvars(ClientReceive) /\ SF_sysvars(ClientTick)
    /\ WF_sysvars(AppConnect) /\ WF_sysvars(AppSend) /\ WF_sysvars(AppResend)
    /\ WF_sysvars(PeerReceive) /\ WF_sysvars(PeerSend) /\ WF_sysvars(PeerClose)
    /\ WF_sysvars(PeerRetransmit) /\ WF_sysvars(PeerTimeWaitEnd)

LiveSpec == SysSpec /\ SysFairness

-----------------------------------------------------------------------------
(* PROPERTIES                                                              *)

Segments == [sport : Nat, dport : Nat, seq : 0..SeqMod-1, ack : 0..SeqMod-1,
             flags : SUBSET Flags, opt : {0, MSS_OPTION_LEN}, len : Nat, data : Nat]

SeqAgreement ==
    tcp.state = "CONNECTED" =>
        /\ PRel(tcp.remoteSeqNum) = 1 + Len(app.rcvd)
        /\ (tcp.localSeqNum - peer.irs - 1) % SeqMod <= Len(peer.rcvd)

(* The refinement mapping: the connection as the application sees it     *)
(* through the accessors, and the four stream counters.  A connection      *)
(* whose TIMEDOUT bit is set is over, although its state bits still show  *)
(* the state it gave up in until the next poll.                           *)
AbsState == IF Timedout(tcp) THEN "DISCONNECTED" ELSE tcp.state

Note == CASE Timedout(tcp) -> "timedout"
          [] Aborted(tcp)  -> "aborted"
          [] Closing(tcp)  -> "closing"
          [] Synacked(tcp) -> "connected"
          [] OTHER         -> "none"

Conn == INSTANCE TCPConnection
            WITH st <- AbsState, note <- Note, cSent <- app.sent,
                 cRcvd <- app.rcvd, sSent <- peer.sent, sRcvd <- peer.rcvd

(* The client with its application, the server and the faulty network     *)
(* implements TCPConnection: every poll, send and server step is one of    *)
(* its transitions or leaves what it shows unchanged.  The accessors move  *)
(* only along the state machine of spec.md 4.4, each stream is delivered  *)
(* in order without gaps or repetitions, data is handed over only while    *)
(* CONNECTED, and the server's FIN is accepted only once both streams are *)
(* complete.                                                               *)
ImplementsConnection == Conn!Spec

(* Once connect() is called, the connection ends: the client returns to    *)
(* DISCONNECTED and the server to LISTEN, and both stay there.  Each of    *)
(* the client's retransmission paths (check_for_retransmit) and the close  *)
(* handshake (CONNECTED, LAST_ACK) has to make progress for this to hold. *)
ConnectionEnds == <>[](tcp.state = "DISCONNECTED" /\ peer.st = "LISTEN")

(* When the network loses few segments and answers within a tick, the    *)
(* server's close ends in the client reporting UIP_CLOSE, not          *)
(* UIP_TIMEDOUT or UIP_ABORT, with every byte either side sent delivered.  *)
GracefulClose ==
    <>(/\ tcp.state = "DISCONNECTED" /\ Closing(tcp)
       /\ Len(peer.rcvd) = app.sent /\ Len(app.rcvd) = MaxPeerData)

=============================================================================
