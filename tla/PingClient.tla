----------------------------- MODULE PingClient -----------------------------
(***************************************************************************)
(* The ping client (src/src/PingClient.cpp): send() stamps an ICMPv6 echo  *)
(* request with _identifier and the post-incremented _sequenceNumber, and  *)
(* havePacket() accepts a received frame when it is an echo reply from the *)
(* remote host with the same identifier and the last sequence number sent. *)
(*                                                                         *)
(* Both fields are uint16_t (PingClient.h).  Header fields are byte-swapped *)
(* with the htons/ntohs macros of EtherSia.h, whose result, like            *)
(* _sequenceNumber-1, is computed in the C int type: IntWidth is the width *)
(* of int of the build (16 on AVR, 32 on ARM and on a host).  The remote   *)
(* host echoes identifier and sequence number unchanged (ICMPv6 echo);     *)
(* its reply may be lost or arrive after the next request.                 *)
(***************************************************************************)
EXTENDS Integers

CONSTANTS
    IntWidth,     \* bits of the C int type of the build
    Identifiers,  \* values random() may give _identifier
    RemoteKnown,  \* setRemoteAddress() was called (_remoteAddress not zero)
    MaxAge,       \* requests sent after its own before a reply is dropped
    None

ASSUME IntWidth \in {16, 32} /\ Identifiers \subseteq 0..65535
       /\ RemoteKnown \in BOOLEAN /\ MaxAge \in Nat

VARIABLES
    seq,    \* _sequenceNumber
    ident,  \* _identifier
    net,    \* echo replies on their way to us
    buf,    \* the received frame in the shared buffer, or None
    ret     \* what the last havePacket() returned

vars == <<seq, ident, net, buf, ret>>

(* A uint16 value and the uint16 field it is stored in by htons(): the     *)
(* little-endian host reads the two bytes swapped.                          *)
Swap16(x) == ((x % 256) * 256) + (x \div 256)

(* An int result: unsigned int arithmetic modulo 2^16 when int has 16 bits *)
(* (a uint16_t operand is then promoted to unsigned int), exact otherwise. *)
CInt(x) == IF IntWidth = 16 THEN x % 65536 ELSE x

(* ntohs(x) = ((x)<<8) | (((x)>>8)&0xFF) on a uint16 field.                *)
Ntohs(x) == CInt(x * 256) + ((x \div 256) % 256)

(* An echo frame: protocol, destination, source, ICMPv6 type, and the      *)
(* identifier and sequence number fields as stored.                         *)
Frame(pr, d, s, ty, i, sq) ==
    [proto |-> pr, dst |-> d, src |-> s, type |-> ty, id |-> i, seq |-> sq]

Reply(i, sq) == Frame("ICMP6", "Us", "Remote", "ECHO_REPLY", Swap16(i), Swap16(sq))

(* Frames that fail one test of havePacket() each.                          *)
Foreign ==
    {Frame("UDP", "Us", "Remote", "ECHO_REPLY", Swap16(i), 0) : i \in Identifiers}
    \cup {Frame("ICMP6", "Other", "Remote", "ECHO_REPLY", Swap16(i), 0) : i \in Identifiers}
    \cup {Frame("ICMP6", "Us", "Other", "ECHO_REPLY", Swap16(i), 0) : i \in Identifiers}
    \cup {Frame("ICMP6", "Us", "Remote", "ECHO_REQUEST", Swap16(i), 0) : i \in Identifiers}
    \cup {Frame("ICMP6", "Us", "Remote", "ECHO_REPLY", Swap16((i + 1) % 65536), 0) :
            i \in Identifiers}

(* How many requests were sent after the one a reply answers.               *)
Age(r) == (seq - 1 - Swap16(r.seq)) % 65536

LastSent(s) == CInt(s - 1)

(* havePacket(): every early return is one conjunct.                        *)
HavePacket(f) ==
    /\ f # None
    /\ f.proto = "ICMP6"
    /\ f.dst = "Us"
    /\ ~RemoteKnown \/ f.src = "Remote"
    /\ f.type = "ECHO_REPLY"
    /\ Ntohs(f.id) = ident
    /\ Ntohs(f.seq) = LastSent(seq)

Init ==
    /\ seq = 0
    /\ ident \in Identifiers
    /\ net = {} /\ buf = None /\ ret = FALSE

SendNoWrap ==    \* mutant: _sequenceNumber wider than uint16_t
    /\ seq' = seq + 1
    /\ \E delivered \in BOOLEAN :
         LET kept == {r \in net : Age(r) < MaxAge}
         IN net' = IF delivered THEN kept \cup {Reply(ident, seq)} ELSE kept
    /\ buf' = None
    /\ UNCHANGED <<ident, ret>>

(* send(): sendInternal() stamps htons(_sequenceNumber++) into the request *)
(* the buffer holds; the remote host's echo reply is lost or travels back. *)
(* Replies older than MaxAge requests are gone from the network.           *)
Send ==
    /\ seq' = (seq + 1) % 65536
    /\ \E delivered \in BOOLEAN :
         LET kept == {r \in net : Age(r) < MaxAge}
         IN net' = IF delivered THEN kept \cup {Reply(ident, seq)} ELSE kept
    /\ buf' = None
    /\ UNCHANGED <<ident, ret>>

(* One pass of the application loop: a frame (or none) is received and     *)
(* havePacket() examines the buffer.                                        *)
Receive ==
    \E f \in net \cup Foreign \cup {None} :
        /\ buf' = f
        /\ net' = net \ {f}
        /\ ret' = HavePacket(f)
        /\ UNCHANGED <<seq, ident>>

Next == Send \/ Receive

Spec == Init /\ [][Next]_vars

-----------------------------------------------------------------------------
TypeOK ==
    /\ seq \in 0..65535 /\ ident \in Identifiers
    /\ ret \in BOOLEAN
    /\ buf \in Foreign \cup {None} \cup net \cup {Reply(ident, (seq - 1 - a) % 65536) : a \in 0..MaxAge}

=============================================================================
