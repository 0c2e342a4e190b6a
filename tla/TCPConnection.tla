--------------------------- MODULE TCPConnection ---------------------------
(***************************************************************************)
(* What the TCP client promises its application (spec.md 4.4, 8): the     *)
(* connection state machine as the accessors of TCPClient.h show it, with  *)
(* the note the last poll leaves for the application, and a reliable byte  *)
(* stream in each direction.  Byte i of a stream is the value i, so a      *)
(* receiver's sequence is always 1..n.                                     *)
(*                                                                         *)
(*   st     connected() etc.: DISCONNECTED, WAIT_SYN_ACK, CONNECTED,       *)
(*          LAST_ACK; a timed-out connection is DISCONNECTED               *)
(*   note   what the accessors report: "connected" (synacked()),          *)
(*          "closing" (closing()), "aborted" (aborted()), "timedout"      *)
(*          (timedout()), or "none"                                        *)
(*   cSent, cRcvd   bytes the client application sent, and read           *)
(*   sSent, sRcvd   bytes the server sent, and received                    *)
(***************************************************************************)
EXTENDS Naturals, Sequences

VARIABLES st, note, cSent, cRcvd, sSent, sRcvd

vars == <<st, note, cSent, cRcvd, sSent, sRcvd>>

Next1(s) == Append(s, Len(s) + 1)    \* the next byte of a stream

Init ==
    /\ st = "DISCONNECTED" /\ note = "none"
    /\ cSent = 0 /\ cRcvd = <<>> /\ sSent = 0 /\ sRcvd = <<>>

Streams == <<cSent, cRcvd, sSent, sRcvd>>

(* connect().                                                              *)
Open == st = "DISCONNECTED" /\ st' = "WAIT_SYN_ACK" /\ UNCHANGED <<note, Streams>>

(* The handshake completes.                                                *)
Established ==
    /\ st = "WAIT_SYN_ACK" /\ st' = "CONNECTED" /\ note' = "connected"
    /\ UNCHANGED Streams

(* A poll that changes nothing the application sees but the note.         *)
Quiet == note' = "none" /\ UNCHANGED <<st, Streams>>

(* The application sends a byte.                                           *)
Write == st = "CONNECTED" /\ cSent' = cSent + 1 /\ UNCHANGED <<st, note, cRcvd, sSent, sRcvd>>

(* The server receives the next byte the client sent, and sends one.      *)
ServerRead ==
    /\ Len(sRcvd) < cSent /\ sRcvd' = Next1(sRcvd)
    /\ UNCHANGED <<st, note, cSent, cRcvd, sSent>>

ServerWrite == sSent' = sSent + 1 /\ UNCHANGED <<st, note, cSent, cRcvd, sRcvd>>

(* A poll hands the application the next byte of the server's stream.     *)
Read ==
    /\ st = "CONNECTED" /\ Len(cRcvd) < sSent
    /\ cRcvd' = Next1(cRcvd) /\ note' = "none"
    /\ UNCHANGED <<st, cSent, sSent, sRcvd>>

(* The server's close is accepted only once each side holds all the bytes *)
(* the other sent; the poll may hand over the last byte with the FIN.      *)
PassiveClose ==
    /\ st = "CONNECTED" /\ st' = "LAST_ACK" /\ note' = "closing"
    /\ Len(sRcvd) = cSent
    /\ cRcvd' \in {cRcvd, Next1(cRcvd)} /\ Len(cRcvd') = sSent
    /\ UNCHANGED <<cSent, sSent, sRcvd>>

(* The FIN+ACK is acknowledged.                                            *)
CloseDone ==
    /\ st = "LAST_ACK" /\ st' = "DISCONNECTED" /\ note' = "closing"
    /\ UNCHANGED Streams

(* A RST, an invalid answer to the SYN, or the retry budget exhausted.     *)
Abort ==
    /\ st # "DISCONNECTED" /\ st' = "DISCONNECTED"
    /\ note' \in {"aborted", "timedout"}
    /\ UNCHANGED Streams

Next ==
    \/ Open \/ Established \/ Quiet \/ Write \/ ServerRead \/ ServerWrite
    \/ Read \/ PassiveClose \/ CloseDone \/ Abort

Spec == Init /\ [][Next]_vars

=============================================================================
