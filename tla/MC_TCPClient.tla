---------------------------- MODULE MC_TCPClient ----------------------------
(***************************************************************************)
(* The TCP client against an unconstrained remote endpoint: every poll may *)
(* find no frame, a frame that is not from the remote endpoint, or any     *)
(* segment from the remote port to the current or to the previous local   *)
(* port, with any sequence and acknowledgement numbers, control bits from *)
(* InFlags and a payload of a length in DataLens.  The application polls, *)
(* connects, and sends as a uIP application does: new data only when all  *)
(* sent data is acknowledged, and the unacknowledged bytes again when the *)
(* last poll reported UIP_REXMIT.                                          *)
(***************************************************************************)
EXTENDS TCPClient

CONSTANTS
    OtherPort,  \* a source port other than the remote one
    InFlags,    \* control-bit combinations of the segments that arrive
    DataLens,   \* payload lengths of the segments that are sent or arrive
    Idle,       \* whether polls ten minutes after the last activity happen
    ForeignFlags \* control bits left in the buffer by frames not for the client

ASSUME OtherPort # RemotePort /\ InFlags \subseteq SUBSET Flags /\ Idle \subseteq BOOLEAN
       /\ ForeignFlags \subseteq SUBSET Flags

(* Segments from the remote endpoint to the current local port; a SYN may *)
(* carry the MSS option.  The code only compares sequence and             *)
(* acknowledgement numbers for equality, so each takes the value the      *)
(* client expects and one it does not.                                    *)
ToUs ==
    LET Seqs == {tcp.remoteSeqNum, SeqPlus(tcp.remoteSeqNum, 1)}
        Acks == {SeqPlus(tcp.localSeqNum, tcp.unAckLen),
                 SeqPlus(tcp.localSeqNum, tcp.unAckLen + 1)}
        Plain == { Segment(RemotePort, tcp.localPort, sq, ak, fl, 0, len, 0) :
                     sq \in Seqs, ak \in Acks, fl \in InFlags,
                     len \in {0} \cup DataLens }
        WithMss == { Segment(RemotePort, tcp.localPort, sq, ak, fl, MSS_OPTION_LEN, 0, 0) :
                     sq \in Seqs, ak \in Acks, fl \in {g \in InFlags : "SYN" \in g} }
    IN Plain \cup WithMss

(* Late segments of the previous connection, to the previous local port:  *)
(* only their control bits steer the code.                                *)
ToOldPort ==
    { Segment(RemotePort, tcp.localPort - 1, 0, 0, fl, 0, 0, 0) :
        fl \in {{"SYN"}, {"RST"}, {"FIN", "ACK"}} }

(* A frame for another address, protocol or port, read into the buffer.   *)
Foreign ==
    { Segment(OtherPort, tcp.localPort, 0, 0, fl, 0, 0, 0) : fl \in ForeignFlags }

Frames == {None} \cup Foreign \cup ToOldPort \cup ToUs

AppSend ==
    /\ Connected(tcp)
    /\ tcp.unAckLen = 0
    /\ ~Rexmit(tcp)
    /\ \E len \in DataLens : Send(len, 0)

AppResend ==
    /\ Connected(tcp)
    /\ Rexmit(tcp)
    /\ Send(tcp.unAckLen, 0)

(* A tick only changes the state while bytes are outstanding.              *)
Ticks == IF tcp.unAckLen > 0 THEN BOOLEAN ELSE {FALSE}

Poll == \E f \in Frames, tick \in Ticks, idle \in Idle : HavePacket(f, tick, idle)

Next == (\E isn \in 0..SeqMod-1 : Connect(isn)) \/ Poll \/ AppSend \/ AppResend

Spec == Init /\ [][Next]_vars

(* State constraint for the runs about control: exploration stops when the *)
(* retransmission timer has wrapped below zero or the estimator has taken  *)
(* a second round-trip sample.  A first sample m in 0..UIP_RTO leaves      *)
(* _sa = m and _sv = _rto = 12 + m.  RetransmitTimer checks the timer and  *)
(* the estimator arithmetic without this bound.                            *)
OneRttSample ==
    /\ tcp.timer <= Backoff(4)
    /\ <<tcp.sa, tcp.sv, tcp.rto>> \in {<<0, 0, 0>>, <<0, 16, UIP_RTO>>}
                                     \cup {<<m, 12 + m, 12 + m>> : m \in 0..UIP_RTO}

=============================================================================
