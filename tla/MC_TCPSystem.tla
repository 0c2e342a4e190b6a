---------------------------- MODULE MC_TCPSystem ----------------------------
(* The client and a server over a faulty network, for TLC.                 *)
EXTENDS TCPSystem

(* Exploration stops once the retransmission timer has wrapped or the      *)
(* estimator has taken a second sample (see MC_TCPClient).                 *)
SysOneRttSample ==
    /\ tcp.nrtx <= 1
    /\ tcp.timer <= Backoff(1)
    /\ <<tcp.sa, tcp.sv, tcp.rto>> \in {<<0, 0, 0>>, <<0, 16, UIP_RTO>>}
                                     \cup {<<m, 12 + m, 12 + m>> : m \in 0..UIP_RTO}
=============================================================================
