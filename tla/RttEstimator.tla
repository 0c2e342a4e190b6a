---------------------------- MODULE RttEstimator ----------------------------
(***************************************************************************)
(* The round-trip estimator of the TCP client on its own: _sa, _sv and     *)
(* _rto, from connect() through any number of samples.  A sample is taken *)
(* by the ACKING TEST of havePacket() when an ACK of every outstanding     *)
(* byte arrives and nothing was retransmitted (_nrtx = 0).  sendInternal() *)
(* loaded _timer with _rto, and each 250 ms tick since has decremented it, *)
(* so when the ACK arrives k ticks later (0 <= k <= _rto: at k = _rto the  *)
(* tick of the same poll empties the timer and check_for_retransmit is    *)
(* skipped) the estimator reads _timer = _rto - k.  Between samples the    *)
(* estimator does not change, so a step here is one sample.                *)
(***************************************************************************)
EXTENDS Integers, TCPTimer

VARIABLE est   \* [sa, sv, rto]

(* connect(): _timer = _rto = UIP_RTO, _sa = 0, _sv = 16.                   *)
Initial == [sa |-> 0, sv |-> 16, rto |-> UIP_RTO]

TypeOK == est \in [sa : 0..255, sv : 0..255, rto : 0..255]

Init == est = Initial

(* A connect() starts the estimator afresh.                                *)
Connect == est' = Initial

(* An ACK of all outstanding bytes, k ticks after the send.                *)
Sample ==
    \E k \in 0..est.rto :
        est' = RttUpdate([sa |-> est.sa, sv |-> est.sv, rto |-> est.rto,
                          timer |-> est.rto - k])

Next == Connect \/ Sample

Spec == Init /\ [][Next]_est

(* The RTO the ACKING TEST loads into _timer is never 0: a zero timer with *)
(* outstanding bytes is decremented to 255 by the next tick, so a segment  *)
(* would wait 64 s instead of being retransmitted at once.                 *)
RtoPositive == est.rto > 0

=============================================================================
