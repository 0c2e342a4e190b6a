------------------------------ MODULE TCPTimer ------------------------------
(***************************************************************************)
(* The retransmission timer arithmetic of the TCP client                   *)
(* (src/src/TCPClient.cpp, TCPClient.h): the timer parameters, the C       *)
(* integer conversions of its uint8 and signed char fields, the Van        *)
(* Jacobson round-trip estimator of the ACKING TEST, the exponential       *)
(* backoff and the give-up test of check_for_retransmit.  The operators    *)
(* take a record with the client's fields, so that TCPClient and          *)
(* RttEstimator share them.                                                *)
(***************************************************************************)
EXTENDS Integers

UIP_RTO == 3
UIP_MAXRTX == 8
UIP_MAXSYNRTX == 5

(* C integer conversions: to uint8_t and to signed char (two's complement, *)
(* as avr-gcc and every other target of the library convert).              *)
Uint8Unwrapped(x) == x                    \* mutant: a wider, signed _timer
Uint8(x) == x % 256
Char(x)  == IF (x % 256) >= 128 THEN (x % 256) - 256 ELSE x % 256

(* The estimator of havePacket(): m = _rto - _timer in a signed char,      *)
(* _sa += m - _sa/8, _sv += |m| - _sv/4, _rto = _sa/8 + _sv in uint8.      *)
RttUpdate(t) ==
    LET m1 == Char(t.rto - t.timer)
        m2 == Char(m1 - (t.sa \div 8))
        sa == Uint8(t.sa + m2)
        m3 == IF m2 < 0 THEN Char(-m2) ELSE m2
        m4 == Char(m3 - (t.sv \div 4))
        sv == Uint8(t.sv + m4)
    IN [sa |-> sa, sv |-> sv, rto |-> Uint8(sa \div 8 + sv)]

(* check_for_retransmit: the timer is reloaded with UIP_RTO << min(nrtx,4); *)
(* the client gives up after UIP_MAXRTX retries, or UIP_MAXSYNRTX in the    *)
(* handshake.                                                               *)
Backoff(nrtx) == UIP_RTO * 2 ^ (IF nrtx > 4 THEN 4 ELSE nrtx)

GiveUpAtMaxRtx(t) == t.nrtx = UIP_MAXRTX    \* mutant: SYN limit dropped

GiveUp(t) ==
    t.nrtx = UIP_MAXRTX \/ (t.state = "WAIT_SYN_ACK" /\ t.nrtx = UIP_MAXSYNRTX)

=============================================================================
