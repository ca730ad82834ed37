------------------------------ MODULE MCBridge ------------------------------
(* The drive's limits are the ones init_inverter_reg writes.                 *)
EXTENDS Bridge

\* Whatever duty is commanded, the duty published for the frequency it became is
\* the same, less what two divisions of a whole number of frequency steps lose.
ASSUME RoundTrip ==
  \A d \in 0 .. 10000 :
    LET back == FrequencyConvertDuty(DutyConvertFrequency(d, Upper, Lower), Upper, Lower)
    IN  back <= d /\ d - back <= 20000 \div (Upper - Lower) + 1

\* More frequency never reads as less duty.
ASSUME Monotone ==
  \A f \in 0 .. 65534 :
    FrequencyConvertDuty(f, Upper, Lower) <= FrequencyConvertDuty(f + 1, Upper, Lower)
=============================================================================
