-------------------------- MODULE MCRetrySchedule ---------------------------
(* The default schedule in minutes. *)
EXTENDS RetrySchedule

CONSTANTS w1, j1, j2

DefaultSchedule == <<0, 15, 45>>
AMinuteOff == {-1, 0, 1}
Offsets == <<0, 14, 58>>
LatestOffsets == <<0, 16, 62>>
=============================================================================
