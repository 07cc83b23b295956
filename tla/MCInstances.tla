---------------------------- MODULE MCInstances ----------------------------
(* Model values for checking Instances with TLC. *)
EXTENDS Instances

CONSTANTS i1, i2

TwoIds == {i1, i2}
\* Enough for every name, record and line of the file to differ, and one more.
SevenCids == 1..7

AllFaults == {"removal", "crash"}
CrashesOnly == {"crash"}
=============================================================================
