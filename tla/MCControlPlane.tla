--------------------------- MODULE MCControlPlane ---------------------------
(***************************************************************************)
(* ControlPlane for TLC: zosbd2cmd and other programs that make a bounded  *)
(* number of calls.                                                        *)
(***************************************************************************)
EXTENDS ControlPlane

CONSTANT MaxCalls   \* how many calls the other programs make together

VARIABLE calls      \* the calls made so far

mcvars == <<vars, calls>>

\* The driver's two names, one that does not fit, and one in upper case.
LowerCase == [n \in Name |-> IF n = "DISK" THEN "disk" ELSE n]

MCInit == Init /\ calls = 0

MCOther ==
  /\ calls < MaxCalls
  /\ calls' = calls + 1
  /\ \E p \in Process : OtherCalls(p)

MCStep == Step /\ UNCHANGED calls

MCNext == MCOther \/ MCStep

MCSpec == MCInit /\ [][MCNext]_mcvars

MCFairSpec ==
  /\ MCSpec
  /\ WF_mcvars(DriverMain /\ UNCHANGED calls)
  /\ \A p \in Process : WF_mcvars(Works(p) /\ UNCHANGED calls)
=============================================================================
