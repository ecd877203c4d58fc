-------------------------- MODULE MCSlookupStorage --------------------------
(***************************************************************************)
(* SlookupStorage for TLC: a device of a few small blocks, a bounded       *)
(* number of calls, and one caller's buffer whose bytes all differ.        *)
(***************************************************************************)
EXTENDS SlookupStorage

CONSTANT MaxCalls   \* how many calls a behaviour makes

VARIABLE calls      \* the calls made so far

mcvars == <<vars, calls>>

Payload == [i \in 0 .. BufSize - 1 |-> i + 1]

MCByte == 0 .. BufSize

OneElement == <<"compress">>

MCInit == Init /\ calls = 0

MCCall ==
  /\ calls < MaxCalls
  /\ calls' = calls + 1
  /\ \E op \in {"read", "write", "discard"}, start \in 0 .. DeviceSize - 1,
        len \in 0 .. DeviceSize : Call(op, start, len, Payload)

MCStep == Step /\ UNCHANGED calls

MCNext == MCCall \/ MCStep

MCSpec == MCInit /\ [][MCNext]_mcvars

MCFairSpec == MCSpec /\ WF_mcvars(MCStep)
=============================================================================
