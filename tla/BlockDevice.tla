---------------------------- MODULE BlockDevice ----------------------------
(***************************************************************************)
(* What the users of a block device see, whatever serves it: requests      *)
(* (bios) are issued, and each is completed once, with success or with an  *)
(* error.  A request takes effect on the contents of the device at one     *)
(* instant, or never; success means it did.  A request that has completed  *)
(* with an error may still take effect later, for a userspace program that *)
(* is slow to answer can still be working on it, but never after a request *)
(* that was issued once it had completed.  The contents are one register:  *)
(* a write stores its own name in it, a discard stores Zero.               *)
(***************************************************************************)
EXTENDS Integers

CONSTANTS Bio, Zero

VARIABLES
  status,    \* "new", "pending" or "done", for each bio
  effect,    \* what it asks for: "none", "read", "write" or "discard"
  after,     \* the bios that were done when it was issued
  applied,   \* has it taken effect?
  value,     \* what a read found when it took effect
  data,      \* what a read delivered
  result,    \* "none", "ok" or "error"
  disk       \* the contents

vars == <<status, effect, after, applied, value, data, result, disk>>

Init ==
  /\ status = [b \in Bio |-> "new"]
  /\ effect = [b \in Bio |-> "none"]
  /\ after = [b \in Bio |-> {}]
  /\ applied = [b \in Bio |-> FALSE]
  /\ value = [b \in Bio |-> Zero]
  /\ data = [b \in Bio |-> Zero]
  /\ result = [b \in Bio |-> "none"]
  /\ disk = Zero

Issue(b) ==
  /\ status[b] = "new"
  /\ status' = [status EXCEPT ![b] = "pending"]
  /\ \E e \in {"none", "read", "write", "discard"} :
       effect' = [effect EXCEPT ![b] = e]
  /\ after' = [after EXCEPT ![b] = {d \in Bio : status[d] = "done"}]
  /\ UNCHANGED <<applied, value, data, result, disk>>

Apply(b) ==
  /\ status[b] # "new" /\ ~applied[b]
  /\ \A d \in Bio : applied[d] => b \notin after[d]
  /\ applied' = [applied EXCEPT ![b] = TRUE]
  /\ disk' = CASE effect[b] = "write" -> b
               [] effect[b] = "discard" -> Zero
               [] OTHER -> disk
  /\ value' = IF effect[b] = "read" THEN [value EXCEPT ![b] = disk] ELSE value
  /\ UNCHANGED <<status, effect, after, data, result>>

CompleteOk(b) ==
  /\ status[b] = "pending" /\ applied[b]
  /\ status' = [status EXCEPT ![b] = "done"]
  /\ result' = [result EXCEPT ![b] = "ok"]
  /\ data' = [data EXCEPT ![b] = value[b]]
  /\ UNCHANGED <<effect, after, applied, value, disk>>

\* The device may fail many bios at once, when it is destroyed.
CompleteError(failed) ==
  /\ \A b \in failed : status[b] = "pending"
  /\ status' = [b \in Bio |-> IF b \in failed THEN "done" ELSE status[b]]
  /\ result' = [b \in Bio |-> IF b \in failed THEN "error" ELSE result[b]]
  /\ UNCHANGED <<effect, after, applied, value, data, disk>>

Next ==
  \/ \E b \in Bio : Issue(b) \/ Apply(b) \/ CompleteOk(b)
  \/ \E failed \in SUBSET Bio : CompleteError(failed)

Spec == Init /\ [][Next]_vars
=============================================================================
