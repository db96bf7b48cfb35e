--------------------------- MODULE DurableRegister ---------------------------
(***************************************************************************)
(* What the checkpoint of a Stage1 batch promises: one register that a     *)
(* worker loads, raises in steps and clears when the batch is published.   *)
(* Every fault may cost at most one confirmed step, and nothing is         *)
(* promised any more once there are as many faults as backups are kept.    *)
(***************************************************************************)
EXTENDS Integers

VARIABLES
  value,     \* progress that the files give back, 0 when there is none
  memory,    \* progress of the running session, -1 without a session
  peak,      \* highest progress confirmed to this batch
  faults,    \* crashes, failed writes, damaged or unreadable files so far
  backups    \* fewest backups that a session has kept

vars == <<value, memory, peak, faults, backups>>

Kept(p, f, b, v) == v <= p /\ (f < b => v >= p - f)

Init ==
  /\ value = 0 /\ memory = -1 /\ peak = 0 /\ faults = 0
  /\ backups \in Nat

\* A session starts from what the files hold, or finds no usable file.
Load ==
  /\ memory = -1
  /\ backups' \in 0..backups
  /\ faults' >= faults
  /\ memory' \in -1..peak
  /\ faults = faults' => memory' \in {value, -1}
  /\ memory' # -1 => Kept(peak, faults', backups', memory')
  /\ UNCHANGED <<value, peak>>

Raise ==
  /\ memory # -1
  /\ memory' = memory + 1
  /\ value' = memory + 1
  /\ peak' = IF memory + 1 > peak THEN memory + 1 ELSE peak
  /\ UNCHANGED <<faults, backups>>

Leave ==
  /\ memory' = -1
  /\ UNCHANGED <<value, peak, faults, backups>>

Fault ==
  /\ faults' > faults
  /\ memory' \in {memory, -1}
  /\ Kept(peak, faults', backups, value')
  /\ UNCHANGED <<peak, backups>>

\* Beyond the promise a step of a write may take the last generation along.
Decay ==
  /\ faults >= backups
  /\ value' \in 0..peak
  /\ UNCHANGED <<memory, peak, faults, backups>>

Clear ==
  /\ memory # -1
  /\ value' = 0 /\ memory' = -1 /\ peak' = 0
  /\ UNCHANGED <<faults, backups>>

Next == Load \/ Raise \/ Leave \/ Fault \/ Decay \/ Clear

Spec == Init /\ [][Next]_vars
=============================================================================
