-------------------------- MODULE Stage1Checkpoint --------------------------
(***************************************************************************)
(* The checkpoint files of one Stage1 batch (io/stage1_checkpoint.cpp):    *)
(* a primary file, its numbered backups and the file ".new" in which a     *)
(* generation is written before it replaces the primary.  A session opens  *)
(* the newest usable generation, every flush rotates the backups, copies   *)
(* the primary and replaces it; when the batch is published its files are  *)
(* removed under a receipt of the queue.  Any file may be damaged at any   *)
(* time, every write may fail and the process may die between two calls of *)
(* the file system.                                                        *)
(***************************************************************************)
EXTENDS Integers, FiniteSets

CONSTANTS
  NoFile,         \* there is no file of this name
  Bad,            \* a file whose envelope or checksum is wrong
  Foreign,        \* a checkpoint of another task under the same name
  MaxBackups,     \* ECM_STAGE1_MAX_BACKUPS
  Limits,         \* values of the setting ckpt_backups
  Deferred,       \* does the session validate payloads (GPU), or take them (CPU)?
  MaxProgress,    \* bound: generations written for a batch
  MaxBatch,       \* bound: batches run one after the other
  MaxFault        \* bound: faults of a behaviour

ASSUME MaxBackupsAssumption == MaxBackups \in Nat \ {0}
ASSUME LimitsAssumption == Limits \subseteq 0..MaxBackups
ASSUME DeferredAssumption == Deferred \in BOOLEAN
ASSUME BoundsAssumption == MaxProgress \in Nat /\ MaxBatch \in Nat \ {0} /\ MaxFault \in Nat
ASSUME ContentAssumption ==
  /\ NoFile # Bad /\ NoFile # Foreign /\ Bad # Foreign
  /\ {NoFile, Bad, Foreign} \cap [batch: 1..MaxBatch, progress: 1..MaxProgress, sound: BOOLEAN] = {}

VARIABLES
  file,           \* contents of the primary (0) and of the backups
  temp,           \* contents of the file ".new"
  pc,             \* what the worker does
  slot,           \* backup the rotation, or file the removal, has reached
  memory,         \* progress held by the session, -1 without one
  limit,          \* backup_count of the session
  badPrimary,     \* bad_primaries holds the path
  receipt,        \* the batch is published, its completion receipt exists
  batch,          \* number of the batch at work
  peak,           \* history: highest progress a flush has confirmed
  faults,         \* history: faults so far
  least           \* history: smallest limit of a session so far

vars == <<file, temp, pc, slot, memory, limit, badPrimary, receipt, batch, peak, faults, least>>

Slots == 0..MaxBackups
Generation == [batch: 1..MaxBatch, progress: 1..MaxProgress, sound: BOOLEAN]
Content == Generation \union {NoFile, Bad, Foreign}
Places == {"closed", "refused", "run", "rotate", "copy", "replace", "prune", "remove", "acknowledge"}
InSession == pc \in {"run", "rotate", "copy", "replace", "prune"}

First(S) == CHOOSE s \in S : \A t \in S : s <= t
CanFail == faults < MaxFault

-----------------------------------------------------------------------------
(* Opening a session *)

Decoded(s) == file[s] \in Generation \union {Foreign}
Usable(s) == file[s] \in Generation /\ file[s].sound

\* Mutant: the payload of the generation that decodes is not validated.
SelectedUnvalidated(l, unread) ==
  LET readable == {s \in 0..l : Decoded(s)} \ unread
  IN  IF readable = {} THEN {} ELSE
      IF file[First(readable)] = Foreign THEN {} ELSE {First(readable)}

\* defer_payload_validation: a GPU session validates the payload itself, a CPU
\* session takes what decodes.
Accepted(s) == file[s] \in Generation /\ (Deferred => file[s].sound)

\* begin takes the first candidate that decodes; when its payload is rejected,
\* validate_pending goes on to older ones and passes over foreign files.
\* unread: candidates that exist and cannot be read now.
Selected(l, unread) ==
  LET readable == {s \in 0..l : Decoded(s)} \ unread
      outer    == First(readable)
      accepted == {s \in readable : Accepted(s)}
  IN  IF readable = {} THEN {} ELSE
      IF file[outer] = Foreign \/ accepted = {} THEN {} ELSE {First(accepted)}

Existing(l) == {s \in 0..l : file[s] # NoFile}

Open(l, unread, p, bad) ==
  /\ pc' = "run" /\ memory' = p /\ badPrimary' = bad
  /\ limit' = l /\ least' = IF l < least THEN l ELSE least
  /\ faults' = faults + Cardinality(unread)
  /\ UNCHANGED <<file, temp, slot, receipt, batch, peak>>

BeginFresh(l) ==
  /\ pc = "closed" /\ ~receipt
  /\ Existing(l) = {}
  /\ Open(l, {}, 0, FALSE)

BeginResumed(l, unread) ==
  /\ pc = "closed" /\ ~receipt
  /\ unread \subseteq Existing(l) /\ faults + Cardinality(unread) <= MaxFault
  /\ \E s \in Selected(l, unread) : Open(l, unread, file[s].progress, s # 0)

\* No usable generation, or another task's: the evidence stays as it is.
BeginRefused(l, unread) ==
  /\ pc = "closed" /\ ~receipt
  /\ unread \subseteq Existing(l) /\ faults + Cardinality(unread) <= MaxFault
  /\ Existing(l) # {} /\ Selected(l, unread) = {}
  /\ pc' = "refused" /\ faults' = faults + Cardinality(unread)
  /\ UNCHANGED <<file, temp, slot, memory, limit, badPrimary, receipt, batch, peak, least>>

\* The operator starts the program again.
Rerun ==
  /\ pc = "refused" /\ pc' = "closed"
  /\ UNCHANGED <<file, temp, slot, memory, limit, badPrimary, receipt, batch, peak, faults, least>>

-----------------------------------------------------------------------------
(* A flush of the batch *)

\* Mutant: one rename too many when a single backup is kept.
AfterTempRotating == IF limit = 0 \/ badPrimary THEN "replace" ELSE "rotate"

\* Mutant: a primary found bad is rotated like a good one.
AfterTempForgetting == IF limit = 0 THEN "replace" ELSE IF limit > 1 THEN "rotate" ELSE "copy"

AfterTemp == IF limit = 0 \/ badPrimary THEN "replace" ELSE IF limit > 1 THEN "rotate" ELSE "copy"

WriteTemp ==
  /\ pc = "run" /\ memory < MaxProgress
  /\ temp' = [batch |-> batch, progress |-> memory + 1, sound |-> TRUE]
  /\ pc' = AfterTemp /\ slot' = limit
  /\ UNCHANGED <<file, memory, limit, badPrimary, receipt, batch, peak, faults, least>>

\* One rename of the loop over the backups, oldest first.
Rotate ==
  /\ pc = "rotate"
  /\ file' = IF file[slot - 1] = NoFile THEN file
             ELSE [file EXCEPT ![slot] = file[slot - 1], ![slot - 1] = NoFile]
  /\ slot' = slot - 1
  /\ pc' = IF slot = 2 THEN "copy" ELSE "rotate"
  /\ UNCHANGED <<temp, memory, limit, badPrimary, receipt, batch, peak, faults, least>>

Copy ==
  /\ pc = "copy"
  /\ file' = IF file[0] = NoFile THEN file ELSE [file EXCEPT ![1] = file[0]]
  /\ pc' = "replace"
  /\ UNCHANGED <<temp, slot, memory, limit, badPrimary, receipt, batch, peak, faults, least>>

Replace ==
  /\ pc = "replace"
  /\ file' = [file EXCEPT ![0] = temp] /\ temp' = NoFile
  /\ memory' = memory + 1 /\ badPrimary' = FALSE
  /\ peak' = IF memory + 1 > peak THEN memory + 1 ELSE peak
  /\ pc' = "prune"
  /\ UNCHANGED <<slot, limit, receipt, batch, faults, least>>

Prune ==
  /\ pc = "prune"
  /\ file' = [s \in Slots |-> IF s > limit THEN NoFile ELSE file[s]]
  /\ pc' = "run"
  /\ UNCHANGED <<temp, slot, memory, limit, badPrimary, receipt, batch, peak, faults, least>>

\* A call of the flush fails and write_blob takes the record back; the
\* failed write of ".new" and the failed copy may leave a part of the file.
FlushFails ==
  /\ CanFail /\ faults' = faults + 1
  /\ \/ pc = "run" /\ memory < MaxProgress /\ temp' = Bad /\ UNCHANGED file
     \/ pc \in {"rotate", "replace"} /\ UNCHANGED <<file, temp>>
     \/ pc = "copy" /\ file[0] # NoFile /\ UNCHANGED temp
        /\ file' \in {file, [file EXCEPT ![1] = Bad]}
  /\ pc' = "run"
  /\ UNCHANGED <<slot, memory, limit, badPrimary, receipt, batch, peak, least>>

\* A stop or a failed computation closes the session and keeps the files.
Close ==
  /\ pc = "run" /\ pc' = "closed" /\ memory' = -1 /\ badPrimary' = FALSE
  /\ UNCHANGED <<file, temp, slot, limit, receipt, batch, peak, faults, least>>

-----------------------------------------------------------------------------
(* The end of a batch *)

\* Save and results are written, the completion receipt is stored.
Publish ==
  /\ pc = "run" /\ batch < MaxBatch
  /\ receipt' = TRUE /\ pc' = "remove" /\ slot' = 0
  /\ memory' = -1 /\ badPrimary' = FALSE /\ peak' = 0
  /\ UNCHANGED <<file, temp, limit, batch, faults, least>>

\* Mutant: only the backups of the present setting are removed.
RemoveFileLimit ==
  /\ pc = "remove"
  /\ file' = [file EXCEPT ![slot] = NoFile]
  /\ temp' = NoFile
  /\ IF slot >= limit THEN pc' = "acknowledge" /\ UNCHANGED slot
                      ELSE slot' = slot + 1 /\ UNCHANGED pc
  /\ UNCHANGED <<memory, limit, badPrimary, receipt, batch, peak, faults, least>>

\* Context::remove: the primary, the file ".new" and then every backup.
RemoveFile ==
  /\ pc = "remove"
  /\ file' = [file EXCEPT ![slot] = NoFile]
  /\ temp' = NoFile
  /\ IF slot = MaxBackups THEN pc' = "acknowledge" /\ UNCHANGED slot
                          ELSE slot' = slot + 1 /\ UNCHANGED pc
  /\ UNCHANGED <<memory, limit, badPrimary, receipt, batch, peak, faults, least>>

Acknowledge ==
  /\ pc = "acknowledge"
  /\ receipt' = FALSE /\ batch' = batch + 1 /\ pc' = "closed"
  /\ UNCHANGED <<file, temp, slot, memory, limit, badPrimary, peak, faults, least>>

\* The receipt is looked at before any task is read: the removal starts over.
Recover ==
  /\ pc = "closed" /\ receipt
  /\ pc' = "remove" /\ slot' = 0
  /\ UNCHANGED <<file, temp, memory, limit, badPrimary, receipt, batch, peak, faults, least>>

-----------------------------------------------------------------------------
(* Faults *)

Crash ==
  /\ pc \notin {"closed", "refused"} /\ CanFail /\ faults' = faults + 1
  /\ pc' = "closed" /\ memory' = -1 /\ badPrimary' = FALSE
  /\ file' \in {file} \union
       IF pc = "copy" /\ file[0] # NoFile THEN {[file EXCEPT ![1] = Bad]} ELSE {}
  /\ temp' \in {temp} \union IF pc = "run" THEN {Bad} ELSE {}
  /\ UNCHANGED <<slot, limit, receipt, batch, peak, least>>

\* A file decays: its envelope, or the payload under a valid envelope.
Damage(s) ==
  /\ CanFail /\ faults' = faults + 1
  /\ file[s] \in Generation
  /\ file' \in {[file EXCEPT ![s] = Bad], [file EXCEPT ![s].sound = FALSE]}
  /\ UNCHANGED <<temp, pc, slot, memory, limit, badPrimary, receipt, batch, peak, least>>

Init ==
  /\ file \in {[s \in Slots |-> NoFile], [s \in Slots |-> IF s = 0 THEN Foreign ELSE NoFile]}
  /\ temp = NoFile /\ pc = "closed" /\ slot = 0 /\ memory = -1
  /\ limit = 0 /\ badPrimary = FALSE /\ receipt = FALSE /\ batch = 1
  /\ peak = 0 /\ faults = 0 /\ least = MaxBackups

Next ==
  \/ \E l \in Limits : BeginFresh(l)
  \/ \E l \in Limits, u \in SUBSET Slots : BeginResumed(l, u)
  \/ \E l \in Limits, u \in SUBSET Slots : BeginRefused(l, u)
  \/ Rerun
  \/ WriteTemp \/ Rotate \/ Copy \/ Replace \/ Prune \/ FlushFails \/ Close
  \/ Publish \/ RemoveFile \/ Acknowledge \/ Recover
  \/ Crash
  \/ \E s \in Slots : Damage(s)

Spec == Init /\ [][Next]_vars

-----------------------------------------------------------------------------
(* Properties *)

\* The types, and the parts of the state that only some places use.
TypeOK ==
  /\ file \in [Slots -> Content] /\ temp \in Generation \union {NoFile, Bad}
  /\ pc \in Places /\ slot \in Slots /\ memory \in -1..MaxProgress
  /\ limit \in Slots /\ badPrimary \in BOOLEAN /\ receipt \in BOOLEAN
  /\ batch \in 1..MaxBatch /\ peak \in 0..MaxProgress /\ faults \in 0..MaxFault
  /\ least \in Slots
  /\ InSession <=> memory # -1
  /\ pc = "rotate" => slot \in 2..limit
  /\ pc = "copy" => limit > 0
  /\ pc \in {"rotate", "copy", "replace"} =>
       memory < MaxProgress /\ temp = [batch |-> batch, progress |-> memory + 1, sound |-> TRUE]
  /\ pc \in {"remove", "acknowledge"} => receipt
  /\ receipt => batch < MaxBatch

\* What the next session would find with every file readable.
Best == LET usable == {s \in Slots : Usable(s)}
        IN  IF usable = {} THEN 0 ELSE file[First(usable)].progress

\* The files of a batch behave like one register through every rename, copy,
\* crash and damage (commit, begin, remove): it is raised by whole confirmed
\* flushes, a fault costs at most one of them as long as there are fewer
\* faults than backups, and it is empty again once a batch is acknowledged.
\* (With Deferred: a session that takes payloads as they are goes on from an
\* unsound one under a valid checksum.)
Register == INSTANCE DurableRegister
              WITH value <- IF receipt THEN 0 ELSE Best, backups <- least
ImplementsRegister == Register!Spec

\* A session works on the batch that is not yet published: no generation of a
\* published batch is resumed as a new task, whenever the removal was cut off.
OwnBatch == \A s \in Slots : ~receipt /\ file[s] \in Generation => file[s].batch = batch

\* What a session rests on is lost by damage alone: as long as the primary is
\* good, or is known to be bad (bad_primaries), no rename, copy, replace, failed
\* call or crash of the session takes the files below the progress in memory.
OnlyDamageLoses ==
  [][InSession /\ Best >= memory /\ (badPrimary \/ Usable(0)) =>
       Best' >= memory \/ \E s \in Slots : Damage(s)]_vars
=============================================================================
