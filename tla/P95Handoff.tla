----------------------------- MODULE P95Handoff -----------------------------
(***************************************************************************)
(* The handoff of finished Stage1 batches to Prime95 (sync/p95.cpp): an    *)
(* intent is parked before the source row may go; a flush, which all       *)
(* workers of an installation do under one lock, copies the save to        *)
(* Prime95's directory, adds the assignment to worktodo.add and keeps      *)
(* evidence of every step in files beside the intent.                      *)
(*                                                                         *)
(* Prime95 is external: it takes worktodo.add into its worktodo.txt at any *)
(* moment, without any lock of this program, runs lines, and deletes lines *)
(* whose assignment key (AID) its server rejects.                          *)
(***************************************************************************)
EXTENDS Integers, Sequences, FiniteSets, Functions

CONSTANTS
  Tasks,        \* the batches, numbered in the order of their intent files
  Keys,         \* assignment keys
  BadKeys,      \* the keys that the server rejects
  KeyOf,        \* KeyOf[t]: the key of a batch, or None
  None,
  Settings,     \* what the workers that park may be configured with
  MaxFault      \* bound: crashes and failed writes

ASSUME TasksAssumption == Tasks \subseteq Nat
ASSUME KeysAssumption == None \notin Keys /\ BadKeys \subseteq Keys /\ KeyOf \in [Tasks -> Keys \union {None}]
\* p95_keep_aid: lines go out with their keys; p95_recover_lost: a delivery
\* brings back what Prime95 has thrown away.
ASSUME SettingsAssumption == None \notin Settings /\ Settings \subseteq [keepAid: BOOLEAN, recoverLost: BOOLEAN]
ASSUME MaxFaultAssumption == MaxFault \in Nat

VARIABLES
  row,          \* row[t]: the source row is "todo", "parked" or "gone"
  source,       \* the batches in the local save, in order
  target,       \* how many of them the copy for Prime95 holds
  config,       \* config[t]: the settings its .intent file carries, or None
  intent,       \* the batches with an .intent file
  done,         \* the batches with a .done file
  sending,      \* the batches with a .sending file
  ready,        \* ready[t]: the lines of the .ready file, or None
  ledger,       \* the records of the sent ledger
  add,          \* the lines of worktodo.add
  todo,         \* the lines of Prime95's worktodo.txt
  rejected,     \* the rejected keys in Prime95's logs
  ran,          \* the batches whose Stage2 Prime95 has run
  pc,           \* what the flush that holds the handoff lock does
  left,         \* intents the flush has listed and not reached
  cur,          \* the intent it works on
  line,         \* its line, as it is sent
  lines,        \* lines it is about to recover or to acknowledge
  old,          \* worktodo.add as the flush has read it
  sends,        \* history: how often the line of an intent was published
  faults        \* history

files == <<intent, done, sending, ready, ledger>>
prime == <<todo, rejected, ran>>
saves == <<row, source, target, config>>
memory == <<left, cur, line, lines, old>>
vars == <<saves, files, add, prime, pc, memory, sends, faults>>

Line == [task: Tasks, aid: BOOLEAN]
Record == [kind: {"sent", "recovered"}, line: Line]
Own(t) == [task |-> t, aid |-> KeyOf[t] # None]
Strip(l) == [l EXCEPT !.aid = FALSE]
Sent(l) == [kind |-> "sent", line |-> l]
Recovered(l) == [kind |-> "recovered", line |-> l]
Min(S) == CHOOSE x \in S : \A y \in S : x <= y
Goto(from, to) == pc = from /\ pc' = to
CanFail == faults < MaxFault

\* The flush ends and the lock is free.
EndFlush == pc' = "idle" /\ left' = {} /\ cur' = None /\ line' = None /\ lines' = {} /\ old' = {}

Init ==
  /\ row = [t \in Tasks |-> "todo"] /\ source = <<>> /\ target = 0 /\ config = [t \in Tasks |-> None]
  /\ intent = {} /\ done = {} /\ sending = {} /\ ready = [t \in Tasks |-> None] /\ ledger = {}
  /\ add = {} /\ todo = {} /\ rejected = {} /\ ran = {}
  /\ pc = "idle" /\ left = {} /\ cur = None /\ line = None /\ lines = {} /\ old = {}
  /\ sends = [t \in Tasks |-> 0] /\ faults = 0

-----------------------------------------------------------------------------
(* The Stage1 worker: its save is published, the batch parked, and only    *)
(* then the source row consumed.                                           *)

\* A batch that has an intent or a .done file keeps its first responsibility,
\* with the settings it was parked with.
Park(t) ==
  /\ pc = "idle" /\ row[t] = "todo"
  /\ row' = [row EXCEPT ![t] = "parked"]
  /\ source' = IF t \in Range(source) THEN source ELSE Append(source, t)
  /\ intent' = IF t \in done THEN intent ELSE intent \union {t}
  /\ \E c \in Settings : config' = IF t \in intent \union done THEN config ELSE [config EXCEPT ![t] = c]
  /\ UNCHANGED <<target, done, sending, ready, ledger, add, prime, pc, memory, sends, faults>>

Consume(t) ==
  /\ row[t] = "parked" /\ row' = [row EXCEPT ![t] = "gone"]
  /\ UNCHANGED <<source, target, config, files, add, prime, pc, memory, sends, faults>>

\* The worker dies before its completion is stored; the row is run again.
WorkerCrash(t) ==
  /\ row[t] = "parked" /\ CanFail
  /\ row' = [row EXCEPT ![t] = "todo"] /\ faults' = faults + 1
  /\ UNCHANGED <<source, target, config, files, add, prime, pc, memory, sends>>

-----------------------------------------------------------------------------
(* The flush, one intent after the other *)

FlushStart ==
  /\ intent # {} /\ Goto("idle", "next") /\ left' = intent
  /\ UNCHANGED <<saves, files, add, prime, cur, line, lines, old, sends, faults>>

FlushEnd ==
  /\ pc = "next" /\ left = {} /\ EndFlush
  /\ UNCHANGED <<saves, files, add, prime, sends, faults>>

\* An intent whose .done exists was left by a crash.
Stale ==
  /\ pc = "next" /\ left # {} /\ Min(left) \in done
  /\ intent' = intent \ {Min(left)} /\ left' = left \ {Min(left)}
  /\ UNCHANGED <<saves, done, sending, ready, ledger, add, prime, pc, cur, line, lines, old, sends, faults>>

Take ==
  /\ Goto("next", "copy") /\ left # {} /\ Min(left) \notin done
  /\ cur' = Min(left) /\ left' = left \ {Min(left)}
  /\ UNCHANGED <<saves, files, add, prime, line, lines, old, sends, faults>>

\* Mutant: a copy that exists is not extended.
CopyOnce ==
  /\ Goto("copy", IF cur \in sending THEN "known" ELSE "claim")
  /\ target' = IF target = 0 THEN Len(source) ELSE target
  /\ UNCHANGED <<row, source, config, files, add, prime, memory, sends, faults>>

\* Mutant: an unresolved .sending file is overwritten.
CopyForgetting ==
  /\ Goto("copy", "claim")
  /\ target' = Len(source)
  /\ UNCHANGED <<row, source, config, files, add, prime, memory, sends, faults>>

Copy ==
  /\ Goto("copy", IF cur \in sending THEN "known" ELSE "claim")
  /\ target' = Len(source)
  /\ UNCHANGED <<row, source, config, files, add, prime, memory, sends, faults>>

\* --- an earlier flush has left .sending: look for evidence, never send again

Seen(l) == l \in add \union todo \/ Sent(l) \in ledger

\* Mutant: only the ledger is looked at.
KnownLedger(t) == Sent(Own(t)) \in ledger \/ Sent(Strip(Own(t))) \in ledger

Known(t) == Seen(Own(t)) \/ Seen(Strip(Own(t)))

Observed(l) == Seen(l) \/ Recovered(l) \in ledger
Actual(l) == IF Observed(l) THEN l ELSE Strip(l)
Attempted(t) == IF ready[t] = None THEN {Own(t)} ELSE ready[t]

Reconcile ==
  /\ Goto("known", "ack") /\ Known(cur)
  /\ lines' = Attempted(cur)
  /\ UNCHANGED <<saves, files, add, prime, left, cur, line, old, sends, faults>>

\* No evidence: the flush ends, the intents behind this one are not reached.
Ambiguous ==
  /\ \/ pc = "known" /\ ~Known(cur)
     \/ pc = "ack" /\ \E l \in lines : ~Observed(Actual(l))
  /\ EndFlush
  /\ UNCHANGED <<saves, files, add, prime, sends, faults>>

Ack(l) ==
  /\ pc = "ack" /\ l \in lines /\ Observed(Actual(l))
  /\ ledger' = ledger \union {Sent(Actual(l))}
                 \union IF Actual(l).aid THEN {} ELSE {Recovered(Actual(l))}
  /\ lines' = lines \ {l}
  /\ UNCHANGED <<saves, intent, done, sending, ready, add, prime, pc, left, cur, line, old, sends, faults>>

AckEnd ==
  /\ Goto("ack", "done") /\ lines = {}
  /\ UNCHANGED <<saves, files, add, prime, memory, sends, faults>>

\* --- a delivery of its own

Claim ==
  /\ Goto("claim", "look") /\ sending' = sending \union {cur}
  /\ UNCHANGED <<saves, intent, done, ready, ledger, add, prime, memory, sends, faults>>

Held(S, l) == \E m \in S : Strip(m) = Strip(l)

\* Lines sent with a key that was rejected, gone from Prime95's worktodo.txt.
Look ==
  /\ Goto("look", "prepare")
  /\ lines' = {Strip(l) : l \in {m \in Line :
                 /\ config[cur].recoverLost
                 /\ Sent(m) \in ledger /\ m.aid /\ KeyOf[m.task] \in rejected
                 /\ Recovered(Strip(m)) \notin ledger
                 /\ ~Held(todo, m)}}
  /\ UNCHANGED <<saves, files, add, prime, left, cur, line, old, sends, faults>>

\* A rejected key is not sent again, and none with p95_keep_aid off.
Outgoing(t) == IF KeyOf[t] \in rejected \/ ~config[t].keepAid THEN Strip(Own(t)) ELSE Own(t)

\* Mutant: .ready keeps the older lines only, not the one of this intent.
PrepareOlder ==
  /\ Goto("prepare", "read")
  /\ lines' = {l \in lines : ~Held(add, l)} /\ line' = Outgoing(cur)
  /\ ready' = [ready EXCEPT ![cur] = (IF ready[cur] = None THEN {} ELSE ready[cur]) \union lines']
  /\ UNCHANGED <<saves, intent, done, sending, ledger, add, prime, left, cur, old, sends, faults>>

\* worktodo.add is read after worktodo.txt; what is to go out, with what a
\* failed attempt has left, is written to .ready.
Prepare ==
  /\ Goto("prepare", "read")
  /\ lines' = {l \in lines : ~Held(add, l)} /\ line' = Outgoing(cur)
  /\ ready' = [ready EXCEPT ![cur] =
       (IF ready[cur] = None THEN {} ELSE ready[cur]) \union lines' \union {line'}]
  /\ UNCHANGED <<saves, intent, done, sending, ledger, add, prime, left, cur, old, sends, faults>>

ReadAdd ==
  /\ Goto("read", "write") /\ old' = add
  /\ UNCHANGED <<saves, files, add, prime, left, cur, line, lines, sends, faults>>

\* Mutant: the file is written from the new assignments alone.
WriteAddFresh ==
  /\ Goto("write", "recover")
  /\ add' = ready[cur] /\ sends' = [sends EXCEPT ![cur] = @ + 1] /\ old' = {}
  /\ UNCHANGED <<saves, files, prime, left, cur, line, lines, faults>>

\* Prime95 may have taken the file since it was read.
WriteAdd ==
  /\ Goto("write", "recover")
  /\ add' = old \union ready[cur] /\ sends' = [sends EXCEPT ![cur] = @ + 1] /\ old' = {}
  /\ UNCHANGED <<saves, files, prime, left, cur, line, lines, faults>>

\* A failure before the publication takes the claim back.
SendFails ==
  /\ pc \in {"look", "prepare", "read", "write"} /\ CanFail
  /\ EndFlush /\ sending' = sending \ {cur} /\ faults' = faults + 1
  /\ UNCHANGED <<saves, intent, done, ready, ledger, add, prime, sends>>

RecordRecovered(l) ==
  /\ pc = "recover" /\ l \in lines
  /\ ledger' = ledger \union {Recovered(l)} /\ lines' = lines \ {l}
  /\ UNCHANGED <<saves, intent, done, sending, ready, add, prime, pc, left, cur, line, old, sends, faults>>

RecordSent ==
  /\ Goto("recover", "unready") /\ lines = {}
  /\ ledger' = ledger \union {Sent(line)}
  /\ UNCHANGED <<saves, intent, done, sending, ready, add, prime, memory, sends, faults>>

Unready ==
  /\ Goto("unready", "done") /\ ready' = [ready EXCEPT ![cur] = None]
  /\ UNCHANGED <<saves, intent, done, sending, ledger, add, prime, memory, sends, faults>>

\* --- the responsibility ends

Finish ==
  /\ Goto("done", "drop") /\ done' = done \union {cur}
  /\ UNCHANGED <<saves, intent, sending, ready, ledger, add, prime, memory, sends, faults>>

Drop ==
  /\ Goto("drop", "clear") /\ intent' = intent \ {cur}
  /\ UNCHANGED <<saves, done, sending, ready, ledger, add, prime, memory, sends, faults>>

Clear ==
  /\ Goto("clear", "next") /\ cur' = None /\ line' = None
  /\ sending' = sending \ {cur} /\ ready' = [ready EXCEPT ![cur] = None]
  /\ UNCHANGED <<saves, intent, done, ledger, add, prime, left, lines, old, sends, faults>>

\* The flushing process dies, or an I/O error after the publication ends the
\* flush with everything in its place.
Crash ==
  /\ pc # "idle" /\ CanFail
  /\ EndFlush /\ faults' = faults + 1
  /\ ledger' \in {ledger} \union
       IF pc = "ack" THEN {ledger \union {Sent(Actual(l))} : l \in {m \in lines : Observed(Actual(m))}} ELSE {}
  /\ UNCHANGED <<saves, intent, done, sending, ready, add, prime, sends>>
-----------------------------------------------------------------------------
(* Prime95 *)

Incorporate ==
  /\ add # {} /\ todo' = todo \union add /\ add' = {}
  /\ UNCHANGED <<saves, files, rejected, ran, pc, memory, sends, faults>>

Rejectable(l) == l.aid /\ KeyOf[l.task] \in BadKeys

Run(l) ==
  /\ l \in todo /\ ~Rejectable(l)
  /\ todo' = todo \ {l} /\ ran' = ran \union {l.task}
  /\ UNCHANGED <<saves, files, add, rejected, pc, memory, sends, faults>>

Reject(l) ==
  /\ l \in todo /\ Rejectable(l)
  /\ todo' = todo \ {l} /\ rejected' = rejected \union {KeyOf[l.task]}
  /\ UNCHANGED <<saves, files, add, ran, pc, memory, sends, faults>>

-----------------------------------------------------------------------------
Flush ==
  \/ FlushStart \/ FlushEnd \/ Stale \/ Take \/ Copy
  \/ Reconcile \/ Ambiguous \/ (\E l \in Line : Ack(l)) \/ AckEnd
  \/ Claim \/ Look \/ Prepare \/ ReadAdd \/ WriteAdd
  \/ (\E l \in Line : RecordRecovered(l)) \/ RecordSent \/ Unready
  \/ Finish \/ Drop \/ Clear

Prime95 == Incorporate \/ \E l \in Line : Run(l) \/ Reject(l)

Next ==
  \/ \E t \in Tasks : Park(t) \/ Consume(t) \/ WorkerCrash(t)
  \/ Flush \/ SendFails \/ Crash
  \/ Prime95

Spec == Init /\ [][Next]_vars

\* Workers go on flushing: after a task and when they are started.
LiveSpec == Spec /\ WF_vars(Flush)

-----------------------------------------------------------------------------
(* Properties *)

Places == {"idle", "next", "copy", "known", "ack", "claim", "look", "prepare", "read", "write",
           "recover", "unready", "done", "drop", "clear"}

\* The types, and which files a delivery has at which place.
TypeOK ==
  /\ row \in [Tasks -> {"todo", "parked", "gone"}]
  /\ source \in Seq(Tasks) /\ target \in 0..Len(source)
  /\ config \in [Tasks -> Settings \union {None}]
  /\ intent \subseteq Tasks /\ done \subseteq Tasks /\ sending \subseteq Tasks
  /\ ready \in [Tasks -> {None} \union SUBSET Line] /\ ledger \subseteq Record
  /\ add \subseteq Line /\ todo \subseteq Line /\ rejected \subseteq Keys /\ ran \subseteq Tasks
  /\ pc \in Places /\ left \subseteq Tasks /\ cur \in Tasks \union {None}
  /\ line \in Line \union {None} /\ lines \subseteq Line /\ old \subseteq Line
  /\ sends \in [Tasks -> Nat] /\ faults \in 0..MaxFault
  /\ left \subseteq intent
  /\ \A t \in intent : config[t] # None
  /\ pc \notin {"idle", "next"} => cur \in Tasks \ left
  /\ pc \notin {"idle", "next", "clear"} => cur \in intent
  /\ pc \in {"known", "ack", "look", "prepare", "read", "write", "recover", "unready", "done"} => cur \in sending
  /\ pc \in {"read", "write", "recover"} =>
       ready[cur] \subseteq Line /\ line \in ready[cur] /\ line.task = cur

\* Prime95 never sees a line whose curves are not in the save it can read, with
\* a save that grows and lines that leave a .ready file much later (flush_p95).
SavedFirst ==
  \A l \in add \union todo : \E i \in 1..target : source[i] = l.task

\* The line of a batch that Prime95 deleted and the next delivery with
\* p95_recover_lost will find.
Recoverable(t) ==
  Sent(Own(t)) \in ledger /\ KeyOf[t] \in rejected /\ Recovered(Strip(Own(t))) \notin ledger

\* A batch whose source row is gone is held by somebody: an intent, Prime95, or
\* the ledger that brings back what Prime95 has thrown away; no crash, failed
\* write or consumption of worktodo.add between two steps drops it.
NeverLost ==
  \A t \in Tasks : row[t] = "gone" =>
     t \in intent \union ran \/ Recoverable(t) \/ \E l \in add \union todo : l.task = t

\* However often it is parked, retried and interrupted, the delivery of a batch
\* publishes its line once; what cannot be decided is not sent again.
SentOnce == \A t \in Tasks : sends[t] <= 1

\* A delivery that can be neither confirmed nor repeated.
Undecidable(t) ==
  /\ pc = "idle" /\ t \in intent \ done /\ t \in sending
  /\ ~(Seen(Own(t)) \/ Seen(Strip(Own(t)))) \/ \E l \in Attempted(t) : ~Observed(Actual(l))

\* Every parked batch is handed over, unless an interrupted delivery of it or of
\* any other batch became undecidable: such a one ends every later flush.
HandedOver == \A t \in Tasks : t \in intent ~> t \in done \/ \E c \in Tasks : Undecidable(c)
=============================================================================
