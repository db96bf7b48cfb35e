---------------------------- MODULE WorkerControl ----------------------------
(***************************************************************************)
(* The worker processes of the GUI: WorkerController (worker_controller.cpp)*)
(* over one WorkerProc (worker_proc.cpp) per worker.  The controller runs  *)
(* on the UI thread: a command of the user or one tick is a single step,   *)
(* and between two steps the processes run, end and crash, the queue       *)
(* changes and time passes.                                                *)
(*                                                                         *)
(* A row of the queue is only the stage it asks for (0: no row).  A timer  *)
(* is the answer to "is its moment reached?": it is reset when the code    *)
(* sets a new moment, and an action of its own lets it pass.               *)
(***************************************************************************)
EXTENDS Naturals

CONSTANTS
    Workers,        \* worker indices
    BreakerCrashes, \* crashes inside the window that end the restarts
    Fragile,        \* workers whose process may crash
    Edited,         \* workers whose rows change while the GUI runs
    Heads,          \* the next rows the workers may have at first
    Installations,  \* the sets of stages whose program may be missing
    MaxClose        \* bound: repeated close requests while the exit waits

ASSUME ControlAssumption ==
    /\ BreakerCrashes \in Nat \ {0} /\ MaxClose \in Nat
    /\ Fragile \subseteq Workers /\ Edited \subseteq Workers
    /\ Heads \subseteq [Workers -> 0..2] /\ Installations \subseteq SUBSET {1, 2}

VARIABLES
    proc,          \* WorkerProc of each worker, with its process
    view,          \* WorkerView of each worker: stage and pending stop
    head,          \* the stage of the row each worker would get next, or 0
    phase,         \* ExitPhase
    exitDue,       \* the exit deadline is reached
    quit,          \* quit_requested_
    autostart,     \* workers the first tick has to start
    missing,       \* stages whose program cannot be started
    closes,        \* counts the repeated close requests
    wanted         \* history: the user's last word on a worker is "start"

controlVars == <<proc, view, head, phase, exitDue, quit, autostart, missing, closes, wanted>>

Stages == {1, 2}

\* os: no process, alive, left with success, left with an error (not yet seen)
Proc == [os : {"none", "up", "done", "crashed"}, asked : BOOLEAN, want : BOOLEAN,
         state : {"Stopped", "Running", "Restarting", "Error", "QueueEmpty"},
         crashes : 0..(BreakerCrashes - 1), tripped : BOOLEAN, due : BOOLEAN]
View == [stage : Stages, stopRequested : BOOLEAN, stopDue : BOOLEAN]

NewProc == [os |-> "none", asked |-> FALSE, want |-> FALSE, state |-> "Stopped",
            crashes |-> 0, tripped |-> FALSE, due |-> FALSE]
NewView(s) == [stage |-> s, stopRequested |-> FALSE, stopDue |-> FALSE]

(***************************************************************************)
(* WorkerProc: functions of the record.                                    *)
(***************************************************************************)
Running(p) == p.os # "none"
Busy(p) == Running(p) \/ p.state = "Restarting"

\* spawn_locked: a new process with a stop event of its own.
Spawn(p, s) ==
    IF s \in missing THEN [p EXCEPT !.state = "Error"]
    ELSE [p EXCEPT !.os = "up", !.asked = FALSE, !.want = TRUE, !.state = "Running", !.due = FALSE]

Started(p, s) == IF Running(p) \/ p.tripped THEN p ELSE Spawn(p, s)

\* Mutant: the state is left as it was.
StoppedProcKept(p) ==
    IF Running(p) \/ p.want
    THEN [p EXCEPT !.os = "none", !.asked = FALSE, !.want = FALSE] ELSE p

StoppedProc(p) ==
    IF Running(p) \/ p.want
    THEN [p EXCEPT !.os = "none", !.asked = FALSE, !.want = FALSE, !.state = "Stopped",
                   !.due = FALSE]
    ELSE p

\* Mutant: a crashed worker is not wanted any more.
AfterCrashUnwanted(p) ==
    IF p.crashes + 1 >= BreakerCrashes
    THEN [p EXCEPT !.crashes = 0, !.tripped = TRUE, !.state = "Error"]
    ELSE [p EXCEPT !.crashes = @ + 1, !.state = "Restarting", !.due = FALSE, !.want = FALSE]

AfterCrash(p) ==
    IF p.crashes + 1 >= BreakerCrashes
    THEN [p EXCEPT !.crashes = 0, !.tripped = TRUE, !.state = "Error"]
    ELSE [p EXCEPT !.crashes = @ + 1, !.state = "Restarting", !.due = FALSE]

\* poll: first an end of the process, otherwise a restart that is due.
Polled(p, s) ==
    LET gone == [p EXCEPT !.os = "none", !.asked = FALSE]
    IN  CASE p.os \in {"done", "crashed"} /\ ~p.want -> [gone EXCEPT !.state = "Stopped"]
          [] p.os = "done" /\ p.want    -> [gone EXCEPT !.state = "QueueEmpty"]
          [] p.os = "crashed" /\ p.want -> AfterCrash(gone)
          [] /\ p.os = "none" /\ p.want /\ ~p.tripped
             /\ p.state = "Restarting" /\ p.due -> Spawn(p, s)
          [] OTHER -> p

(***************************************************************************)
(* The controller's helpers.                                               *)
(***************************************************************************)
\* worker_stage2: an empty queue counts as Stage1.
QueueStage(w) == IF head[w] = 2 THEN 2 ELSE 1

\* refresh_worker_for_queue: the record is replaced, and with it the crash
\* history and a pending stop.
Replaced(w) ==
    ~Busy(proc[w]) /\ QueueStage(w) # view[w].stage

\* request_checkpoint_stop with the deadline of the controller.
AskedProc(p) == [p EXCEPT !.asked = TRUE, !.want = FALSE]
AskedView(v) == [v EXCEPT !.stopRequested = TRUE, !.stopDue = FALSE]

\* begin_graceful_exit: every process is asked.
BeginExit ==
    /\ phase' = "Stopping" /\ exitDue' = FALSE
    /\ proc' = [w \in Workers |-> IF Running(proc[w]) THEN AskedProc(proc[w]) ELSE proc[w]]
    /\ view' = [w \in Workers |-> IF Running(proc[w]) THEN AskedView(view[w]) ELSE view[w]]

StopAllQuietly == proc' = [w \in Workers |-> StoppedProc(proc[w])]

ControlInit ==
    /\ head \in Heads
    /\ proc = [w \in Workers |-> NewProc]
    /\ view = [w \in Workers |-> NewView(QueueStage(w))]
    /\ phase = "Idle" /\ exitDue = FALSE /\ quit = FALSE
    /\ autostart \in SUBSET Workers /\ missing \in Installations
    /\ closes = 0
    /\ wanted = [w \in Workers |-> w \in autostart]

(***************************************************************************)
(* Commands of the user.  A modal dialog covers the window in "Confirm".   *)
(***************************************************************************)
Refreshed(w) == IF Replaced(w) THEN NewView(QueueStage(w)) ELSE view[w]
Restarted(w) == Started(IF Replaced(w) THEN NewProc ELSE proc[w], Refreshed(w).stage)

\* The workers in S, none of which has a process, are started.
StartThese(S) ==
    /\ ~quit /\ autostart = {} /\ phase # "Confirm"
    /\ proc' = [w \in Workers |-> IF w \in S THEN Restarted(w) ELSE proc[w]]
    /\ view' = [w \in Workers |-> IF w \in S THEN Refreshed(w) ELSE view[w]]
    /\ wanted' = [w \in Workers |-> w \in S \/ wanted[w]]
    /\ UNCHANGED <<head, phase, exitDue, quit, autostart, missing, closes>>

\* The button of one worker is "stop" while it runs or waits for its restart.
Start(w) == ~Busy(proc[w]) /\ StartThese({w})

\* start_all also starts a worker that waits for its restart, at once.
StartAll == StartThese({w \in Workers : ~Running(proc[w])})

\* Mutant: a worker that waits for its restart is left alone.
RequestStopRunning(w) ==
    /\ ~quit /\ autostart = {} /\ phase # "Confirm" /\ Busy(proc[w])
    /\ proc' = [proc EXCEPT ![w] = IF Running(@) THEN AskedProc(@) ELSE @]
    /\ view' = [view EXCEPT ![w] = IF Running(proc[w]) THEN AskedView(@) ELSE @]
    /\ wanted' = [wanted EXCEPT ![w] = FALSE]
    /\ UNCHANGED <<head, phase, exitDue, quit, autostart, missing, closes>>

RequestStop(w) ==
    /\ ~quit /\ autostart = {} /\ phase # "Confirm" /\ Busy(proc[w])
    /\ proc' = [proc EXCEPT ![w] = IF Running(@) THEN AskedProc(@) ELSE StoppedProc(@)]
    /\ view' = [view EXCEPT ![w] = IF Running(proc[w]) THEN AskedView(@) ELSE @]
    /\ wanted' = [wanted EXCEPT ![w] = FALSE]
    /\ UNCHANGED <<head, phase, exitDue, quit, autostart, missing, closes>>

\* request_close with exit_confirm c, also while an exit is already waiting:
\* "stop" then begins the exit again, with a new deadline.
RequestClose(c) ==
    /\ ~quit
    /\ \/ /\ \A w \in Workers : ~Running(proc[w])
          /\ quit' = TRUE /\ UNCHANGED <<proc, view, phase, exitDue, closes>>
       \/ /\ \E w \in Workers : Running(proc[w])
          /\ \/ c = "ask" /\ phase = "Idle" /\ phase' = "Confirm"
                /\ UNCHANGED <<proc, view, exitDue, quit, closes>>
             \/ c = "stop" /\ phase = "Idle" /\ BeginExit /\ UNCHANGED <<quit, closes>>
             \/ c = "stop" /\ phase = "Stopping" /\ closes < MaxClose
                /\ BeginExit /\ closes' = closes + 1 /\ UNCHANGED quit
             \/ c = "kill" /\ phase = "Idle" /\ StopAllQuietly /\ quit' = TRUE
                /\ UNCHANGED <<view, phase, exitDue, closes>>
    /\ UNCHANGED <<head, autostart, missing, wanted>>

ConfirmExit ==
    /\ ~quit /\ phase = "Confirm" /\ BeginExit
    /\ UNCHANGED <<head, quit, autostart, missing, closes, wanted>>

CancelClose ==
    /\ ~quit /\ phase = "Confirm" /\ phase' = "Idle"
    /\ UNCHANGED <<proc, view, head, exitDue, quit, autostart, missing, closes, wanted>>

ForceClose ==
    /\ ~quit /\ phase = "Stopping" /\ StopAllQuietly
    /\ view' = [w \in Workers |-> NewView(view[w].stage)]
    /\ phase' = "Idle" /\ quit' = TRUE
    /\ UNCHANGED <<head, exitDue, autostart, missing, closes, wanted>>

\* configure: refused while a worker runs or waits for its restart.
Configure ==
    /\ ~quit /\ autostart = {} /\ phase = "Idle"
    /\ \A w \in Workers : ~Busy(proc[w])
    /\ proc' = [w \in Workers |-> NewProc]
    /\ view' = [w \in Workers |-> NewView(QueueStage(w))]
    /\ UNCHANGED <<head, phase, exitDue, quit, autostart, missing, closes, wanted>>

(***************************************************************************)
(* One tick: pending stops and the exit, then every worker.                *)
(***************************************************************************)
\* tick_graceful_stops, first loop: a process past its deadline is ended.
Overdue(w) == view[w].stopRequested /\ Running(proc[w]) /\ view[w].stopDue
Settled(w) == view[w].stopRequested /\ (Overdue(w) \/ ~Running(proc[w]))
AnyRunning == \E w \in Workers : Running(proc[w]) /\ ~Overdue(w)

\* Mutant: the exit deadline is not looked at.
ExitOverWaiting == phase = "Stopping" /\ ~AnyRunning

\* tick_graceful_stops, second half: the exit is over when nothing runs any
\* more or its deadline is reached; what still runs is then ended.
ExitOver == phase = "Stopping" /\ (~AnyRunning \/ exitDue)

ProcAfterStops(w) ==
    IF Overdue(w) \/ (ExitOver /\ AnyRunning) THEN StoppedProc(proc[w]) ELSE proc[w]
ViewAfterStops(w) ==
    IF Settled(w) \/ (ExitOver /\ AnyRunning) THEN NewView(view[w].stage) ELSE view[w]

Autostarted(w, p) ==
    IF w \in autostart /\ p.state = "Stopped" /\ ~p.tripped
    THEN Started(p, view[w].stage) ELSE p

\* The queue of this stage has just run out, and the next row asks for the
\* other one; before and after are its process before and after the poll.
OtherStageDue(w, before, after, v) ==
    /\ before.state # "QueueEmpty" /\ after.state = "QueueEmpty"
    /\ ~v.stopRequested
    /\ phase = "Idle" \/ ExitOver
    /\ head[w] \in Stages \ {v.stage}

\* What the tick makes of one worker.
Ticked(w) ==
    LET before == ProcAfterStops(w)
        v      == ViewAfterStops(w)
        after  == Polled(Autostarted(w, before), v.stage)
    IN  IF OtherStageDue(w, before, after, v)
        THEN [proc |-> Started(NewProc, head[w]), view |-> NewView(head[w])]
        ELSE [proc |-> after, view |-> v]

Tick ==
    /\ ~quit
    /\ \E after \in {[w \in Workers |-> Ticked(w)]} :
          /\ proc' = [w \in Workers |-> after[w].proc]
          /\ view' = [w \in Workers |-> after[w].view]
    /\ IF ExitOver THEN phase' = "Idle" /\ quit' = TRUE ELSE UNCHANGED <<phase, quit>>
    /\ exitDue' = (exitDue /\ ~ExitOver) /\ autostart' = {}
    /\ UNCHANGED <<head, missing, closes, wanted>>

\* The window is gone: what still runs is ended with it.
Shutdown ==
    /\ quit /\ StopAllQuietly
    /\ UNCHANGED <<view, head, phase, exitDue, quit, autostart, missing, closes, wanted>>

(***************************************************************************)
(* The processes, the queue and time.                                      *)
(***************************************************************************)
Leave(w, how) ==
    /\ ~quit /\ proc[w].os = "up" /\ proc' = [proc EXCEPT ![w].os = how]
    /\ UNCHANGED <<view, head, phase, exitDue, quit, autostart, missing, closes, wanted>>

\* A worker ends when the row it would get next is not of its stage, or at
\* the safe point after a stop request.
Finish(w) == (proc[w].asked \/ head[w] # view[w].stage) /\ Leave(w, "done")
Crash(w) == w \in Fragile /\ Leave(w, "crashed")

\* Rows are worked off, handed over by other workers, generated or edited.
QueueChanges(w) ==
    /\ ~quit /\ w \in Edited /\ \E s \in {0} \cup Stages : s # head[w] /\ head' = [head EXCEPT ![w] = s]
    /\ UNCHANGED <<proc, view, phase, exitDue, quit, autostart, missing, closes, wanted>>

\* Time: a restart, a stop or the exit comes due, an old crash is forgotten.
RestartDue(w) ==
    /\ ~quit /\ proc[w].state = "Restarting" /\ ~proc[w].due
    /\ proc' = [proc EXCEPT ![w].due = TRUE]
    /\ UNCHANGED <<view, head, phase, exitDue, quit, autostart, missing, closes, wanted>>
StopDue(w) ==
    /\ ~quit /\ view[w].stopRequested /\ ~view[w].stopDue
    /\ view' = [view EXCEPT ![w].stopDue = TRUE]
    /\ UNCHANGED <<proc, head, phase, exitDue, quit, autostart, missing, closes, wanted>>
ExitDue ==
    /\ phase = "Stopping" /\ ~exitDue /\ exitDue' = TRUE
    /\ UNCHANGED <<proc, view, head, phase, quit, autostart, missing, closes, wanted>>
Forget(w) ==
    /\ ~quit /\ proc[w].crashes > 0 /\ proc' = [proc EXCEPT ![w].crashes = @ - 1]
    /\ UNCHANGED <<view, head, phase, exitDue, quit, autostart, missing, closes, wanted>>

ControlNext ==
    \/ \E w \in Workers : \/ Start(w) \/ RequestStop(w)
                          \/ Finish(w) \/ Crash(w) \/ QueueChanges(w)
                          \/ RestartDue(w) \/ StopDue(w) \/ Forget(w)
    \/ \E c \in {"ask", "stop", "kill"} : RequestClose(c)
    \/ StartAll \/ ConfirmExit \/ CancelClose \/ ForceClose \/ Configure
    \/ Tick \/ Shutdown \/ ExitDue

ControlSpec == ControlInit /\ [][ControlNext]_controlVars

\* The frame loop ticks for ever, and the delay of a restart and the deadline
\* of an exit pass; nothing is assumed of the worker processes, of the queue,
\* of the deadline of a single stop or of the user.
Fairness ==
    /\ WF_controlVars(Tick) /\ WF_controlVars(ExitDue)
    /\ \A w \in Workers : WF_controlVars(RestartDue(w))

LiveSpec == ControlSpec /\ Fairness

-----------------------------------------------------------------------------
\* A worker is shown as running exactly while a process is held for it, and a
\* process that was asked to stop is not wanted any more.
Consistent(p) ==
    /\ Running(p) <=> p.state = "Running"
    /\ p.asked => Running(p) /\ ~p.want

\* Every variable has its type and every worker is in a consistent state.
ControlTypeOK ==
    /\ proc \in [Workers -> Proc] /\ view \in [Workers -> View]
    /\ head \in [Workers -> {0} \cup Stages]
    /\ phase \in {"Idle", "Confirm", "Stopping"}
    /\ exitDue \in BOOLEAN /\ quit \in BOOLEAN
    /\ autostart \subseteq Workers /\ missing \in Installations
    /\ closes \in 0..MaxClose /\ wanted \in [Workers -> BOOLEAN]
    /\ \A w \in Workers : Consistent(proc[w])

\* No restart, no autostart and no change of the stage brings a worker back
\* that the user has stopped, whatever its process does after the request and
\* in whatever order end, crash and request reach the tick.
StopHolds ==
    [][\A w \in Workers : ~Running(proc[w]) /\ Running(proc'[w]) => wanted'[w]]_controlVars

\* Nothing more can be expected of the worker: the user stopped it or closes
\* the window, or it cannot be started or crashes too often.
Excused(w) == ~wanted[w] \/ phase # "Idle" \/ quit \/ proc[w].state = "Error"

\* A process has ended that nobody asked to end, and there is more to do: it
\* crashed, or the next row is of the other stage.
Unfinished(w) ==
    /\ ~view[w].stopRequested
    /\ \/ proc[w].os = "crashed"
       \/ proc[w].os = "done" /\ head[w] \in Stages \ {view[w].stage}

\* A wanted worker is not left lying: after a crash its process comes back, and
\* when its stage has run out and the next row is of the other stage the other
\* program is started (unless the queue changes again before the tick).
KeepsGoing ==
    \A w \in Workers :
        Unfinished(w) ~> \/ proc[w].os = "up" \/ Excused(w)
                         \/ proc[w].state = "QueueEmpty" /\ head[w] \in {0, view[w].stage}

\* An exit that has begun ends, although processes may hang for ever and may
\* have been started after everyone was asked to stop.
ExitCompletes == (phase = "Stopping") ~> quit
=============================================================================
