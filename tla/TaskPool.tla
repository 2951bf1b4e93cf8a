------------------------------ MODULE TaskPool ------------------------------
(***************************************************************************)
(* Tasks on the native runtime's thread pool                               *)
(* (src/native/uxb_runtime/uxb_runtime_task_v2.cpp), together with the     *)
(* lock table of LockTable, on which it calls and which calls it back.     *)
(*                                                                         *)
(* The pool has one mutex, g_mutex; a section of code under it is one      *)
(* action, a call into the lock table (its own mutex) is another, and all  *)
(* tasks interleave between them.  A task that waits may run another task  *)
(* on its own stack (wait_finished), so a thread carries a chain of tasks  *)
(* of which only the top one moves.                                        *)
(*                                                                         *)
(* Workers that run no task are indistinguishable: they are counted.  Any  *)
(* program is possible: a task calls what it likes, in any order, a        *)
(* bounded number of times.                                                *)
(***************************************************************************)
EXTENDS LockTable

CONSTANTS
  MaxTasks,    \* bound: how many tasks a run spawns
  NWorkers,    \* configured workers (UXB_TASK_WORKERS, --task-workers)
  Ops,         \* what the program may call
  MainOps,     \* bound: how many calls the main program makes
  TaskOps,     \* bound: how many calls a task makes
  ExitModes,   \* the argument of task_shutdown: TRUE is a normal exit
  LateSpawns   \* may a task SPAWN once the main program is shutting down?

Tasks == 1..MaxTasks

ASSUME TasksAssumption ==
  /\ MaxTasks \in Nat
  /\ Main = 0
  /\ Keys = {Main} \cup Tasks
ASSUME PoolAssumption ==
  /\ NWorkers \in Nat \ {0}
  /\ MainOps \in Nat /\ TaskOps \in Nat
  /\ ExitModes \subseteq BOOLEAN
  /\ LateSpawns \in BOOLEAN

VARIABLES
  count,            \* g_tasks.size(): tasks 1..count exist
  state,            \* TaskRunV2.state ("NONE": not spawned)
  cancelRequested,  \* TaskRunV2.cancelRequested
  errorText,        \* TaskRunV2.errorText: "", "CANCELLED" or "THROW"
  observed,         \* TaskRunV2.errorObserved
  group,            \* members of one TASKGROUP
  queue,            \* g_queue
  stopping,         \* g_stopping
  idle,             \* idleWorkers: workers that wait for workAvailable
  awake,            \* those of them that were notified and have not run yet
  looping,          \* workers about to look at the queue
  exited,           \* workers that have left worker_main
  extra,            \* extraWorkers
  blocked,          \* blockedWorkers
  at,               \* where each key is
  wait,             \* the wait_finished each key is in
  onMain,           \* keys on the main thread (tl_isWorker is false)
  left,             \* calls the key may still make
  exit              \* how the process ended, or "none"

taskVars == <<count, state, cancelRequested, errorText, observed, group>>
poolVars == <<queue, stopping, idle, awake, looping, exited, extra, blocked>>
threadVars == <<at, wait, onMain>>
vars == <<lockVars, taskVars, poolVars, threadVars, left, exit>>

States == {"NONE", "PENDING", "RUNNING", "DONE", "ERROR", "CANCELLED"}
Finished == {"DONE", "ERROR", "CANCELLED"}   \* is_finished
Failed == {"ERROR", "CANCELLED"}

(* wait_finished for on[1], on[2], ...; it is at on[i].  help is mayHelp,    *)
(* run the task it took to run itself (Main: none).                          *)
NoWait == [for |-> "none", on |-> <<>>, i |-> 1, help |-> FALSE, run |-> Main]
Target(k) == wait[k].on[wait[k].i]

Alive == exit = "none" /\ fatal = "none"
IsWorker(k) == IF k \in onMain THEN 0 ELSE 1

-----------------------------------------------------------------------------
(* Workers *)

(* Mutants of MaybeAddWorker: one sleeping worker too late; whenever nobody   *)
(* is idle.                                                                  *)
MaybeAddLate(q, b, new) ==
  IF ~stopping /\ q # <<>> /\ idle = 0 /\ b > NWorkers + extra
    THEN extra' = extra + 1 /\ looping' = looping + new + 1
    ELSE extra' = extra /\ looping' = looping + new

MaybeAddEager(q, b, new) ==
  IF ~stopping /\ q # <<>> /\ idle = 0
    THEN extra' = extra + 1 /\ looping' = looping + new + 1
    ELSE extra' = extra /\ looping' = looping + new

(* maybe_add_worker_locked, for a queue q and b blocked workers; new workers *)
(* are starting anyway.                                                      *)
MaybeAddWorker(q, b, new) ==
  IF ~stopping /\ q # <<>> /\ idle = 0 /\ b >= NWorkers + extra
    THEN extra' = extra + 1 /\ looping' = looping + new + 1
    ELSE extra' = extra /\ looping' = looping + new

(* Mutant of BlockBegin: the main thread counts as a worker. *)
BlockBeginAny(k, b) ==
  /\ blocked' = b + 1
  /\ MaybeAddWorker(queue, b + 1, 0)

(* A thread goes to sleep on a lock or a task (blockedWorkers++). *)
BlockBegin(k, b) ==
  /\ blocked' = b + IsWorker(k)
  /\ MaybeAddWorker(queue, b + IsWorker(k), 0)

(* Mutant of Popped: the task stays in the queue. *)
NotPopped == queue

Popped == Tail(queue)

(* Mutant of Notified: a second notification is saved. *)
NotifiedIfNone == IF awake = 0 /\ idle > 0 THEN 1 ELSE awake

(* notify_one: one more of the sleeping workers, if there is one. *)
Notified == IF awake < idle THEN awake + 1 ELSE awake

FromLoop == looping > 0 /\ looping' = looping - 1 /\ UNCHANGED <<idle, awake>>
FromSleep == awake > 0 /\ awake' = awake - 1 /\ idle' = idle - 1 /\ UNCHANGED looping

WorkerTake ==
  /\ Alive
  /\ queue # <<>>
  /\ FromLoop \/ FromSleep
  /\ queue' = Popped
  /\ at' = [at EXCEPT ![Head(queue)] = "begin"]
  /\ UNCHANGED <<lockVars, taskVars, stopping, exited, extra, blocked, wait, onMain, left, exit>>

WorkerSleep ==
  /\ Alive
  /\ queue = <<>> /\ ~stopping
  /\ \/ looping > 0 /\ looping' = looping - 1 /\ idle' = idle + 1 /\ UNCHANGED awake
     \/ awake > 0 /\ awake' = awake - 1 /\ UNCHANGED <<idle, looping>>
  /\ UNCHANGED <<lockVars, taskVars, queue, stopping, exited, extra, blocked, threadVars, left, exit>>

(* Mutant of WorkerExit: the queue is not emptied first. *)
WorkerExitAtOnce ==
  /\ Alive
  /\ stopping
  /\ FromLoop \/ FromSleep
  /\ exited' = exited + 1
  /\ UNCHANGED <<lockVars, taskVars, queue, stopping, extra, blocked, threadVars, left, exit>>

WorkerExit ==
  /\ Alive
  /\ queue = <<>> /\ stopping
  /\ FromLoop \/ FromSleep
  /\ exited' = exited + 1
  /\ UNCHANGED <<lockVars, taskVars, queue, stopping, extra, blocked, threadVars, left, exit>>

-----------------------------------------------------------------------------
(* Running a task (run_task) *)

Hosts(t) == {k \in Keys : at[k] = "helping" /\ wait[k].run = t}

Sleepers == {k \in Keys : at[k] = "sleep"}

(* Mutant of Woken: notify_one. *)
WokenOne == {k \in Sleepers : \A j \in Sleepers : k <= j}

(* taskFinished.notify_all *)
Woken == Sleepers

(* The end of run_task: everybody who sleeps on taskFinished is woken, and   *)
(* the thread goes back to the waiter that ran t, or to the queue.           *)
Return(t) ==
  /\ at' = [k \in Keys |-> CASE k = t -> "over"
                             [] k \in Hosts(t) -> "renote"
                             [] k \in Woken -> "awake"
                             [] OTHER -> at[k]]
  /\ looping' = IF Hosts(t) = {} THEN looping + 1 ELSE looping
  /\ onMain' = onMain \ {t}
  /\ UNCHANGED <<queue, stopping, idle, awake, exited, extra, blocked, wait, left, exit>>

Begin(t) ==
  /\ Alive
  /\ at[t] = "begin"
  /\ ~cancelRequested[t]
  /\ state' = [state EXCEPT ![t] = "RUNNING"]
  /\ at' = [at EXCEPT ![t] = "user"]
  /\ UNCHANGED <<lockVars, count, cancelRequested, errorText, observed, group, poolVars, wait,
                 onMain, left, exit>>

(* K6: a task cancelled before it starts never runs. *)
BeginCancelled(t) ==
  /\ Alive
  /\ at[t] = "begin"
  /\ cancelRequested[t]
  /\ state' = [state EXCEPT ![t] = "CANCELLED"]
  /\ errorText' = [errorText EXCEPT ![t] = "CANCELLED"]
  /\ Return(t)
  /\ done' = [done EXCEPT ![t] = TRUE]
  /\ UNCHANGED <<tableVars, waitVars, autos, count, cancelRequested, observed, group>>

(* Mutant of EndBody: the locks are not released. *)
EndBodyLocked(t) ==
  /\ Alive
  /\ t # Main
  /\ at[t] \in {"user", "return"}
  /\ Running(t)
  /\ done' = [done EXCEPT ![t] = TRUE]
  /\ at' = [at EXCEPT ![t] = "publish"]
  /\ UNCHANGED <<tableVars, waitVars, autos, taskVars, poolVars, wait, onMain, left, exit>>

(* The body returns: all its locks are released before anyone learns that    *)
(* the task has finished.                                                    *)
EndBody(t) ==
  /\ Alive
  /\ t # Main
  /\ at[t] \in {"user", "return"}
  /\ Finish(t)
  /\ at' = [at EXCEPT ![t] = "publish"]
  /\ UNCHANGED <<taskVars, poolVars, wait, onMain, left, exit>>

Outcome(text) ==
  CASE text = "" -> "DONE"
    [] text = "CANCELLED" -> "CANCELLED"
    [] OTHER -> "ERROR"

Publish(t) ==
  /\ Alive
  /\ at[t] = "publish"
  /\ state' = [state EXCEPT ![t] = Outcome(errorText[t])]
  /\ Return(t)
  /\ UNCHANGED <<lockVars, count, cancelRequested, errorText, observed, group>>

-----------------------------------------------------------------------------
(* Waiting for tasks (wait_finished) *)

Moved(k, from, to) == Alive /\ at[k] = from /\ at' = [at EXCEPT ![k] = to]

Note(k) ==
  /\ Moved(k, "note", "check")
  /\ NoteWaitTask(k, Target(k))
  /\ UNCHANGED <<taskVars, poolVars, wait, onMain, left, exit>>

(* Mutant of MayHelp: only LOCK blocks are looked at. *)
MayHelpAutos(k) == entries = 0

(* sync_holds_any, sync_explicit_total *)
MayHelp(k) == held[k] = 0 /\ entries = 0

(* mayHelp is computed from the lock table before g_mutex is taken. *)
Check(k) ==
  /\ Moved(k, "check", "decide")
  /\ wait' = [wait EXCEPT ![k].help = MayHelp(k)]
  /\ UNCHANGED <<lockVars, taskVars, poolVars, onMain, left, exit>>

(* Mutant of FoundFinished: being woken is enough. *)
FoundAwoken(k) ==
  /\ Moved(k, "decide", "clear")
  /\ UNCHANGED <<lockVars, taskVars, poolVars, wait, onMain, left, exit>>

FoundFinished(k) ==
  /\ Moved(k, "decide", "clear")
  /\ state[Target(k)] \in Finished
  /\ UNCHANGED <<lockVars, taskVars, poolVars, wait, onMain, left, exit>>

(* The waiter takes a task from the queue to run it on its own stack ... *)
TakeToHelp(k) ==
  /\ Moved(k, "decide", "help")
  /\ state[Target(k)] \notin Finished
  /\ wait[k].help /\ queue # <<>>
  /\ wait' = [wait EXCEPT ![k].run = Head(queue)]
  /\ queue' = Popped
  /\ UNCHANGED <<lockVars, taskVars, stopping, idle, awake, looping, exited, extra, blocked,
                 onMain, left, exit>>

(* ... or sleeps on taskFinished. *)
Sleep(k) ==
  /\ Moved(k, "decide", "sleep")
  /\ state[Target(k)] \notin Finished
  /\ ~wait[k].help \/ queue = <<>>
  /\ BlockBegin(k, blocked)
  /\ UNCHANGED <<lockVars, taskVars, queue, stopping, idle, awake, exited, wait, onMain, left, exit>>

(* Mutant of Resume: the main thread was never counted. *)
ResumeAny(k) ==
  /\ Moved(k, "awake", "check")
  /\ blocked' = blocked - 1
  /\ UNCHANGED <<lockVars, taskVars, queue, stopping, idle, awake, looping, exited, extra,
                 wait, onMain, left, exit>>

Resume(k) ==
  /\ Moved(k, "awake", "check")
  /\ blocked' = blocked - IsWorker(k)
  /\ UNCHANGED <<lockVars, taskVars, queue, stopping, idle, awake, looping, exited, extra,
                 wait, onMain, left, exit>>

Help(k) ==
  LET t == wait[k].run
  IN  /\ Alive
      /\ at[k] = "help"
      /\ NoteWaitTask(k, t)
      /\ at' = [at EXCEPT ![k] = "helping", ![t] = "begin"]
      /\ onMain' = IF k \in onMain THEN onMain \cup {t} ELSE onMain
      /\ UNCHANGED <<taskVars, poolVars, wait, left, exit>>

Renote(k) ==
  /\ Moved(k, "renote", "check")
  /\ NoteWaitTask(k, Target(k))
  /\ wait' = [wait EXCEPT ![k].run = Main]
  /\ UNCHANGED <<taskVars, poolVars, onMain, left, exit>>

(* Mutant of Clear: the rest of the group is not waited for. *)
ClearFirst(k) ==
  /\ Moved(k, "clear", "after")
  /\ wait' = [wait EXCEPT ![k].help = FALSE]
  /\ ClearWait(k)
  /\ UNCHANGED <<taskVars, poolVars, onMain, left, exit>>

Clear(k) ==
  /\ \/ wait[k].i < Len(wait[k].on) /\ Moved(k, "clear", "note")
        /\ wait' = [wait EXCEPT ![k].i = @ + 1, ![k].help = FALSE]
     \/ wait[k].i = Len(wait[k].on) /\ Moved(k, "clear", "after")
        /\ wait' = [wait EXCEPT ![k].help = FALSE]
  /\ ClearWait(k)
  /\ UNCHANGED <<taskVars, poolVars, onMain, left, exit>>

(* WAIT returns whatever became of the task. *)
Waited(k) ==
  /\ Moved(k, "after", "user")
  /\ wait[k].for = "wait"
  /\ wait' = [wait EXCEPT ![k] = NoWait]
  /\ UNCHANGED <<lockVars, taskVars, poolVars, onMain, left, exit>>

FailedOn(k) == {t \in Tasks : state[t] \in Failed /\ \E i \in 1..Len(wait[k].on) : wait[k].on[i] = t}

(* JOIN, RESULT and TASKGROUP.JOIN return only if no task failed; otherwise *)
(* the process exits.                                                       *)
Joins(k) ==
  /\ wait[k].for \in {"join", "group"}
  /\ IF FailedOn(k) = {}
       THEN Moved(k, "after", "user") /\ wait' = [wait EXCEPT ![k] = NoWait] /\ UNCHANGED exit
       ELSE Moved(k, "after", "over") /\ exit' = "task failed" /\ UNCHANGED wait
  /\ UNCHANGED <<lockVars, taskVars, poolVars, onMain, left>>
-----------------------------------------------------------------------------
(* The end of the program (task_shutdown) *)

ShuttingDown == at[Main] \in {"snapshot", "reap"} \/ wait[Main].for = "shutdown"

Shutdown ==
  /\ Moved(Main, "user", "snapshot")
  /\ Unlock
  /\ UNCHANGED <<taskVars, poolVars, wait, onMain, left, exit>>

(* The tasks that exist now are waited for. *)
Snapshot(normal) ==
  /\ IF count = 0
       THEN Moved(Main, "snapshot", "over") /\ exit' = "clean" /\ UNCHANGED wait
       ELSE /\ Moved(Main, "snapshot", "note") /\ UNCHANGED exit
            /\ wait' = [wait EXCEPT ![Main] = [NoWait EXCEPT !.for = "shutdown",
                                                             !.on = [t \in 1..count |-> t]]]
  /\ cancelRequested' = [t \in Tasks |-> \/ cancelRequested[t]
                                         \/ ~normal /\ t <= count /\ state[t] \notin Finished]
  /\ UNCHANGED <<lockVars, count, state, errorText, observed, group, poolVars, onMain, left>>

(* Mutant of Unread: the last task is forgotten. *)
UnreadButLast == {t \in Tasks : t < count /\ state[t] = "ERROR" /\ ~observed[t]}

Unread == {t \in Tasks : state[t] = "ERROR" /\ ~observed[t]}

Stop ==
  /\ Moved(Main, "after", "reap")
  /\ wait[Main].for = "shutdown"
  /\ wait' = [wait EXCEPT ![Main] = [NoWait EXCEPT !.for = IF Unread = {} THEN "clean" ELSE "unread"]]
  /\ stopping' = TRUE
  /\ awake' = idle
  /\ UNCHANGED <<lockVars, taskVars, queue, idle, looping, exited, extra, blocked, onMain, left, exit>>

(* The workers are joined; the exit code is the one found before. *)
Reap ==
  /\ Moved(Main, "reap", "over")
  /\ exited = NWorkers + extra
  /\ exit' = wait[Main].for
  /\ UNCHANGED <<lockVars, taskVars, poolVars, wait, onMain, left>>

-----------------------------------------------------------------------------
(* What the program calls *)

Calling(k, op) ==
  /\ Alive
  /\ at[k] = "user"
  /\ Running(k)
  /\ op \in Ops
  /\ left[k] > 0
  /\ left' = [left EXCEPT ![k] = @ - 1]

(* A handle that was never set: the process exits. *)
NullHandle(h) ==
  /\ h > count
  /\ exit' = "null handle"
  /\ UNCHANGED <<lockVars, taskVars, poolVars, threadVars>>

Handle(h) == h <= count /\ UNCHANGED exit

Spawn(k) ==
  LET q == Append(queue, count + 1)
  IN  /\ Calling(k, "spawn")
      /\ count < MaxTasks
      /\ ShuttingDown => LateSpawns
      /\ count' = count + 1
      /\ state' = [state EXCEPT ![count + 1] = "PENDING"]
      /\ queue' = q
      /\ awake' = Notified
      /\ MaybeAddWorker(q, blocked, IF count = 0 THEN NWorkers ELSE 0)
      /\ UNCHANGED <<lockVars, cancelRequested, errorText, observed, group, stopping, idle, exited,
                     blocked, threadVars, exit>>

StartWait(k, for, on) ==
  /\ at' = [at EXCEPT ![k] = IF on = <<>> THEN "after" ELSE "note"]
  /\ wait' = [wait EXCEPT ![k] = [NoWait EXCEPT !.for = for, !.on = on]]
  /\ UNCHANGED <<lockVars, taskVars, poolVars, onMain>>

WaitFor(k, for, h) ==
  /\ for \in {"wait", "join"}
  /\ Calling(k, for)
  /\ NullHandle(h) \/ (Handle(h) /\ StartWait(k, for, <<h>>))

GroupJoin(k) ==
  /\ Calling(k, "group")
  /\ StartWait(k, "group", group)
  /\ UNCHANGED exit

GroupAdd(k, h) ==
  /\ Calling(k, "add")
  /\ \/ NullHandle(h)
     \/ /\ Handle(h)
        /\ group' = Append(group, h)
        /\ UNCHANGED <<lockVars, count, state, cancelRequested, errorText, observed, poolVars,
                       threadVars>>

(* Mutant of Cancel: a finished task is marked, too. *)
CancelAlways(k, h) ==
  /\ Calling(k, "cancel")
  /\ Handle(h)
  /\ cancelRequested' = [cancelRequested EXCEPT ![h] = TRUE]
  /\ UNCHANGED <<lockVars, count, state, errorText, observed, group, poolVars, threadVars>>

Cancel(k, h) ==
  /\ Calling(k, "cancel")
  /\ \/ NullHandle(h)
     \/ /\ Handle(h)
        /\ cancelRequested' = [cancelRequested EXCEPT ![h] = @ \/ state[h] \notin Finished]
        /\ UNCHANGED <<lockVars, count, state, errorText, observed, group, poolVars, threadVars>>

(* STATUS and ERRORTEXT: whoever reads an error has observed it. *)
Read(k, op, h) ==
  /\ op \in {"status", "error"}
  /\ Calling(k, op)
  /\ Handle(h)
  /\ observed' = [observed EXCEPT ![h] =
                    @ \/ IF op = "status" THEN state[h] \in Failed ELSE errorText[h] # ""]
  /\ UNCHANGED <<lockVars, count, state, cancelRequested, errorText, group, poolVars, threadVars>>

(* The first error text of a task stays; then its body returns. *)
FailWith(t, text) ==
  /\ t # Main
  /\ errorText' = [errorText EXCEPT ![t] = IF @ = "" THEN text ELSE @]
  /\ at' = [at EXCEPT ![t] = "return"]
  /\ UNCHANGED <<lockVars, count, state, cancelRequested, observed, group, poolVars, wait, onMain,
                 exit>>

Throw(t) == Calling(t, "throw") /\ FailWith(t, "THROW")

CancelPoint(t) == Calling(t, "point") /\ t # Main /\ cancelRequested[t] /\ FailWith(t, "CANCELLED")

LockEnter(k, ids, mode) ==
  /\ Calling(k, mode)
  /\ Enter(k, ids, mode)
  /\ IF call'[k] # NoCall THEN BlockBegin(k, blocked)
                          ELSE UNCHANGED <<blocked, extra, looping>>
  /\ UNCHANGED <<taskVars, queue, stopping, idle, awake, exited, threadVars, exit>>

LockWake(k) ==
  /\ Alive
  /\ at[k] = "user"
  /\ Wake(k)
  /\ IF call'[k] # NoCall THEN BlockBegin(k, blocked - IsWorker(k))
                          ELSE blocked' = blocked - IsWorker(k) /\ UNCHANGED <<extra, looping>>
  /\ UNCHANGED <<taskVars, queue, stopping, idle, awake, exited, threadVars, left, exit>>

LockLeave(k) ==
  /\ Alive
  /\ at[k] = "user"
  /\ LeaveAuto(k) \/ \E mark \in 0..Len(expl[k]) : ReleaseTo(k, mark)
  /\ UNCHANGED <<taskVars, poolVars, threadVars, left, exit>>

-----------------------------------------------------------------------------
Init ==
  /\ LockInit
  /\ count = 0
  /\ state = [t \in Tasks |-> "NONE"]
  /\ cancelRequested = [t \in Tasks |-> FALSE]
  /\ errorText = [t \in Tasks |-> ""]
  /\ observed = [t \in Tasks |-> FALSE]
  /\ group = <<>>
  /\ queue = <<>>
  /\ stopping = FALSE
  /\ idle = 0 /\ awake = 0 /\ looping = 0 /\ exited = 0 /\ extra = 0 /\ blocked = 0
  /\ at = [k \in Keys |-> IF k = Main THEN "user" ELSE "queued"]
  /\ wait = [k \in Keys |-> NoWait]
  /\ onMain = {Main}
  /\ left = [k \in Keys |-> IF k = Main THEN MainOps ELSE TaskOps]
  /\ exit = "none"

WorkerStep == WorkerTake \/ WorkerSleep \/ WorkerExit

RunStep(t) == Begin(t) \/ BeginCancelled(t) \/ EndBody(t) \/ Publish(t)

WaitStep(k) ==
  \/ Note(k) \/ Check(k) \/ FoundFinished(k) \/ TakeToHelp(k) \/ Sleep(k) \/ Resume(k)
  \/ Help(k) \/ Renote(k) \/ Clear(k) \/ Waited(k) \/ Joins(k)

ExitStep == Shutdown \/ (\E normal \in ExitModes : Snapshot(normal)) \/ Stop \/ Reap

CallStep(k) ==
  \/ Spawn(k) \/ GroupJoin(k) \/ LockWake(k) \/ LockLeave(k)
  \/ \E h \in Tasks : \/ GroupAdd(k, h) \/ Cancel(k, h)
                      \/ \E op \in Ops : WaitFor(k, op, h) \/ Read(k, op, h)
  \/ \E ids \in SUBSET Locks, mode \in Modes : LockEnter(k, ids, mode)

(* What the thread on top of which k runs does next. *)
KeyStep(k) == WaitStep(k) \/ CallStep(k)
TaskStep(t) == RunStep(t) \/ Throw(t) \/ CancelPoint(t) \/ KeyStep(t)

Exited == ~Alive /\ UNCHANGED vars

Next ==
  \/ WorkerStep
  \/ \E t \in Tasks : TaskStep(t)
  \/ KeyStep(Main)
  \/ ExitStep
  \/ Exited

Spec == Init /\ [][Next]_vars

(* The operating system runs every thread that can run, and wakes every      *)
(* thread that was notified.  A task ends: its calls are bounded.            *)
FairSpec ==
  /\ Spec
  /\ WF_vars(WorkerStep)
  /\ \A t \in Tasks : WF_vars(TaskStep(t))
  /\ WF_vars(KeyStep(Main))
  /\ WF_vars(ExitStep)

-----------------------------------------------------------------------------
(* Properties *)

Ats == {"queued", "begin", "user", "return", "publish", "over", "note", "check", "decide", "help",
        "helping", "renote", "sleep", "awake", "clear", "after", "snapshot", "reap"}

PoolTypeOK ==
  /\ LockTypeOK
  /\ count \in 0..MaxTasks
  /\ state \in [Tasks -> States]
  /\ cancelRequested \in [Tasks -> BOOLEAN]
  /\ errorText \in [Tasks -> {"", "CANCELLED", "THROW"}]
  /\ observed \in [Tasks -> BOOLEAN]
  /\ group \in Seq(Tasks)
  /\ queue \in Seq(Tasks)
  /\ stopping \in BOOLEAN
  /\ idle \in Nat /\ awake \in Nat /\ looping \in Nat
  /\ exited \in Nat /\ extra \in Nat /\ blocked \in Nat
  /\ at \in [Keys -> Ats]
  /\ wait \in [Keys -> [for : {"none", "wait", "join", "group", "shutdown", "clean", "unread"},
                        on : Seq(Tasks), i : Nat, help : BOOLEAN, run : Keys]]
  /\ onMain \in SUBSET Keys
  /\ left \in [Keys -> Nat]
  /\ exit \in {"none", "clean", "unread", "task failed", "null handle"}

(* Tasks that a worker took from the queue itself, under which it may be    *)
(* helping others.                                                          *)
Started == {t \in Tasks : at[t] \notin {"queued", "over"}}
Roots == {t \in Started : Hosts(t) = {} /\ at[t] # "queued"}
Asleep == {k \in Keys : at[k] \in {"sleep", "awake"} \/ call[k] # NoCall}

(* No worker is lost or counted twice: each one is idle, about to look at    *)
(* the queue, gone, or at the bottom of exactly one chain of tasks; and      *)
(* blockedWorkers, incremented and decremented in four places, is the number *)
(* of workers whose chain sleeps.                                            *)
WorkersAccounted ==
  Alive => /\ count > 0 => idle + looping + exited + Cardinality(Roots) = NWorkers + extra
           /\ blocked = Cardinality(Asleep \ onMain)

(* maybe_add_worker_locked: work is never left in the queue while every      *)
(* worker sleeps on a lock or a task.                                        *)
CompensationKeepsUp ==
  queue # <<>> /\ ~stopping => idle > 0 \/ blocked < NWorkers + extra

(* notify_one in SPAWN loses no work: if a worker sleeps on the queue, each  *)
(* queued task has a worker that was woken for it.                           *)
NoLostWakeup == awake < idle /\ ~stopping => Len(queue) <= awake

(* Compensation is bounded by the program: there are never more threads than *)
(* tasks, beyond the configured workers.                                     *)
ThreadsBounded == extra > 0 => NWorkers + extra <= count

(* S-146: a waiter that holds a lock never runs another task on its stack    *)
(* (that task might want the lock).                                          *)
HelperHoldsNothing == \A k \in Keys : at[k] \in {"help", "helping"} => held[k] = 0

InQueue(t) == \E i \in 1..Len(queue) : queue[i] = t
Helps(k, t) == at[k] = "help" /\ wait[k].run = t

(* A task runs at most once, on one thread: until it begins it is either in  *)
(* the queue, once, or in the hands of one waiter.                           *)
RunsOnce ==
  /\ \A i, j \in 1..Len(queue) : queue[i] = queue[j] => i = j
  /\ \A j, k \in Keys, t \in Tasks : Helps(j, t) /\ Helps(k, t) => j = k
  /\ \A t \in 1..count :
       /\ at[t] = "queued" => state[t] = "PENDING"
       /\ at[t] = "queued" <=> (InQueue(t) # \E k \in Keys : Helps(k, t))

(* What a task ended with never changes, nor does its error text: a late     *)
(* CANCEL, THROW or cancellation point cannot reach it.                      *)
OutcomeStable ==
  [][\A t \in Tasks : state[t] \in Finished =>
        /\ state'[t] = state[t]
        /\ errorText'[t] = errorText[t]
        /\ cancelRequested'[t] = cancelRequested[t]]_vars

(* A task that others may see finished owns no lock and waits for nothing.   *)
FinishedHoldsNothing ==
  \A t \in Tasks : state[t] \in Finished =>
     held[t] = 0 /\ expl[t] = <<>> /\ edge[t] = NoEdge /\ call[t] = NoCall

(* K5: the program ends after all its tasks, also those spawned meanwhile.   *)
AllFinishedAtExit ==
  exit \in {"clean", "unread"} =>
     /\ queue = <<>>
     /\ \A t \in 1..count : state[t] \in Finished

(* K5: the exit code tells whether a task failed and nobody has looked. *)
UnreadErrors == \E t \in 1..count : state[t] = "ERROR" /\ ~observed[t]
UnreadReported == exit = "clean" => ~UnreadErrors
ExitCodeExact == exit \in {"clean", "unread"} => (exit = "unread" <=> UnreadErrors)

(* WAIT, JOIN and TASKGROUP.JOIN return when every task they name has        *)
(* finished, whoever ran it, and the last two only if none has failed.       *)
WaitReturnsFinished ==
  [][\A k \in Keys : at[k] = "after" /\ at'[k] = "user" =>
        \A i \in 1..Len(wait[k].on) :
           state[wait[k].on[i]] \in IF wait[k].for = "wait" THEN Finished ELSE {"DONE"}]_vars

(* Every run ends, by the end of the program or by a diagnosis: nobody waits *)
(* for a notification that was sent before, or for work that nobody can run. *)
Terminates == <>~Alive

(* TASK_WAIT_CYCLE and LOCK_DEADLOCK as the program sees them: whom a task   *)
(* waits for, by JOIN and WAIT or for a lock, the tasks it runs meanwhile    *)
(* left out.                                                                 *)
JoinTarget(k) ==
  IF wait[k].for \in {"wait", "join", "group", "shutdown"} /\ at[k] # "after" THEN Target(k) ELSE NoKey
UserSucc(k) ==
  IF edge[k].kind = "lock" THEN owner[edge[k].lock] ELSE JoinTarget(k)

CycleIsReal ==
  /\ fatal = "TASK_WAIT_CYCLE" => Circle(JoinTarget)
  /\ fatal = "LOCK_DEADLOCK" => Circle(UserSucc)

=============================================================================
