--------------------------- MODULE TaskPoolProofs ---------------------------
(* Theorems about TaskPool, for any number of tasks, workers and locks and   *)
(* for every program.  The pool drives the lock table as LockSpec allows, so *)
(* what is proved in LockTableProofs holds of the program as a whole.  First  *)
(* the tasks and their wakeups, then the numbers: the worker threads, of which *)
(* none is lost or counted twice, those that compensate for sleeping ones, and *)
(* the end of the program, which joins them all.                             *)
EXTENDS TaskPool, LockTableProofs

-----------------------------------------------------------------------------
(* The inductive invariant *)

Waiting == {"note", "check", "decide", "help", "helping", "renote", "sleep", "awake", "clear"}
Noted == {"check", "decide", "sleep", "awake", "clear"}

Waits == [for : {"none", "wait", "join", "group", "shutdown", "clean", "unread"},
          on : Seq(Tasks), i : Nat, help : BOOLEAN, run : Keys]

PoolTypes ==
  /\ count \in 0..MaxTasks
  /\ state \in [Tasks -> States]
  /\ cancelRequested \in [Tasks -> BOOLEAN]
  /\ errorText \in [Tasks -> {"", "CANCELLED", "THROW"}]
  /\ group \in Seq(Tasks)
  /\ queue \in Seq(Tasks)
  /\ stopping \in BOOLEAN
  /\ idle \in Nat /\ awake \in 0..idle
  /\ at \in [Keys -> Ats]
  /\ wait \in [Keys -> Waits]

HoldsNothing(k) == held[k] = 0 /\ expl[k] = <<>> /\ edge[k] = NoEdge /\ call[k] = NoCall

(* A waiter is at one of the tasks it waits for, those before it have        *)
(* finished, the wait graph shows the one it is at, and a waiter that may     *)
(* help holds no lock.                                                       *)
WaitOK(k) ==
  /\ at[k] \in Waiting => wait[k].i \in 1..Len(wait[k].on)
  /\ at[k] \in {"help", "helping"} => wait[k].run \in Tasks
  /\ at[k] \in Noted => edge[k] = TaskEdge(Target(k))
  /\ at[k] = "clear" => state[Target(k)] \in Finished
  /\ \A i \in 1..Len(wait[k].on) :
       at[k] = "after" \/ (at[k] \in Waiting /\ i < wait[k].i) => state[wait[k].on[i]] \in Finished
  /\ at[k] \in {"help", "helping"} \/ (at[k] = "decide" /\ wait[k].help) => held[k] = 0

(* A task is seen finished after its body has ended, and a task whose body   *)
(* has ended or not begun holds nothing.                                     *)
DoneOK(t) ==
  /\ done[t] => at[t] \in {"publish", "over"}
  /\ at[t] = "publish" => done[t]
  /\ state[t] \in Finished => done[t] /\ at[t] = "over"
  /\ done[t] \/ at[t] \in {"queued", "begin"} => HoldsNothing(t)

QueueOK ==
  /\ \A i, j \in 1..Len(queue) : queue[i] = queue[j] => i = j
  /\ \A i \in 1..Len(queue) : queue[i] \in 1..count /\ at[queue[i]] = "queued"
  /\ \A k \in Keys : at[k] = "help" =>
       wait[k].run \in 1..count /\ at[wait[k].run] = "queued" /\ ~InQueue(wait[k].run)
  /\ \A j, k \in Keys : at[j] = "help" /\ at[k] = "help" /\ wait[j].run = wait[k].run => j = k
  /\ \A t \in 1..count : at[t] = "queued" =>
       state[t] = "PENDING" /\ (InQueue(t) \/ \E k \in Keys : Helps(k, t))
  /\ \A t \in Tasks : t > count => at[t] = "queued"

Shape ==
  /\ \A k \in Keys : WaitOK(k)
  /\ \A t \in Tasks : DoneOK(t)
  /\ ~done[Main]
  /\ QueueOK
  /\ NoLostWakeup

Inv == TypeInv /\ PoolTypes /\ Shape

(* What every step does. *)
OutcomesKept ==
  \A t \in Tasks : state[t] \in Finished =>
     /\ state'[t] = state[t]
     /\ errorText'[t] = errorText[t]
     /\ cancelRequested'[t] = cancelRequested[t]

ReturnsRight(k) ==
  at[k] = "after" /\ at'[k] = "user" =>
     \A i \in 1..Len(wait[k].on) :
        state[wait[k].on[i]] \in IF wait[k].for = "wait" THEN Finished ELSE {"DONE"}

Good ==
  /\ [LockNext]_lockVars
  /\ PoolTypes'
  /\ Shape'
  /\ OutcomesKept
  /\ \A k \in Keys : ReturnsRight(k)

LEMMA TaskKeys == Tasks \subseteq Keys /\ Main \in Keys /\ Main \notin Tasks /\ Tasks \subseteq Nat
BY TasksAssumption DEF Tasks

LEMMA TaskSeq == \A s \in Seq(Tasks) : Len(s) \in Nat /\ \A i \in 1..Len(s) : s[i] \in Tasks
OBVIOUS

LEMMA CountTasks ==
  ASSUME Inv PROVE count \in Nat /\ 1..count \subseteq Tasks /\ 1..count \subseteq Keys
<1>1. count \in 0..MaxTasks /\ MaxTasks \in Nat
  BY TasksAssumption DEF Inv, PoolTypes
<1>2. 1..count \subseteq Tasks
  BY <1>1 DEF Tasks
<1> QED
  BY <1>1, <1>2, TaskKeys

-----------------------------------------------------------------------------
(* Steps of one key *)

RowKept(j) ==
  held'[j] = held[j] /\ expl'[j] = expl[j] /\ edge'[j] = edge[j] /\ call'[j] = call[j] /\ done'[j] = done[j]

Kept(j) == RowKept(j) /\ at'[j] = at[j] /\ wait'[j] = wait[j]

(* Only k moves, and not into, out of or around the queue. *)
Local(k) ==
  /\ UNCHANGED <<state, count, queue>>
  /\ NoLostWakeup'
  /\ at[k] \notin {"queued", "begin", "help"}
  /\ at'[k] \notin {"queued", "begin", "help"}
  /\ \A j \in Keys : j # k => Kept(j)

LEMMA WaitOKKept ==
  ASSUME Inv, NEW j \in Keys, Kept(j), OutcomesKept
  PROVE  WaitOK(j)'
<1> DEFINE w == wait[j]
<1>1. w \in Waits /\ WaitOK(j)
  BY DEF Inv, PoolTypes, Shape
<1>2. \A i \in 1..Len(w.on) : w.on[i] \in Tasks
  BY <1>1 DEF Waits
<1>3. at[j] \in Waiting => Target(j) \in Tasks
  BY <1>1, <1>2 DEF WaitOK, Target
<1>4. Target(j)' = Target(j)
  BY DEF Kept, Target
<1>5. \A t \in Tasks : state[t] \in Finished => state'[t] \in Finished
  BY DEF OutcomesKept
<1>6. at[j] = "clear" => state'[Target(j)] \in Finished
  BY <1>1, <1>3, <1>5 DEF WaitOK, Waiting
<1>7. \A i \in 1..Len(w.on) :
        at[j] = "after" \/ (at[j] \in Waiting /\ i < w.i) => state'[w.on[i]] \in Finished
  BY <1>1, <1>2, <1>5 DEF WaitOK
<1> QED
  BY <1>1, <1>4, <1>6, <1>7 DEF WaitOK, Kept, RowKept

LEMMA QueueKept ==
  ASSUME Inv, UNCHANGED <<queue, count>>,
         \A k \in Keys : at'[k] = "queued" <=> at[k] = "queued",
         \A k \in Keys : at'[k] = "help" <=> at[k] = "help",
         \A k \in Keys : at[k] = "help" => wait'[k] = wait[k],
         \A t \in Tasks : at[t] = "queued" => state'[t] = state[t]
  PROVE  QueueOK'
<1>1. QueueOK /\ queue \in Seq(Tasks) /\ count \in 0..MaxTasks
  BY DEF Inv, Shape, PoolTypes
<1>2. 1..count \subseteq Tasks
  BY <1>1, TasksAssumption DEF Tasks
<1>3. \A t : InQueue(t)' = InQueue(t)
  BY DEF InQueue
<1>4. \A t : \A k \in Keys : Helps(k, t)' <=> Helps(k, t)
  BY DEF Helps
<1>5. \A t \in 1..count' : at'[t] = "queued" =>
        state'[t] = "PENDING" /\ (InQueue(t)' \/ \E k \in Keys : Helps(k, t)')
  BY <1>1, <1>2, <1>3, <1>4, TaskKeys DEF QueueOK
<1>6. \A k \in Keys : at'[k] = "help" =>
        wait'[k].run \in 1..count' /\ at'[wait'[k].run] = "queued" /\ ~InQueue(wait[k].run)'
  BY <1>1, <1>2, <1>3, TaskKeys DEF QueueOK
<1>7. \A i \in 1..Len(queue') : queue'[i] \in 1..count' /\ at'[queue'[i]] = "queued"
  BY <1>1, <1>2, TaskKeys DEF QueueOK
<1>8. \A j, k \in Keys : at'[j] = "help" /\ at'[k] = "help" /\ wait'[j].run = wait'[k].run => j = k
  BY <1>1 DEF QueueOK
<1>9. \A t \in Tasks : t > count' => at'[t] = "queued"
  BY <1>1, TaskKeys DEF QueueOK
<1> QED
  BY <1>1, <1>5, <1>6, <1>7, <1>8, <1>9 DEF QueueOK

LEMMA LocalStep ==
  ASSUME Inv, NEW k \in Keys, Local(k), ~done'[Main],
         WaitOK(k)', k \in Tasks => DoneOK(k)'
  PROVE  Shape'
<1>1. ASSUME NEW j \in Keys PROVE WaitOK(j)'
  <2>1. CASE j = k
    BY <2>1
  <2>2. CASE j # k
    <3>1. Kept(j) /\ state' = state
      BY <2>2 DEF Local
    <3>2. WaitOK(j)
      BY DEF Inv, Shape
    <3> QED
      BY <3>1, <3>2 DEF Kept, RowKept, WaitOK, Target
  <2> QED
    BY <2>1, <2>2
<1>2. ASSUME NEW t \in Tasks PROVE DoneOK(t)'
  <2>1. CASE t = k
    BY <2>1
  <2>2. CASE t # k
    <3>1. Kept(t) /\ state' = state /\ DoneOK(t)
      BY <2>2, TaskKeys DEF Local, Inv, Shape
    <3> QED
      BY <3>1 DEF Kept, RowKept, DoneOK, HoldsNothing
  <2> QED
    BY <2>1, <2>2
<1>3. QueueOK'
  <2>1. /\ \A j \in Keys : at'[j] = "queued" <=> at[j] = "queued"
        /\ \A j \in Keys : at'[j] = "help" <=> at[j] = "help"
        /\ \A j \in Keys : at[j] = "help" => wait'[j] = wait[j]
        /\ state' = state /\ count' = count /\ queue' = queue
    BY DEF Local, Kept
  <2> QED
    BY <2>1, QueueKept
<1> QED
  BY <1>1, <1>2, <1>3 DEF Shape, Local

-----------------------------------------------------------------------------
(* The rows of the lock table a call changes are those of its key *)

LEMMA AttemptRows ==
  ASSUME TypeInv, NEW k \in Keys, NEW ids, NEW mode \in Modes, Attempt(k, ids, mode),
         UNCHANGED done, NEW j \in Keys, j # k
  PROVE  RowKept(j)
<1>1. CASE SelfDeadlock(k, ids, mode)
  BY <1>1 DEF SelfDeadlock, tableVars, RowKept
<1>2. CASE Take(k, ids, mode)
  BY <1>2 DEF Take, RowKept, TypeInv, LockTypeOK
<1>3. CASE Block(k, ids, mode)
  BY <1>3 DEF Block, RollBack, RowKept, TypeInv, LockTypeOK
<1> QED
  BY <1>1, <1>2, <1>3 DEF Attempt

LEMMA LeaveRows ==
  ASSUME TypeInv, NEW k \in Keys, LeaveAuto(k) \/ \E mark \in 0..Len(expl[k]) : ReleaseTo(k, mark),
         NEW j \in Keys, j # k
  PROVE  RowKept(j)
<1>1. ASSUME NEW ids, NEW mode, Release(k, ids, mode) PROVE held'[j] = held[j]
  BY <1>1 DEF Release, TypeInv, LockTypeOK
<1>2. CASE LeaveAuto(k)
  BY <1>1, <1>2 DEF LeaveAuto, RowKept
<1>3. ASSUME NEW mark \in 0..Len(expl[k]), ReleaseTo(k, mark) PROVE RowKept(j)
  BY <1>1, <1>3 DEF ReleaseTo, RowKept, TypeInv, LockTypeOK
<1> QED
  BY <1>2, <1>3

LEMMA ReleaseAllRows ==
  ASSUME TypeInv, NEW k \in Keys, ReleaseAll(k)
  PROVE  /\ held'[k] = 0 /\ expl'[k] = <<>> /\ edge'[k] = NoEdge /\ call' = call
         /\ \A j \in Keys : j # k =>
              held'[j] = held[j] /\ expl'[j] = expl[j] /\ edge'[j] = edge[j]
BY DEF ReleaseAll, TypeInv, LockTypeOK

(* Only locks, no task state. *)
LEMMA LockCallKeepsDone ==
  ASSUME TypeInv, NEW k \in Keys,
         \/ \E ids \in SUBSET Locks, mode \in Modes : Enter(k, ids, mode)
         \/ Wake(k)
         \/ LeaveAuto(k)
         \/ \E mark \in 0..Len(expl[k]) : ReleaseTo(k, mark)
  PROVE  /\ done' = done
         /\ LockNext
         /\ \A j \in Keys : j # k => RowKept(j)
<1>1. CASE \E ids \in SUBSET Locks, mode \in Modes : Enter(k, ids, mode)
  BY <1>1, AttemptRows DEF Enter, LockNext, LockStep
<1>2. CASE Wake(k)
  <2>1. call[k].mode \in Modes
    BY <1>2 DEF Wake, TypeInv, LockTypeOK, Calls
  <2> QED
    BY <1>2, <2>1, AttemptRows DEF Wake, LockNext, LockStep
<1>3. CASE LeaveAuto(k)
  BY <1>3, LeaveRows DEF LeaveAuto, LockNext, LockStep
<1>4. CASE \E mark \in 0..Len(expl[k]) : ReleaseTo(k, mark)
  BY <1>4, LeaveRows DEF ReleaseTo, LockNext, LockStep
<1> QED
  BY <1>1, <1>2, <1>3, <1>4

-----------------------------------------------------------------------------
(* Steps of a key that runs: its own row of the tables is all that changes   *)

LEMMA NotDone ==
  ASSUME Inv, NEW k \in Keys, at[k] \notin {"publish", "over"}
  PROVE  ~done[k]
BY TasksAssumption DEF Inv, Shape, DoneOK

LEMMA TargetTask ==
  ASSUME Inv, NEW k \in Keys, at[k] \in Waiting
  PROVE  Target(k) \in Tasks /\ wait[k].i \in 1..Len(wait[k].on)
<1>1. wait[k] \in Waits /\ wait[k].i \in 1..Len(wait[k].on)
  BY DEF Inv, PoolTypes, Shape, WaitOK
<1>2. wait[k].on \in Seq(Tasks)
  BY <1>1 DEF Waits
<1> QED
  BY <1>1, <1>2 DEF Target

LEMMA RunningStep ==
  ASSUME Inv, NEW k \in Keys, [LockNext]_lockVars, PoolTypes', OutcomesKept, Local(k), WaitOK(k)',
         done' = done, at[k] \notin {"publish", "over"}, at'[k] # "publish", ReturnsRight(k)
  PROVE  Good
<1>1. ~done[k] /\ ~done'[Main]
  BY NotDone DEF Inv, Shape
<1>2. ASSUME k \in Tasks PROVE DoneOK(k)'
  <2>1. DoneOK(k) /\ state' = state /\ at'[k] \notin {"queued", "begin"}
    BY <1>2 DEF Inv, Shape, Local
  <2> QED
    BY <1>1, <2>1 DEF DoneOK
<1>3. Shape'
  BY <1>1, <1>2, LocalStep
<1>4. \A j \in Keys : ReturnsRight(j)
  BY DEF Local, Kept, ReturnsRight
<1> QED
  BY <1>3, <1>4 DEF Good

(* k only moves on; the lock table stays as it is. *)
LEMMA MoveStep ==
  ASSUME Inv, NEW k \in Keys, NEW to \in Ats \ {"queued", "begin", "help", "publish"},
         at[k] \notin {"queued", "begin", "help", "publish", "over"},
         at' = [at EXCEPT ![k] = to],
         NEW w \in Waits, wait' = [wait EXCEPT ![k] = w],
         UNCHANGED lockVars, UNCHANGED <<count, state, group, queue, idle>>,
         errorText' \in [Tasks -> {"", "CANCELLED", "THROW"}],
         awake' \in 0..idle, stopping' \in BOOLEAN, NoLostWakeup',
         cancelRequested' \in [Tasks -> BOOLEAN], OutcomesKept, ReturnsRight(k), WaitOK(k)'
  PROVE  Good
<1>1. PoolTypes'
  BY DEF Inv, PoolTypes
<1>2. Local(k)
  <2>1. \A j \in Keys : j # k => Kept(j)
    BY DEF Kept, RowKept, lockVars, tableVars, waitVars, Inv, PoolTypes
  <2> QED
    BY <2>1 DEF Local, Inv, PoolTypes
<1>3. done' = done /\ at'[k] = to
  BY DEF lockVars, Inv, PoolTypes
<1> QED
  BY <1>1, <1>2, <1>3, RunningStep

LEMMA NoteGood ==
  ASSUME Inv, NEW k \in Keys, NEW t \in Tasks, NoteWaitTask(k, t),
         at[k] \in {"note", "renote"}, t = Target(k),
         at' = [at EXCEPT ![k] = "check"],
         NEW r \in Keys, wait' = [wait EXCEPT ![k] = [@ EXCEPT !.run = r]],
         UNCHANGED <<taskVars, poolVars>>
  PROVE  Good
<1>1. ~done[k]
  BY NotDone
<1>2. LockNext /\ edge' = [edge EXCEPT ![k] = TaskEdge(t)] /\ UNCHANGED <<held, expl, call, done>>
  BY <1>1, TaskKeys DEF NoteWaitTask, LockNext, LockStep, Join, tableVars
<1>3. wait[k] \in Waits /\ wait'[k] = [wait[k] EXCEPT !.run = r] /\ wait'[k] \in Waits
  BY DEF Inv, PoolTypes, Waits
<1>4. PoolTypes'
  BY <1>3, Zenon DEF Inv, PoolTypes, taskVars, poolVars, Ats
<1>5. Local(k)
  <2>1. NoLostWakeup'
    BY DEF Inv, Shape, NoLostWakeup, poolVars
  <2>2. \A j \in Keys : j # k => Kept(j)
    BY <1>2 DEF Kept, RowKept, Inv, PoolTypes, TypeInv, LockTypeOK
  <2> QED
    BY <2>1, <2>2 DEF Local, Inv, PoolTypes, taskVars, poolVars
<1>6. WaitOK(k)'
  <2>1. WaitOK(k) /\ Target(k)' = t /\ edge'[k] = TaskEdge(t) /\ at'[k] = "check" /\ state' = state
    BY <1>2, <1>3 DEF Inv, Shape, Target, PoolTypes, TypeInv, LockTypeOK, taskVars, Waits
  <2> QED
    BY <1>3, <2>1 DEF WaitOK, Waiting, Noted, Waits
<1>7. OutcomesKept /\ ReturnsRight(k)
  BY DEF OutcomesKept, ReturnsRight, taskVars
<1> QED
  BY <1>2, <1>4, <1>5, <1>6, <1>7, RunningStep DEF Inv, PoolTypes

LEMMA StayStep ==
  ASSUME Inv, UNCHANGED lockVars, UNCHANGED <<count, state, queue, stopping, idle, awake, at, wait>>,
         UNCHANGED errorText, group' \in Seq(Tasks), cancelRequested' \in [Tasks -> BOOLEAN],
         OutcomesKept
  PROVE  Good
<1>1. PoolTypes'
  BY DEF Inv, PoolTypes
<1>2. Shape'
  <2>1. \A k \in Keys : WaitOK(k)'
    BY DEF Inv, Shape, WaitOK, Target, lockVars, tableVars, waitVars
  <2>2. \A t \in Tasks : DoneOK(t)'
    BY DEF Inv, Shape, DoneOK, HoldsNothing, lockVars, tableVars, waitVars
  <2>3. QueueOK'
    BY DEF Inv, Shape, QueueOK, InQueue, Helps
  <2>4. NoLostWakeup'
    BY DEF Inv, Shape, NoLostWakeup
  <2> QED
    BY <2>1, <2>2, <2>3, <2>4 DEF Inv, Shape, lockVars
<1>3. \A k \in Keys : ReturnsRight(k)
  BY DEF ReturnsRight
<1> QED
  BY <1>1, <1>2, <1>3 DEF Good

-----------------------------------------------------------------------------
(* Waiting for tasks *)

LEMMA SameWait ==
  ASSUME Inv, NEW k \in Keys, wait' = wait
  PROVE  wait[k] \in Waits /\ wait' = [wait EXCEPT ![k] = wait[k]]
BY DEF Inv, PoolTypes

LEMMA NoteInv ==
  ASSUME Inv, NEW k \in Keys, Note(k) PROVE Good
<1>1. /\ at[k] = "note" /\ at' = [at EXCEPT ![k] = "check"] /\ NoteWaitTask(k, Target(k))
      /\ UNCHANGED <<taskVars, poolVars, wait>>
  BY DEF Note, Moved
<1>2. Target(k) \in Tasks
  BY <1>1, TargetTask DEF Waiting
<1>3. wait[k].run \in Keys /\ wait' = [wait EXCEPT ![k] = [@ EXCEPT !.run = wait[k].run]]
  BY <1>1 DEF Inv, PoolTypes, Waits
<1> QED
  BY <1>1, <1>2, <1>3, NoteGood

LEMMA RenoteInv ==
  ASSUME Inv, NEW k \in Keys, Renote(k) PROVE Good
<1>1. /\ at[k] = "renote" /\ at' = [at EXCEPT ![k] = "check"] /\ NoteWaitTask(k, Target(k))
      /\ wait' = [wait EXCEPT ![k] = [@ EXCEPT !.run = Main]]
      /\ UNCHANGED <<taskVars, poolVars>>
  BY DEF Renote, Moved
<1>2. Target(k) \in Tasks
  BY <1>1, TargetTask DEF Waiting
<1> QED
  BY <1>1, <1>2, TaskKeys, NoteGood

LEMMA CheckInv ==
  ASSUME Inv, NEW k \in Keys, Check(k) PROVE Good
<1> DEFINE w == [wait[k] EXCEPT !.help = MayHelp(k)]
<1>1. /\ at[k] = "check" /\ at' = [at EXCEPT ![k] = "decide"]
      /\ wait' = [wait EXCEPT ![k] = w]
      /\ UNCHANGED <<lockVars, taskVars, poolVars>>
  BY DEF Check, Moved
<1>2. wait[k] \in Waits /\ w \in Waits /\ WaitOK(k)
  <2>1. wait[k] \in Waits /\ WaitOK(k)
    BY DEF Inv, PoolTypes, Shape
  <2>2. MayHelp(k) \in BOOLEAN
    BY DEF MayHelp
  <2> QED
    BY <2>1, <2>2 DEF Waits
<1>3. w.on = wait[k].on /\ w.i = wait[k].i /\ w.run = wait[k].run /\ w.help = (held[k] = 0 /\ entries = 0)
  BY <1>2 DEF Waits, MayHelp
<1>4. wait'[k] = w /\ at'[k] = "decide"
  BY <1>1 DEF Inv, PoolTypes
<1>5. WaitOK(k)'
  BY <1>1, <1>2, <1>3, <1>4 DEF WaitOK, Waiting, Noted, Target, lockVars, tableVars, waitVars, taskVars
<1>6. OutcomesKept /\ ReturnsRight(k) /\ NoLostWakeup'
  BY <1>1 DEF OutcomesKept, ReturnsRight, NoLostWakeup, Inv, Shape, taskVars, poolVars
<1> QED
  BY <1>1, <1>2, <1>5, <1>6, MoveStep DEF Inv, PoolTypes, Ats, taskVars, poolVars

(* Steps after which the waiter is elsewhere in the same wait. *)
LEMMA WaitMove ==
  ASSUME Inv, NEW k \in Keys, NEW to \in {"clear", "sleep", "check"},
         at[k] \in {"decide", "sleep", "awake"}, at' = [at EXCEPT ![k] = to],
         to = "clear" => state[Target(k)] \in Finished,
         UNCHANGED <<lockVars, taskVars, queue, stopping, idle, awake, wait>>
  PROVE  Good
<1>1. wait[k] \in Waits /\ WaitOK(k) /\ at'[k] = to
  BY DEF Inv, PoolTypes, Shape
<1>2. WaitOK(k)'
  BY <1>1 DEF WaitOK, Waiting, Noted, Target, lockVars, tableVars, waitVars, taskVars
<1>3. OutcomesKept /\ ReturnsRight(k) /\ NoLostWakeup'
  BY <1>1 DEF OutcomesKept, ReturnsRight, NoLostWakeup, Inv, Shape, taskVars
<1> QED
  BY <1>1, <1>2, <1>3, SameWait, MoveStep DEF Inv, PoolTypes, Ats, taskVars

LEMMA FoundFinishedInv ==
  ASSUME Inv, NEW k \in Keys, FoundFinished(k) PROVE Good
BY WaitMove DEF FoundFinished, Moved, poolVars

LEMMA SleepInv ==
  ASSUME Inv, NEW k \in Keys, Sleep(k) PROVE Good
BY WaitMove DEF Sleep, Moved

LEMMA ResumeInv ==
  ASSUME Inv, NEW k \in Keys, Resume(k) PROVE Good
BY WaitMove DEF Resume, Moved

LEMMA ClearInv ==
  ASSUME Inv, NEW k \in Keys, Clear(k) PROVE Good
<1> DEFINE last == wait[k].i = Len(wait[k].on)
           w == IF last THEN [wait[k] EXCEPT !.help = FALSE]
                        ELSE [wait[k] EXCEPT !.i = @ + 1, !.help = FALSE]
           to == IF last THEN "after" ELSE "note"
<1>1. at[k] = "clear" /\ ClearWait(k) /\ UNCHANGED <<taskVars, poolVars>>
  BY DEF Clear, Moved
<1>2. wait[k] \in Waits /\ WaitOK(k) /\ wait[k].i \in 1..Len(wait[k].on) /\ Target(k) \in Tasks
  BY <1>1, TargetTask DEF Inv, PoolTypes, Shape, Waiting
<1>3. at' = [at EXCEPT ![k] = to] /\ wait' = [wait EXCEPT ![k] = w]
  <2>1. CASE last
    BY <1>2, <2>1 DEF Clear, Moved
  <2>2. CASE ~last
    BY <1>2, <2>2 DEF Clear, Moved
  <2> QED
    BY <2>1, <2>2
<1>4. /\ w \in Waits /\ w.on = wait[k].on /\ at'[k] = to /\ wait'[k] = w
      /\ ~last => w.i = wait[k].i + 1 /\ w.i \in 1..Len(w.on)
  <2>1. at'[k] = to /\ wait'[k] = w
    BY <1>3 DEF Inv, PoolTypes
  <2>2. CASE last
    BY <1>2, <2>1, <2>2 DEF Waits
  <2>3. CASE ~last
    <3>1. wait[k].i + 1 \in 1..Len(wait[k].on)
      BY <1>2, <2>3 DEF Waits
    <3> QED
      <4>1. w = [wait[k] EXCEPT !.i = wait[k].i + 1, !.help = FALSE]
        BY <1>2, <2>3 DEF Waits
      <4>2. wait[k].i + 1 \in Nat
        BY <3>1
      <4>3. /\ w \in Waits /\ w.on = wait[k].on /\ w.i = wait[k].i + 1
        BY <1>2, <4>1, <4>2 DEF Waits
      <4> QED
        BY <2>1, <2>3, <3>1, <4>3
  <2> QED
    BY <2>1, <2>2, <2>3
<1>5. edge[k] = TaskEdge(Target(k)) /\ state[Target(k)] \in Finished /\ ~done[k]
  BY <1>1, <1>2, NotDone DEF WaitOK, Noted
<1>6. /\ LockNext /\ edge' = [edge EXCEPT ![k] = NoEdge]
      /\ UNCHANGED <<held, expl, call, done>>
  <2>1. done[Target(k)] /\ edge[k].kind = "task" /\ edge[k].task = Target(k)
    BY <1>2, <1>5 DEF Inv, Shape, DoneOK, TaskEdge
  <2> QED
    BY <1>1, <2>1 DEF ClearWait, LockNext, LockStep, Joined, tableVars
<1>7. PoolTypes'
  BY <1>1, <1>3, <1>4 DEF Inv, PoolTypes, taskVars, poolVars, Ats
<1>8. Local(k)
  <2>1. NoLostWakeup'
    BY <1>1 DEF Inv, Shape, NoLostWakeup, poolVars
  <2>2. \A j \in Keys : j # k => Kept(j)
    BY <1>3, <1>6 DEF Kept, RowKept, Inv, PoolTypes, TypeInv, LockTypeOK
  <2> QED
    BY <1>1, <1>4, <2>1, <2>2 DEF Local, taskVars, poolVars
<1>9. WaitOK(k)'
  <2>1. \A i \in 1..Len(w.on) : last \/ i < w.i => state'[w.on[i]] \in Finished
    <3> SUFFICES ASSUME NEW i \in 1..Len(wait[k].on), last \/ i < wait[k].i + 1
                 PROVE  state[wait[k].on[i]] \in Finished
      BY <1>1, <1>4 DEF taskVars
    <3>1. CASE i = wait[k].i
      BY <1>5, <3>1 DEF Target
    <3>2. CASE i < wait[k].i
      BY <1>1, <1>2, <3>2 DEF WaitOK, Waiting
    <3> QED
      BY <1>2, <3>1, <3>2 DEF Waits
  <2> QED
    BY <1>4, <2>1 DEF WaitOK, Waiting, Noted
<1>10. OutcomesKept /\ ReturnsRight(k)
  BY <1>1, <1>4 DEF OutcomesKept, ReturnsRight, taskVars
<1> QED
  BY <1>1, <1>4, <1>6, <1>7, <1>8, <1>9, <1>10, RunningStep

(* What a wait that starts, or is over, looks like. *)
LEMMA FreshWait ==
  ASSUME NEW k \in Keys, NEW w \in Waits, wait'[k] = w,
         \/ at'[k] \in {"user", "over", "return", "snapshot", "reap"}
         \/ at'[k] = "after" /\ w.on = <<>>
         \/ at'[k] = "note" /\ w.on # <<>> /\ w.i = 1
  PROVE  WaitOK(k)'
<1>1. w.on \in Seq(Tasks)
  BY DEF Waits
<1>2. w.on # <<>> => 1 \in 1..Len(w.on)
  BY <1>1
<1> QED
  BY <1>1, <1>2 DEF WaitOK, Waiting, Noted

LEMMA NoWaitType == NoWait \in Waits
<1>1. <<>> \in Seq(Tasks)
  OBVIOUS
<1> QED
  BY <1>1, TaskKeys DEF NoWait, Waits

(* All tasks a waiter named have finished when it is "after". *)
LEMMA AfterFinished ==
  ASSUME Inv, NEW k \in Keys, at[k] = "after"
  PROVE  \A i \in 1..Len(wait[k].on) : wait[k].on[i] \in Tasks /\ state[wait[k].on[i]] \in Finished
<1>1. wait[k] \in Waits /\ WaitOK(k)
  BY DEF Inv, PoolTypes, Shape
<1>2. wait[k].on \in Seq(Tasks)
  BY <1>1 DEF Waits
<1> QED
  BY <1>1, <1>2 DEF WaitOK

LEMMA WaitedInv ==
  ASSUME Inv, NEW k \in Keys, Waited(k) PROVE Good
<1>1. /\ at[k] = "after" /\ at' = [at EXCEPT ![k] = "user"] /\ wait[k].for = "wait"
      /\ wait' = [wait EXCEPT ![k] = NoWait] /\ UNCHANGED <<lockVars, taskVars, poolVars>>
  BY DEF Waited, Moved
<1>2. wait'[k] = NoWait /\ at'[k] = "user"
  BY <1>1 DEF Inv, PoolTypes
<1>3. WaitOK(k)'
  BY <1>2, NoWaitType, FreshWait
<1>4. OutcomesKept /\ ReturnsRight(k) /\ NoLostWakeup'
  BY <1>1, AfterFinished DEF OutcomesKept, ReturnsRight, NoLostWakeup, Inv, Shape, taskVars, poolVars
<1> QED
  BY <1>1, <1>3, <1>4, NoWaitType, MoveStep DEF Inv, PoolTypes, Ats, taskVars, poolVars

LEMMA JoinsInv ==
  ASSUME Inv, NEW k \in Keys, Joins(k) PROVE Good
<1>1. at[k] = "after" /\ wait[k].for \in {"join", "group"} /\ UNCHANGED <<lockVars, taskVars, poolVars>>
  BY DEF Joins, Moved
<1>2. CASE FailedOn(k) = {}
  <2>1. at' = [at EXCEPT ![k] = "user"] /\ wait' = [wait EXCEPT ![k] = NoWait]
    BY <1>2 DEF Joins, Moved
  <2>2. wait'[k] = NoWait /\ at'[k] = "user"
    BY <2>1 DEF Inv, PoolTypes
  <2>3. WaitOK(k)'
    BY <2>2, NoWaitType, FreshWait
  <2>4. ReturnsRight(k)
    <3>1. \A i \in 1..Len(wait[k].on) : state[wait[k].on[i]] \in Finished \ Failed
      BY <1>1, <1>2, AfterFinished DEF FailedOn
    <3> QED
      BY <1>1, <3>1 DEF ReturnsRight, Finished, Failed
  <2>5. OutcomesKept /\ NoLostWakeup'
    BY <1>1 DEF OutcomesKept, NoLostWakeup, Inv, Shape, taskVars, poolVars
  <2> QED
    BY <1>1, <2>1, <2>3, <2>4, <2>5, NoWaitType, MoveStep DEF Inv, PoolTypes, Ats, taskVars, poolVars
<1>3. CASE FailedOn(k) # {}
  <2>1. at' = [at EXCEPT ![k] = "over"] /\ wait' = wait
    BY <1>3 DEF Joins, Moved
  <2>2. wait'[k] \in Waits /\ at'[k] = "over"
    BY <2>1 DEF Inv, PoolTypes
  <2>3. WaitOK(k)'
    BY <2>2, FreshWait
  <2>4. OutcomesKept /\ ReturnsRight(k) /\ NoLostWakeup'
    BY <1>1, <2>2 DEF OutcomesKept, ReturnsRight, NoLostWakeup, Inv, Shape, taskVars, poolVars
  <2> QED
    BY <1>1, <2>1, <2>3, <2>4, SameWait, MoveStep DEF Inv, PoolTypes, Ats, taskVars, poolVars
<1> QED
  BY <1>2, <1>3

-----------------------------------------------------------------------------
(* The end of the program *)

LEMMA ShutdownInv ==
  ASSUME Inv, Shutdown PROVE Good
<1>1. /\ at[Main] = "user" /\ at' = [at EXCEPT ![Main] = "snapshot"]
      /\ Unlock /\ UNCHANGED <<taskVars, poolVars, wait>>
  BY DEF Shutdown, Moved
<1>2. LockNext /\ done' = done /\ Main \in Keys
  BY <1>1, TaskKeys DEF LockNext, Unlock
<1>3. \A j \in Keys : j # Main => RowKept(j)
  BY <1>1, <1>2, ReleaseAllRows DEF Unlock, RowKept, Inv
<1>4. PoolTypes'
  BY <1>1, <1>2 DEF Inv, PoolTypes, taskVars, poolVars, Ats
<1>5. Local(Main)
  <2>1. NoLostWakeup'
    BY <1>1 DEF Inv, Shape, NoLostWakeup, poolVars
  <2>2. \A j \in Keys : j # Main => Kept(j)
    BY <1>1, <1>2, <1>3 DEF Kept, Inv, PoolTypes
  <2> QED
    BY <1>1, <1>2, <2>1, <2>2 DEF Local, taskVars, poolVars, Inv, PoolTypes
<1>6. at'[Main] = "snapshot" /\ wait'[Main] \in Waits
  BY <1>1, <1>2 DEF Inv, PoolTypes
<1>7. WaitOK(Main)'
  BY <1>2, <1>6, FreshWait
<1>8. OutcomesKept /\ ReturnsRight(Main)
  BY <1>1 DEF OutcomesKept, ReturnsRight, taskVars
<1> QED
  BY <1>1, <1>2, <1>4, <1>5, <1>6, <1>7, <1>8, RunningStep

LEMMA SnapshotInv ==
  ASSUME Inv, NEW normal \in BOOLEAN, Snapshot(normal) PROVE Good
<1>1. /\ at[Main] = "snapshot" /\ Main \in Keys
      /\ UNCHANGED <<lockVars, count, state, errorText, observed, group, poolVars>>
  BY TaskKeys DEF Snapshot, Moved
<1>2. cancelRequested' \in [Tasks -> BOOLEAN] /\ OutcomesKept /\ ReturnsRight(Main) /\ NoLostWakeup'
  <2>1. cancelRequested' = [t \in Tasks |-> \/ cancelRequested[t]
                                            \/ ~normal /\ t <= count /\ state[t] \notin Finished]
    BY DEF Snapshot
  <2>2. \A t \in Tasks : cancelRequested[t] \in BOOLEAN
    BY DEF Inv, PoolTypes
  <2>3. \A t \in Tasks : state[t] \in Finished => cancelRequested'[t] = cancelRequested[t]
    BY <2>1, <2>2
  <2>4. OutcomesKept
    BY <1>1, <2>3 DEF OutcomesKept
  <2> QED
    BY <1>1, <2>1, <2>2, <2>4 DEF ReturnsRight, NoLostWakeup, Inv, Shape, poolVars
<1>3. CASE count = 0
  <2>1. at' = [at EXCEPT ![Main] = "over"] /\ wait' = wait
    BY <1>3 DEF Snapshot, Moved
  <2>2. wait'[Main] \in Waits /\ at'[Main] = "over"
    BY <1>1, <2>1 DEF Inv, PoolTypes
  <2>3. WaitOK(Main)'
    BY <1>1, <2>2, FreshWait
  <2> QED
    BY <1>1, <1>2, <2>1, <2>3, SameWait, MoveStep DEF Inv, PoolTypes, Ats, poolVars
<1>4. CASE count # 0
  <2> DEFINE w == [NoWait EXCEPT !.for = "shutdown", !.on = [t \in 1..count |-> t]]
  <2>1. at' = [at EXCEPT ![Main] = "note"] /\ wait' = [wait EXCEPT ![Main] = w]
    BY <1>4 DEF Snapshot, Moved
  <2>2. count \in Nat /\ \A t \in 1..count : t \in Tasks
    <3>1. count \in 0..MaxTasks /\ MaxTasks \in Nat
      BY TasksAssumption DEF Inv, PoolTypes
    <3> QED
      BY <3>1 DEF Tasks
  <2>3. [t \in 1..count |-> t] \in Seq(Tasks) /\ Len([t \in 1..count |-> t]) = count
    BY <2>2
  <2>4. w \in Waits
    BY <2>3, NoWaitType DEF Waits
  <2>5. w.on # <<>> /\ w.i = 1
    <3>1. w.on = [t \in 1..count |-> t] /\ w.i = 1
      BY DEF NoWait
    <3> QED
      BY <1>4, <2>2, <2>3, <3>1
  <2>6. wait'[Main] = w /\ at'[Main] = "note"
    BY <1>1, <2>1 DEF Inv, PoolTypes
  <2>7. WaitOK(Main)'
    BY <1>1, <2>4, <2>5, <2>6, FreshWait
  <2> HIDE DEF w
  <2> QED
    BY <1>1, <1>2, <2>1, <2>4, <2>7, MoveStep DEF Inv, PoolTypes, Ats, poolVars
<1> QED
  BY <1>3, <1>4

LEMMA StopInv ==
  ASSUME Inv, Stop PROVE Good
<1> DEFINE w == [NoWait EXCEPT !.for = IF Unread = {} THEN "clean" ELSE "unread"]
<1>1. /\ at[Main] = "after" /\ at' = [at EXCEPT ![Main] = "reap"] /\ Main \in Keys
      /\ wait' = [wait EXCEPT ![Main] = w] /\ stopping' = TRUE /\ awake' = idle
      /\ UNCHANGED <<lockVars, taskVars, queue, idle>>
  BY TaskKeys DEF Stop, Moved
<1>2. w \in Waits
  BY NoWaitType DEF Waits
<1>3. wait'[Main] = w /\ at'[Main] = "reap"
  BY <1>1 DEF Inv, PoolTypes
<1>4. WaitOK(Main)'
  BY <1>1, <1>2, <1>3, FreshWait
<1>5. OutcomesKept /\ ReturnsRight(Main) /\ NoLostWakeup'
  BY <1>1, <1>3 DEF OutcomesKept, ReturnsRight, NoLostWakeup, taskVars
<1>6. awake' \in 0..idle
  <2>1. idle \in Nat
    BY DEF Inv, PoolTypes
  <2> QED
    BY <1>1, <2>1
<1> QED
  BY <1>1, <1>2, <1>4, <1>5, <1>6, MoveStep DEF Inv, PoolTypes, Ats, taskVars

LEMMA ReapInv ==
  ASSUME Inv, Reap PROVE Good
<1>1. /\ at[Main] = "reap" /\ at' = [at EXCEPT ![Main] = "over"] /\ Main \in Keys
      /\ UNCHANGED <<lockVars, taskVars, poolVars, wait>>
  BY TaskKeys DEF Reap, Moved
<1>2. wait'[Main] \in Waits /\ at'[Main] = "over"
  BY <1>1 DEF Inv, PoolTypes
<1>3. WaitOK(Main)'
  BY <1>1, <1>2, FreshWait
<1>4. OutcomesKept /\ ReturnsRight(Main) /\ NoLostWakeup'
  BY <1>1 DEF OutcomesKept, ReturnsRight, NoLostWakeup, Inv, Shape, taskVars, poolVars
<1> QED
  BY <1>1, <1>3, <1>4, SameWait, MoveStep DEF Inv, PoolTypes, Ats, taskVars, poolVars

-----------------------------------------------------------------------------
(* Calls *)

LEMMA StartWaitInv ==
  ASSUME Inv, NEW k \in Keys, at[k] = "user",
         NEW for \in {"wait", "join", "group"}, NEW on \in Seq(Tasks), StartWait(k, for, on)
  PROVE  Good
<1> DEFINE w == [NoWait EXCEPT !.for = for, !.on = on]
           to == IF on = <<>> THEN "after" ELSE "note"
<1>1. /\ at' = [at EXCEPT ![k] = to] /\ wait' = [wait EXCEPT ![k] = w]
      /\ UNCHANGED <<lockVars, taskVars, poolVars>>
  BY DEF StartWait
<1>2. w \in Waits /\ w.on = on /\ w.i = 1
  BY NoWaitType DEF Waits, NoWait
<1>3. wait'[k] = w /\ at'[k] = to
  BY <1>1 DEF Inv, PoolTypes
<1>4. WaitOK(k)'
  BY <1>2, <1>3, FreshWait
<1>5. OutcomesKept /\ ReturnsRight(k) /\ NoLostWakeup'
  BY <1>1 DEF OutcomesKept, ReturnsRight, NoLostWakeup, Inv, Shape, taskVars, poolVars
<1>6. to \in Ats \ {"queued", "begin", "help", "publish"}
  BY DEF Ats
<1> HIDE DEF w, to
<1> QED
  BY <1>1, <1>2, <1>4, <1>5, <1>6, MoveStep DEF Inv, PoolTypes, taskVars, poolVars

LEMMA NullHandleInv ==
  ASSUME Inv, NEW h, NullHandle(h) PROVE Good
BY StayStep DEF NullHandle, Inv, PoolTypes, OutcomesKept, taskVars, poolVars, threadVars

LEMMA WaitForInv ==
  ASSUME Inv, NEW k \in Keys, NEW for, NEW h \in Tasks, WaitFor(k, for, h) PROVE Good
<1>1. at[k] = "user" /\ for \in {"wait", "join"}
  BY DEF WaitFor, Calling
<1>2. CASE NullHandle(h)
  BY <1>2, NullHandleInv
<1>3. CASE StartWait(k, for, <<h>>)
  <2>1. <<h>> \in Seq(Tasks)
    OBVIOUS
  <2> QED
    BY <1>1, <1>3, <2>1, StartWaitInv
<1> QED
  BY <1>2, <1>3 DEF WaitFor

LEMMA GroupJoinInv ==
  ASSUME Inv, NEW k \in Keys, GroupJoin(k) PROVE Good
BY StartWaitInv DEF GroupJoin, Calling, Inv, PoolTypes

LEMMA GroupAddInv ==
  ASSUME Inv, NEW k \in Keys, NEW h \in Tasks, GroupAdd(k, h) PROVE Good
<1>1. CASE NullHandle(h)
  BY <1>1, NullHandleInv
<1>2. CASE ~NullHandle(h)
  <2>1. /\ group' = Append(group, h)
        /\ UNCHANGED <<lockVars, count, state, cancelRequested, errorText, observed, poolVars, threadVars>>
    BY <1>2 DEF GroupAdd
  <2>2. group' \in Seq(Tasks)
    <3>1. group \in Seq(Tasks)
      BY DEF Inv, PoolTypes
    <3>2. Append(group, h) \in Seq(Tasks)
      BY <3>1
    <3> QED
      BY <2>1, <3>2
  <2> QED
    BY <2>1, <2>2, StayStep DEF Inv, PoolTypes, OutcomesKept, poolVars, threadVars
<1> QED
  BY <1>1, <1>2

LEMMA CancelInv ==
  ASSUME Inv, NEW k \in Keys, NEW h \in Tasks, Cancel(k, h) PROVE Good
<1>1. CASE NullHandle(h)
  BY <1>1, NullHandleInv
<1>2. CASE ~NullHandle(h)
  <2>1. /\ cancelRequested' = [cancelRequested EXCEPT ![h] = @ \/ state[h] \notin Finished]
        /\ UNCHANGED <<lockVars, count, state, errorText, observed, group, poolVars, threadVars>>
    BY <1>2 DEF Cancel
  <2>2. cancelRequested[h] \in BOOLEAN /\ cancelRequested' \in [Tasks -> BOOLEAN]
    <3> DEFINE c == cancelRequested[h] \/ state[h] \notin Finished
    <3>1. c \in BOOLEAN /\ cancelRequested' = [cancelRequested EXCEPT ![h] = c]
      BY <2>1
    <3> HIDE DEF c
    <3> QED
      BY <3>1 DEF Inv, PoolTypes
  <2>3. state[h] \in Finished => cancelRequested'[h] = cancelRequested[h]
    BY <2>1, <2>2 DEF Inv, PoolTypes
  <2>4. \A t \in Tasks : t # h => cancelRequested'[t] = cancelRequested[t]
    BY <2>1 DEF Inv, PoolTypes
  <2>5. OutcomesKept
    BY <2>1, <2>3, <2>4 DEF OutcomesKept
  <2> QED
    BY <2>1, <2>2, <2>5, StayStep DEF Inv, PoolTypes, poolVars, threadVars
<1> QED
  BY <1>1, <1>2

LEMMA ReadInv ==
  ASSUME Inv, NEW k \in Keys, NEW op, NEW h \in Tasks, Read(k, op, h) PROVE Good
BY StayStep DEF Read, Inv, PoolTypes, OutcomesKept, poolVars, threadVars

LEMMA FailWithInv ==
  ASSUME Inv, NEW t \in Tasks, at[t] = "user", NEW text \in {"CANCELLED", "THROW"}, FailWith(t, text)
  PROVE  Good
<1>1. /\ errorText' = [errorText EXCEPT ![t] = IF @ = "" THEN text ELSE @]
      /\ at' = [at EXCEPT ![t] = "return"] /\ t \in Keys
      /\ UNCHANGED <<lockVars, count, state, cancelRequested, observed, group, poolVars, wait>>
  BY TaskKeys DEF FailWith
<1>2. errorText' \in [Tasks -> {"", "CANCELLED", "THROW"}]
  BY <1>1 DEF Inv, PoolTypes
<1>3. state[t] \notin Finished
  BY <1>1, NotDone DEF Inv, Shape, DoneOK
<1>4. OutcomesKept
  BY <1>1, <1>3 DEF OutcomesKept, Inv, PoolTypes
<1>5. wait'[t] \in Waits /\ at'[t] = "return"
  BY <1>1 DEF Inv, PoolTypes
<1>6. WaitOK(t)'
  BY <1>1, <1>5, FreshWait
<1>7. ReturnsRight(t) /\ NoLostWakeup'
  BY <1>1 DEF ReturnsRight, NoLostWakeup, Inv, Shape, poolVars
<1> QED
  BY <1>1, <1>2, <1>4, <1>6, <1>7, SameWait, MoveStep DEF Inv, PoolTypes, Ats, poolVars

LEMMA ThrowInv ==
  ASSUME Inv, NEW t \in Tasks, Throw(t) PROVE Good
BY FailWithInv DEF Throw, Calling

LEMMA CancelPointInv ==
  ASSUME Inv, NEW t \in Tasks, CancelPoint(t) PROVE Good
BY FailWithInv DEF CancelPoint, Calling

-----------------------------------------------------------------------------
(* Calls on the lock table *)

LEMMA LockCallInv ==
  ASSUME Inv, NEW k \in Keys, at[k] = "user",
         \/ \E ids \in SUBSET Locks, mode \in Modes : Enter(k, ids, mode)
         \/ Wake(k)
         \/ LeaveAuto(k)
         \/ \E mark \in 0..Len(expl[k]) : ReleaseTo(k, mark),
         UNCHANGED <<taskVars, queue, stopping, idle, awake, threadVars>>
  PROVE  Good
<1>1. LockNext /\ done' = done /\ \A j \in Keys : j # k => RowKept(j)
  BY LockCallKeepsDone DEF Inv
<1>2. PoolTypes'
  BY DEF Inv, PoolTypes, taskVars, threadVars
<1>3. Local(k)
  <2>1. NoLostWakeup'
    BY DEF Inv, Shape, NoLostWakeup
  <2> QED
    BY <1>1, <2>1 DEF Local, Kept, taskVars, threadVars
<1>4. WaitOK(k)'
  BY FreshWait DEF Inv, PoolTypes, threadVars
<1>5. OutcomesKept /\ ReturnsRight(k)
  BY DEF OutcomesKept, ReturnsRight, taskVars, threadVars
<1> QED
  BY <1>1, <1>2, <1>3, <1>4, <1>5, RunningStep DEF threadVars

LEMMA LockEnterInv ==
  ASSUME Inv, NEW k \in Keys, NEW ids \in SUBSET Locks, NEW mode \in Modes, LockEnter(k, ids, mode)
  PROVE  Good
<1>1. /\ at[k] = "user" /\ Enter(k, ids, mode)
      /\ UNCHANGED <<taskVars, queue, stopping, idle, awake, exited, threadVars, exit>>
  BY DEF LockEnter, Calling
<1> QED
  BY <1>1, LockCallInv

LEMMA LockWakeInv ==
  ASSUME Inv, NEW k \in Keys, LockWake(k) PROVE Good
<1>1. /\ at[k] = "user" /\ Wake(k)
      /\ UNCHANGED <<taskVars, queue, stopping, idle, awake, exited, threadVars, left, exit>>
  BY DEF LockWake
<1> QED
  BY <1>1, LockCallInv

LEMMA LockLeaveInv ==
  ASSUME Inv, NEW k \in Keys, LockLeave(k) PROVE Good
BY LockCallInv DEF LockLeave, poolVars

-----------------------------------------------------------------------------
(* Running a task *)

LEMMA TypesOfTask ==
  ASSUME Inv, NEW t \in Tasks
  PROVE  t \in Keys /\ state[t] \in States /\ DoneOK(t) /\ wait[t] \in Waits /\ WaitOK(t)
BY TaskKeys DEF Inv, PoolTypes, Shape

LEMMA EndBodyInv ==
  ASSUME Inv, NEW t \in Tasks, EndBody(t) PROVE Good
<1>1. /\ at[t] \in {"user", "return"} /\ Finish(t) /\ at' = [at EXCEPT ![t] = "publish"]
      /\ UNCHANGED <<taskVars, poolVars, wait>> /\ t \in Keys /\ t # Main
  BY TaskKeys DEF EndBody
<1>2. LockNext /\ done' = [done EXCEPT ![t] = TRUE] /\ ReleaseAll(t) /\ Running(t)
  BY <1>1 DEF LockNext, LockStep, Finish
<1>3. /\ HoldsNothing(t)' /\ done'[t] /\ at'[t] = "publish"
      /\ \A j \in Keys : j # t => Kept(j)
  BY <1>1, <1>2, ReleaseAllRows
  DEF HoldsNothing, Running, Kept, RowKept, Inv, TypeInv, LockTypeOK, PoolTypes
<1>4. PoolTypes'
  BY <1>1 DEF Inv, PoolTypes, taskVars, poolVars, Ats
<1>5. Local(t)
  <2>1. NoLostWakeup'
    BY <1>1 DEF Inv, Shape, NoLostWakeup, poolVars
  <2> QED
    BY <1>1, <1>3, <2>1 DEF Local, taskVars, poolVars
<1>6. WaitOK(t)'
  BY <1>1, <1>3 DEF WaitOK, Waiting, Noted
<1>7. DoneOK(t)' /\ ~done'[Main]
  <2>1. ~done'[Main]
    BY <1>1, <1>2, TaskKeys DEF Inv, Shape, TypeInv, LockTypeOK
  <2>2. state'[t] = state[t] /\ state[t] \notin Finished
    BY <1>1, TypesOfTask DEF DoneOK, taskVars
  <2> QED
    BY <1>3, <2>1, <2>2 DEF DoneOK
<1>8. OutcomesKept /\ \A k \in Keys : ReturnsRight(k)
  BY <1>1, <1>3 DEF OutcomesKept, ReturnsRight, Kept, taskVars
<1> QED
  BY <1>1, <1>2, <1>4, <1>5, <1>6, <1>7, <1>8, LocalStep DEF Good

LEMMA BeginInv ==
  ASSUME Inv, NEW t \in Tasks, Begin(t) PROVE Good
<1>1. /\ at[t] = "begin" /\ state' = [state EXCEPT ![t] = "RUNNING"] /\ at' = [at EXCEPT ![t] = "user"]
      /\ UNCHANGED <<lockVars, count, cancelRequested, errorText, observed, group, poolVars, wait>>
      /\ t \in Keys
  BY TaskKeys DEF Begin
<1>2. ~done[t] /\ state[t] \notin Finished /\ at'[t] = "user" /\ state'[t] = "RUNNING"
  BY <1>1, NotDone, TypesOfTask DEF DoneOK, Inv, PoolTypes
<1>3. PoolTypes'
  BY <1>1 DEF Inv, PoolTypes, States, Ats, poolVars
<1>4. OutcomesKept /\ \A k \in Keys : ReturnsRight(k)
  BY <1>1, <1>2 DEF OutcomesKept, ReturnsRight, Inv, PoolTypes
<1>5. ASSUME NEW k \in Keys PROVE WaitOK(k)'
  <2>1. CASE k = t
    BY <1>1, <1>2, <1>3, <2>1, FreshWait DEF PoolTypes
  <2>2. CASE k # t
    BY <1>1, <1>4, <2>2, WaitOKKept
    DEF Kept, RowKept, lockVars, tableVars, waitVars, Inv, PoolTypes
  <2> QED
    BY <2>1, <2>2
<1>6. ASSUME NEW s \in Tasks PROVE DoneOK(s)'
  <2>1. DoneOK(s) /\ s \in Keys /\ at'[s] = IF s = t THEN "user" ELSE at[s]
    BY <1>1, TypesOfTask DEF Inv, PoolTypes
  <2>2. state'[s] = IF s = t THEN "RUNNING" ELSE state[s]
    BY <1>1 DEF Inv, PoolTypes
  <2> QED
    BY <1>1, <1>2, <2>1, <2>2 DEF DoneOK, HoldsNothing, Finished, lockVars, tableVars, waitVars
<1>7. QueueOK'
  <2>1. /\ \A k \in Keys : at'[k] = "queued" <=> at[k] = "queued"
        /\ \A k \in Keys : at'[k] = "help" <=> at[k] = "help"
        /\ wait' = wait /\ count' = count /\ queue' = queue
        /\ \A s \in Tasks : at[s] = "queued" => state'[s] = state[s]
    BY <1>1 DEF Inv, PoolTypes, poolVars
  <2> QED
    BY <2>1, QueueKept
<1>8. NoLostWakeup' /\ ~done'[Main]
  BY <1>1 DEF Inv, Shape, NoLostWakeup, poolVars, lockVars
<1> QED
  BY <1>1, <1>3, <1>4, <1>5, <1>6, <1>7, <1>8 DEF Good, Shape

(* run_task returns: the task is over, its host goes on, all sleepers wake.  *)
LEMMA ReturnInv ==
  ASSUME Inv, NEW t \in Tasks, Return(t), at[t] \in {"begin", "publish"},
         NEW s \in Finished, state' = [state EXCEPT ![t] = s], state[t] \notin Finished,
         NEW e \in {"", "CANCELLED", "THROW"}, errorText' = [errorText EXCEPT ![t] = e],
         UNCHANGED <<tableVars, waitVars, autos, count, cancelRequested, group>>,
         done' = [done EXCEPT ![t] = TRUE], [LockNext]_lockVars, HoldsNothing(t)
  PROVE  Good
<1>1. t \in Keys /\ t # Main
  BY TaskKeys
<1>2. /\ UNCHANGED <<queue, stopping, idle, awake, wait>>
      /\ at' = [k \in Keys |-> CASE k = t -> "over"
                                 [] k \in Hosts(t) -> "renote"
                                 [] k \in Woken -> "awake"
                                 [] OTHER -> at[k]]
  BY DEF Return
<1>3. \A k \in Keys : \/ k = t /\ at'[k] = "over"
                      \/ k # t /\ at[k] = "helping" /\ at'[k] = "renote"
                      \/ k # t /\ at[k] = "sleep" /\ at'[k] = "awake"
                      \/ k # t /\ at'[k] = at[k]
  <2> SUFFICES ASSUME NEW k \in Keys
               PROVE  \/ k = t /\ at'[k] = "over"
                      \/ k # t /\ at[k] = "helping" /\ at'[k] = "renote"
                      \/ k # t /\ at[k] = "sleep" /\ at'[k] = "awake"
                      \/ k # t /\ at'[k] = at[k]
    OBVIOUS
  <2>1. at'[k] = CASE k = t -> "over"
                   [] k \in Hosts(t) -> "renote"
                   [] k \in Woken -> "awake"
                   [] OTHER -> at[k]
    BY <1>2
  <2>2. k \in Hosts(t) => at[k] = "helping"
    BY DEF Hosts
  <2>3. k \in Woken => at[k] = "sleep"
    BY DEF Woken, Sleepers
  <2> QED
    BY <2>1, <2>2, <2>3
<1>4. PoolTypes'
  <2>1. at' \in [Keys -> Ats]
    BY <1>2, <1>3 DEF Inv, PoolTypes, Ats
  <2>2. state' \in [Tasks -> States]
    BY DEF Inv, PoolTypes, States, Finished
  <2> QED
    BY <1>2, <2>1, <2>2 DEF Inv, PoolTypes
<1>5. OutcomesKept /\ \A k \in Keys : ReturnsRight(k)
  <2>1. \A k \in Keys : at[k] = "after" => at'[k] # "user"
    BY <1>3
  <2>2. OutcomesKept
    BY DEF OutcomesKept, Inv, PoolTypes
  <2> QED
    BY <2>1, <2>2 DEF ReturnsRight
<1>6. \A r \in Tasks : state[r] \in Finished => state'[r] \in Finished
  BY <1>5 DEF OutcomesKept
<1>7. ASSUME NEW k \in Keys PROVE WaitOK(k)'
  <2>1. CASE at'[k] = "over"
    BY <1>2, <2>1, FreshWait DEF Inv, PoolTypes
  <2>2. CASE k # t
    <3>1. wait[k] \in Waits /\ WaitOK(k) /\ wait[k].on \in Seq(Tasks)
      BY DEF Inv, PoolTypes, Shape, Waits
    <3>2. \A i \in 1..Len(wait[k].on) : wait[k].on[i] \in Tasks
      BY <3>1, TaskSeq
    <3>3. at[k] = "clear" => Target(k) \in Tasks
      BY TargetTask DEF Waiting
    <3>4. wait' = wait /\ Target(k)' = Target(k) /\ edge' = edge /\ held' = held
      BY <1>2 DEF Target, tableVars, waitVars
    <3>5. \A i \in 1..Len(wait[k].on) :
            at[k] = "after" \/ (at[k] \in Waiting /\ i < wait[k].i) => state'[wait[k].on[i]] \in Finished
      BY <1>6, <3>1, <3>2 DEF WaitOK
    <3>6. at[k] = "clear" => state'[Target(k)] \in Finished
      BY <1>6, <3>1, <3>3 DEF WaitOK
    <3>7. \/ at'[k] = at[k]
          \/ at[k] = "helping" /\ at'[k] = "renote"
          \/ at[k] = "sleep" /\ at'[k] = "awake"
      BY <1>3, <2>2
    <3> QED
      BY <3>1, <3>4, <3>5, <3>6, <3>7 DEF WaitOK, Waiting, Noted
  <2> QED
    BY <1>3, <2>1, <2>2
<1>8. ASSUME NEW r \in Tasks PROVE DoneOK(r)'
  <2>1. CASE r = t
    <3>1. at'[t] = "over" /\ done'[t]
      BY <1>1, <1>3 DEF Inv, TypeInv, LockTypeOK
    <3> QED
      BY <2>1, <3>1 DEF DoneOK, HoldsNothing, tableVars, waitVars
  <2>2. CASE r # t
    <3>1. DoneOK(r) /\ r \in Keys
      BY TypesOfTask
    <3>2. done'[r] = done[r] /\ state'[r] = state[r]
      BY <2>2, <3>1 DEF Inv, PoolTypes, TypeInv, LockTypeOK
    <3>3. \/ at'[r] = at[r]
          \/ at[r] = "helping" /\ at'[r] = "renote"
          \/ at[r] = "sleep" /\ at'[r] = "awake"
      BY <1>3, <2>2, <3>1
    <3> QED
      BY <3>1, <3>2, <3>3 DEF DoneOK, HoldsNothing, tableVars, waitVars
  <2> QED
    BY <2>1, <2>2
<1>9. QueueOK'
  <2>1. /\ \A k \in Keys : at'[k] = "queued" <=> at[k] = "queued"
        /\ \A k \in Keys : at'[k] = "help" <=> at[k] = "help"
    BY <1>3
  <2>2. \A r \in Tasks : at[r] = "queued" => state'[r] = state[r]
    BY DEF Inv, PoolTypes
  <2> QED
    BY <1>2, <2>1, <2>2, QueueKept
<1>10. NoLostWakeup' /\ ~done'[Main]
  BY <1>1, <1>2, TaskKeys DEF Inv, Shape, NoLostWakeup, TypeInv, LockTypeOK
<1> QED
  BY <1>4, <1>5, <1>7, <1>8, <1>9, <1>10 DEF Good, Shape

LEMMA BeginCancelledInv ==
  ASSUME Inv, NEW t \in Tasks, BeginCancelled(t) PROVE Good
<1>1. /\ fatal = "none" /\ at[t] = "begin" /\ state' = [state EXCEPT ![t] = "CANCELLED"]
      /\ errorText' = [errorText EXCEPT ![t] = "CANCELLED"] /\ Return(t)
      /\ done' = [done EXCEPT ![t] = TRUE]
      /\ UNCHANGED <<tableVars, waitVars, autos, count, cancelRequested, observed, group>>
  BY DEF BeginCancelled, Alive
<1>2. ~done[t] /\ HoldsNothing(t) /\ state[t] \notin Finished /\ t \in Keys
  BY <1>1, NotDone, TypesOfTask DEF DoneOK
<1>3. Owned(t) = {}
  <2>1. Cardinality(Owned(t)) = 0 /\ IsFiniteSet(Owned(t))
    BY <1>2, LockSetCardinality DEF Inv, TypeInv, HeldExact, HoldsNothing, Owned
  <2> QED
    BY <2>1, FS_EmptySet
<1>4. LockNext
  BY <1>1, <1>2, <1>3 DEF LockNext, LockStep, Skip, Running, HoldsNothing
<1> QED
  BY <1>1, <1>2, <1>4, ReturnInv DEF Finished

LEMMA PublishInv ==
  ASSUME Inv, NEW t \in Tasks, Publish(t) PROVE Good
<1>1. /\ at[t] = "publish" /\ state' = [state EXCEPT ![t] = Outcome(errorText[t])] /\ Return(t)
      /\ UNCHANGED <<lockVars, count, cancelRequested, errorText, observed, group>>
  BY DEF Publish
<1>2. Outcome(errorText[t]) \in Finished
  BY DEF Outcome, Finished
<1>3. /\ errorText[t] \in {"", "CANCELLED", "THROW"}
      /\ errorText' = [errorText EXCEPT ![t] = errorText[t]]
  BY <1>1 DEF Inv, PoolTypes
<1>4. done[t] /\ HoldsNothing(t) /\ t \in Keys /\ state[t] \notin Finished
  BY <1>1, TypesOfTask DEF DoneOK
<1>5. done' = [done EXCEPT ![t] = TRUE]
  BY <1>1, <1>4 DEF lockVars, Inv, TypeInv, LockTypeOK
<1> QED
  BY <1>1, <1>2, <1>3, <1>4, <1>5, ReturnInv DEF lockVars

-----------------------------------------------------------------------------
(* Steps around the queue *)

(* The first of the queue, and what is left. *)
LEMMA HeadTail ==
  ASSUME Inv, queue # <<>>
  PROVE  /\ Head(queue) \in Tasks /\ Head(queue) \in 1..count /\ at[Head(queue)] = "queued"
         /\ Tail(queue) \in Seq(Tasks) /\ Len(Tail(queue)) = Len(queue) - 1 /\ Len(queue) \in Nat \ {0}
         /\ \A i \in 1..Len(Tail(queue)) : i + 1 \in 1..Len(queue) /\ Tail(queue)[i] = queue[i + 1]
         /\ \A i \in 1..Len(Tail(queue)) : Tail(queue)[i] # Head(queue)
         /\ \A t : InQueue(t) => t = Head(queue) \/ \E i \in 1..Len(Tail(queue)) : Tail(queue)[i] = t
<1>1. queue \in Seq(Tasks) /\ QueueOK
  BY DEF Inv, PoolTypes, Shape
<1>2. \A s \in Seq(Tasks) : s # <<>> =>
        /\ Len(s) \in Nat \ {0} /\ Head(s) = s[1] /\ Head(s) \in Tasks
        /\ Tail(s) \in Seq(Tasks) /\ Len(Tail(s)) = Len(s) - 1
        /\ \A i \in 1..Len(Tail(s)) : Tail(s)[i] = s[i + 1]
  OBVIOUS
<1>3. /\ Len(queue) \in Nat \ {0} /\ Head(queue) = queue[1] /\ Head(queue) \in Tasks
      /\ Tail(queue) \in Seq(Tasks) /\ Len(Tail(queue)) = Len(queue) - 1
      /\ \A i \in 1..Len(Tail(queue)) : Tail(queue)[i] = queue[i + 1]
  BY <1>1, <1>2
<1>4. \A i \in 1..Len(Tail(queue)) : i + 1 \in 1..Len(queue) /\ i + 1 # 1
  BY <1>3
<1>5. 1 \in 1..Len(queue)
  BY <1>3
<1>6. \A i \in 1..Len(Tail(queue)) : Tail(queue)[i] # Head(queue)
  BY <1>1, <1>3, <1>4, <1>5 DEF QueueOK
<1>7. Head(queue) \in 1..count /\ at[Head(queue)] = "queued"
  BY <1>1, <1>3, <1>5 DEF QueueOK
<1>8. ASSUME NEW t, InQueue(t) PROVE t = Head(queue) \/ \E i \in 1..Len(Tail(queue)) : Tail(queue)[i] = t
  <2>1. PICK i \in 1..Len(queue) : queue[i] = t
    BY <1>8 DEF InQueue
  <2>2. CASE i = 1
    BY <1>3, <2>1, <2>2
  <2>3. CASE i # 1
    <3>1. i - 1 \in 1..Len(Tail(queue)) /\ (i - 1) + 1 = i
      BY <1>3, <2>3
    <3>2. Tail(queue)[i - 1] = t
      BY <1>3, <2>1, <3>1
    <3> QED
      BY <3>1, <3>2
  <2> QED
    BY <2>2, <2>3
<1> QED
  BY <1>3, <1>4, <1>6, <1>7, <1>8

LEMMA PoppedFacts ==
  ASSUME Inv, queue # <<>>, queue' = Tail(queue)
  PROVE  /\ \A i, j \in 1..Len(queue') : queue'[i] = queue'[j] => i = j
         /\ \A i \in 1..Len(queue') :
              queue'[i] \in 1..count /\ at[queue'[i]] = "queued" /\ queue'[i] # Head(queue)
         /\ \A t : InQueue(t)' <=> InQueue(t) /\ t # Head(queue)
         /\ InQueue(Head(queue))
<1>1. QueueOK /\ queue \in Seq(Tasks)
  BY DEF Inv, PoolTypes, Shape
<1>2. \A i \in 1..Len(queue') : i + 1 \in 1..Len(queue) /\ queue'[i] = queue[i + 1]
  BY HeadTail
<1>3. \A i, j \in 1..Len(queue') : queue'[i] = queue'[j] => i = j
  <2> SUFFICES ASSUME NEW i \in 1..Len(queue'), NEW j \in 1..Len(queue'), queue'[i] = queue'[j]
               PROVE  i = j
    OBVIOUS
  <2>1. i + 1 = j + 1
    BY <1>1, <1>2 DEF QueueOK
  <2>2. Len(queue') \in Nat
    BY HeadTail
  <2> QED
    BY <2>1, <2>2
<1>4. \A i \in 1..Len(queue') :
        queue'[i] \in 1..count /\ at[queue'[i]] = "queued" /\ queue'[i] # Head(queue)
  BY <1>1, <1>2, HeadTail DEF QueueOK
<1>5. \A t : InQueue(t)' => InQueue(t) /\ t # Head(queue)
  BY <1>2, HeadTail DEF InQueue
<1>6. \A t : InQueue(t) /\ t # Head(queue) => InQueue(t)'
  BY HeadTail DEF InQueue
<1>7. InQueue(Head(queue))
  <2>1. queue # <<>> /\ queue \in Seq(Tasks) => 1 \in 1..Len(queue) /\ Head(queue) = queue[1]
    OBVIOUS
  <2> QED
    BY <1>1, <2>1 DEF InQueue
<1> QED
  BY <1>3, <1>4, <1>5, <1>6, <1>7

LEMMA WorkerTakeInv ==
  ASSUME Inv, WorkerTake PROVE Good
<1> DEFINE h == Head(queue)
<1>1. /\ queue # <<>> /\ queue' = Tail(queue) /\ at' = [at EXCEPT ![h] = "begin"]
      /\ UNCHANGED <<lockVars, taskVars, stopping, wait>>
      /\ \/ idle' = idle /\ awake' = awake
         \/ awake > 0 /\ awake' = awake - 1 /\ idle' = idle - 1
  BY DEF WorkerTake, Popped, FromLoop, FromSleep
<1>2. h \in Tasks /\ h \in Keys /\ at[h] = "queued" /\ Tail(queue) \in Seq(Tasks) /\ at'[h] = "begin"
  BY <1>1, HeadTail, TaskKeys DEF Inv, PoolTypes
<1>3. PoolTypes'
  <2>1. idle' \in Nat /\ awake' \in 0..idle'
    <3>1. idle \in Nat /\ awake \in 0..idle
      BY DEF Inv, PoolTypes
    <3>2. CASE idle' = idle /\ awake' = awake
      BY <3>1, <3>2
    <3>3. CASE awake > 0 /\ awake' = awake - 1 /\ idle' = idle - 1
      BY <3>1, <3>3
    <3> QED
      BY <1>1, <3>2, <3>3
  <2>2. at' \in [Keys -> Ats] /\ queue' \in Seq(Tasks)
    BY <1>1, <1>2 DEF Inv, PoolTypes, Ats
  <2> QED
    BY <1>1, <2>1, <2>2 DEF Inv, PoolTypes, taskVars
<1>4. OutcomesKept /\ \A k \in Keys : ReturnsRight(k)
  BY <1>1, <1>2 DEF OutcomesKept, ReturnsRight, Inv, PoolTypes, taskVars
<1>5. \A k \in Keys : k # h => Kept(k)
  BY <1>1 DEF Kept, RowKept, lockVars, tableVars, waitVars, Inv, PoolTypes
<1>6. ASSUME NEW k \in Keys PROVE WaitOK(k)'
  <2>1. CASE k = h
    BY <1>2, <2>1 DEF WaitOK, Waiting, Noted
  <2>2. CASE k # h
    BY <1>4, <1>5, <2>2, WaitOKKept
  <2> QED
    BY <2>1, <2>2
<1>7. ASSUME NEW t \in Tasks PROVE DoneOK(t)'
  <2>1. DoneOK(t) /\ t \in Keys /\ state' = state
    BY <1>1, TypesOfTask DEF taskVars
  <2>2. CASE t = h
    BY <1>1, <1>2, <2>1, <2>2 DEF DoneOK, HoldsNothing, lockVars, tableVars, waitVars
  <2>3. CASE t # h
    BY <1>5, <2>1, <2>3 DEF DoneOK, HoldsNothing, Kept, RowKept
  <2> QED
    BY <2>2, <2>3
<1>8. QueueOK'
  <2>1. /\ QueueOK /\ count' = count /\ state' = state /\ wait' = wait
        /\ h \in 1..count /\ 1..count \subseteq Keys
    BY <1>1, HeadTail, CountTasks DEF Inv, Shape, taskVars
  <2>2. \A k \in Keys : k # h => at'[k] = at[k]
    BY <1>5 DEF Kept
  <2>3. \A k \in Keys : (at'[k] = "help" <=> at[k] = "help")
                      /\ (at'[k] = "queued" <=> at[k] = "queued" /\ k # h)
    BY <1>2, <2>2
  <2>4. \A i \in 1..Len(queue') : queue'[i] \in 1..count /\ at'[queue'[i]] = "queued"
    BY <1>1, <2>1, <2>3, PoppedFacts
  <2>5. \A k \in Keys : at'[k] = "help" =>
          wait[k].run \in 1..count /\ at'[wait[k].run] = "queued" /\ ~InQueue(wait[k].run)'
    BY <1>1, <2>1, <2>3, PoppedFacts DEF QueueOK
  <2>6. \A t : \A k \in Keys : Helps(k, t)' <=> Helps(k, t)
    BY <2>1, <2>3 DEF Helps
  <2>7. \A t \in 1..count : at'[t] = "queued" =>
          state[t] = "PENDING" /\ (InQueue(t)' \/ \E k \in Keys : Helps(k, t)')
    BY <1>1, <2>1, <2>3, <2>6, PoppedFacts DEF QueueOK
  <2>8. \A t \in Tasks : t > count => at'[t] = "queued"
    <3>1. \A t \in Tasks : t > count => t # h
      BY <2>1, TaskKeys, CountTasks
    <3> QED
      BY <2>1, <2>3, <3>1, TaskKeys DEF QueueOK
  <2>9. \A j, k \in Keys : at'[j] = "help" /\ at'[k] = "help" /\ wait[j].run = wait[k].run => j = k
    BY <2>1, <2>3 DEF QueueOK
  <2> QED
    BY <1>1, <2>1, <2>4, <2>5, <2>7, <2>8, <2>9, PoppedFacts DEF QueueOK
<1>9. NoLostWakeup'
  <2>1. Len(queue') = Len(queue) - 1 /\ Len(queue) \in Nat /\ idle \in Nat /\ awake \in 0..idle
    BY <1>1, HeadTail DEF Inv, PoolTypes
  <2>2. awake < idle /\ ~stopping => Len(queue) <= awake
    BY DEF Inv, Shape, NoLostWakeup
  <2> QED
    BY <1>1, <2>1, <2>2 DEF NoLostWakeup
<1> QED
  BY <1>1, <1>3, <1>4, <1>6, <1>7, <1>8, <1>9 DEF Good, Shape, Inv, lockVars

LEMMA TakeToHelpInv ==
  ASSUME Inv, NEW k \in Keys, TakeToHelp(k) PROVE Good
<1> DEFINE h == Head(queue)
           w == [wait[k] EXCEPT !.run = h]
<1>1. /\ at[k] = "decide" /\ at' = [at EXCEPT ![k] = "help"] /\ wait[k].help
      /\ queue # <<>> /\ queue' = Tail(queue) /\ wait' = [wait EXCEPT ![k] = w]
      /\ UNCHANGED <<lockVars, taskVars, stopping, idle, awake>>
  BY DEF TakeToHelp, Moved, Popped
<1>2. h \in Tasks /\ h \in Keys /\ h \in 1..count /\ at[h] = "queued" /\ Tail(queue) \in Seq(Tasks)
  BY <1>1, HeadTail, TaskKeys
<1>3. /\ wait[k] \in Waits /\ w \in Waits /\ w.on = wait[k].on /\ w.i = wait[k].i /\ w.run = h
      /\ wait'[k] = w /\ at'[k] = "help" /\ WaitOK(k)
  <2>1. wait[k] \in Waits /\ WaitOK(k) /\ wait'[k] = w /\ at'[k] = "help"
    BY <1>1 DEF Inv, PoolTypes, Shape
  <2> QED
    BY <1>2, <2>1 DEF Waits
<1>4. PoolTypes'
  BY <1>1, <1>2, <1>3 DEF Inv, PoolTypes, taskVars, Ats
<1>5. \A j \in Keys : j # k => Kept(j)
  BY <1>1 DEF Kept, RowKept, lockVars, tableVars, waitVars, Inv, PoolTypes
<1>6. OutcomesKept /\ \A j \in Keys : ReturnsRight(j)
  BY <1>1, <1>5 DEF OutcomesKept, ReturnsRight, taskVars, Kept
<1>7. ASSUME NEW j \in Keys PROVE WaitOK(j)'
  <2>1. CASE j = k
    <3>1. state' = state /\ held' = held
      BY <1>1 DEF taskVars, lockVars, tableVars
    <3>2. held[k] = 0 /\ wait[k].i \in 1..Len(wait[k].on)
      BY <1>1, <1>3 DEF WaitOK, Waiting
    <3>3. \A i \in 1..Len(wait[k].on) : i < wait[k].i => state[wait[k].on[i]] \in Finished
      BY <1>1, <1>3 DEF WaitOK, Waiting
    <3> HIDE DEF w, h
    <3> QED
      BY <1>2, <1>3, <2>1, <3>1, <3>2, <3>3 DEF WaitOK, Waiting, Noted
  <2>2. CASE j # k
    BY <1>5, <1>6, <2>2, WaitOKKept
  <2> QED
    BY <2>1, <2>2
<1>8. ASSUME NEW t \in Tasks PROVE DoneOK(t)'
  <2>1. DoneOK(t) /\ t \in Keys /\ state' = state /\ done' = done
    BY <1>1, TypesOfTask DEF taskVars, lockVars
  <2>2. CASE t = k
    BY <1>1, <1>3, <2>1, <2>2 DEF DoneOK
  <2>3. CASE t # k
    BY <1>5, <2>1, <2>3 DEF DoneOK, HoldsNothing, Kept, RowKept
  <2> QED
    BY <2>2, <2>3
<1>9. QueueOK'
  <2>1. /\ QueueOK /\ count' = count /\ state' = state /\ 1..count \subseteq Keys
    BY <1>1, CountTasks DEF Inv, Shape, taskVars
  <2>2. \A j \in Keys : j # k => at'[j] = at[j] /\ wait'[j] = wait[j]
    BY <1>5 DEF Kept
  <2>3. \A j \in Keys : (at'[j] = "queued" <=> at[j] = "queued") /\ (at[j] = "help" => j # k)
                     /\ (at'[j] = "help" => j = k \/ at[j] = "help")
    BY <1>1, <1>3, <2>2
  <2>4. \A i \in 1..Len(queue') : queue'[i] \in 1..count /\ at'[queue'[i]] = "queued"
    BY <1>1, <2>1, <2>3, PoppedFacts
  <2>5. \A j \in Keys : at'[j] = "help" =>
          wait'[j].run \in 1..count /\ at'[wait'[j].run] = "queued"
    <3> SUFFICES ASSUME NEW j \in Keys, at'[j] = "help"
                 PROVE  wait'[j].run \in 1..count /\ at'[wait'[j].run] = "queued"
      OBVIOUS
    <3>1. CASE j = k
      BY <1>2, <1>3, <2>3, <3>1
    <3>2. CASE j # k
      <4>1. wait'[j] = wait[j] /\ wait[j].run \in 1..count /\ at[wait[j].run] = "queued"
        BY <2>1, <2>2, <2>3, <3>2 DEF QueueOK
      <4> QED
        BY <2>1, <2>3, <4>1
    <3> QED
      BY <3>1, <3>2
  <2>6. \A j \in Keys : at[j] = "help" => wait[j].run # h
    BY <1>1, <2>1, PoppedFacts DEF QueueOK
  <2>7. ASSUME NEW j \in Keys, at'[j] = "help" PROVE ~InQueue(wait[j].run)'
    <3>1. CASE j = k
      <4>1. wait'[j].run = h
        BY <1>3, <3>1
      <4>3. \A i \in 1..Len(queue') : queue'[i] # h
        BY <1>1, PoppedFacts
      <4> QED
        BY <4>1, <4>3 DEF InQueue
    <3>2. CASE j # k
      <4>1. ~InQueue(wait[j].run) /\ wait'[j] = wait[j]
        BY <2>1, <2>2, <2>3, <2>7, <3>2 DEF QueueOK
      <4>2. \A t : InQueue(t)' => InQueue(t)
        BY <1>1, PoppedFacts
      <4> QED
        BY <4>1, <4>2
    <3> QED
      BY <3>1, <3>2
  <2>8. \A i, j \in Keys : at'[i] = "help" /\ at'[j] = "help" /\ wait'[i].run = wait'[j].run => i = j
    <3> SUFFICES ASSUME NEW i \in Keys, NEW j \in Keys, at'[i] = "help", at'[j] = "help",
                        wait'[i].run = wait'[j].run
                 PROVE  i = j
      OBVIOUS
    <3>1. CASE i # k /\ j # k
      BY <2>1, <2>2, <2>3, <3>1 DEF QueueOK
    <3>2. ASSUME NEW l \in {i, j}, l # k PROVE wait'[l].run # h
      BY <2>2, <2>3, <2>6, <3>2
    <3>3. wait'[k].run = h
      BY <1>3
    <3> QED
      BY <3>1, <3>2, <3>3
  <2>9. ASSUME NEW t \in 1..count, at'[t] = "queued"
        PROVE  state[t] = "PENDING" /\ (InQueue(t)' \/ \E j \in Keys : Helps(j, t)')
    <3>1. state[t] = "PENDING" /\ (InQueue(t) \/ \E j \in Keys : Helps(j, t))
      BY <2>1, <2>3, <2>9 DEF QueueOK
    <3>2. CASE t = h
      BY <1>3, <3>1, <3>2 DEF Helps
    <3>3. CASE InQueue(t) /\ t # h
      BY <1>1, <3>1, <3>3, PoppedFacts
    <3>4. ASSUME NEW j \in Keys, Helps(j, t) PROVE Helps(j, t)'
      BY <2>2, <2>3, <3>4 DEF Helps
    <3> QED
      BY <3>1, <3>2, <3>3, <3>4
  <2>10. \A t \in Tasks : t > count => at'[t] = "queued"
    BY <2>1, <2>3, TaskKeys DEF QueueOK
  <2> QED
    BY <1>1, <2>1, <2>4, <2>5, <2>7, <2>8, <2>9, <2>10, PoppedFacts DEF QueueOK
<1>10. NoLostWakeup'
  <2>1. Len(queue') = Len(queue) - 1 /\ Len(queue) \in Nat /\ idle \in Nat /\ awake \in 0..idle
    BY <1>1, HeadTail DEF Inv, PoolTypes
  <2>2. awake < idle /\ ~stopping => Len(queue) <= awake
    BY DEF Inv, Shape, NoLostWakeup
  <2> QED
    BY <1>1, <2>1, <2>2 DEF NoLostWakeup
<1> QED
  BY <1>1, <1>4, <1>6, <1>7, <1>8, <1>9, <1>10 DEF Good, Shape, Inv, lockVars

LEMMA HelpInv ==
  ASSUME Inv, NEW k \in Keys, Help(k) PROVE Good
<1> DEFINE t == wait[k].run
<1>1. /\ at[k] = "help" /\ NoteWaitTask(k, t) /\ at' = [at EXCEPT ![k] = "helping", ![t] = "begin"]
      /\ UNCHANGED <<taskVars, poolVars, wait>>
  BY DEF Help
<1>2. /\ QueueOK /\ WaitOK(k) /\ t \in 1..count /\ t \in Tasks /\ t \in Keys /\ at[t] = "queued"
      /\ ~InQueue(t) /\ t # k /\ wait[k] \in Waits
  <2>1. QueueOK /\ WaitOK(k) /\ wait[k] \in Waits
    BY DEF Inv, Shape, PoolTypes
  <2>2. t \in 1..count /\ at[t] = "queued" /\ ~InQueue(t)
    BY <1>1, <2>1 DEF QueueOK
  <2> QED
    BY <1>1, <2>1, <2>2, CountTasks
<1>3. /\ LockNext /\ edge' = [edge EXCEPT ![k] = TaskEdge(t)]
      /\ UNCHANGED <<held, expl, call, done>>
  <2>1. ~done[k]
    BY <1>1, NotDone
  <2> QED
    BY <1>1, <1>2, <2>1, TaskKeys DEF NoteWaitTask, LockNext, LockStep, Join, tableVars
<1>4. /\ at'[k] = "helping" /\ at'[t] = "begin"
      /\ \A j \in Keys : j \notin {k, t} => at'[j] = at[j]
  BY <1>1, <1>2 DEF Inv, PoolTypes
<1>5. PoolTypes'
  BY <1>1, <1>2 DEF Inv, PoolTypes, taskVars, poolVars, Ats
<1>6. \A j \in Keys : j \notin {k, t} => Kept(j)
  BY <1>1, <1>3, <1>4 DEF Kept, RowKept, Inv, TypeInv, LockTypeOK
<1>7. OutcomesKept /\ \A j \in Keys : ReturnsRight(j)
  BY <1>1, <1>4 DEF OutcomesKept, ReturnsRight, taskVars
<1>8. state' = state /\ wait' = wait /\ count' = count /\ queue' = queue
  BY <1>1 DEF taskVars, poolVars
<1>9. ASSUME NEW j \in Keys PROVE WaitOK(j)'
  <2>1. CASE j = k
    BY <1>1, <1>2, <1>3, <1>4, <1>8, <2>1 DEF WaitOK, Waiting, Noted
  <2>2. CASE j = t
    BY <1>4, <2>2 DEF WaitOK, Waiting, Noted
  <2>3. CASE j \notin {k, t}
    BY <1>6, <1>7, <2>3, WaitOKKept
  <2> QED
    BY <2>1, <2>2, <2>3
<1>10. ASSUME NEW s \in Tasks PROVE DoneOK(s)'
  <2>1. DoneOK(s) /\ s \in Keys
    BY TypesOfTask
  <2>2. CASE s = k
    BY <1>1, <1>3, <1>4, <1>8, <2>1, <2>2 DEF DoneOK
  <2>3. CASE s = t
    <3>1. edge'[t] = edge[t]
      BY <1>2, <1>3 DEF Inv, TypeInv, LockTypeOK
    <3> QED
      BY <1>2, <1>3, <1>4, <1>8, <2>1, <2>3, <3>1 DEF DoneOK, HoldsNothing
  <2>4. CASE s \notin {k, t}
    BY <1>6, <1>8, <2>1, <2>4 DEF DoneOK, HoldsNothing, Kept, RowKept
  <2> QED
    BY <2>2, <2>3, <2>4
<1>11. QueueOK'
  <2>1. \A j \in Keys : /\ at'[j] = "queued" <=> at[j] = "queued" /\ j # t
                        /\ at'[j] = "help" <=> at[j] = "help" /\ j # k
    BY <1>1, <1>2, <1>4
  <2>2. /\ \A s : InQueue(s)' <=> InQueue(s)
        /\ \A s : \A j \in Keys : Helps(j, s)' <=> Helps(j, s) /\ j # k
    BY <1>8, <2>1 DEF InQueue, Helps
  <2>3. \A i \in 1..Len(queue) : queue[i] # t
    BY <1>2 DEF InQueue
  <2>4. \A i \in 1..Len(queue') : queue'[i] \in 1..count' /\ at'[queue'[i]] = "queued"
    BY <1>2, <1>8, <2>1, <2>3, CountTasks DEF QueueOK
  <2>5. \A j \in Keys : at'[j] = "help" =>
          wait[j].run \in 1..count /\ at'[wait[j].run] = "queued" /\ ~InQueue(wait[j].run)
    <3>1. \A j \in Keys : at[j] = "help" /\ j # k => wait[j].run # t
      BY <1>1, <1>2 DEF QueueOK
    <3> QED
      BY <1>2, <2>1, <3>1, CountTasks DEF QueueOK
  <2>6. \A i, j \in Keys : at'[i] = "help" /\ at'[j] = "help" /\ wait'[i].run = wait'[j].run => i = j
    BY <1>2, <1>8, <2>1 DEF QueueOK
  <2>7. ASSUME NEW s \in 1..count, at'[s] = "queued"
        PROVE  state[s] = "PENDING" /\ (InQueue(s) \/ \E j \in Keys : Helps(j, s)')
    <3>1. s # t /\ state[s] = "PENDING" /\ (InQueue(s) \/ \E j \in Keys : Helps(j, s))
      BY <1>2, <2>1, <2>7, CountTasks DEF QueueOK
    <3>2. ~Helps(k, s)
      BY <3>1 DEF Helps
    <3> QED
      BY <2>2, <3>1, <3>2
  <2>8. \A s \in Tasks : s > count' => at'[s] = "queued"
    <3>1. ASSUME NEW s \in Tasks, s > count PROVE s # t /\ s \in Keys
      <4>1. t \in 1..count /\ count \in Nat
        BY <1>2, CountTasks
      <4>2. t <= count
        BY <4>1
      <4>3. s \in Nat /\ s \in Keys
        BY TaskKeys
      <4> QED
        BY <3>1, <4>1, <4>2, <4>3
    <3> QED
      BY <1>2, <1>8, <2>1, <3>1 DEF QueueOK
  <2>9. \A j \in Keys : at'[j] = "help" =>
          wait'[j].run \in 1..count' /\ at'[wait'[j].run] = "queued" /\ ~InQueue(wait[j].run)'
    BY <1>8, <2>5 DEF InQueue
  <2>10. \A s \in 1..count' : at'[s] = "queued" =>
          state'[s] = "PENDING" /\ (InQueue(s)' \/ \E j \in Keys : Helps(j, s)')
    BY <1>8, <2>2, <2>7
  <2> QED
    BY <1>2, <1>8, <2>4, <2>6, <2>8, <2>9, <2>10 DEF QueueOK
<1>12. NoLostWakeup'
  BY <1>1 DEF Inv, Shape, NoLostWakeup, poolVars
<1> QED
  BY <1>3, <1>5, <1>7, <1>9, <1>10, <1>11, <1>12 DEF Good, Shape, Inv

LEMMA SpawnInv ==
  ASSUME Inv, NEW k \in Keys, Spawn(k) PROVE Good
<1> DEFINE n == count + 1
<1>1. /\ count < MaxTasks /\ count' = n /\ state' = [state EXCEPT ![n] = "PENDING"]
      /\ queue' = Append(queue, n) /\ awake' = Notified
      /\ UNCHANGED <<lockVars, cancelRequested, errorText, observed, group, stopping, idle, threadVars>>
  BY DEF Spawn
<1>2. /\ n \in Tasks /\ n \in Keys /\ at[n] = "queued" /\ state[n] \notin Finished
      /\ count \in Nat /\ QueueOK
  <2>1. count \in Nat /\ MaxTasks \in Nat /\ QueueOK
    BY CountTasks, TasksAssumption DEF Inv, Shape
  <2>2. n \in Tasks /\ n > count
    BY <1>1, <2>1 DEF Tasks
  <2>3. at[n] = "queued"
    BY <2>1, <2>2 DEF QueueOK
  <2> QED
    BY <2>1, <2>2, <2>3, TypesOfTask, TaskKeys DEF DoneOK
<1>3. /\ at' = at /\ wait' = wait /\ done' = done
      /\ UNCHANGED <<held, expl, edge, call>>
  BY <1>1 DEF threadVars, lockVars, tableVars, waitVars
<1>4. PoolTypes'
  <2>1. count' \in 0..MaxTasks
    BY <1>1, <1>2, TasksAssumption
  <2>2. queue' \in Seq(Tasks)
    <3>1. queue \in Seq(Tasks)
      BY DEF Inv, PoolTypes
    <3>2. \A s \in Seq(Tasks) : Append(s, n) \in Seq(Tasks)
      BY <1>2
    <3> QED
      BY <1>1, <3>1, <3>2
  <2>3. awake' \in 0..idle
    <3>1. idle \in Nat /\ awake \in 0..idle
      BY DEF Inv, PoolTypes
    <3> QED
      BY <1>1, <3>1 DEF Notified
  <2>4. state' \in [Tasks -> States]
    BY <1>1, <1>2 DEF Inv, PoolTypes, States
  <2> QED
    BY <1>1, <1>3, <2>1, <2>2, <2>3, <2>4 DEF Inv, PoolTypes
<1>5. OutcomesKept /\ \A j \in Keys : ReturnsRight(j)
  BY <1>1, <1>2, <1>3 DEF OutcomesKept, ReturnsRight, Inv, PoolTypes
<1>6. ASSUME NEW j \in Keys PROVE WaitOK(j)'
  BY <1>3, <1>5, WaitOKKept DEF Kept, RowKept
<1>7. ASSUME NEW t \in Tasks PROVE DoneOK(t)'
  <2>1. DoneOK(t)
    BY TypesOfTask
  <2>2. state'[t] = IF t = n THEN "PENDING" ELSE state[t]
    BY <1>1 DEF Inv, PoolTypes
  <2> QED
    BY <1>3, <2>1, <2>2 DEF DoneOK, HoldsNothing, Finished
<1>8. QueueOK'
  <2>1. \A s \in Seq(Tasks) : /\ Len(s) \in Nat /\ Len(Append(s, n)) = Len(s) + 1
                              /\ \A i \in 1..Len(s) : Append(s, n)[i] = s[i]
                              /\ Append(s, n)[Len(s) + 1] = n
    BY <1>2
  <2>2. /\ queue \in Seq(Tasks) /\ Len(queue) \in Nat /\ Len(queue') = Len(queue) + 1
        /\ \A i \in 1..Len(queue) : queue'[i] = queue[i]
        /\ queue'[Len(queue) + 1] = n
    BY <1>1, <2>1 DEF Inv, PoolTypes
  <2>3. \A i \in 1..Len(queue') : i \in 1..Len(queue) \/ i = Len(queue) + 1
    BY <2>2
  <2>4. /\ \A i \in 1..Len(queue) : queue[i] \in 1..count /\ queue[i] # n /\ at[queue[i]] = "queued"
        /\ \A t \in 1..count : t \in 1..n /\ t # n
        /\ \A t \in 1..n : t \in 1..count \/ t = n
    BY <1>2 DEF QueueOK
  <2>5. \A i, j \in 1..Len(queue') : queue'[i] = queue'[j] => i = j
    BY <1>2, <2>2, <2>3, <2>4 DEF QueueOK
  <2>6. \A i \in 1..Len(queue') : queue'[i] \in 1..count' /\ at'[queue'[i]] = "queued"
    <3>1. n \in 1..n
      BY <1>2
    <3> QED
      BY <1>1, <1>2, <1>3, <2>2, <2>3, <2>4, <3>1
  <2>7. \A t : InQueue(t)' <=> InQueue(t) \/ t = n
    <3>1. \A t : InQueue(t)' => InQueue(t) \/ t = n
      BY <2>2, <2>3 DEF InQueue
    <3>2. \A t : InQueue(t) => InQueue(t)'
      BY <2>2 DEF InQueue
    <3>3. ASSUME NEW t, t = n PROVE InQueue(t)'
      <4>1. \E i \in 1..Len(queue') : queue'[i] = n
        BY <2>2
      <4> QED
        BY <3>3, <4>1 DEF InQueue
    <3> QED
      BY <3>1, <3>2, <3>3
  <2>8. \A j \in Keys : at'[j] = "help" =>
          wait'[j].run \in 1..count' /\ at'[wait'[j].run] = "queued" /\ ~InQueue(wait[j].run)'
    <3>1. \A j \in Keys : at[j] = "help" =>
            wait[j].run \in 1..count /\ at[wait[j].run] = "queued" /\ ~InQueue(wait[j].run)
      BY <1>2 DEF QueueOK
    <3> QED
      BY <1>1, <1>3, <2>4, <2>7, <3>1
  <2>9. \A i, j \in Keys : at'[i] = "help" /\ at'[j] = "help" /\ wait'[i].run = wait'[j].run => i = j
    BY <1>2, <1>3 DEF QueueOK
  <2>10. ASSUME NEW t \in 1..n, at[t] = "queued"
         PROVE  state'[t] = "PENDING" /\ (InQueue(t)' \/ \E j \in Keys : Helps(j, t)')
    <3>1. CASE t = n
      BY <1>1, <1>2, <2>7, <3>1 DEF Inv, PoolTypes
    <3>2. CASE t # n
      <4>1. t \in 1..count /\ t \in Tasks
        BY <2>4, <3>2, CountTasks
      <4>2. state[t] = "PENDING" /\ (InQueue(t) \/ \E j \in Keys : Helps(j, t))
        BY <1>2, <2>10, <4>1 DEF QueueOK
      <4>3. state'[t] = state[t]
        BY <1>1, <3>2, <4>1 DEF Inv, PoolTypes
      <4>4. \A j \in Keys : Helps(j, t)' <=> Helps(j, t)
        BY <1>3 DEF Helps
      <4> QED
        BY <2>7, <4>2, <4>3, <4>4
    <3> QED
      BY <3>1, <3>2
  <2>11. \A t \in Tasks : t > count' => at'[t] = "queued"
    BY <1>1, <1>2, <1>3, TaskKeys DEF QueueOK
  <2>12. \A t \in 1..count' : at'[t] = "queued" =>
          state'[t] = "PENDING" /\ (InQueue(t)' \/ \E j \in Keys : Helps(j, t)')
    BY <1>1, <1>3, <2>10
  <2> QED
    BY <2>5, <2>6, <2>8, <2>9, <2>11, <2>12 DEF QueueOK
<1>9. NoLostWakeup'
  <2>1. Len(queue) \in Nat /\ Len(queue') = Len(queue) + 1
    <3>1. queue \in Seq(Tasks)
      BY DEF Inv, PoolTypes
    <3>2. \A s \in Seq(Tasks) : Len(s) \in Nat /\ Len(Append(s, n)) = Len(s) + 1
      BY <1>2
    <3> QED
      BY <1>1, <3>1, <3>2
  <2>3. idle \in Nat /\ awake \in 0..idle
    BY DEF Inv, PoolTypes
  <2>2. awake < idle /\ ~stopping => Len(queue) <= awake
    BY DEF Inv, Shape, NoLostWakeup
  <2> QED
    BY <1>1, <2>1, <2>2, <2>3 DEF NoLostWakeup, Notified
<1> QED
  BY <1>1, <1>3, <1>4, <1>5, <1>6, <1>7, <1>8, <1>9 DEF Good, Shape, Inv

-----------------------------------------------------------------------------
(* Workers that find nothing to do *)

LEMMA WorkerIdleStep ==
  ASSUME Inv, UNCHANGED <<lockVars, taskVars, queue, stopping, threadVars>>,
         idle' \in Nat, awake' \in 0..idle', stopping \/ queue = <<>>
  PROVE  Good
<1>1. count' = count /\ state' = state /\ at' = at /\ wait' = wait
  BY DEF taskVars, threadVars
<1>2. PoolTypes'
  BY <1>1 DEF Inv, PoolTypes, taskVars
<1>3. OutcomesKept /\ \A k \in Keys : ReturnsRight(k)
  BY <1>1 DEF OutcomesKept, ReturnsRight, taskVars
<1>4. \A k \in Keys : Kept(k)
  BY <1>1 DEF Kept, RowKept, lockVars, tableVars, waitVars
<1>5. \A k \in Keys : WaitOK(k)'
  BY <1>3, <1>4, WaitOKKept
<1>6. \A t \in Tasks : DoneOK(t)'
  BY <1>1, <1>4, TaskKeys DEF Kept, RowKept, DoneOK, HoldsNothing, Inv, Shape
<1>7. QueueOK'
  BY <1>1, QueueKept
<1>8. NoLostWakeup'
  <2>1. CASE stopping
    BY <2>1 DEF NoLostWakeup
  <2>2. CASE queue = <<>>
    <3>1. Len(queue') = 0 /\ awake' \in Nat
      BY <2>2
    <3> QED
      BY <3>1 DEF NoLostWakeup
  <2> QED
    BY <2>1, <2>2
<1> QED
  BY <1>2, <1>3, <1>5, <1>6, <1>7, <1>8 DEF Good, Shape, Inv, lockVars

LEMMA WorkerSleepInv ==
  ASSUME Inv, WorkerSleep PROVE Good
<1>1. idle \in Nat /\ awake \in 0..idle
  BY DEF Inv, PoolTypes
<1>2. \/ idle' = idle + 1 /\ awake' = awake
      \/ awake > 0 /\ awake' = awake - 1 /\ idle' = idle
  BY DEF WorkerSleep
<1>3. idle' \in Nat /\ awake' \in 0..idle'
  <2>1. CASE idle' = idle + 1 /\ awake' = awake
    BY <1>1, <2>1
  <2>2. CASE awake > 0 /\ awake' = awake - 1 /\ idle' = idle
    BY <1>1, <2>2
  <2> QED
    BY <1>2, <2>1, <2>2
<1> QED
  BY <1>3, WorkerIdleStep DEF WorkerSleep

LEMMA WorkerExitInv ==
  ASSUME Inv, WorkerExit PROVE Good
<1>1. idle \in Nat /\ awake \in 0..idle
  BY DEF Inv, PoolTypes
<1>2. \/ idle' = idle /\ awake' = awake
      \/ awake > 0 /\ awake' = awake - 1 /\ idle' = idle - 1
  BY DEF WorkerExit, FromLoop, FromSleep
<1>3. idle' \in Nat /\ awake' \in 0..idle'
  <2>1. CASE idle' = idle /\ awake' = awake
    BY <1>1, <2>1
  <2>2. CASE awake > 0 /\ awake' = awake - 1 /\ idle' = idle - 1
    BY <1>1, <2>2
  <2> QED
    BY <1>2, <2>1, <2>2
<1> QED
  BY <1>3, WorkerIdleStep DEF WorkerExit

-----------------------------------------------------------------------------
(* All steps *)

LEMMA StutterInv ==
  ASSUME Inv, UNCHANGED vars PROVE Good
<1>1. group \in Seq(Tasks) /\ cancelRequested \in [Tasks -> BOOLEAN]
  BY DEF Inv, PoolTypes
<1> QED
  BY <1>1, StayStep DEF vars, taskVars, poolVars, threadVars, OutcomesKept

LEMMA KeyStepInv ==
  ASSUME Inv, NEW k \in Keys, KeyStep(k) PROVE Good
<1>1. CASE WaitStep(k)
  BY <1>1, NoteInv, CheckInv, FoundFinishedInv, TakeToHelpInv, SleepInv, ResumeInv, HelpInv,
     RenoteInv, ClearInv, WaitedInv, JoinsInv DEF WaitStep
<1>2. CASE Spawn(k) \/ GroupJoin(k) \/ LockWake(k) \/ LockLeave(k)
  BY <1>2, SpawnInv, GroupJoinInv, LockWakeInv, LockLeaveInv
<1>3. ASSUME NEW h \in Tasks, GroupAdd(k, h) \/ Cancel(k, h) PROVE Good
  BY <1>3, GroupAddInv, CancelInv
<1>4. ASSUME NEW h \in Tasks, NEW op \in Ops, WaitFor(k, op, h) \/ Read(k, op, h) PROVE Good
  BY <1>4, WaitForInv, ReadInv
<1>5. ASSUME NEW ids \in SUBSET Locks, NEW mode \in Modes, LockEnter(k, ids, mode) PROVE Good
  BY <1>5, LockEnterInv
<1> QED
  BY <1>1, <1>2, <1>3, <1>4, <1>5 DEF KeyStep, CallStep

LEMMA NextGood ==
  ASSUME Inv, [Next]_vars PROVE Good
<1>1. CASE WorkerStep
  BY <1>1, WorkerTakeInv, WorkerSleepInv, WorkerExitInv DEF WorkerStep
<1>2. ASSUME NEW t \in Tasks, TaskStep(t) PROVE Good
  <2>1. t \in Keys
    BY TaskKeys
  <2>2. CASE RunStep(t)
    BY <2>2, BeginInv, BeginCancelledInv, EndBodyInv, PublishInv DEF RunStep
  <2>3. CASE Throw(t) \/ CancelPoint(t)
    BY <2>3, ThrowInv, CancelPointInv
  <2>4. CASE KeyStep(t)
    BY <2>1, <2>4, KeyStepInv
  <2> QED
    BY <1>2, <2>2, <2>3, <2>4 DEF TaskStep
<1>3. CASE KeyStep(Main)
  BY <1>3, TaskKeys, KeyStepInv
<1>4. CASE ExitStep
  <2>1. ASSUME NEW normal \in ExitModes, Snapshot(normal) PROVE Good
    BY <2>1, PoolAssumption, SnapshotInv
  <2> QED
    BY <1>4, <2>1, ShutdownInv, StopInv, ReapInv DEF ExitStep
<1>5. CASE UNCHANGED vars
  BY <1>5, StutterInv
<1> QED
  BY <1>1, <1>2, <1>3, <1>4, <1>5 DEF Next, Exited

LEMMA InitInv == Init => Inv
<1> SUFFICES ASSUME Init PROVE Inv
  OBVIOUS
<1>1. LockInit /\ TypeInv
  BY InitTypeInv DEF Init
<1>2. PoolTypes
  <2>1. count \in 0..MaxTasks /\ stopping \in BOOLEAN /\ idle \in Nat /\ awake \in 0..idle
    <3>1. 0 \in 0..0 /\ 0 \in 0..MaxTasks
      BY TasksAssumption
    <3> QED
      BY <3>1 DEF Init
  <2>2. group \in Seq(Tasks) /\ queue \in Seq(Tasks)
    <3>1. <<>> \in Seq(Tasks)
      OBVIOUS
    <3> QED
      BY <3>1 DEF Init
  <2>3. /\ state \in [Tasks -> States] /\ cancelRequested \in [Tasks -> BOOLEAN]
        /\ errorText \in [Tasks -> {"", "CANCELLED", "THROW"}] /\ at \in [Keys -> Ats]
    BY DEF Init, States, Ats
  <2>4. wait \in [Keys -> Waits]
    BY NoWaitType DEF Init
  <2> QED
    BY <2>1, <2>2, <2>3, <2>4 DEF PoolTypes
<1>3. Shape
  <2>1. /\ \A t \in Tasks : at[t] = "queued" /\ state[t] = "NONE" /\ t \in Keys
        /\ at[Main] = "user" /\ Main \in Keys
        /\ \A k \in Keys : at[k] \in {"queued", "user"} /\ wait[k] = NoWait
    BY TaskKeys DEF Init
  <2>2. \A k \in Keys : ~done[k] /\ HoldsNothing(k)
    BY <1>1 DEF LockInit, HoldsNothing
  <2>3. \A k \in Keys : WaitOK(k)
    BY <2>1 DEF WaitOK, Waiting, Noted, NoWait
  <2>4. \A t \in Tasks : DoneOK(t)
    BY <2>1, <2>2 DEF DoneOK, Finished
  <2>5. count = 0 /\ queue = <<>> /\ Len(queue) = 0 /\ idle = 0 /\ awake = 0
    BY DEF Init
  <2>6. QueueOK
    <3>1. \A k \in Keys : at[k] # "help"
      BY <2>1
    <3> QED
      BY <2>1, <2>5, <3>1 DEF QueueOK
  <2>7. NoLostWakeup
    BY <2>5 DEF NoLostWakeup
  <2> QED
    BY <2>1, <2>2, <2>3, <2>4, <2>6, <2>7 DEF Shape
<1> QED
  BY <1>1, <1>2, <1>3 DEF Inv

LEMMA NextInv == Inv /\ [Next]_vars => Inv'
<1> SUFFICES ASSUME Inv, [Next]_vars PROVE Inv'
  OBVIOUS
<1>1. Good
  BY NextGood
<1> QED
  BY <1>1, NextTypeInv DEF Good, Inv

LEMMA PoolInductive == Spec => []Inv
BY InitInv, NextInv, PTL DEF Spec

-----------------------------------------------------------------------------
(* What holds of every program on every pool *)

(* The pool uses the lock table as the lock table expects: every step of     *)
(* every task is a step of LockSpec or leaves the table alone.  The theorems *)
(* of LockTableProofs therefore hold of the whole system.                    *)
THEOREM PoolImplementsLocks == Spec => LockSpec
<1>1. Init => LockInit
  BY DEF Init
<1>2. Inv /\ [Next]_vars => [LockNext]_lockVars
  BY NextGood DEF Good
<1> QED
  BY <1>1, <1>2, PoolInductive, PTL DEF Spec, LockSpec

(* As long as the process has not been stopped with TASK_WAIT_CYCLE or       *)
(* LOCK_DEADLOCK, no tasks of the program wait for each other in a circle,   *)
(* helpers and the tasks that they run on their stacks included.             *)
THEOREM PoolNoSilentDeadlock == Spec => []NoUndetectedDeadlock
BY PoolImplementsLocks, NoSilentDeadlock, PTL

(* In the whole system a lock is owned exactly by the task inside a          *)
(* statement or LOCK block that names it, and the end of a task, a failed    *)
(* JOIN or a nested task never makes release_locked meet a foreign lock.     *)
THEOREM PoolLockSafety == Spec => [](OwnedIffInside /\ NoInternalLockError)
BY PoolImplementsLocks, LockSafety, PTL

(* A task is handed out at most once: it is once in g_queue, or in the hands *)
(* of one waiter, exactly until a thread begins to run it.                   *)
THEOREM TaskRunsOnce == Spec => []RunsOnce
<1>1. Inv => RunsOnce
  <2> SUFFICES ASSUME Inv PROVE RunsOnce
    OBVIOUS
  <2>1. QueueOK
    BY DEF Inv, Shape
  <2>2. \A t : InQueue(t) => t \in 1..count /\ at[t] = "queued"
    BY <2>1 DEF QueueOK, InQueue
  <2>3. \A t : \A k \in Keys : Helps(k, t) => t \in 1..count /\ at[t] = "queued" /\ ~InQueue(t)
    BY <2>1 DEF QueueOK, Helps
  <2>4. \A j, k \in Keys, t \in Tasks : Helps(j, t) /\ Helps(k, t) => j = k
    BY <2>1 DEF QueueOK, Helps
  <2>5. ASSUME NEW t \in 1..count
        PROVE  /\ at[t] = "queued" => state[t] = "PENDING"
               /\ at[t] = "queued" <=> (InQueue(t) # \E k \in Keys : Helps(k, t))
    <3>1. at[t] = "queued" => state[t] = "PENDING" /\ (InQueue(t) \/ \E k \in Keys : Helps(k, t))
      BY <2>1 DEF QueueOK
    <3>2. InQueue(t) \in BOOLEAN /\ (\E k \in Keys : Helps(k, t)) \in BOOLEAN
      BY DEF InQueue
    <3> QED
      BY <2>2, <2>3, <3>1, <3>2
  <2> QED
    BY <2>1, <2>4, <2>5 DEF RunsOnce, QueueOK
<1> QED
  BY <1>1, PoolInductive, PTL

(* A task that is seen finished never changes again: no CANCEL, THROW or     *)
(* cancellation point, however late, reaches its state or its error text.    *)
THEOREM OutcomesNeverChange == Spec => OutcomeStable
<1>1. Inv /\ [Next]_vars =>
        [\A t \in Tasks : state[t] \in Finished =>
           /\ state'[t] = state[t]
           /\ errorText'[t] = errorText[t]
           /\ cancelRequested'[t] = cancelRequested[t]]_vars
  BY NextGood DEF Good, OutcomesKept
<1> QED
  BY <1>1, PoolInductive, PTL DEF Spec, OutcomeStable

(* S-146: a waiter that runs another task on its stack owns no lock, though  *)
(* mayHelp was read from the lock table before g_mutex was taken.            *)
THEOREM HelpersHoldNoLock == Spec => []HelperHoldsNothing
<1>1. Inv => HelperHoldsNothing
  BY DEF Inv, Shape, WaitOK, HelperHoldsNothing
<1> QED
  BY <1>1, PoolInductive, PTL

(* Whoever sees a task finished may rely on all its locks being free:        *)
(* run_task releases them before it publishes the state.                     *)
THEOREM FinishedTasksHoldNothing == Spec => []FinishedHoldsNothing
<1>1. Inv => FinishedHoldsNothing
  BY DEF Inv, Shape, DoneOK, HoldsNothing, FinishedHoldsNothing
<1> QED
  BY <1>1, PoolInductive, PTL

(* WAIT, JOIN and TASKGROUP.JOIN never return early: every task they name    *)
(* has finished, also when tasks were run on the waiter's stack meanwhile or *)
(* the waiter was woken for the end of another task.                         *)
THEOREM WaitsReturnFinished == Spec => WaitReturnsFinished
<1>1. Inv /\ [Next]_vars =>
        [\A k \in Keys : at[k] = "after" /\ at'[k] = "user" =>
           \A i \in 1..Len(wait[k].on) :
              state[wait[k].on[i]] \in IF wait[k].for = "wait" THEN Finished ELSE {"DONE"}]_vars
  BY NextGood DEF Good, ReturnsRight
<1> QED
  BY <1>1, PoolInductive, PTL DEF Spec, WaitReturnsFinished

(* The notify_one of SPAWN is never lost: while a worker sleeps unnotified,  *)
(* every queued task has a notified worker, though SPAWN, sleeping, waking   *)
(* up and helping interleave in any order.                                   *)
THEOREM WakeupsNotLost == Spec => []NoLostWakeup
<1>1. Inv => NoLostWakeup
  BY DEF Inv, Shape
<1> QED
  BY <1>1, PoolInductive, PTL

-----------------------------------------------------------------------------
(* The numbers: the inductive invariant *)

(* Where a key is at no place of the code, or below another one on its stack. *)
OffStack == {"queued", "over"}
Still == OffStack \cup {"helping"}

(* The tasks on top of the worker threads' stacks. *)
Tops == {t \in Tasks \ onMain : at[t] \notin Still}

SleepingWorkers == Asleep \ onMain

(* The threads that exist.  The workers are started by the first SPAWN. *)
Threads == IF count = 0 THEN 0 ELSE NWorkers + extra

(* A waiter that runs a task on its stack waits for that task alone, on the  *)
(* same thread; on the main thread exactly one key is on top.                *)
Chains ==
  /\ \A k \in Keys : at[k] = "helping" =>
       /\ wait[k].run \in Tasks /\ at[wait[k].run] \notin OffStack
       /\ wait[k].run \in onMain <=> k \in onMain
       /\ edge[k] = TaskEdge(wait[k].run)
  /\ \A j, k \in Keys : at[j] = "helping" /\ at[k] = "helping" /\ wait[j].run = wait[k].run => j = k
  /\ \A t \in Tasks \cap onMain : at[t] \notin OffStack /\ Hosts(t) # {}
  /\ \E k \in onMain : at[k] # "helping" /\ \A j \in onMain : j # k => at[j] = "helping"

(* Each thread is idle, about to look at the queue, gone, or carries a chain, *)
(* which has one task at the bottom and one on top.                          *)
ThreadsExact ==
  /\ count = 0 => extra = 0
  /\ idle + looping + exited + Cardinality(Roots) = Threads
  /\ idle + looping + exited + Cardinality(Tops) = Threads

CountTypes ==
  /\ looping \in Nat /\ exited \in Nat /\ extra \in Nat /\ blocked \in Nat
  /\ onMain \in SUBSET Keys /\ Main \in onMain

CountInv ==
  /\ CountTypes
  /\ \A k \in Keys : call[k] # NoCall => at[k] = "user"
  /\ blocked = Cardinality(SleepingWorkers)
  /\ CompensationKeepsUp
  /\ ThreadsBounded
  /\ Alive => Chains /\ ThreadsExact

(* The end of the program: no worker leaves while work can still come, and   *)
(* what is over has finished.                                                *)
ExitInv ==
  /\ stopping => at[Main] \in {"reap", "over"}
  /\ exited > 0 => stopping
  /\ at[Main] = "reap" => wait[Main].for \in {"clean", "unread"}
  /\ Alive => \A t \in Tasks : at[t] = "over" => state[t] \in Finished
  /\ Alive /\ queue # <<>> => exited < NWorkers + extra
  /\ AllFinishedAtExit

Counted == CountInv /\ ExitInv

-----------------------------------------------------------------------------
(* The numbers *)

LEMMA KeySets ==
  ASSUME NEW S, S \subseteq Keys
  PROVE  IsFiniteSet(S) /\ Cardinality(S) \in Nat
<1>1. IsFiniteSet(1..MaxTasks)
  BY TasksAssumption, FS_Interval
<1>2. IsFiniteSet(Keys)
  <2>1. IsFiniteSet((1..MaxTasks) \cup {Main})
    BY <1>1, FS_AddElement
  <2>2. Keys = (1..MaxTasks) \cup {Main}
    BY TasksAssumption DEF Tasks
  <2> QED
    BY <2>1, <2>2
<1> QED
  BY <1>2, FS_Subset, FS_CardinalityType

LEMMA Numbers ==
  ASSUME Inv, CountInv
  PROVE  /\ count \in Nat /\ idle \in Nat /\ looping \in Nat /\ exited \in Nat /\ extra \in Nat
         /\ blocked \in Nat /\ NWorkers \in Nat \ {0}
         /\ Roots \subseteq Keys /\ IsFiniteSet(Roots) /\ Cardinality(Roots) \in Nat
         /\ Tops \subseteq Keys /\ IsFiniteSet(Tops) /\ Cardinality(Tops) \in Nat
         /\ SleepingWorkers \subseteq Keys /\ IsFiniteSet(SleepingWorkers)
         /\ onMain \subseteq Keys /\ Main \in onMain
<1>1. Roots \subseteq Keys /\ Tops \subseteq Keys /\ SleepingWorkers \subseteq Keys
  BY TaskKeys DEF Roots, Started, Tops, SleepingWorkers, Asleep
<1> QED
  BY <1>1, KeySets, CountTasks, PoolAssumption DEF Inv, PoolTypes, CountInv, CountTypes

(* The tasks on top of the workers are spawned and not in the queue, and     *)
(* there are no more of them than threads.                                   *)
LEMMA TopsBounded ==
  ASSUME Inv, CountInv, Alive
  PROVE  /\ SleepingWorkers \subseteq Tops
         /\ Tops \subseteq 1..count /\ Roots \subseteq 1..count
         /\ Cardinality(Tops) <= Threads
         /\ Cardinality(Tops) <= count
         /\ queue # <<>> => Cardinality(Tops) < count /\ count > 0
         /\ \A S \in SUBSET Tops : IsFiniteSet(S) /\ Cardinality(S) \in Nat
                                  /\ Cardinality(S) <= Cardinality(Tops)
<1>1. ASSUME NEW k \in SleepingWorkers PROVE k \in Tops
  <2>1. k \in Keys /\ k \notin onMain /\ at[k] \in {"sleep", "awake", "user"}
    BY <1>1 DEF SleepingWorkers, Asleep, CountInv
  <2>2. k \in Tasks
    BY <2>1, Numbers, TasksAssumption
  <2> QED
    BY <2>1, <2>2 DEF Tops, Still, OffStack
<1>2. ASSUME NEW t \in Tasks, at[t] # "queued" PROVE t \in 1..count
  <2>1. ~(t > count) /\ t \in Tasks /\ count \in Nat
    BY <1>2, Numbers DEF Inv, Shape, QueueOK
  <2> QED
    BY <2>1 DEF Tasks
<1>3. Tops \subseteq 1..count /\ Roots \subseteq 1..count
  BY <1>2 DEF Tops, Still, OffStack, Roots, Started
<1>4. IsFiniteSet(1..count) /\ Cardinality(1..count) = count
  <2>1. count \in Nat
    BY Numbers
  <2> QED
    BY <2>1, FS_Interval
<1>5. Cardinality(Tops) <= count
  BY <1>3, <1>4, FS_Subset
<1>6. ASSUME queue # <<>> PROVE Cardinality(Tops) < count /\ count > 0
  <2> DEFINE q == Head(queue)
  <2>1. q \in 1..count /\ at[q] = "queued"
    BY <1>6, HeadTail
  <2>2. q \notin Tops
    BY <2>1 DEF Tops, Still, OffStack
  <2>3. Tops # 1..count
    BY <2>1, <2>2
  <2>4. Cardinality(Tops) # count
    BY <1>3, <1>4, <2>3, FS_Subset
  <2> QED
    BY <1>5, <2>1, <2>4, Numbers
<1>7. Cardinality(Tops) <= Threads
  BY Numbers DEF CountInv, ThreadsExact, Threads
<1>8. ASSUME NEW S \in SUBSET Tops
      PROVE  IsFiniteSet(S) /\ Cardinality(S) \in Nat /\ Cardinality(S) <= Cardinality(Tops)
  BY Numbers, FS_Subset, FS_CardinalityType
<1> QED
  BY <1>1, <1>3, <1>5, <1>6, <1>7, <1>8

-----------------------------------------------------------------------------
(* Steps that leave the threads' stacks as they are *)

SameStacks ==
  /\ onMain' = onMain
  /\ \A k \in Keys :
       /\ at'[k] \in OffStack <=> at[k] \in OffStack
       /\ at'[k] = "helping" <=> at[k] = "helping"
       /\ at[k] = "helping" => wait'[k] = wait[k] /\ edge'[k] = edge[k]

LEMMA StacksKept ==
  ASSUME Inv, CountInv, SameStacks
  PROVE  /\ Roots' = Roots /\ Tops' = Tops
         /\ Chains => Chains'
<1>1. \A t : Hosts(t)' = Hosts(t)
  BY DEF Hosts, SameStacks
<1>2. Tops' = Tops
  BY TaskKeys DEF Tops, Still, SameStacks
<1>3. Roots' = Roots
  <2>1. Started' = Started
    BY TaskKeys DEF Started, SameStacks, OffStack
  <2>2. \A t \in Started : at[t] # "queued" /\ at'[t] # "queued"
    BY TaskKeys DEF Started, SameStacks, OffStack
  <2> QED
    BY <1>1, <2>1, <2>2 DEF Roots
<1>4. ASSUME Chains PROVE Chains'
  <2>1. ASSUME NEW k \in Keys, at'[k] = "helping"
        PROVE  /\ wait'[k] = wait[k] /\ edge'[k] = edge[k] /\ at[k] = "helping"
               /\ wait'[k].run \in Tasks /\ at'[wait'[k].run] \notin OffStack
               /\ wait'[k].run \in onMain' <=> k \in onMain'
               /\ edge'[k] = TaskEdge(wait'[k].run)
    BY <1>4, <2>1, TaskKeys DEF Chains, SameStacks
  <2>2. \A j, k \in Keys : at'[j] = "helping" /\ at'[k] = "helping" /\ wait'[j].run = wait'[k].run => j = k
    BY <1>4, <2>1 DEF Chains
  <2>3. \A t \in Tasks \cap onMain' : at'[t] \notin OffStack /\ Hosts(t)' # {}
    BY <1>1, <1>4, TaskKeys DEF Chains, SameStacks
  <2>4. \E k \in onMain' : at'[k] # "helping" /\ \A j \in onMain' : j # k => at'[j] = "helping"
    BY <1>4, Numbers DEF Chains, SameStacks
  <2> QED
    BY <2>1, <2>2, <2>3, <2>4 DEF Chains
<1> QED
  BY <1>2, <1>3, <1>4

(* No worker starts, ends or goes to sleep; d of them leave their chain. *)
LEMMA NumbersKept ==
  ASSUME Inv, CountInv, Alive, NEW d \in {0, 1},
         Alive' => /\ Chains' /\ Cardinality(Roots') = Cardinality(Roots) - d
                   /\ Cardinality(Tops') = Cardinality(Tops) - d,
         onMain' \in SUBSET Keys, Main \in onMain',
         queue' # <<>> => queue # <<>>, stopping => stopping', looping' = looping + d,
         UNCHANGED <<count, idle, exited, extra>>,
         blocked' = Cardinality(SleepingWorkers'), blocked' <= blocked,
         \A k \in Keys : call'[k] # NoCall => at'[k] = "user"
  PROVE  CountInv'
<1>1. CountTypes'
  <2>1. SleepingWorkers' \subseteq Keys
    BY DEF SleepingWorkers, Asleep
  <2>2. blocked' \in Nat
    BY <2>1, KeySets
  <2>3. looping' \in Nat
    BY Numbers
  <2> QED
    BY <2>2, <2>3 DEF CountInv, CountTypes
<1>2. CompensationKeepsUp'
  BY <1>1, Numbers DEF CountInv, CompensationKeepsUp, CountTypes
<1>3. ThreadsBounded'
  BY DEF CountInv, ThreadsBounded
<1>4. ASSUME Alive' PROVE Chains' /\ ThreadsExact'
  <2>1. Chains' /\ Threads' = Threads
    BY <1>4 DEF Threads
  <2>2. /\ count = 0 => extra = 0
        /\ idle + looping + exited + Cardinality(Roots) = Threads
        /\ idle + looping + exited + Cardinality(Tops) = Threads
    BY DEF CountInv, ThreadsExact
  <2>3. \A a, b, c, r \in Nat : a + (b + d) + c + (r - d) = a + b + c + r
    OBVIOUS
  <2>4. /\ idle \in Nat /\ looping \in Nat /\ exited \in Nat
        /\ Cardinality(Roots) \in Nat /\ Cardinality(Tops) \in Nat
    BY Numbers
  <2>5. /\ idle + (looping + d) + exited + (Cardinality(Roots) - d) = Threads
        /\ idle + (looping + d) + exited + (Cardinality(Tops) - d) = Threads
    BY <2>2, <2>3, <2>4
  <2> QED
    BY <1>4, <2>1, <2>2, <2>5 DEF ThreadsExact
<1> QED
  BY <1>1, <1>2, <1>3, <1>4 DEF CountInv

LEMMA NumbersStay ==
  ASSUME Inv, CountInv, Alive, SameStacks,
         queue' # <<>> => queue # <<>>, stopping => stopping',
         UNCHANGED <<count, idle, looping, exited, extra>>,
         blocked' = Cardinality(SleepingWorkers'), blocked' <= blocked,
         \A k \in Keys : call'[k] # NoCall => at'[k] = "user"
  PROVE  CountInv'
<1>1. Chains' /\ Roots' = Roots /\ Tops' = Tops
  BY StacksKept DEF CountInv
<1>2. /\ looping' = looping + 0
      /\ Cardinality(Roots') = Cardinality(Roots) - 0 /\ Cardinality(Tops') = Cardinality(Tops) - 0
  BY <1>1, Numbers
<1>3. onMain' \in SUBSET Keys /\ Main \in onMain'
  BY DEF CountInv, CountTypes, SameStacks
<1> QED
  BY <1>1, <1>2, <1>3, NumbersKept

(* The end of the program does not come closer. *)
Ends ==
  /\ UNCHANGED <<stopping, exited>>
  /\ exit' \notin {"clean", "unread"}
  /\ at[Main] \in {"reap", "over"} => at'[Main] = at[Main] /\ wait'[Main] = wait[Main]
  /\ at'[Main] = "reap" => at[Main] = "reap"
  /\ Alive' => \A t \in Tasks : at'[t] = "over" => at[t] = "over" \/ state'[t] \in Finished
  /\ queue' # <<>> => queue # <<>>
  /\ extra' = extra \/ extra' = extra + 1

LEMMA EndsKept ==
  ASSUME Inv, Counted, Alive, OutcomesKept, Ends
  PROVE  ExitInv'
<1>1. exited \in Nat /\ extra \in Nat /\ NWorkers \in Nat
  BY Numbers DEF Counted
<1>2. Alive' /\ queue' # <<>> => exited' < NWorkers + extra'
  <2>1. queue # <<>> => exited < NWorkers + extra
    BY DEF Counted, ExitInv
  <2> QED
    BY <1>1, <2>1 DEF Ends
<1>3. ASSUME Alive', NEW t \in Tasks, at'[t] = "over" PROVE state'[t] \in Finished
  <2>1. CASE at[t] = "over"
    BY <2>1 DEF Counted, ExitInv, OutcomesKept
  <2> QED
    BY <1>3, <2>1 DEF Ends
<1> QED
  BY <1>2, <1>3 DEF Counted, ExitInv, Ends, AllFinishedAtExit

(* One key goes on; nothing that is counted changes. *)
LEMMA QuietMove ==
  ASSUME Inv, Counted, Alive, OutcomesKept,
         NEW k \in Keys, at[k] \notin Still \cup {"reap", "sleep", "awake"},
         NEW to, to \notin Still \cup {"reap", "sleep", "awake"},
         at' = [at EXCEPT ![k] = to],
         \A j \in Keys : j # k => wait'[j] = wait[j] /\ edge'[j] = edge[j] /\ call'[j] = call[j],
         call[k] = NoCall, call'[k] = NoCall,
         UNCHANGED <<count, stopping, idle, looping, exited, extra, blocked, onMain>>,
         queue' # <<>> => queue # <<>>, exit' \notin {"clean", "unread"}
  PROVE  Counted'
<1>1. at'[k] = to /\ \A j \in Keys : j # k => at'[j] = at[j]
  BY DEF Inv, PoolTypes
<1>2. SameStacks
  BY <1>1 DEF SameStacks, Still
<1>3. SleepingWorkers' = SleepingWorkers
  <2>1. Asleep' = Asleep
    BY <1>1 DEF Asleep
  <2> QED
    BY <2>1 DEF SleepingWorkers
<1>4. \A j \in Keys : call'[j] # NoCall => at'[j] = "user"
  BY <1>1 DEF Counted, CountInv
<1>5. blocked' = Cardinality(SleepingWorkers') /\ blocked' <= blocked
  BY <1>3, Numbers DEF Counted, CountInv
<1>6. CountInv'
  BY <1>2, <1>4, <1>5, NumbersStay DEF Counted
<1>7. Ends
  <2>1. Main \in Keys /\ \A t \in Tasks : t \in Keys
    BY TaskKeys
  <2>2. extra \in Nat
    BY Numbers DEF Counted
  <2> QED
    BY <1>1, <2>1, <2>2 DEF Ends, Still, OffStack
<1> QED
  BY <1>6, <1>7, EndsKept DEF Counted

-----------------------------------------------------------------------------
(* Quiet steps *)

LEMMA NoCallBut ==
  ASSUME Counted, NEW k \in Keys, at[k] # "user"
  PROVE  call[k] = NoCall
BY DEF Counted, CountInv

LEMMA RunQuiet ==
  ASSUME Inv, Counted, OutcomesKept, NEW t \in Tasks, Begin(t) \/ EndBody(t)
  PROVE  Counted'
<1>1. CASE Begin(t)
  <2>1. /\ Alive /\ at[t] = "begin" /\ at' = [at EXCEPT ![t] = "user"]
        /\ exit' = exit /\ wait' = wait /\ edge' = edge /\ call' = call /\ t \in Keys
        /\ UNCHANGED <<count, queue, stopping, idle, looping, exited, extra, blocked, onMain>>
    BY <1>1, TaskKeys DEF Begin, lockVars, waitVars, poolVars
  <2> QED
    BY <2>1, NoCallBut, QuietMove DEF Still, OffStack, Alive
<1>2. CASE EndBody(t)
  <2>1. /\ Alive /\ at[t] \in {"user", "return"} /\ at' = [at EXCEPT ![t] = "publish"]
        /\ exit' = exit /\ wait' = wait /\ call' = call /\ t \in Keys /\ call[t] = NoCall
        /\ edge' = [edge EXCEPT ![t] = NoEdge]
        /\ UNCHANGED <<count, queue, stopping, idle, looping, exited, extra, blocked, onMain>>
    BY <1>2, TaskKeys DEF EndBody, Finish, Running, ReleaseAll, taskVars, poolVars
  <2>2. \A j \in Keys : j # t => edge'[j] = edge[j]
    BY <2>1 DEF Inv, TypeInv, LockTypeOK
  <2> QED
    BY <2>1, <2>2, QuietMove DEF Still, OffStack, Alive
<1> QED
  BY <1>1, <1>2

(* A waiter goes on in its wait, or leaves it. *)
LEMMA WaitQuiet ==
  ASSUME Inv, Counted, OutcomesKept, NEW k \in Keys,
         \/ Note(k) \/ Check(k) \/ FoundFinished(k) \/ TakeToHelp(k) \/ Renote(k) \/ Clear(k) \/ Waited(k)
         \/ Joins(k) /\ FailedOn(k) = {}
  PROVE  Counted'
<1>1. PICK to : /\ to \in {"check", "decide", "clear", "help", "note", "after", "user"}
                /\ at' = [at EXCEPT ![k] = to]
  BY DEF Note, Check, FoundFinished, TakeToHelp, Renote, Clear, Waited, Joins, Moved
<1>2. /\ Alive /\ at[k] \in {"note", "check", "decide", "renote", "clear", "after"}
      /\ UNCHANGED <<count, stopping, idle, looping, exited, extra, blocked, onMain, exit, call>>
  BY DEF Note, Check, FoundFinished, TakeToHelp, Renote, Clear, Waited, Joins, Moved, taskVars, poolVars,
         lockVars, waitVars, NoteWaitTask, ClearWait
<1>3. \A j \in Keys : j # k => wait'[j] = wait[j]
  BY DEF Note, Check, FoundFinished, TakeToHelp, Renote, Clear, Waited, Joins, Inv, PoolTypes
<1>4. \A j \in Keys : j # k => edge'[j] = edge[j]
  BY DEF Note, Check, FoundFinished, TakeToHelp, Renote, Clear, Waited, Joins, NoteWaitTask, ClearWait,
         lockVars, waitVars, Inv, TypeInv, LockTypeOK
<1>5. queue' # <<>> => queue # <<>>
  BY DEF Note, Check, FoundFinished, TakeToHelp, Renote, Clear, Waited, Joins, poolVars
<1>6. call[k] = NoCall
  BY <1>2, NoCallBut
<1> QED
  BY <1>1, <1>2, <1>3, <1>4, <1>5, <1>6, QuietMove DEF Still, OffStack, Alive

LEMMA StartWaitQuiet ==
  ASSUME Inv, Counted, OutcomesKept, NEW k \in Keys, Alive, at[k] = "user", Running(k),
         NEW for, NEW on, StartWait(k, for, on), exit' = exit
  PROVE  Counted'
<1>1. PICK to \in {"after", "note"} : at' = [at EXCEPT ![k] = to]
  BY DEF StartWait
<1>2. /\ UNCHANGED <<count, queue, stopping, idle, looping, exited, extra, blocked, onMain, edge, call>>
      /\ call[k] = NoCall
  BY DEF StartWait, lockVars, waitVars, taskVars, poolVars, Running
<1>3. \A j \in Keys : j # k => wait'[j] = wait[j]
  BY DEF StartWait, Inv, PoolTypes
<1> QED
  BY <1>1, <1>2, <1>3, QuietMove DEF Still, OffStack, Alive

(* A call after which k is where it was, or the process has exited. *)
LEMMA StayQuiet ==
  ASSUME Inv, Counted, OutcomesKept, NEW k \in Keys, Alive, at[k] = "user", call[k] = NoCall,
         UNCHANGED <<count, poolVars, threadVars>>,
         \A j \in Keys : j # k => edge'[j] = edge[j] /\ call'[j] = call[j],
         call'[k] = NoCall, exit' \notin {"clean", "unread"}
  PROVE  Counted'
<1>1. at' = [at EXCEPT ![k] = "user"] /\ wait' = wait
  BY DEF threadVars, Inv, PoolTypes
<1> QED
  BY <1>1, QuietMove DEF Still, OffStack, poolVars, threadVars

LEMMA CallQuiet ==
  ASSUME Inv, Counted, OutcomesKept, NEW k \in Keys, NEW h \in Tasks,
         \/ GroupJoin(k) \/ GroupAdd(k, h) \/ Cancel(k, h)
         \/ \E op \in Ops : WaitFor(k, op, h) \/ Read(k, op, h)
  PROVE  Counted'
<1>1. Alive /\ at[k] = "user" /\ Running(k) /\ call[k] = NoCall /\ exit = "none"
  BY DEF GroupJoin, GroupAdd, Cancel, WaitFor, Read, Calling, Running, Alive
<1>2. CASE \E for, on : StartWait(k, for, on) /\ exit' = exit
  BY <1>1, <1>2, StartWaitQuiet
<1>3. CASE /\ UNCHANGED <<lockVars, count, poolVars, threadVars>>
           /\ exit' = exit \/ exit' = "null handle"
  <2>1. edge' = edge /\ call' = call
    BY <1>3 DEF lockVars, waitVars
  <2> QED
    BY <1>1, <1>3, <2>1, StayQuiet
<1>4. CASE GroupJoin(k)
  BY <1>2, <1>4 DEF GroupJoin
<1>5. CASE GroupAdd(k, h) \/ Cancel(k, h)
  BY <1>3, <1>5 DEF GroupAdd, Cancel, NullHandle, Handle, taskVars
<1>6. CASE \E op \in Ops : WaitFor(k, op, h) \/ Read(k, op, h)
  BY <1>2, <1>3, <1>6 DEF WaitFor, Read, NullHandle, Handle, taskVars
<1> QED
  BY <1>4, <1>5, <1>6

LEMMA FailQuiet ==
  ASSUME Inv, Counted, OutcomesKept, NEW t \in Tasks, Throw(t) \/ CancelPoint(t)
  PROVE  Counted'
<1>1. /\ Alive /\ at[t] = "user" /\ call[t] = NoCall /\ at' = [at EXCEPT ![t] = "return"] /\ t \in Keys
      /\ UNCHANGED <<count, queue, stopping, idle, looping, exited, extra, blocked, onMain, exit, wait,
                     edge, call>>
  BY TaskKeys DEF Throw, CancelPoint, FailWith, Calling, Running, lockVars, waitVars, poolVars
<1> QED
  BY <1>1, QuietMove DEF Still, OffStack, Alive

LEMMA LeaveQuiet ==
  ASSUME Inv, Counted, OutcomesKept, NEW k \in Keys, LockLeave(k)
  PROVE  Counted'
<1>1. /\ Alive /\ at[k] = "user" /\ exit' = exit /\ UNCHANGED <<count, poolVars, threadVars>>
      /\ LeaveAuto(k) \/ \E mark \in 0..Len(expl[k]) : ReleaseTo(k, mark)
  BY DEF LockLeave, taskVars
<1>2. call[k] = NoCall /\ call' = call /\ edge' = edge
  BY <1>1 DEF LeaveAuto, ReleaseTo, Running
<1> QED
  BY <1>1, <1>2, StayQuiet DEF Alive

(* The main program begins to shut down; its tasks are waited for. *)
LEMMA ShutdownQuiet ==
  ASSUME Inv, Counted, OutcomesKept, Shutdown
  PROVE  Counted'
<1>1. /\ Alive /\ at[Main] = "user" /\ at' = [at EXCEPT ![Main] = "snapshot"] /\ Main \in Keys
      /\ call[Main] = NoCall /\ call' = call /\ edge' = [edge EXCEPT ![Main] = NoEdge]
      /\ UNCHANGED <<count, queue, stopping, idle, looping, exited, extra, blocked, onMain, exit, wait>>
  BY TaskKeys DEF Shutdown, Moved, Unlock, Running, ReleaseAll, taskVars, poolVars
<1>2. \A j \in Keys : j # Main => edge'[j] = edge[j]
  BY <1>1 DEF Inv, TypeInv, LockTypeOK
<1> QED
  BY <1>1, <1>2, QuietMove DEF Still, OffStack, Alive

LEMMA SnapshotQuiet ==
  ASSUME Inv, Counted, OutcomesKept, NEW normal, Snapshot(normal), count # 0
  PROVE  Counted'
<1>1. /\ Alive /\ at[Main] = "snapshot" /\ at' = [at EXCEPT ![Main] = "note"] /\ Main \in Keys
      /\ UNCHANGED <<count, queue, stopping, idle, looping, exited, extra, blocked, onMain, exit, edge,
                     call>>
  BY TaskKeys DEF Snapshot, Moved, lockVars, waitVars, poolVars
<1>2. \A j \in Keys : j # Main => wait'[j] = wait[j]
  BY DEF Snapshot, Inv, PoolTypes
<1>3. call[Main] = NoCall
  BY <1>1, NoCallBut
<1> QED
  BY <1>1, <1>2, <1>3, QuietMove DEF Still, OffStack, Alive

-----------------------------------------------------------------------------
(* A thread goes to sleep on a lock or a task, or wakes up *)

(* A key that is on top, and not asleep, is asleep now.  If all workers      *)
(* sleep and there is work, one more is started: there are fewer of them     *)
(* than tasks, because the task at the head of the queue is none of theirs.  *)
LEMMA BlockStep ==
  ASSUME Inv, Counted, Alive, OutcomesKept, NEW k \in Keys, at[k] \notin Still, at'[k] \notin Still,
         NEW b, b = Cardinality(SleepingWorkers \ {k}), BlockBegin(k, b),
         Asleep' = Asleep \cup {k}, SameStacks,
         UNCHANGED <<count, queue, stopping, idle, exited, exit>>,
         \A j \in Keys : j # k => at'[j] = at[j] /\ wait'[j] = wait[j],
         at[k] # "reap", at'[k] # "reap",
         \A j \in Keys : call'[j] # NoCall => at'[j] = "user"
  PROVE  Counted'
<1> DEFINE S == SleepingWorkers'
<1>1. /\ count \in Nat /\ idle \in Nat /\ looping \in Nat /\ exited \in Nat /\ extra \in Nat
      /\ NWorkers \in Nat \ {0} /\ Cardinality(Roots) \in Nat /\ Cardinality(Tops) \in Nat
  BY Numbers DEF Counted
<1>2. /\ Roots' = Roots /\ Tops' = Tops /\ Chains' /\ onMain' = onMain
  BY StacksKept DEF Counted, CountInv, SameStacks
<1>3. k \notin onMain => k \in Tops
  BY Numbers, TasksAssumption DEF Tops, Counted
<1>4. S \subseteq Tops
  BY <1>2, <1>3, TopsBounded DEF SleepingWorkers, Counted
<1>5. b + IsWorker(k) = Cardinality(S)
  <2>1. IsFiniteSet(SleepingWorkers \ {k})
    BY Numbers, FS_Subset DEF Counted
  <2>2. CASE k \in onMain
    <3>1. S = SleepingWorkers \ {k} /\ IsWorker(k) = 0
      BY <1>2, <2>2 DEF SleepingWorkers, IsWorker
    <3>2. Cardinality(SleepingWorkers \ {k}) \in Nat
      BY <2>1, FS_CardinalityType
    <3> QED
      BY <3>1, <3>2
  <2>3. CASE k \notin onMain
    <3>1. S = (SleepingWorkers \ {k}) \cup {k} /\ IsWorker(k) = 1
      BY <1>2, <2>3 DEF SleepingWorkers, IsWorker
    <3>2. Cardinality(S) = Cardinality(SleepingWorkers \ {k}) + 1
      BY <2>1, <3>1, FS_AddElement
    <3> QED
      BY <3>1, <3>2
  <2> QED
    BY <2>2, <2>3
<1>6. /\ Cardinality(S) \in Nat /\ Cardinality(S) <= Cardinality(Tops)
      /\ Cardinality(Tops) <= Threads
      /\ Cardinality(Tops) <= count
      /\ queue # <<>> => Cardinality(Tops) < count
  BY <1>4, TopsBounded DEF Counted
<1>7. /\ blocked' = Cardinality(S)
      /\ IF ~stopping /\ queue # <<>> /\ idle = 0 /\ Cardinality(S) >= NWorkers + extra
           THEN extra' = extra + 1 /\ looping' = looping + 1
           ELSE extra' = extra /\ looping' = looping
  BY <1>1, <1>5 DEF BlockBegin, MaybeAddWorker
<1> HIDE DEF S
<1>8. /\ looping' \in Nat /\ extra' \in Nat /\ blocked' \in Nat
      /\ extra' = extra \/ extra' = extra + 1
  BY <1>1, <1>6, <1>7
<1>9. CompensationKeepsUp'
  <2>1. ASSUME queue # <<>>, ~stopping, idle = 0 PROVE Cardinality(S) < NWorkers + extra'
    <3>1. Cardinality(S) <= NWorkers + extra
      BY <1>1, <1>6 DEF Threads
    <3> QED
      BY <1>1, <1>6, <1>7, <2>1, <3>1
  <2> QED
    BY <1>1, <1>7, <2>1 DEF CompensationKeepsUp
<1>10. ThreadsBounded'
  <2>1. ThreadsBounded
    BY DEF Counted, CountInv
  <2> QED
    BY <1>1, <1>6, <1>7, <2>1 DEF ThreadsBounded
<1>11. ThreadsExact'
  <2>1. /\ count = 0 => extra = 0
        /\ idle + looping + exited + Cardinality(Roots) = Threads
        /\ idle + looping + exited + Cardinality(Tops) = Threads
    BY DEF Counted, CountInv, ThreadsExact
  <2>2. CASE extra' = extra + 1 /\ looping' = looping + 1
    <3>1. queue # <<>> /\ count > 0
      BY <1>1, <1>6, <1>7, <2>2
    <3>2. Threads = NWorkers + extra /\ Threads' = NWorkers + extra + 1
      BY <1>1, <2>2, <3>1 DEF Threads
    <3>3. /\ idle + (looping + 1) + exited + Cardinality(Roots) = NWorkers + extra + 1
          /\ idle + (looping + 1) + exited + Cardinality(Tops) = NWorkers + extra + 1
      BY <1>1, <2>1, <3>2
    <3> QED
      BY <1>2, <2>2, <3>1, <3>2, <3>3 DEF ThreadsExact
  <2>3. CASE extra' = extra /\ looping' = looping
    BY <1>1, <1>2, <2>1, <2>3 DEF ThreadsExact, Threads
  <2> QED
    BY <1>7, <2>2, <2>3
<1>12. CountInv'
  BY <1>2, <1>7, <1>8, <1>9, <1>10, <1>11 DEF Counted, CountInv, CountTypes, S
<1>13. Ends
  <2>1. at[Main] \in {"reap", "over"} => Main # k
    BY DEF Still, OffStack
  <2>2. exit' \notin {"clean", "unread"}
    BY DEF Alive
  <2> QED
    BY <1>8, <2>1, <2>2, TaskKeys DEF Ends, Still, OffStack
<1> QED
  BY <1>12, <1>13, EndsKept DEF Counted

LEMMA OtherSleepers ==
  ASSUME Inv, Counted, NEW k \in Keys
  PROVE  Cardinality(SleepingWorkers \ {k}) = IF k \in Asleep THEN blocked - IsWorker(k) ELSE blocked
<1>1. IsFiniteSet(SleepingWorkers) /\ blocked = Cardinality(SleepingWorkers) /\ blocked \in Nat
  BY Numbers DEF Counted, CountInv
<1>2. Cardinality(SleepingWorkers \ {k}) = IF k \in SleepingWorkers THEN blocked - 1 ELSE blocked
  BY <1>1, FS_RemoveElement
<1>3. k \in SleepingWorkers <=> k \in Asleep /\ IsWorker(k) = 1
  BY DEF SleepingWorkers, IsWorker
<1>4. IsWorker(k) \in {0, 1}
  BY DEF IsWorker
<1> QED
  BY <1>1, <1>2, <1>3, <1>4

LEMMA SleepCounted ==
  ASSUME Inv, Counted, OutcomesKept, NEW k \in Keys, Sleep(k)
  PROVE  Counted'
<1>1. /\ Alive /\ at[k] = "decide" /\ at' = [at EXCEPT ![k] = "sleep"] /\ BlockBegin(k, blocked)
      /\ UNCHANGED <<count, queue, stopping, idle, exited, exit, wait, edge, call, onMain>>
  BY DEF Sleep, Moved, lockVars, waitVars, taskVars
<1>2. at'[k] = "sleep" /\ \A j \in Keys : j # k => at'[j] = at[j]
  BY <1>1 DEF Inv, PoolTypes
<1>3. call[k] = NoCall /\ k \notin Asleep
  BY <1>1, NoCallBut DEF Asleep
<1>4. Asleep' = Asleep \cup {k}
  BY <1>1, <1>2 DEF Asleep
<1>5. blocked = Cardinality(SleepingWorkers \ {k})
  BY <1>3, OtherSleepers
<1>6. SameStacks
  BY <1>1, <1>2 DEF SameStacks, OffStack
<1>7. \A j \in Keys : call'[j] # NoCall => at'[j] = "user"
  BY <1>1, <1>2, <1>3 DEF Counted, CountInv
<1> QED
  BY <1>1, <1>2, <1>4, <1>5, <1>6, <1>7, BlockStep DEF Still, OffStack

(* What a call into the lock table leaves as it was. *)
LEMMA LockCallStacks ==
  ASSUME Inv, Counted, NEW k \in Keys, at[k] = "user", UNCHANGED threadVars,
         \/ \E ids \in SUBSET Locks, mode \in Modes : Enter(k, ids, mode)
         \/ Wake(k)
  PROVE  /\ SameStacks
         /\ \A j \in Keys : j # k => edge'[j] = edge[j] /\ call'[j] = call[j]
         /\ \A j \in Keys : call'[j] # NoCall => at'[j] = "user"
         /\ Asleep' = IF call'[k] # NoCall THEN Asleep \cup {k} ELSE Asleep \ {k}
         /\ \A j \in Keys : at'[j] = at[j] /\ wait'[j] = wait[j]
<1>1. \A j \in Keys : j # k => edge'[j] = edge[j] /\ call'[j] = call[j]
  BY LockCallKeepsDone DEF Inv, RowKept
<1>2. at' = at /\ wait' = wait /\ onMain' = onMain
  BY DEF threadVars
<1>3. SameStacks
  BY <1>1, <1>2 DEF SameStacks
<1>4. \A j \in Keys : call'[j] # NoCall => at'[j] = "user"
  BY <1>1, <1>2 DEF Counted, CountInv
<1>5. Asleep' = IF call'[k] # NoCall THEN Asleep \cup {k} ELSE Asleep \ {k}
  BY <1>1, <1>2 DEF Asleep
<1> QED
  BY <1>1, <1>2, <1>3, <1>4, <1>5

LEMMA LockEnterCounted ==
  ASSUME Inv, Counted, OutcomesKept, NEW k \in Keys,
         NEW ids \in SUBSET Locks, NEW mode \in Modes, LockEnter(k, ids, mode)
  PROVE  Counted'
<1>1. /\ Alive /\ at[k] = "user" /\ call[k] = NoCall /\ Enter(k, ids, mode) /\ exit = "none"
      /\ UNCHANGED <<count, queue, stopping, idle, awake, exited, threadVars, exit>>
  BY DEF LockEnter, Calling, Running, Alive, taskVars
<1>2. /\ SameStacks
      /\ \A j \in Keys : j # k => edge'[j] = edge[j] /\ call'[j] = call[j]
      /\ \A j \in Keys : call'[j] # NoCall => at'[j] = "user"
      /\ Asleep' = IF call'[k] # NoCall THEN Asleep \cup {k} ELSE Asleep \ {k}
      /\ \A j \in Keys : at'[j] = at[j] /\ wait'[j] = wait[j]
  BY <1>1, LockCallStacks
<1>3. CASE call'[k] # NoCall
  <2>1. BlockBegin(k, blocked)
    BY <1>3 DEF LockEnter
  <2>2. blocked = Cardinality(SleepingWorkers \ {k})
    BY <1>1, OtherSleepers DEF Asleep
  <2> QED
    BY <1>1, <1>2, <1>3, <2>1, <2>2, BlockStep DEF Still, OffStack
<1>4. CASE call'[k] = NoCall
  <2>1. UNCHANGED <<count, poolVars, threadVars>>
    BY <1>1, <1>4 DEF LockEnter, poolVars
  <2> QED
    BY <1>1, <1>2, <1>4, <2>1, StayQuiet
<1> QED
  BY <1>3, <1>4

(* A sleeper is awake. *)
LEMMA WakeStep ==
  ASSUME Inv, Counted, Alive, OutcomesKept, NEW k \in Asleep, blocked' = blocked - IsWorker(k),
         Asleep' = Asleep \ {k}, SameStacks, at[k] # "reap", at'[k] \notin {"over", "reap"},
         UNCHANGED <<count, queue, stopping, idle, looping, exited, extra, exit>>,
         \A j \in Keys : j # k => at'[j] = at[j] /\ wait'[j] = wait[j],
         \A j \in Keys : call'[j] # NoCall => at'[j] = "user"
  PROVE  Counted'
<1>1. k \in Keys /\ at[k] \in {"sleep", "awake", "user"}
  BY DEF Asleep, Counted, CountInv
<1>2. SleepingWorkers' = SleepingWorkers \ {k}
  BY DEF SleepingWorkers, SameStacks
<1>3. blocked' = Cardinality(SleepingWorkers') /\ blocked' <= blocked
  <2>1. blocked \in Nat /\ IsWorker(k) \in {0, 1}
    BY Numbers DEF Counted, IsWorker
  <2>2. blocked - IsWorker(k) <= blocked
    BY <2>1
  <2> QED
    BY <1>1, <1>2, <2>2, OtherSleepers
<1>4. CountInv'
  BY <1>3, NumbersStay DEF Counted
<1>5. Ends
  <2>1. exit' \notin {"clean", "unread"}
    BY DEF Alive
  <2> QED
    BY <1>1, <2>1, TaskKeys DEF Ends
<1> QED
  BY <1>4, <1>5, EndsKept DEF Counted

LEMMA LockWakeCounted ==
  ASSUME Inv, Counted, OutcomesKept, NEW k \in Keys, LockWake(k)
  PROVE  Counted'
<1>1. /\ Alive /\ at[k] = "user" /\ Wake(k) /\ k \in Asleep
      /\ UNCHANGED <<count, queue, stopping, idle, exited, threadVars, exit>>
  BY DEF LockWake, Wake, Asleep, taskVars
<1>2. /\ SameStacks
      /\ \A j \in Keys : call'[j] # NoCall => at'[j] = "user"
      /\ Asleep' = IF call'[k] # NoCall THEN Asleep \cup {k} ELSE Asleep \ {k}
      /\ \A j \in Keys : at'[j] = at[j] /\ wait'[j] = wait[j]
  BY <1>1, LockCallStacks
<1>3. CASE call'[k] # NoCall
  <2>1. BlockBegin(k, blocked - IsWorker(k))
    BY <1>3 DEF LockWake
  <2>2. blocked - IsWorker(k) = Cardinality(SleepingWorkers \ {k})
    BY <1>1, OtherSleepers
  <2> QED
    BY <1>1, <1>2, <1>3, <2>1, <2>2, BlockStep DEF Still, OffStack
<1>4. CASE call'[k] = NoCall
  <2>1. blocked' = blocked - IsWorker(k) /\ extra' = extra /\ looping' = looping
    BY <1>4 DEF LockWake
  <2> QED
    BY <1>1, <1>2, <1>4, <2>1, WakeStep
<1> QED
  BY <1>3, <1>4

LEMMA ResumeCounted ==
  ASSUME Inv, Counted, OutcomesKept, NEW k \in Keys, Resume(k)
  PROVE  Counted'
<1>1. /\ Alive /\ at[k] = "awake" /\ at' = [at EXCEPT ![k] = "check"] /\ k \in Asleep
      /\ blocked' = blocked - IsWorker(k)
      /\ UNCHANGED <<count, queue, stopping, idle, looping, exited, extra, exit, wait, edge, call, onMain>>
  BY DEF Resume, Moved, Asleep, lockVars, waitVars, taskVars
<1>2. at'[k] = "check" /\ \A j \in Keys : j # k => at'[j] = at[j]
  BY <1>1 DEF Inv, PoolTypes
<1>3. call[k] = NoCall
  BY <1>1, NoCallBut
<1>4. Asleep' = Asleep \ {k}
  BY <1>1, <1>2, <1>3 DEF Asleep
<1>5. SameStacks
  BY <1>1, <1>2 DEF SameStacks, OffStack
<1>6. \A j \in Keys : call'[j] # NoCall => at'[j] = "user"
  BY <1>1, <1>2, <1>3 DEF Counted, CountInv
<1> QED
  BY <1>1, <1>2, <1>4, <1>5, <1>6, WakeStep

-----------------------------------------------------------------------------
(* The workers *)

LEMMA WorkerIdleCounted ==
  ASSUME Inv, Counted, Alive, queue = <<>>,
         UNCHANGED <<lockVars, threadVars, count, state, queue, extra, blocked, exit, stopping>>,
         looping' \in Nat, exited' \in Nat,
         idle' + looping' + exited' = idle + looping + exited
  PROVE  CountInv'
<1>1. SameStacks
  BY DEF SameStacks, lockVars, waitVars, threadVars
<1>2. Roots' = Roots /\ Tops' = Tops /\ Chains'
  BY <1>1, StacksKept DEF Counted, CountInv
<1>3. SleepingWorkers' = SleepingWorkers /\ call' = call /\ at' = at
  BY DEF SleepingWorkers, Asleep, lockVars, waitVars, threadVars
<1>4. ThreadsExact'
  <2>1. /\ idle \in Nat /\ looping \in Nat /\ exited \in Nat
        /\ Cardinality(Roots) \in Nat /\ Cardinality(Tops) \in Nat
    BY Numbers DEF Counted
  <2>2. /\ count = 0 => extra = 0
        /\ idle + looping + exited + Cardinality(Roots) = Threads
        /\ idle + looping + exited + Cardinality(Tops) = Threads
    BY DEF Counted, CountInv, ThreadsExact
  <2>3. Threads' = Threads
    BY DEF Threads
  <2> QED
    BY <1>2, <2>1, <2>2, <2>3 DEF ThreadsExact
<1>5. CountTypes' /\ ThreadsBounded' /\ CompensationKeepsUp'
  BY DEF Counted, CountInv, CountTypes, ThreadsBounded, CompensationKeepsUp, threadVars
<1> QED
  BY <1>2, <1>3, <1>4, <1>5 DEF Counted, CountInv

LEMMA WorkerSleepCounted ==
  ASSUME Inv, Counted, OutcomesKept, WorkerSleep
  PROVE  Counted'
<1>1. /\ Alive /\ queue = <<>> /\ exit = "none"
      /\ UNCHANGED <<lockVars, threadVars, count, state, queue, extra, blocked, exit, stopping, exited>>
  BY DEF WorkerSleep, Alive, taskVars
<1>2. \/ looping > 0 /\ looping' = looping - 1 /\ idle' = idle + 1
      \/ idle' = idle /\ looping' = looping
  BY DEF WorkerSleep
<1>3. idle \in Nat /\ looping \in Nat /\ exited \in Nat
  BY Numbers DEF Counted
<1>4. looping' \in Nat /\ exited' \in Nat /\ idle' + looping' + exited' = idle + looping + exited
  BY <1>1, <1>2, <1>3
<1>5. CountInv'
  BY <1>1, <1>4, WorkerIdleCounted
<1>6. Ends
  BY <1>1 DEF Ends, threadVars
<1> QED
  BY <1>1, <1>5, <1>6, EndsKept DEF Counted

LEMMA WorkerExitCounted ==
  ASSUME Inv, Counted, OutcomesKept, WorkerExit
  PROVE  Counted'
<1>1. /\ Alive /\ queue = <<>> /\ exit = "none" /\ stopping /\ exited' = exited + 1
      /\ UNCHANGED <<lockVars, threadVars, count, state, queue, extra, blocked, exit, stopping>>
  BY DEF WorkerExit, Alive, taskVars
<1>2. \/ looping > 0 /\ looping' = looping - 1 /\ idle' = idle
      \/ awake > 0 /\ idle' = idle - 1 /\ looping' = looping
  BY DEF WorkerExit, FromLoop, FromSleep
<1>3. idle \in Nat /\ looping \in Nat /\ exited \in Nat /\ awake \in 0..idle
  BY Numbers DEF Counted, Inv, PoolTypes
<1>4. looping' \in Nat /\ exited' \in Nat /\ idle' + looping' + exited' = idle + looping + exited
  BY <1>1, <1>2, <1>3
<1>5. CountInv'
  BY <1>1, <1>4, WorkerIdleCounted
<1>6. ExitInv'
  BY <1>1, <1>3 DEF Counted, ExitInv, AllFinishedAtExit, Alive, threadVars, lockVars, waitVars
<1> QED
  BY <1>5, <1>6 DEF Counted

(* A worker takes the task at the head of the queue.  It is one more on a    *)
(* stack and not asleep, so not all workers sleep now.                       *)
LEMMA WorkerTakeCounted ==
  ASSUME Inv, Counted, OutcomesKept, WorkerTake
  PROVE  Counted'
<1> DEFINE h == Head(queue)
<1>1. /\ Alive /\ queue # <<>> /\ at' = [at EXCEPT ![h] = "begin"] /\ exit = "none"
      /\ UNCHANGED <<lockVars, taskVars, stopping, exited, extra, blocked, wait, onMain, exit>>
  BY DEF WorkerTake, Alive
<1>2. h \in Tasks /\ h \in Keys /\ at[h] = "queued" /\ h \in 1..count
  BY <1>1, HeadTail, TaskKeys
<1>3. at'[h] = "begin" /\ \A j \in Keys : j # h => at'[j] = at[j]
  BY <1>1, <1>2 DEF Inv, PoolTypes
<1>4. Chains /\ ThreadsExact
  BY <1>1 DEF Counted, CountInv
<1>5. /\ h \notin onMain
      /\ \A k \in Keys : at[k] = "helping" => wait[k].run # h
  BY <1>2, <1>4 DEF Chains, OffStack
<1>6. UNCHANGED <<wait, onMain, edge, call, count, state>>
  BY <1>1 DEF lockVars, waitVars, taskVars
<1>7. \A k \in Keys : at'[k] = "helping" <=> at[k] = "helping"
  BY <1>2, <1>3
<1>8. \A t : Hosts(t)' = Hosts(t)
  BY <1>6, <1>7 DEF Hosts
<1>9. Hosts(h) = {}
  BY <1>5 DEF Hosts
<1>10. Chains'
  <2>1. \A k \in Keys : at[k] \notin OffStack => at'[k] \notin OffStack
    BY <1>2, <1>3 DEF OffStack
  <2>2. \A k \in Keys : at'[k] = "helping" =>
          /\ wait[k].run \in Tasks /\ at'[wait[k].run] \notin OffStack
          /\ wait[k].run \in onMain <=> k \in onMain
          /\ edge[k] = TaskEdge(wait[k].run)
    BY <1>4, <1>7, <2>1, TaskKeys DEF Chains
  <2>3. \A t \in Tasks \cap onMain : at'[t] \notin OffStack /\ Hosts(t)' # {}
    BY <1>4, <1>8, <2>1, TaskKeys DEF Chains
  <2>4. \E k \in onMain : at'[k] # "helping" /\ \A j \in onMain : j # k => at'[j] = "helping"
    BY <1>4, <1>7, Numbers DEF Chains, Counted
  <2>5. \A j, k \in Keys : at'[j] = "helping" /\ at'[k] = "helping" /\ wait[j].run = wait[k].run => j = k
    BY <1>4, <1>7 DEF Chains
  <2> QED
    BY <1>6, <2>2, <2>3, <2>4, <2>5 DEF Chains
<1>11. Tops' = Tops \cup {h} /\ h \notin Tops
  <2>1. \A t \in Tasks : at'[t] \notin Still <=> at[t] \notin Still \/ t = h
    BY <1>2, <1>3, TaskKeys DEF Still, OffStack
  <2> QED
    BY <1>2, <1>5, <1>6, <2>1 DEF Tops, Still, OffStack
<1>12. Roots' = Roots \cup {h} /\ h \notin Roots
  <2>1. \A t \in Tasks : at'[t] \notin {"queued", "over"} <=> at[t] \notin {"queued", "over"} \/ t = h
    BY <1>2, <1>3, TaskKeys
  <2> QED
    BY <1>2, <1>8, <1>9, <2>1 DEF Roots, Started
<1>13. SleepingWorkers' = SleepingWorkers
  <2>1. Asleep' = Asleep
    BY <1>2, <1>3, <1>6 DEF Asleep
  <2> QED
    BY <1>6, <2>1 DEF SleepingWorkers
<1>14. /\ count \in Nat /\ idle \in Nat /\ looping \in Nat /\ exited \in Nat /\ extra \in Nat
       /\ blocked \in Nat /\ NWorkers \in Nat \ {0}
       /\ Cardinality(Roots) \in Nat /\ Cardinality(Tops) \in Nat
       /\ Cardinality(Roots') = Cardinality(Roots) + 1 /\ Cardinality(Tops') = Cardinality(Tops) + 1
  BY <1>11, <1>12, Numbers, FS_AddElement DEF Counted
<1>15. \/ looping > 0 /\ looping' = looping - 1 /\ idle' = idle
       \/ idle > 0 /\ idle' = idle - 1 /\ looping' = looping
  <2>1. awake > 0 => idle > 0
    <3>1. idle \in Nat /\ awake \in 0..idle
      BY DEF Inv, PoolTypes
    <3> QED
      BY <3>1
  <2> QED
    BY <2>1 DEF WorkerTake, FromLoop, FromSleep
<1>16. /\ idle + looping + exited + Cardinality(Roots) = NWorkers + extra
       /\ idle + looping + exited + Cardinality(Tops) = NWorkers + extra
  BY <1>2, <1>4 DEF ThreadsExact, Threads
<1>17. ThreadsExact' /\ looping' \in Nat
  <2>1. (count = 0 => extra = 0) /\ count # 0
    BY <1>2, <1>4 DEF ThreadsExact
  <2>2. Threads' = NWorkers + extra /\ exited' = exited /\ count' = count /\ extra' = extra
    BY <1>1, <1>6, <2>1 DEF Threads
  <2>3. /\ looping' \in Nat
        /\ idle' + looping' + exited + (Cardinality(Roots) + 1) = NWorkers + extra
        /\ idle' + looping' + exited + (Cardinality(Tops) + 1) = NWorkers + extra
    <3>1. CASE looping > 0 /\ looping' = looping - 1 /\ idle' = idle
      BY <1>14, <1>16, <3>1
    <3>2. CASE idle > 0 /\ idle' = idle - 1 /\ looping' = looping
      BY <1>14, <1>16, <3>2
    <3> QED
      BY <1>15, <3>1, <3>2
  <2> QED
    BY <1>14, <2>1, <2>2, <2>3 DEF ThreadsExact
<1>18. CompensationKeepsUp'
  <2>1. blocked <= Cardinality(Tops)
    BY <1>1, TopsBounded DEF Counted, CountInv
  <2>2. Cardinality(Tops) < NWorkers + extra
    BY <1>14, <1>15, <1>16
  <2>3. blocked < NWorkers + extra
    BY <1>14, <2>1, <2>2
  <2> QED
    BY <1>1, <2>3 DEF CompensationKeepsUp
<1>19. CountInv'
  <2>1. \A k \in Keys : call'[k] # NoCall => at'[k] = "user"
    BY <1>2, <1>3, <1>6 DEF Counted, CountInv
  <2>2. CountTypes' /\ ThreadsBounded'
    BY <1>1, <1>6, <1>17 DEF Counted, CountInv, CountTypes, ThreadsBounded
  <2>3. blocked' = Cardinality(SleepingWorkers')
    BY <1>1, <1>13 DEF Counted, CountInv
  <2> QED
    BY <1>10, <1>17, <1>18, <2>1, <2>2, <2>3 DEF CountInv
<1>20. Ends
  BY <1>1, <1>2, <1>3, TaskKeys DEF Ends
<1> QED
  BY <1>1, <1>19, <1>20, EndsKept DEF Counted

-----------------------------------------------------------------------------
(* Tasks on the stack of a waiter *)

(* The waiter runs the task it took: the task is on top of its chain now. *)
LEMMA HelpCounted ==
  ASSUME Inv, Counted, OutcomesKept, NEW k \in Keys, Help(k)
  PROVE  Counted'
<1>0. PICK t : t = wait[k].run
  OBVIOUS
<1>1. /\ Alive /\ at[k] = "help" /\ at' = [at EXCEPT ![k] = "helping", ![t] = "begin"] /\ exit = "none"
      /\ NoteWaitTask(k, t) /\ onMain' = IF k \in onMain THEN onMain \cup {t} ELSE onMain
      /\ UNCHANGED <<count, state, queue, stopping, idle, looping, exited, extra, blocked, wait, exit>>
  BY <1>0 DEF Help, Alive, taskVars, poolVars
<1>2. t \in 1..count /\ t \in Tasks /\ t \in Keys /\ at[t] = "queued" /\ t # k
  <2>1. t \in 1..count /\ at[t] = "queued"
    BY <1>0, <1>1 DEF Inv, Shape, QueueOK
  <2> QED
    BY <1>1, <2>1, CountTasks
<1>3. /\ call' = call /\ edge'[k] = TaskEdge(t)
      /\ \A j \in Keys : j # k => edge'[j] = edge[j]
  BY <1>1 DEF NoteWaitTask, Inv, TypeInv, LockTypeOK
<1>4. /\ at'[k] = "helping" /\ at'[t] = "begin"
      /\ \A j \in Keys : j \notin {k, t} => at'[j] = at[j]
  BY <1>1, <1>2 DEF Inv, PoolTypes
<1>5. Chains
  BY <1>1 DEF Counted, CountInv
<1>6. /\ t \notin onMain
      /\ \A j \in Keys : at[j] = "helping" => wait[j].run # t /\ j # k /\ j # t
  BY <1>1, <1>2, <1>5 DEF Chains, OffStack
<1>7. \A j \in Keys : at'[j] = "helping" <=> at[j] = "helping" \/ j = k
  BY <1>2, <1>4
<1>8. \A j \in Keys : at'[j] \notin OffStack <=> at[j] \notin OffStack \/ j = t
  BY <1>1, <1>2, <1>4 DEF OffStack
<1>9. \A j \in Keys : j # t => (j \in onMain' <=> j \in onMain)
  BY <1>1
<1>10. t \in onMain' <=> k \in onMain'
  BY <1>1, <1>2, <1>6
<1>11. Hosts(t)' = {k} /\ \A s : s # t => Hosts(s)' = Hosts(s)
  BY <1>0, <1>1, <1>2, <1>6, <1>7 DEF Hosts
<1>12. Chains'
  <2>1. ASSUME NEW j \in Keys, at'[j] = "helping"
        PROVE  /\ wait[j].run \in Tasks /\ at'[wait[j].run] \notin OffStack
               /\ wait[j].run \in onMain' <=> j \in onMain'
               /\ edge'[j] = TaskEdge(wait[j].run)
    <3>1. CASE j = k
      BY <1>0, <1>2, <1>3, <1>8, <1>10, <3>1
    <3>2. CASE j # k
      <4>1. at[j] = "helping" /\ wait[j].run # t /\ j # t
        BY <1>6, <1>7, <2>1, <3>2
      <4>2. /\ wait[j].run \in Tasks /\ at[wait[j].run] \notin OffStack
            /\ wait[j].run \in onMain <=> j \in onMain
            /\ edge[j] = TaskEdge(wait[j].run)
        BY <1>5, <4>1 DEF Chains
      <4> QED
        BY <1>3, <1>8, <1>9, <3>2, <4>1, <4>2, TaskKeys
    <3> QED
      BY <3>1, <3>2
  <2>2. \A i, j \in Keys : at'[i] = "helping" /\ at'[j] = "helping" /\ wait[i].run = wait[j].run => i = j
    BY <1>0, <1>5, <1>6, <1>7 DEF Chains
  <2>3. ASSUME NEW s \in Tasks \cap onMain' PROVE at'[s] \notin OffStack /\ Hosts(s)' # {}
    <3>1. CASE s = t
      BY <1>2, <1>8, <1>11, <3>1
    <3>2. CASE s # t
      BY <1>5, <1>8, <1>9, <1>11, <3>2, TaskKeys DEF Chains
    <3> QED
      BY <3>1, <3>2
  <2>4. \E m \in onMain' : at'[m] # "helping" /\ \A j \in onMain' : j # m => at'[j] = "helping"
    <3>1. PICK m \in onMain : at[m] # "helping" /\ \A j \in onMain : j # m => at[j] = "helping"
      BY <1>5 DEF Chains
    <3>2. onMain \subseteq Keys
      BY Numbers DEF Counted
    <3>3. CASE k \in onMain
      <4>1. k = m
        BY <1>1, <3>1, <3>3
      <4>2. t \in onMain' /\ at'[t] # "helping"
        BY <1>1, <1>4, <3>3
      <4>3. \A j \in onMain' : j # t => at'[j] = "helping"
        BY <1>1, <1>4, <3>1, <3>2, <4>1
      <4> QED
        BY <4>2, <4>3
    <3>4. CASE k \notin onMain
      <4>1. onMain' = onMain /\ \A j \in onMain : at'[j] = at[j]
        BY <1>1, <1>4, <1>6, <3>2, <3>4
      <4> QED
        BY <3>1, <4>1
    <3> QED
      BY <3>3, <3>4
  <2>5. wait' = wait
    BY <1>1
  <2> QED
    BY <2>1, <2>2, <2>3, <2>4, <2>5 DEF Chains
<1>13. Roots' = Roots
  <2>1. \A s \in Tasks : s # t => (at'[s] \in {"queued", "over"} <=> at[s] \in {"queued", "over"})
    BY <1>8, TaskKeys DEF OffStack
  <2>2. t \notin Roots /\ t \notin Roots'
    BY <1>2, <1>11 DEF Roots
  <2> QED
    BY <1>11, <2>1, <2>2 DEF Roots, Started
<1>14. Cardinality(Tops') = Cardinality(Tops)
  <2>1. \A s \in Tasks : s \notin {k, t} => (s \in Tops' <=> s \in Tops)
    BY <1>4, <1>9, TaskKeys DEF Tops
  <2>2. t \notin Tops /\ k \notin Tops'
    BY <1>2, <1>4 DEF Tops, Still, OffStack
  <2>3. CASE k \in onMain
    <3>1. k \notin Tops /\ t \notin Tops'
      BY <1>1, <2>3 DEF Tops
    <3>2. Tops' = Tops
      BY <2>1, <2>2, <3>1 DEF Tops
    <3> QED
      BY <3>2
  <2>4. CASE k \notin onMain
    <3>1. k \in Tops /\ t \in Tops'
      BY <1>1, <1>2, <1>4, <1>6, <2>4, Numbers, TasksAssumption DEF Tops, Still, OffStack, Counted
    <3>2. Tops' = (Tops \ {k}) \cup {t}
      BY <1>2, <2>1, <2>2, <3>1 DEF Tops
    <3>3. IsFiniteSet(Tops) /\ Cardinality(Tops) \in Nat
      BY Numbers DEF Counted
    <3>4. IsFiniteSet(Tops \ {k}) /\ Cardinality(Tops \ {k}) = Cardinality(Tops) - 1
      BY <3>1, <3>3, FS_RemoveElement
    <3>5. Cardinality(Tops') = Cardinality(Tops \ {k}) + 1
      BY <2>2, <3>2, <3>4, FS_AddElement
    <3> QED
      BY <3>3, <3>4, <3>5
  <2> QED
    BY <2>3, <2>4
<1>15. SleepingWorkers' = SleepingWorkers
  <2>1. call[t] = NoCall /\ call[k] = NoCall
    BY <1>1, <1>2, NoCallBut
  <2>2. Asleep' = Asleep /\ t \notin Asleep
    BY <1>1, <1>2, <1>3, <1>4, <2>1 DEF Asleep
  <2> QED
    BY <1>1, <2>2 DEF SleepingWorkers
<1>16. \A j \in Keys : call'[j] # NoCall => at'[j] = "user"
  BY <1>1, <1>2, <1>3, <1>4 DEF Counted, CountInv
<1>17. CountInv'
  <2>1. onMain' \in SUBSET Keys /\ Main \in onMain'
    BY <1>1, <1>2, Numbers DEF Counted
  <2>2. /\ looping' = looping + 0 /\ blocked' = Cardinality(SleepingWorkers') /\ blocked' <= blocked
        /\ Cardinality(Roots') = Cardinality(Roots) - 0 /\ Cardinality(Tops') = Cardinality(Tops) - 0
    BY <1>1, <1>13, <1>14, <1>15, Numbers DEF Counted, CountInv
  <2> QED
    BY <1>1, <1>12, <1>16, <2>1, <2>2, NumbersKept DEF Counted
<1>18. Ends
  <2>1. at[Main] \in {"reap", "over"} => Main \notin {k, t}
    BY <1>1, <1>2
  <2> QED
    BY <1>1, <1>4, <2>1, TaskKeys DEF Ends
<1> QED
  BY <1>1, <1>17, <1>18, EndsKept DEF Counted

(* run_task returns to the waiter that ran the task, or to worker_main. *)
LEMMA ReturnCounted ==
  ASSUME Inv, Counted, Alive, OutcomesKept, NEW t \in Tasks, Return(t), at[t] \in {"begin", "publish"},
         state'[t] \in Finished, UNCHANGED <<waitVars, count>>
  PROVE  Counted'
<1>1. t \in Keys /\ t # Main /\ t \in 1..count
  <2>1. t \in Keys /\ t # Main /\ ~(t > count) /\ count \in Nat
    BY TaskKeys, Numbers DEF Inv, Shape, QueueOK, Counted
  <2> QED
    BY <2>1 DEF Tasks
<1>2. /\ UNCHANGED <<queue, stopping, idle, exited, extra, blocked, wait, exit, edge, call, count>>
      /\ onMain' = onMain \ {t} /\ exit = "none"
      /\ looping' = IF Hosts(t) = {} THEN looping + 1 ELSE looping
  BY DEF Return, waitVars, Alive
<1>3. Chains
  BY DEF Counted, CountInv
<1>4. \A k \in Keys : k \in Hosts(t) <=> at[k] = "helping" /\ wait[k].run = t
  BY DEF Hosts
<1>5. ASSUME NEW k \in Keys
      PROVE  \/ k = t /\ at'[k] = "over"
             \/ k # t /\ k \in Hosts(t) /\ at[k] = "helping" /\ at'[k] = "renote"
             \/ k # t /\ k \notin Hosts(t) /\ at[k] = "sleep" /\ at'[k] = "awake"
             \/ k # t /\ k \notin Hosts(t) /\ at[k] # "sleep" /\ at'[k] = at[k]
  <2>1. at'[k] = CASE k = t -> "over"
                   [] k \in Hosts(t) -> "renote"
                   [] k \in Woken -> "awake"
                   [] OTHER -> at[k]
    BY DEF Return
  <2>2. k \in Woken <=> at[k] = "sleep"
    BY DEF Woken, Sleepers
  <2>3. k \in Hosts(t) => at[k] = "helping"
    BY <1>4
  <2> QED
    BY <2>1, <2>2, <2>3
<1>6. \A k \in Keys : at'[k] = "helping" <=> at[k] = "helping" /\ k \notin Hosts(t)
  BY <1>5
<1>7. \A k \in Keys : at'[k] \in OffStack <=> at[k] \in OffStack \/ k = t
  BY <1>5 DEF OffStack
<1>8. \A s : s # t => Hosts(s)' = Hosts(s)
  BY <1>2, <1>4, <1>6 DEF Hosts
<1>9. \A j, k \in Hosts(t) : j = k
  BY <1>3, <1>4 DEF Chains, Hosts
<1>10. \A k \in Hosts(t) : k \in Keys /\ k # t /\ (t \in onMain <=> k \in onMain)
  <2>1. \A k \in Hosts(t) : k \in Keys /\ at[k] = "helping" /\ wait[k].run = t
    BY DEF Hosts
  <2> QED
    BY <1>3, <2>1 DEF Chains
<1>11. Hosts(t) = {} => t \notin onMain
  BY <1>3 DEF Chains
<1>12. Chains'
  <2>1. ASSUME NEW j \in Keys, at'[j] = "helping"
        PROVE  /\ wait[j].run \in Tasks /\ at'[wait[j].run] \notin OffStack
               /\ wait[j].run \in onMain' <=> j \in onMain'
               /\ edge[j] = TaskEdge(wait[j].run)
    <3>1. at[j] = "helping" /\ wait[j].run # t /\ j # t
      BY <1>4, <1>6, <2>1
    <3>2. /\ wait[j].run \in Tasks /\ at[wait[j].run] \notin OffStack
          /\ wait[j].run \in onMain <=> j \in onMain
          /\ edge[j] = TaskEdge(wait[j].run)
      BY <1>3, <3>1 DEF Chains
    <3> QED
      BY <1>2, <1>7, <3>1, <3>2, TaskKeys
  <2>2. \A i, j \in Keys : at'[i] = "helping" /\ at'[j] = "helping" /\ wait[i].run = wait[j].run => i = j
    BY <1>3, <1>6 DEF Chains
  <2>3. \A s \in Tasks \cap onMain' : at'[s] \notin OffStack /\ Hosts(s)' # {}
    BY <1>2, <1>3, <1>7, <1>8, TaskKeys DEF Chains
  <2>4. \E m \in onMain' : at'[m] # "helping" /\ \A j \in onMain' : j # m => at'[j] = "helping"
    <3>1. PICK m \in onMain : at[m] # "helping" /\ \A j \in onMain : j # m => at[j] = "helping"
      BY <1>3 DEF Chains
    <3>2. onMain \subseteq Keys
      BY Numbers DEF Counted
    <3>3. CASE t \in onMain
      <4>1. PICK k \in Hosts(t) : TRUE
        BY <1>11, <3>3
      <4>2. k \in onMain' /\ k # t
        BY <1>2, <1>10, <3>3, <4>1
      <4>3. t = m
        BY <3>1, <3>3
      <4>4. \A j \in onMain' : j # k => at'[j] = "helping"
        BY <1>2, <1>6, <1>9, <3>1, <3>2, <4>1, <4>3
      <4> QED
        BY <1>6, <3>2, <4>1, <4>2, <4>4, <1>2
    <3>4. CASE t \notin onMain
      <4>1. onMain' = onMain /\ \A j \in onMain : j \notin Hosts(t)
        BY <1>2, <1>10, <3>4
      <4> QED
        BY <1>6, <3>1, <3>2, <4>1
    <3> QED
      BY <3>3, <3>4
  <2> QED
    BY <1>2, <2>1, <2>2, <2>3, <2>4 DEF Chains
<1>13. \A s \in Tasks : s # t => (s \in Roots' <=> s \in Roots)
  <2>1. \A s \in Tasks : s # t => (at'[s] \in {"queued", "over"} <=> at[s] \in {"queued", "over"})
    BY <1>7, TaskKeys DEF OffStack
  <2> QED
    BY <1>8, <2>1 DEF Roots, Started
<1>14. t \notin Roots' /\ t \notin Tops' /\ (t \in Roots <=> Hosts(t) = {})
  <2>1. at'[t] = "over"
    BY <1>1, <1>5
  <2> QED
    BY <2>1 DEF Roots, Started, Tops, Still, OffStack
<1>15. \A s \in Tasks : s # t => (s \in Tops' <=> s \in Tops \/ (s \in Hosts(t) /\ s \notin onMain))
  <2> SUFFICES ASSUME NEW s \in Tasks, s # t
               PROVE  s \in Tops' <=> s \in Tops \/ (s \in Hosts(t) /\ s \notin onMain)
    OBVIOUS
  <2>1. at'[s] \notin Still <=> at[s] \notin Still \/ s \in Hosts(t)
    BY <1>4, <1>6, <1>7, TaskKeys DEF Still, OffStack
  <2>2. s \in onMain' <=> s \in onMain
    BY <1>2
  <2> QED
    BY <2>1, <2>2 DEF Tops
<1>16. t \in Tops <=> t \notin onMain
  BY DEF Tops, Still, OffStack
<1>17. /\ IsFiniteSet(Roots) /\ Cardinality(Roots) \in Nat
       /\ IsFiniteSet(Tops) /\ Cardinality(Tops) \in Nat
       /\ Roots \subseteq Tasks /\ Tops \subseteq Tasks /\ Roots' \subseteq Tasks /\ Tops' \subseteq Tasks
  BY Numbers DEF Counted, Roots, Started, Tops
<1>18. ASSUME Hosts(t) = {}
       PROVE  /\ Cardinality(Roots') = Cardinality(Roots) - 1 /\ Cardinality(Tops') = Cardinality(Tops) - 1
  <2>1. Roots' = Roots \ {t} /\ t \in Roots
    BY <1>13, <1>14, <1>17, <1>18
  <2>2. Tops' = Tops \ {t} /\ t \in Tops
    BY <1>11, <1>14, <1>15, <1>16, <1>17, <1>18
  <2> QED
    BY <1>17, <2>1, <2>2, FS_RemoveElement
<1>19. ASSUME Hosts(t) # {}
       PROVE  /\ Cardinality(Roots') = Cardinality(Roots) - 0 /\ Cardinality(Tops') = Cardinality(Tops) - 0
  <2>1. PICK k \in Hosts(t) : TRUE
    BY <1>19
  <2>2. Hosts(t) = {k} /\ k \in Keys /\ k # t /\ (t \in onMain <=> k \in onMain) /\ k \notin Tops
    BY <1>4, <1>9, <1>10, <2>1 DEF Tops, Still
  <2>3. Roots' = Roots
    BY <1>13, <1>14, <1>17, <1>19
  <2>4. Cardinality(Tops') = Cardinality(Tops)
    <3>1. CASE t \in onMain
      <4>1. Tops' = Tops
        BY <1>14, <1>15, <1>16, <1>17, <2>2, <3>1
      <4> QED
        BY <4>1
    <3>2. CASE t \notin onMain
      <4>1. k \in Tasks
        BY <2>2, <3>2, Numbers, TasksAssumption DEF Counted
      <4>2. Tops' = (Tops \ {t}) \cup {k}
        BY <1>14, <1>15, <1>17, <2>2, <3>2, <4>1
      <4>3. IsFiniteSet(Tops \ {t}) /\ Cardinality(Tops \ {t}) = Cardinality(Tops) - 1
        BY <1>16, <1>17, <3>2, FS_RemoveElement
      <4>4. Cardinality(Tops') = Cardinality(Tops \ {t}) + 1
        BY <2>2, <4>2, <4>3, FS_AddElement
      <4> QED
        BY <1>17, <4>3, <4>4
    <3> QED
      BY <3>1, <3>2
  <2> QED
    BY <1>17, <2>3, <2>4
<1>20. SleepingWorkers' = SleepingWorkers
  <2>1. call[t] = NoCall
    BY <1>1, NoCallBut
  <2>2. Asleep' = Asleep /\ t \notin Asleep
    BY <1>2, <1>5, <2>1 DEF Asleep
  <2> QED
    BY <1>2, <2>2 DEF SleepingWorkers
<1>21. \A k \in Keys : call'[k] # NoCall => at'[k] = "user"
  BY <1>2, <1>4, <1>5 DEF Counted, CountInv
<1>22. CountInv'
  <2>1. onMain' \in SUBSET Keys /\ Main \in onMain'
    BY <1>1, <1>2, Numbers DEF Counted
  <2>2. blocked' = Cardinality(SleepingWorkers') /\ blocked' <= blocked
    BY <1>2, <1>20, Numbers DEF Counted, CountInv
  <2>3. looping \in Nat
    BY Numbers DEF Counted
  <2>4. CASE Hosts(t) = {}
    BY <1>2, <1>12, <1>18, <1>21, <2>1, <2>2, <2>4, NumbersKept DEF Counted
  <2>5. CASE Hosts(t) # {}
    <3>1. looping' = looping + 0
      BY <1>2, <2>3, <2>5
    <3> QED
      BY <1>2, <1>12, <1>19, <1>21, <2>1, <2>2, <2>5, <3>1, NumbersKept DEF Counted
  <2> QED
    BY <2>4, <2>5
<1>23. Ends
  <2>1. at[Main] \in {"reap", "over"} => Main \notin Hosts(t)
    BY <1>4, TaskKeys
  <2>2. \A s \in Tasks : at'[s] = "over" => at[s] = "over" \/ s = t
    BY <1>5, TaskKeys
  <2>3. Main \in Keys /\ Main # t
    BY <1>1, TaskKeys
  <2> QED
    BY <1>2, <1>5, <2>1, <2>2, <2>3 DEF Ends
<1> QED
  BY <1>22, <1>23, EndsKept DEF Counted

-----------------------------------------------------------------------------
(* Spawning *)

(* A worker on which a task runs has not left: as long as somebody can call  *)
(* SPAWN, a worker is there for what is spawned.                             *)
LEMMA SpawnerStays ==
  ASSUME Inv, Counted, Alive, NEW k \in Keys, at[k] = "user"
  PROVE  exited < NWorkers + extra
<1>1. exited \in Nat /\ extra \in Nat /\ NWorkers \in Nat \ {0} /\ idle \in Nat /\ looping \in Nat
  BY Numbers DEF Counted
<1>2. CASE ~stopping
  <2>1. exited = 0
    BY <1>1, <1>2 DEF Counted, ExitInv
  <2> QED
    BY <1>1, <2>1
<1>3. CASE stopping
  <2>1. at[Main] \in {"reap", "over"}
    BY <1>3 DEF Counted, ExitInv
  <2>2. k \notin onMain
    <3>1. \A j \in onMain : j # Main => at[j] = "helping"
      BY <2>1, Numbers DEF Counted, CountInv, Chains
    <3> QED
      BY <2>1, <3>1
  <2>3. k \in Tops
    BY <2>2, Numbers, TasksAssumption DEF Tops, Still, OffStack, Counted
  <2>4. IsFiniteSet(Tops) /\ Cardinality(Tops) \in Nat /\ Cardinality(Tops) # 0
    BY <2>3, Numbers, FS_EmptySet DEF Counted
  <2>5. idle + looping + exited + Cardinality(Tops) = NWorkers + extra
    <3>1. Tops \subseteq 1..count
      BY TopsBounded DEF Counted
    <3>2. count # 0
      BY <2>3, <3>1
    <3> QED
      BY <3>2 DEF Counted, CountInv, ThreadsExact, Threads
  <2> QED
    BY <1>1, <2>4, <2>5
<1> QED
  BY <1>2, <1>3

LEMMA SpawnCounted ==
  ASSUME Inv, Counted, OutcomesKept, NEW k \in Keys, Spawn(k)
  PROVE  Counted'
<1>1. /\ Alive /\ at[k] = "user" /\ count' = count + 1 /\ queue' = Append(queue, count + 1) /\ exit = "none"
      /\ UNCHANGED <<lockVars, stopping, idle, exited, blocked, threadVars, exit>>
  BY DEF Spawn, Calling, Alive
<1>2. UNCHANGED <<at, wait, onMain, edge, call, fatal>>
  BY <1>1 DEF lockVars, waitVars, threadVars
<1>3. SameStacks
  BY <1>2 DEF SameStacks
<1>4. Roots' = Roots /\ Tops' = Tops /\ Chains'
  BY <1>1, <1>3, StacksKept DEF Counted, CountInv
<1>5. SleepingWorkers' = SleepingWorkers
  BY <1>2 DEF SleepingWorkers, Asleep
<1>6. /\ count \in Nat /\ idle \in Nat /\ looping \in Nat /\ exited \in Nat /\ extra \in Nat
      /\ blocked \in Nat /\ NWorkers \in Nat \ {0}
      /\ Cardinality(Roots) \in Nat /\ Cardinality(Tops) \in Nat
  BY Numbers DEF Counted
<1>7. /\ blocked <= Cardinality(Tops) /\ Cardinality(Tops) <= Threads /\ Cardinality(Tops) <= count
      /\ Tops \subseteq 1..count /\ Roots \subseteq 1..count
  BY <1>1, TopsBounded DEF Counted, CountInv
<1>8. /\ count = 0 => extra = 0
      /\ idle + looping + exited + Cardinality(Roots) = Threads
      /\ idle + looping + exited + Cardinality(Tops) = Threads
  BY <1>1 DEF Counted, CountInv, ThreadsExact
<1>9. /\ CompensationKeepsUp' /\ ThreadsBounded' /\ ThreadsExact'
      /\ looping' \in Nat
      /\ extra' = extra \/ extra' = extra + 1
  <2>1. CASE count = 0
    <3>1. Tops = {} /\ Roots = {}
      BY <1>7, <2>1
    <3>2. Cardinality(Tops) = 0 /\ Cardinality(Roots) = 0
      BY <3>1, FS_EmptySet
    <3>3. blocked = 0 /\ extra = 0 /\ idle = 0 /\ looping = 0 /\ exited = 0
      BY <1>6, <1>7, <1>8, <2>1, <3>2 DEF Threads
    <3>4. ~(blocked >= NWorkers + extra)
      BY <1>6, <3>3
    <3>5. extra' = 0 /\ looping' = NWorkers
      BY <1>6, <2>1, <3>3, <3>4 DEF Spawn, MaybeAddWorker
    <3>6. count' = 1 /\ blocked' = 0 /\ idle' = 0 /\ exited' = 0
      BY <1>1, <2>1, <3>3
    <3>7. CompensationKeepsUp' /\ ThreadsBounded'
      BY <1>6, <3>5, <3>6 DEF CompensationKeepsUp, ThreadsBounded
    <3>8. ThreadsExact'
      BY <1>4, <1>6, <3>2, <3>5, <3>6 DEF ThreadsExact, Threads
    <3> QED
      BY <1>6, <3>3, <3>5, <3>7, <3>8
  <2>2. CASE count # 0
    <3>1. Threads = NWorkers + extra
      BY <2>2 DEF Threads
    <3>2. IF ~stopping /\ queue' # <<>> /\ idle = 0 /\ blocked >= NWorkers + extra
            THEN extra' = extra + 1 /\ looping' = looping + 1
            ELSE extra' = extra /\ looping' = looping
      BY <1>1, <1>6, <2>2 DEF Spawn, MaybeAddWorker
    <3>3. CompensationKeepsUp'
      BY <1>1, <1>6, <1>7, <3>1, <3>2 DEF CompensationKeepsUp
    <3>4. ThreadsBounded'
      <4>1. ThreadsBounded
        BY DEF Counted, CountInv
      <4> QED
        BY <1>1, <1>6, <1>7, <3>1, <3>2, <4>1 DEF ThreadsBounded
    <3>5. Threads' = NWorkers + extra' /\ count' # 0
      BY <1>1, <1>6 DEF Threads
    <3>6. ThreadsExact'
      <4>1. CASE extra' = extra + 1 /\ looping' = looping + 1
        <5>1. /\ idle + (looping + 1) + exited + Cardinality(Roots) = NWorkers + (extra + 1)
              /\ idle + (looping + 1) + exited + Cardinality(Tops) = NWorkers + (extra + 1)
          BY <1>6, <1>8, <3>1
        <5> QED
          BY <1>1, <1>4, <3>5, <4>1, <5>1 DEF ThreadsExact
      <4>2. CASE extra' = extra /\ looping' = looping
        BY <1>1, <1>4, <1>8, <3>1, <3>5, <4>2 DEF ThreadsExact
      <4> QED
        BY <3>2, <4>1, <4>2
    <3> QED
      BY <1>6, <3>2, <3>3, <3>4, <3>6
  <2> QED
    BY <2>1, <2>2
<1>10. CountInv'
  <2>1. CountTypes'
    BY <1>1, <1>2, <1>6, <1>9 DEF Counted, CountInv, CountTypes
  <2>2. /\ blocked' = Cardinality(SleepingWorkers')
        /\ \A j \in Keys : call'[j] # NoCall => at'[j] = "user"
    BY <1>1, <1>2, <1>5 DEF Counted, CountInv
  <2> QED
    BY <1>4, <1>9, <2>1, <2>2 DEF CountInv
<1>11. ExitInv'
  <2>1. exited < NWorkers + extra
    BY <1>1, SpawnerStays
  <2>2. exited' < NWorkers + extra'
    BY <1>1, <1>6, <1>9, <2>1
  <2>3. \A t \in Tasks : at'[t] = "over" => state'[t] \in Finished
    BY <1>1, <1>2 DEF Counted, ExitInv, OutcomesKept
  <2> QED
    BY <1>1, <1>2, <2>2, <2>3 DEF Counted, ExitInv, AllFinishedAtExit
<1> QED
  BY <1>10, <1>11 DEF Counted

-----------------------------------------------------------------------------
(* The end *)

(* Somebody leaves for good and the process exits, or the shutdown goes on. *)
LEMMA OverCounted ==
  ASSUME Inv, Counted, Alive, ~Alive', NEW k \in Keys, at[k] \in {"after", "snapshot", "reap"},
         at' = [at EXCEPT ![k] = "over"], UNCHANGED <<lockVars, count, poolVars, onMain>>
  PROVE  CountInv'
<1>1. at'[k] = "over" /\ \A j \in Keys : j # k => at'[j] = at[j]
  BY DEF Inv, PoolTypes
<1>2. call[k] = NoCall /\ call' = call
  BY NoCallBut DEF lockVars, waitVars
<1>3. SleepingWorkers' = SleepingWorkers
  <2>1. Asleep' = Asleep
    BY <1>1, <1>2 DEF Asleep
  <2> QED
    BY <2>1 DEF SleepingWorkers
<1>4. \A j \in Keys : call'[j] # NoCall => at'[j] = "user"
  BY <1>1, <1>2 DEF Counted, CountInv
<1>5. /\ looping' = looping + 0 /\ blocked' = Cardinality(SleepingWorkers') /\ blocked' <= blocked
      /\ onMain' \in SUBSET Keys /\ Main \in onMain'
      /\ UNCHANGED <<queue, stopping, idle, exited, extra>>
  BY <1>3, Numbers DEF Counted, CountInv, poolVars
<1> QED
  BY <1>4, <1>5, NumbersKept DEF Counted

LEMMA JoinsCounted ==
  ASSUME Inv, Counted, OutcomesKept, NEW k \in Keys, Joins(k), FailedOn(k) # {}
  PROVE  Counted'
<1>1. /\ Alive /\ at[k] = "after" /\ at' = [at EXCEPT ![k] = "over"] /\ exit' = "task failed"
      /\ UNCHANGED <<lockVars, count, state, poolVars, onMain, wait>>
  BY DEF Joins, Moved, taskVars
<1>2. CountInv'
  BY <1>1, OverCounted DEF Alive
<1>3. at'[k] = "over" /\ \A j \in Keys : j # k => at'[j] = at[j]
  BY <1>1 DEF Inv, PoolTypes
<1>4. Ends
  <2>1. extra' = extra /\ stopping' = stopping /\ exited' = exited /\ queue' = queue
    BY <1>1 DEF poolVars
  <2> QED
    BY <1>1, <1>3, <2>1, TaskKeys DEF Ends, Alive
<1> QED
  BY <1>1, <1>2, <1>4, EndsKept DEF Counted

LEMMA SnapshotNoneCounted ==
  ASSUME Inv, Counted, NEW normal, Snapshot(normal), count = 0
  PROVE  Counted'
<1>1. /\ Alive /\ at[Main] = "snapshot" /\ at' = [at EXCEPT ![Main] = "over"] /\ exit' = "clean"
      /\ UNCHANGED <<lockVars, count, state, poolVars, onMain, wait>> /\ Main \in Keys
  BY TaskKeys DEF Snapshot, Moved
<1>2. CountInv'
  BY <1>1, OverCounted DEF Alive
<1>3. at'[Main] = "over"
  BY <1>1 DEF Inv, PoolTypes
<1>4. queue = <<>>
  <2>1. queue # <<>> => Head(queue) \in 1..0
    BY HeadTail
  <2> QED
    BY <2>1
<1>5. ExitInv'
  BY <1>1, <1>3, <1>4 DEF Counted, ExitInv, AllFinishedAtExit, Alive, poolVars
<1> QED
  BY <1>2, <1>5 DEF Counted

LEMMA StopCounted ==
  ASSUME Inv, Counted, OutcomesKept, Stop
  PROVE  Counted'
<1>1. /\ Alive /\ at[Main] = "after" /\ at' = [at EXCEPT ![Main] = "reap"] /\ Main \in Keys
      /\ stopping' = TRUE /\ exit = "none"
      /\ wait' = [wait EXCEPT ![Main] = [NoWait EXCEPT !.for = IF Unread = {} THEN "clean" ELSE "unread"]]
      /\ UNCHANGED <<lockVars, count, state, queue, idle, looping, exited, extra, blocked, onMain, exit>>
  BY TaskKeys DEF Stop, Moved, Alive, taskVars
<1>2. at'[Main] = "reap" /\ \A j \in Keys : j # Main => at'[j] = at[j] /\ wait'[j] = wait[j]
  BY <1>1 DEF Inv, PoolTypes
<1>3. UNCHANGED <<edge, call, fatal>> /\ call[Main] = NoCall
  BY <1>1, NoCallBut DEF lockVars, waitVars
<1>4. SameStacks
  BY <1>1, <1>2, <1>3 DEF SameStacks, OffStack
<1>5. SleepingWorkers' = SleepingWorkers
  <2>1. Asleep' = Asleep
    BY <1>1, <1>2, <1>3 DEF Asleep
  <2> QED
    BY <1>1, <2>1 DEF SleepingWorkers
<1>6. \A j \in Keys : call'[j] # NoCall => at'[j] = "user"
  BY <1>1, <1>2, <1>3 DEF Counted, CountInv
<1>7. CountInv'
  <2>1. blocked' = Cardinality(SleepingWorkers') /\ blocked' <= blocked
    BY <1>1, <1>5, Numbers DEF Counted, CountInv
  <2> QED
    BY <1>1, <1>4, <1>6, <2>1, NumbersStay DEF Counted
<1>8. ExitInv'
  <2>1. wait'[Main].for \in {"clean", "unread"}
    BY <1>1 DEF Inv, PoolTypes, NoWait
  <2>2. \A t \in Tasks : at'[t] = "over" => state'[t] \in Finished
    BY <1>1, <1>2, TaskKeys DEF Counted, ExitInv
  <2> QED
    BY <1>1, <1>2, <1>3, <2>1, <2>2 DEF Counted, ExitInv, AllFinishedAtExit, Alive
<1> QED
  BY <1>7, <1>8 DEF Counted

(* When all workers have left while the main program reaps, nothing is left  *)
(* to do.  A task that were still on a stack could only be on the main       *)
(* thread and wait, like all those below and above it: in a circle, and      *)
(* those are found when they arise.                                          *)
LEMMA NobodyLeft ==
  ASSUME Inv, Counted, Alive, NoUndetectedDeadlock, at[Main] = "reap", exited = NWorkers + extra
  PROVE  queue = <<>> /\ \A t \in 1..count : state[t] \in Finished /\ at[t] = "over"
<1> DEFINE S == {t \in Tasks : at[t] \notin OffStack}
<1>1. /\ count \in Nat /\ idle \in Nat /\ looping \in Nat /\ exited \in Nat /\ extra \in Nat
      /\ Cardinality(Tops) \in Nat /\ IsFiniteSet(Tops) /\ Tops \subseteq Keys /\ NWorkers \in Nat
  BY Numbers DEF Counted
<1>2. queue = <<>>
  <2>1. queue # <<>> => exited < NWorkers + extra
    BY DEF Counted, ExitInv
  <2> QED
    BY <1>1, <2>1
<1>3. Tops = {}
  <2>1. CASE count = 0
    BY <1>1, <2>1, TopsBounded DEF Counted
  <2>2. CASE count # 0
    <3>1. idle + looping + exited + Cardinality(Tops) = NWorkers + extra
      BY <2>2 DEF Counted, CountInv, ThreadsExact, Threads
    <3>2. Cardinality(Tops) = 0
      BY <1>1, <3>1
    <3> QED
      BY <1>1, <3>2, FS_EmptySet
  <2> QED
    BY <2>1, <2>2
<1>4. \A t \in S : at[t] = "helping"
  <2>1. Chains /\ Main \in onMain
    BY Numbers DEF Counted, CountInv
  <2>2. \A j \in onMain : j # Main => at[j] = "helping"
    BY <2>1 DEF Chains
  <2>3. \A t \in Tasks : t # Main
    BY TaskKeys
  <2> QED
    BY <1>3, <2>2, <2>3 DEF Tops, Still
<1>5. \A t \in S : Succ(t) \in S
  <2> SUFFICES ASSUME NEW t \in S PROVE Succ(t) \in S
    OBVIOUS
  <2>1. t \in Keys /\ at[t] = "helping"
    BY <1>4, TaskKeys
  <2>2. wait[t].run \in S /\ edge[t] = TaskEdge(wait[t].run)
    BY <2>1 DEF Counted, CountInv, Chains
  <2> QED
    BY <2>2 DEF Succ, TaskEdge
<1>6. S = {}
  <2>1. Acyclic /\ S \in SUBSET Keys
    BY TaskKeys DEF NoUndetectedDeadlock, Alive
  <2> HIDE DEF S
  <2> QED
    BY <1>5, <2>1 DEF Acyclic
<1>7. ASSUME NEW t \in 1..count PROVE at[t] = "over"
  <2>1. t \in Tasks /\ t \in Keys
    BY CountTasks
  <2>2. at[t] = "queued" => \E k \in Keys : Helps(k, t)
    <3>1. at[t] = "queued" => InQueue(t) \/ \E k \in Keys : Helps(k, t)
      BY DEF Inv, Shape, QueueOK
    <3>2. ~InQueue(t)
      BY <1>2 DEF InQueue
    <3> QED
      BY <3>1, <3>2
  <2>3. \A k \in Keys : ~Helps(k, t)
    <3>1. \A k \in Keys : k \in Tasks \/ k = Main
      BY TasksAssumption
    <3> QED
      BY <1>6, <3>1 DEF Helps, OffStack
  <2> QED
    BY <1>6, <2>1, <2>2, <2>3 DEF OffStack
<1>8. \A t \in 1..count : state[t] \in Finished
  BY <1>7, CountTasks DEF Counted, ExitInv
<1> QED
  BY <1>2, <1>7, <1>8

LEMMA ReapCounted ==
  ASSUME Inv, Counted, NoUndetectedDeadlock, Reap
  PROVE  Counted'
<1>1. /\ Alive /\ at[Main] = "reap" /\ at' = [at EXCEPT ![Main] = "over"] /\ exit' = wait[Main].for
      /\ exited = NWorkers + extra /\ Main \in Keys
      /\ UNCHANGED <<lockVars, count, state, poolVars, onMain, wait>>
  BY TaskKeys DEF Reap, Moved, taskVars
<1>2. exit' \in {"clean", "unread"}
  BY <1>1 DEF Counted, ExitInv
<1>3. CountInv'
  BY <1>1, <1>2, OverCounted DEF Alive
<1>4. at'[Main] = "over"
  BY <1>1 DEF Inv, PoolTypes
<1>5. AllFinishedAtExit'
  <2>1. queue = <<>> /\ \A t \in 1..count : state[t] \in Finished
    BY <1>1, NobodyLeft
  <2> QED
    BY <1>1, <2>1 DEF AllFinishedAtExit, poolVars
<1>6. ExitInv'
  BY <1>1, <1>2, <1>4, <1>5 DEF Counted, ExitInv, Alive, poolVars
<1> QED
  BY <1>3, <1>6 DEF Counted

-----------------------------------------------------------------------------
(* All steps *)

LEMMA RunCounted ==
  ASSUME Inv, Counted, OutcomesKept, NEW t \in Tasks, RunStep(t) PROVE Counted'
<1>1. CASE BeginCancelled(t)
  <2>1. /\ Alive /\ at[t] = "begin" /\ Return(t) /\ state' = [state EXCEPT ![t] = "CANCELLED"]
        /\ UNCHANGED <<waitVars, count>>
    BY <1>1 DEF BeginCancelled
  <2>2. state'[t] \in Finished
    BY <2>1 DEF Inv, PoolTypes, Finished
  <2> QED
    BY <2>1, <2>2, ReturnCounted
<1>2. CASE Publish(t)
  <2>1. /\ Alive /\ at[t] = "publish" /\ Return(t) /\ UNCHANGED <<waitVars, count>>
        /\ state' = [state EXCEPT ![t] = Outcome(errorText[t])]
    BY <1>2 DEF Publish, lockVars
  <2>2. state'[t] \in Finished
    BY <2>1 DEF Inv, PoolTypes, Finished, Outcome
  <2> QED
    BY <2>1, <2>2, ReturnCounted
<1> QED
  BY <1>1, <1>2, RunQuiet DEF RunStep

LEMMA KeyStepCounted ==
  ASSUME Inv, Counted, OutcomesKept, NEW k \in Keys, KeyStep(k) PROVE Counted'
<1>1. CASE WaitStep(k)
  <2>1. CASE Joins(k)
    BY <2>1, WaitQuiet, JoinsCounted
  <2> QED
    BY <1>1, <2>1, WaitQuiet, SleepCounted, ResumeCounted, HelpCounted DEF WaitStep
<1>2. CASE Spawn(k) \/ LockWake(k) \/ LockLeave(k)
  BY <1>2, SpawnCounted, LockWakeCounted, LeaveQuiet
<1>3. CASE GroupJoin(k)
  <2>1. /\ Alive /\ at[k] = "user" /\ Running(k) /\ exit' = exit /\ StartWait(k, "group", group)
    BY <1>3 DEF GroupJoin, Calling
  <2> QED
    BY <2>1, StartWaitQuiet
<1>4. ASSUME NEW h \in Tasks,
             \/ GroupAdd(k, h) \/ Cancel(k, h)
             \/ \E op \in Ops : WaitFor(k, op, h) \/ Read(k, op, h)
      PROVE  Counted'
  BY <1>4, CallQuiet
<1>5. ASSUME NEW ids \in SUBSET Locks, NEW mode \in Modes, LockEnter(k, ids, mode) PROVE Counted'
  BY <1>5, LockEnterCounted
<1> QED
  BY <1>1, <1>2, <1>3, <1>4, <1>5 DEF KeyStep, CallStep

LEMMA StutterCounted ==
  ASSUME Counted, UNCHANGED vars PROVE Counted'
<1>1. UNCHANGED <<count, state, queue, stopping, idle, looping, exited, extra, blocked, at, wait, onMain,
                  exit, fatal, edge, call>>
  BY DEF vars, lockVars, waitVars, taskVars, poolVars, threadVars
<1>2. CountTypes' /\ CompensationKeepsUp' /\ ThreadsBounded' /\ (Alive' <=> Alive)
  BY <1>1 DEF Counted, CountInv, CountTypes, CompensationKeepsUp, ThreadsBounded, Alive
<1>3. Roots' = Roots /\ Tops' = Tops /\ Threads' = Threads /\ SleepingWorkers' = SleepingWorkers
  BY <1>1 DEF Roots, Started, Hosts, Tops, Threads, SleepingWorkers, Asleep
<1>4. (Chains <=> Chains') /\ (ThreadsExact <=> ThreadsExact')
  BY <1>1, <1>3 DEF Chains, Hosts, ThreadsExact
<1>5. CountInv'
  BY <1>1, <1>2, <1>3, <1>4 DEF Counted, CountInv
<1>6. ExitInv'
  BY <1>1, <1>2 DEF Counted, ExitInv, AllFinishedAtExit
<1> QED
  BY <1>5, <1>6 DEF Counted

LEMMA NextCounted ==
  ASSUME Inv, NoUndetectedDeadlock, Counted, [Next]_vars PROVE Counted'
<1>1. OutcomesKept
  BY NextGood DEF Good
<1>2. CASE WorkerStep
  BY <1>1, <1>2, WorkerTakeCounted, WorkerSleepCounted, WorkerExitCounted DEF WorkerStep
<1>3. ASSUME NEW t \in Tasks, TaskStep(t) PROVE Counted'
  <2>1. t \in Keys
    BY TaskKeys
  <2>2. CASE Throw(t) \/ CancelPoint(t)
    BY <1>1, <2>2, FailQuiet
  <2> QED
    BY <1>1, <1>3, <2>1, <2>2, RunCounted, KeyStepCounted DEF TaskStep
<1>4. CASE KeyStep(Main)
  BY <1>1, <1>4, TaskKeys, KeyStepCounted
<1>5. CASE ExitStep
  <2>1. ASSUME NEW normal \in ExitModes, Snapshot(normal) PROVE Counted'
    BY <1>1, <2>1, SnapshotQuiet, SnapshotNoneCounted
  <2> QED
    BY <1>1, <1>5, <2>1, ShutdownQuiet, StopCounted, ReapCounted DEF ExitStep
<1>6. CASE UNCHANGED vars
  BY <1>6, StutterCounted
<1> QED
  BY <1>2, <1>3, <1>4, <1>5, <1>6 DEF Next, Exited

LEMMA InitCounted == Init => Counted
<1> SUFFICES ASSUME Init PROVE Counted
  OBVIOUS
<1>1. /\ count = 0 /\ queue = <<>> /\ ~stopping /\ idle = 0 /\ looping = 0 /\ exited = 0 /\ extra = 0
      /\ blocked = 0 /\ onMain = {Main} /\ exit = "none" /\ at[Main] = "user" /\ Main \in Keys
  BY TaskKeys DEF Init
<1>2. \A t \in Tasks : at[t] = "queued" /\ t \in Keys /\ t # Main
  BY TaskKeys DEF Init
<1>3. \A k \in Keys : call[k] = NoCall
  BY DEF Init, LockInit
<1>4. Tops = {} /\ Roots = {} /\ SleepingWorkers = {}
  <2>1. \A k \in Keys : k = Main \/ k \in Tasks
    BY TasksAssumption
  <2> QED
    BY <1>1, <1>2, <1>3, <2>1 DEF Tops, Roots, Started, SleepingWorkers, Asleep, Still, OffStack
<1>5. Cardinality({}) = 0
  BY FS_EmptySet
<1>6. Chains
  <2>1. \A k \in Keys : at[k] # "helping"
    BY DEF Init
  <2>2. Tasks \cap onMain = {}
    BY <1>1, <1>2
  <2> QED
    BY <1>1, <2>1, <2>2 DEF Chains
<1>7. ThreadsExact
  BY <1>1, <1>4, <1>5 DEF ThreadsExact, Threads
<1>8. CountTypes /\ CompensationKeepsUp /\ ThreadsBounded
  BY <1>1 DEF CountTypes, CompensationKeepsUp, ThreadsBounded
<1>9. CountInv
  BY <1>1, <1>3, <1>4, <1>5, <1>6, <1>7, <1>8 DEF CountInv
<1>10. ExitInv
  BY <1>1, <1>2 DEF ExitInv, AllFinishedAtExit
<1> QED
  BY <1>9, <1>10 DEF Counted

LEMMA CountInductive == Spec => []Counted
<1>1. Inv /\ NoUndetectedDeadlock /\ Counted /\ [Next]_vars => Counted'
  BY NextCounted
<1> QED
  BY <1>1, InitCounted, PoolInductive, PoolNoSilentDeadlock, PTL DEF Spec

-----------------------------------------------------------------------------
(* Types.  PoolTypes and CountTypes hold most of them; these are the others. *)

OtherTypes ==
  /\ observed \in [Tasks -> BOOLEAN]
  /\ left \in [Keys -> Nat]
  /\ exit \in {"none", "clean", "unread", "task failed", "null handle"}

LEMMA CallingTypes ==
  ASSUME OtherTypes, NEW k \in Keys, NEW op, Calling(k, op)
  PROVE  left' \in [Keys -> Nat]
<1>1. left[k] \in Nat /\ left[k] > 0
  BY DEF Calling, OtherTypes
<1>2. left[k] - 1 \in Nat
  BY <1>1
<1> QED
  BY <1>2 DEF Calling, OtherTypes

LEMMA CallTypes ==
  ASSUME Inv, OtherTypes, NEW k \in Keys, CallStep(k) \/ Throw(k) \/ CancelPoint(k)
  PROVE  OtherTypes'
<1>1. ASSUME NEW h \in Tasks, NEW op \in Ops, Read(k, op, h) PROVE OtherTypes'
  <2>1. /\ Calling(k, op) /\ exit' = exit
        /\ observed' = [observed EXCEPT ![h] = @ \/ IF op = "status" THEN state[h] \in Failed
                                                                     ELSE errorText[h] # ""]
    BY <1>1 DEF Read, Handle
  <2>2. observed' \in [Tasks -> BOOLEAN]
    BY <2>1 DEF OtherTypes
  <2> QED
    BY <2>1, <2>2, CallingTypes DEF OtherTypes
<1>2. CASE LockWake(k) \/ LockLeave(k)
  BY <1>2 DEF LockWake, LockLeave, taskVars, OtherTypes
<1>3. CASE Spawn(k) \/ GroupJoin(k) \/ Throw(k) \/ CancelPoint(k)
  <2>1. observed' = observed /\ exit' = exit /\ \E op : Calling(k, op)
    BY <1>3 DEF Spawn, GroupJoin, StartWait, Throw, CancelPoint, FailWith, taskVars
  <2> QED
    BY <2>1, CallingTypes DEF OtherTypes
<1>4. ASSUME NEW h \in Tasks, NEW op \in Ops, GroupAdd(k, h) \/ Cancel(k, h) \/ WaitFor(k, op, h)
      PROVE  OtherTypes'
  <2>1. observed' = observed /\ exit' \in {exit, "null handle"} /\ \E o : Calling(k, o)
    BY <1>4 DEF GroupAdd, Cancel, WaitFor, NullHandle, Handle, StartWait, taskVars
  <2> QED
    BY <2>1, CallingTypes DEF OtherTypes
<1>5. ASSUME NEW h \in Tasks, GroupAdd(k, h) \/ Cancel(k, h) PROVE OtherTypes'
  <2>1. observed' = observed /\ exit' \in {exit, "null handle"} /\ \E o : Calling(k, o)
    BY <1>5 DEF GroupAdd, Cancel, NullHandle, Handle, taskVars
  <2> QED
    BY <2>1, CallingTypes DEF OtherTypes
<1>6. ASSUME NEW ids \in SUBSET Locks, NEW mode \in Modes, LockEnter(k, ids, mode) PROVE OtherTypes'
  <2>1. observed' = observed /\ exit' = exit /\ Calling(k, mode)
    BY <1>6 DEF LockEnter, taskVars
  <2> QED
    BY <2>1, CallingTypes DEF OtherTypes
<1> QED
  BY <1>1, <1>2, <1>3, <1>4, <1>5, <1>6 DEF CallStep

LEMMA OtherTypesKept ==
  ASSUME Inv, Counted, OtherTypes, [Next]_vars PROVE OtherTypes'
<1>1. CASE WorkerStep
  BY <1>1 DEF WorkerStep, WorkerTake, WorkerSleep, WorkerExit, taskVars, OtherTypes
<1>2. ASSUME NEW t \in Tasks, RunStep(t) PROVE OtherTypes'
  BY <1>2 DEF RunStep, Begin, BeginCancelled, EndBody, Publish, Return, taskVars, OtherTypes
<1>3. ASSUME NEW k \in Keys, WaitStep(k) PROVE OtherTypes'
  <2>1. CASE Joins(k)
    BY <2>1 DEF Joins, taskVars, OtherTypes
  <2> QED
    BY <1>3, <2>1 DEF WaitStep, Note, Check, FoundFinished, TakeToHelp, Sleep, Resume, Help, Renote, Clear,
       Waited, taskVars, OtherTypes
<1>4. CASE ExitStep
  <2>1. CASE Shutdown \/ Stop
    BY <2>1 DEF Shutdown, Stop, taskVars, OtherTypes
  <2>2. ASSUME NEW normal, Snapshot(normal) PROVE OtherTypes'
    BY <2>2 DEF Snapshot, OtherTypes
  <2>3. CASE Reap
    BY <2>3 DEF Reap, Moved, Counted, ExitInv, taskVars, OtherTypes
  <2> QED
    BY <1>4, <2>1, <2>2, <2>3 DEF ExitStep
<1>5. CASE UNCHANGED vars
  BY <1>5 DEF vars, taskVars, OtherTypes
<1>6. ASSUME NEW k \in Keys, CallStep(k) \/ Throw(k) \/ CancelPoint(k) PROVE OtherTypes'
  BY <1>6, CallTypes
<1> QED
  BY <1>1, <1>2, <1>3, <1>4, <1>5, <1>6, TaskKeys DEF Next, TaskStep, KeyStep, Exited

-----------------------------------------------------------------------------
(* What holds of every program on every pool *)

(* Every variable of the pool keeps its type, with any number of tasks: no   *)
(* counter of workers goes below zero, no task makes a call after its last   *)
(* one, and the process ends in one of four ways.                            *)
THEOREM PoolTypesCorrect == Spec => []PoolTypeOK
<1>1. Init => OtherTypes
  BY PoolAssumption DEF Init, OtherTypes
<1>2. Inv /\ Counted /\ OtherTypes /\ [Next]_vars => OtherTypes'
  BY OtherTypesKept
<1>3. Inv /\ Counted /\ OtherTypes => PoolTypeOK
  <2> SUFFICES ASSUME Inv, Counted, OtherTypes PROVE PoolTypeOK
    OBVIOUS
  <2>1. LockTypeOK
    BY DEF Inv, TypeInv
  <2>2. awake \in Nat /\ idle \in Nat
    <3>1. idle \in Nat /\ awake \in 0..idle
      BY DEF Inv, PoolTypes
    <3> QED
      BY <3>1
  <2> QED
    BY <2>1, <2>2 DEF PoolTypeOK, Inv, PoolTypes, Waits, Counted, CountInv, CountTypes, OtherTypes
<1> QED
  BY <1>1, <1>2, <1>3, PoolInductive, CountInductive, PTL DEF Spec

(* No worker thread is lost or counted twice, though a thread's stack holds  *)
(* any number of tasks that help each other; and blockedWorkers, which four   *)
(* places change, is at every moment the number of workers that sleep.       *)
THEOREM WorkersCounted == Spec => []WorkersAccounted
<1>1. Counted => WorkersAccounted
  BY DEF Counted, CountInv, ThreadsExact, Threads, SleepingWorkers, WorkersAccounted
<1> QED
  BY <1>1, CountInductive, PTL

(* maybe_add_worker_locked is called often enough: there is never work in    *)
(* the queue while all workers, the compensating ones included, sleep.       *)
THEOREM CompensationSuffices == Spec => []CompensationKeepsUp
<1>1. Counted => CompensationKeepsUp
  BY DEF Counted, CountInv
<1> QED
  BY <1>1, CountInductive, PTL

(* ... and not too often: beyond the configured workers there are never more *)
(* threads than the program has spawned tasks.                               *)
THEOREM ThreadsBoundedByTasks == Spec => []ThreadsBounded
<1>1. Counted => ThreadsBounded
  BY DEF Counted, CountInv
<1> QED
  BY <1>1, CountInductive, PTL

(* K5: when the process ends normally, every task that was ever spawned has  *)
(* finished, also those that tasks spawned while task_shutdown waited, or    *)
(* while the workers left.                                                   *)
THEOREM ExitAfterAllTasks == Spec => []AllFinishedAtExit
<1>1. Counted => AllFinishedAtExit
  BY DEF Counted, ExitInv
<1> QED
  BY <1>1, CountInductive, PTL

-----------------------------------------------------------------------------
(* The exit code *)

AllFinished == \A t \in 1..count : state[t] \in Finished

(* What task_shutdown waits for is all that was spawned, as long as nothing  *)
(* is spawned meanwhile; and what it has found stays true until it returns.  *)
CodeInv ==
  /\ wait[Main].for = "shutdown" => /\ Len(wait[Main].on) = count
                                    /\ \A i \in 1..count : wait[Main].on[i] = i
  /\ at[Main] = "reap" => AllFinished /\ (wait[Main].for = "unread" <=> UnreadErrors)
  /\ ExitCodeExact

LEMMA WhereKeysAct ==
  ASSUME NEW k, KeyStep(k) \/ RunStep(k) \/ Throw(k) \/ CancelPoint(k)
  PROVE  Alive /\ at[k] \notin {"queued", "over", "snapshot", "reap"}
<1>1. CASE WaitStep(k)
  BY <1>1 DEF WaitStep, Note, Check, FoundFinished, TakeToHelp, Sleep, Resume, Help, Renote, Clear, Waited,
     Joins, Moved
<1>2. CASE RunStep(k)
  BY <1>2 DEF RunStep, Begin, BeginCancelled, EndBody, Publish
<1>3. CASE \E op : Calling(k, op)
  BY <1>3 DEF Calling
<1>4. CASE Throw(k) \/ CancelPoint(k)
  BY <1>3, <1>4 DEF Throw, CancelPoint
<1>5. CASE CallStep(k)
  <2>1. CASE LockWake(k) \/ LockLeave(k)
    BY <2>1 DEF LockWake, LockLeave
  <2> QED
    BY <1>3, <1>5, <2>1 DEF CallStep, Spawn, GroupJoin, GroupAdd, Cancel, WaitFor, Read, LockEnter
<1> QED
  BY <1>1, <1>2, <1>4, <1>5 DEF KeyStep

(* While the workers are joined nothing happens to the tasks. *)
LEMMA OnlyReaping ==
  ASSUME Inv, CodeInv, at[Main] = "reap", [Next]_vars
  PROVE  Reap \/ UNCHANGED <<count, state, observed, at, wait, exit>>
<1>1. \A t \in Tasks : at[t] \in {"queued", "over"}
  <2> SUFFICES ASSUME NEW t \in Tasks PROVE at[t] \in {"queued", "over"}
    OBVIOUS
  <2>1. CASE t > count
    BY <2>1 DEF Inv, Shape, QueueOK
  <2>2. CASE ~(t > count)
    <3>1. t \in 1..count
      BY <2>2, CountTasks, TasksAssumption DEF Tasks
    <3> QED
      BY <3>1 DEF CodeInv, AllFinished, Inv, Shape, DoneOK
  <2> QED
    BY <2>1, <2>2
<1>2. ASSUME NEW t \in Tasks PROVE ~TaskStep(t)
  BY <1>1, WhereKeysAct DEF TaskStep
<1>3. ~KeyStep(Main)
  BY WhereKeysAct
<1>4. CASE WorkerStep
  <2>1. ~WorkerTake
    <3>1. queue # <<>> => Head(queue) \in 1..count /\ at[Head(queue)] = "queued"
      BY HeadTail
    <3>2. Head(queue) \in 1..count => at[Head(queue)] = "over"
      BY CountTasks DEF CodeInv, AllFinished, Inv, Shape, DoneOK
    <3> QED
      BY <3>1, <3>2 DEF WorkerTake
  <2> QED
    BY <1>4, <2>1 DEF WorkerStep, WorkerSleep, WorkerExit, taskVars, threadVars
<1>5. CASE ExitStep
  BY <1>5 DEF ExitStep, Shutdown, Snapshot, Stop, Moved
<1>6. CASE UNCHANGED vars
  BY <1>6 DEF vars, taskVars, threadVars
<1> QED
  BY <1>2, <1>3, <1>4, <1>5, <1>6 DEF Next, Exited

(* A step that leaves what the main program waits for at its end as it is. *)
MainKept ==
  /\ at'[Main] # "reap"
  /\ exit' \notin {"clean", "unread"}
  /\ wait'[Main].for = "shutdown" => /\ wait[Main].for = "shutdown"
                                     /\ wait'[Main].on = wait[Main].on
                                     /\ count' = count

LEMMA CodeKept ==
  ASSUME CodeInv, MainKept PROVE CodeInv'
BY DEF CodeInv, ExitCodeExact, MainKept

LEMMA WaitStepMain ==
  ASSUME Inv, NEW k \in Keys, WaitStep(k), at[Main] # "reap" PROVE MainKept
<1>1. Alive /\ exit = "none"
  BY WhereKeysAct DEF KeyStep, Alive
<1>2. count' = count /\ exit' \in {exit, "task failed"}
  BY DEF WaitStep, Note, Check, FoundFinished, TakeToHelp, Sleep, Resume, Help, Renote, Clear, Waited, Joins,
     taskVars
<1>3. at'[Main] # "reap"
  <2>1. CASE Help(k)
    BY <2>1, TaskKeys DEF Help, Inv, PoolTypes
  <2>2. CASE ~Help(k)
    <3>1. PICK to : to # "reap" /\ at' = [at EXCEPT ![k] = to]
      BY <2>2 DEF WaitStep, Note, Check, FoundFinished, TakeToHelp, Sleep, Resume, Renote, Clear, Waited,
         Joins, Moved
    <3> QED
      BY <3>1, TaskKeys DEF Inv, PoolTypes
  <2> QED
    BY <2>1, <2>2
<1>4. wait'[Main].for = "shutdown" => wait[Main].for = "shutdown" /\ wait'[Main].on = wait[Main].on
  <2>1. Main \in Keys /\ wait \in [Keys -> Waits]
    BY TaskKeys DEF Inv, PoolTypes
  <2>2. CASE Check(k) \/ TakeToHelp(k) \/ Renote(k) \/ Clear(k)
    <3>1. \/ \E b : wait' = [wait EXCEPT ![k].help = b]
          \/ \E t : wait' = [wait EXCEPT ![k].run = t]
          \/ wait' = [wait EXCEPT ![k].i = @ + 1, ![k].help = FALSE]
      BY <2>2 DEF Check, TakeToHelp, Renote, Clear
    <3>2. wait[Main] \in Waits /\ wait[k] \in Waits /\ k \in Keys
      BY <2>1
    <3>3. ASSUME NEW b, wait' = [wait EXCEPT ![k].help = b]
          PROVE  wait'[Main].for = wait[Main].for /\ wait'[Main].on = wait[Main].on
      BY <2>1, <3>2, <3>3 DEF Waits
    <3>4. ASSUME NEW t, wait' = [wait EXCEPT ![k].run = t]
          PROVE  wait'[Main].for = wait[Main].for /\ wait'[Main].on = wait[Main].on
      BY <2>1, <3>2, <3>4 DEF Waits
    <3>5. ASSUME wait' = [wait EXCEPT ![k].i = @ + 1, ![k].help = FALSE]
          PROVE  wait'[Main].for = wait[Main].for /\ wait'[Main].on = wait[Main].on
      BY <2>1, <3>2, <3>5 DEF Waits
    <3> QED
      BY <3>1, <3>3, <3>4, <3>5
  <2>3. CASE wait' = wait \/ wait' = [wait EXCEPT ![k] = NoWait]
    BY <2>1, <2>3 DEF NoWait
  <2> QED
    BY <2>2, <2>3 DEF WaitStep, Note, FoundFinished, Sleep, Resume, Help, Waited, Joins
<1> QED
  BY <1>1, <1>2, <1>3, <1>4 DEF MainKept

LEMMA CallStepMain ==
  ASSUME Inv, ~LateSpawns, NEW k \in Keys, CallStep(k) \/ Throw(k) \/ CancelPoint(k), at[Main] # "reap"
  PROVE  MainKept
<1>1. Main \in Keys /\ at \in [Keys -> Ats] /\ wait \in [Keys -> Waits]
  BY TaskKeys DEF Inv, PoolTypes
<1>2. exit = "none"
  BY WhereKeysAct DEF KeyStep, Alive
<1>3. CASE /\ UNCHANGED <<wait, at>> /\ exit' \in {exit, "null handle"}
           /\ count' = count \/ ~ShuttingDown
  BY <1>2, <1>3 DEF MainKept, ShuttingDown
<1>4. ASSUME NEW for \in {"wait", "join", "group"}, NEW on, StartWait(k, for, on), exit' = exit PROVE MainKept
  <2>1. wait'[Main] = wait[Main] \/ wait'[Main].for = for
    BY <1>1, <1>4 DEF StartWait, NoWait
  <2>2. at'[Main] \in {at[Main], "after", "note"}
    BY <1>1, <1>4 DEF StartWait
  <2> QED
    BY <1>2, <1>4, <2>1, <2>2 DEF MainKept, StartWait, taskVars
<1>5. CASE Throw(k) \/ CancelPoint(k)
  <2>1. at'[Main] \in {at[Main], "return"} /\ UNCHANGED <<wait, count, exit>>
    BY <1>1, <1>5 DEF Throw, CancelPoint, FailWith
  <2> QED
    BY <1>2, <2>1 DEF MainKept
<1>6. CASE Spawn(k)
  BY <1>3, <1>6 DEF Spawn, threadVars
<1>7. CASE LockWake(k) \/ LockLeave(k)
  BY <1>3, <1>7 DEF LockWake, LockLeave, taskVars, threadVars
<1>8. CASE GroupJoin(k)
  BY <1>4, <1>8 DEF GroupJoin
<1>9. ASSUME NEW h \in Tasks, GroupAdd(k, h) \/ Cancel(k, h) PROVE MainKept
  BY <1>3, <1>9 DEF GroupAdd, Cancel, NullHandle, Handle, threadVars, taskVars
<1>10. ASSUME NEW h \in Tasks, NEW op \in Ops, Read(k, op, h) PROVE MainKept
  BY <1>3, <1>10 DEF Read, Handle, threadVars
<1>11. ASSUME NEW h \in Tasks, NEW op \in Ops, WaitFor(k, op, h) PROVE MainKept
  <2>1. CASE NullHandle(h)
    BY <1>3, <2>1 DEF NullHandle, threadVars, taskVars
  <2>2. CASE Handle(h) /\ StartWait(k, op, <<h>>)
    BY <1>4, <1>11, <2>2 DEF WaitFor, Handle
  <2> QED
    BY <1>11, <2>1, <2>2 DEF WaitFor
<1>12. ASSUME NEW ids \in SUBSET Locks, NEW mode \in Modes, LockEnter(k, ids, mode) PROVE MainKept
  BY <1>3, <1>12 DEF LockEnter, threadVars, taskVars
<1> QED
  BY <1>5, <1>6, <1>7, <1>8, <1>9, <1>10, <1>11, <1>12 DEF CallStep

LEMMA RunStepMain ==
  ASSUME Inv, NEW t \in Tasks, RunStep(t), at[Main] # "reap" PROVE MainKept
<1>1. Main \in Keys /\ at \in [Keys -> Ats] /\ exit = "none"
  BY TaskKeys, WhereKeysAct DEF Inv, PoolTypes, Alive
<1>2. UNCHANGED <<wait, count, exit>>
  BY DEF RunStep, Begin, BeginCancelled, EndBody, Publish, Return, taskVars
<1>3. at'[Main] # "reap"
  <2>1. CASE Return(t)
    BY <1>1, <2>1 DEF Return
  <2>2. CASE Begin(t) \/ EndBody(t)
    <3>1. PICK to \in {"user", "publish"} : at' = [at EXCEPT ![t] = to]
      BY <2>2 DEF Begin, EndBody
    <3> QED
      BY <1>1, <3>1
  <2> QED
    BY <2>1, <2>2 DEF RunStep, BeginCancelled, Publish
<1> QED
  BY <1>1, <1>2, <1>3 DEF MainKept

(* The tasks beyond those that exist have no state yet. *)
LEMMA OnlySpawnedFinish ==
  ASSUME Inv, NEW t \in Tasks, state[t] \in Finished PROVE t \in 1..count
<1>1. at[t] = "over"
  BY DEF Inv, Shape, DoneOK
<1>2. ~(t > count)
  BY <1>1 DEF Inv, Shape, QueueOK
<1> QED
  BY <1>2, CountTasks DEF Tasks

LEMMA StopCode ==
  ASSUME Inv, CodeInv, Stop PROVE CodeInv'
<1>1. /\ at[Main] = "after" /\ at' = [at EXCEPT ![Main] = "reap"] /\ wait[Main].for = "shutdown"
      /\ wait' = [wait EXCEPT ![Main] = [NoWait EXCEPT !.for = IF Unread = {} THEN "clean" ELSE "unread"]]
      /\ UNCHANGED <<count, state, observed, exit>> /\ exit = "none" /\ Main \in Keys
  BY TaskKeys DEF Stop, Moved, Alive, taskVars
<1>2. AllFinished
  <2>1. WaitOK(Main) /\ Len(wait[Main].on) = count /\ \A i \in 1..count : wait[Main].on[i] = i
    BY <1>1 DEF Inv, Shape, CodeInv
  <2> QED
    BY <1>1, <2>1 DEF WaitOK, AllFinished
<1>3. Unread = {} <=> ~UnreadErrors
  <2>1. \A t \in Tasks : state[t] = "ERROR" => t \in 1..count
    BY OnlySpawnedFinish DEF Finished
  <2> QED
    BY <2>1, CountTasks DEF Unread, UnreadErrors
<1>4. wait'[Main].for = IF Unread = {} THEN "clean" ELSE "unread"
  BY <1>1 DEF Inv, PoolTypes, NoWait
<1>5. AllFinished' /\ (UnreadErrors' <=> UnreadErrors)
  BY <1>1, <1>2 DEF AllFinished, UnreadErrors
<1>6. CodeInv!1'
  BY <1>4
<1> QED
  BY <1>1, <1>3, <1>4, <1>5, <1>6 DEF CodeInv, ExitCodeExact

LEMMA NextCode ==
  ASSUME Inv, Counted, ~LateSpawns, CodeInv, [Next]_vars PROVE CodeInv'
<1>1. ASSUME at[Main] = "reap" PROVE CodeInv'
  <2>1. CASE Reap
    <3>1. /\ Alive /\ at'[Main] = "over" /\ exit' = wait[Main].for
          /\ UNCHANGED <<count, state, observed, wait>>
      BY <2>1, TaskKeys DEF Reap, Moved, Inv, PoolTypes, taskVars
    <3>2. UnreadErrors' <=> UnreadErrors
      BY <3>1 DEF UnreadErrors
    <3> QED
      BY <1>1, <3>1, <3>2 DEF CodeInv, ExitCodeExact, Counted, ExitInv
  <2>2. CASE UNCHANGED <<count, state, observed, at, wait, exit>>
    BY <2>2 DEF CodeInv, AllFinished, UnreadErrors, ExitCodeExact
  <2> QED
    BY <1>1, <2>1, <2>2, OnlyReaping
<1>2. ASSUME at[Main] # "reap" PROVE CodeInv'
  <2>1. Main \in Keys /\ at \in [Keys -> Ats]
    BY TaskKeys DEF Inv, PoolTypes
  <2>2. CASE WorkerStep
    <3>1. Alive /\ UNCHANGED <<count, wait, exit>>
      BY <2>2 DEF WorkerStep, WorkerTake, WorkerSleep, WorkerExit, taskVars, threadVars
    <3>2. at'[Main] \in {at[Main], "begin"}
      BY <2>1, <2>2 DEF WorkerStep, WorkerTake, WorkerSleep, WorkerExit, threadVars
    <3> QED
      BY <1>2, <3>1, <3>2, CodeKept DEF MainKept, Alive
  <2>3. ASSUME NEW k \in Keys, KeyStep(k) \/ Throw(k) \/ CancelPoint(k) PROVE CodeInv'
    BY <1>2, <2>3, WaitStepMain, CallStepMain, CodeKept DEF KeyStep
  <2>4. ASSUME NEW t \in Tasks, TaskStep(t) PROVE CodeInv'
    BY <1>2, <2>3, <2>4, TaskKeys, RunStepMain, CodeKept DEF TaskStep
  <2>5. CASE Shutdown
    BY <1>2, <2>1, <2>5, CodeKept DEF Shutdown, Moved, Alive, MainKept, taskVars
  <2>6. ASSUME NEW normal, Snapshot(normal) PROVE CodeInv'
    <3>1. at'[Main] \in {"over", "note"} /\ exit = "none" /\ UNCHANGED <<count, state, observed>>
      BY <2>1, <2>6 DEF Snapshot, Moved, Alive
    <3>2. CASE count = 0
      <4>1. exit' = "clean" /\ wait' = wait
        BY <2>6, <3>2 DEF Snapshot
      <4>2. ~UnreadErrors'
        BY <3>1, <3>2 DEF UnreadErrors
      <4> QED
        BY <3>1, <4>1, <4>2 DEF CodeInv, ExitCodeExact
    <3>3. CASE count # 0
      <4>1. exit' = exit /\ wait'[Main].on = [t \in 1..count |-> t]
        BY <2>1, <2>6, <3>3 DEF Snapshot, Inv, PoolTypes, NoWait
      <4>2. Len(wait'[Main].on) = count /\ \A i \in 1..count : wait'[Main].on[i] = i
        BY <4>1, CountTasks
      <4> QED
        BY <3>1, <4>1, <4>2 DEF CodeInv, ExitCodeExact
    <3> QED
      BY <3>2, <3>3
  <2>7. CASE Stop
    BY <2>7, StopCode
  <2>8. CASE UNCHANGED vars
    <3>1. UNCHANGED <<count, state, observed, at, wait, exit>>
      BY <2>8 DEF vars, taskVars, threadVars
    <3> QED
      BY <3>1 DEF CodeInv, AllFinished, UnreadErrors, ExitCodeExact
  <2>9. ~Reap
    BY <1>2 DEF Reap, Moved
  <2> QED
    BY <2>1, <2>2, <2>3, <2>4, <2>5, <2>6, <2>7, <2>8, <2>9 DEF Next, ExitStep, Exited
<1> QED
  BY <1>1, <1>2

(* K5, for programs whose tasks spawn no more tasks once the main program    *)
(* has ended: the exit code is 1 exactly if a task failed and nobody has     *)
(* asked for its status or its error text, though it is computed before the  *)
(* workers are joined.                                                       *)
THEOREM ExitCodeTrue ==
  ASSUME ~LateSpawns PROVE Spec => []ExitCodeExact
<1>1. Init => CodeInv
  <2> SUFFICES ASSUME Init PROVE CodeInv
    OBVIOUS
  <2>1. wait[Main] = NoWait /\ at[Main] = "user" /\ exit = "none"
    BY TaskKeys DEF Init
  <2> QED
    BY <2>1 DEF CodeInv, ExitCodeExact, NoWait
<1>2. Inv /\ Counted /\ CodeInv /\ [Next]_vars => CodeInv'
  BY NextCode
<1>3. CodeInv => ExitCodeExact
  BY DEF CodeInv
<1> QED
  BY <1>1, <1>2, <1>3, PoolInductive, CountInductive, PTL DEF Spec

=============================================================================
