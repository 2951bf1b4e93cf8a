------------------------------ MODULE LockTable ------------------------------
(***************************************************************************)
(* The lock table of the native runtime                                    *)
(* (src/native/uxb_runtime/uxb_runtime_sync.cpp).                          *)
(*                                                                         *)
(* A lock is owned by a TASK (a "key"; 0 is the main program), never by an *)
(* OS thread.  A lock is taken in two modes: "auto" is the lock the        *)
(* compiler puts around one statement (SYNC_ENTER/SYNC_LEAVE, reentrant),  *)
(* "explicit" is a LOCK ... END LOCK block.  Every entry point runs inside *)
(* S().mutex, so each of them is one action; sync_enter gives the mutex up *)
(* only while it sleeps on a lock's condition variable, so it is one       *)
(* action up to the sleep and one action (Wake) after it.                  *)
(*                                                                         *)
(* What the program does between the calls is the environment: autos and   *)
(* done record it.                                                         *)
(***************************************************************************)
EXTENDS Integers, Sequences, FiniteSets

CONSTANTS
  Keys,         \* keys that can hold a lock: the main program and the tasks
  Main,         \* the key of the main program (0 in the code)
  StaticLocks,  \* lock ids given by the compiler (lockOrderId)
  MutexBase,    \* ids of MUTEX objects are MutexBase + 1, MutexBase + 2, ...
  MaxMutexes,   \* bound: how many MUTEX objects a run creates
  NoKey         \* "no owner" (-1 in the code)

Mutexes == (MutexBase + 1)..(MutexBase + MaxMutexes)
Locks == StaticLocks \cup Mutexes

ASSUME KeysAssumption == Main \in Keys /\ NoKey \notin Keys
ASSUME LocksAssumption ==
  /\ StaticLocks \subseteq Nat
  /\ IsFiniteSet(StaticLocks)
  /\ MutexBase \in Nat
  /\ MaxMutexes \in Nat
  /\ \A l \in StaticLocks : l <= MutexBase

Modes == {"auto", "explicit"}

NoEdge == [kind |-> "none"]
LockEdge(l) == [kind |-> "lock", lock |-> l]
TaskEdge(k) == [kind |-> "task", task |-> k]
Edges == {NoEdge} \cup {LockEdge(l) : l \in Locks} \cup {TaskEdge(k) : k \in Keys}

NoCall == [mode |-> "none"]
Calls == [ids : SUBSET Locks, mode : Modes, on : Locks]

VARIABLES
  owner,      \* owner[l]: LockRec.owner
  autoDepth,  \* autoDepth[l]: LockRec.autoDepth
  explDepth,  \* explDepth[l]: LockRec.explicitDepth
  held,       \* held[k]: heldCount, the number of locks k owns (absent = 0)
  expl,       \* expl[k]: explicitStack, one set of locks per open LOCK block
  entries,    \* explicitEntries: open LOCK blocks in the whole program
  mutexNext,  \* number of MUTEX ids handed out
  edge,       \* edge[k]: what k waits for (the wait graph)
  call,       \* call[k]: the sync_enter in which k sleeps
  fatal,      \* the diagnosis with which the process has exited, or "none"
  autos,      \* environment: the statements k has entered and not left
  done        \* environment: the tasks that have finished

tableVars == <<owner, autoDepth, explDepth, held, expl, entries, mutexNext>>
waitVars == <<edge, call, fatal>>
lockVars == <<tableVars, waitVars, autos, done>>

-----------------------------------------------------------------------------
(* The wait graph.  Every key waits for at most one thing, so the code      *)
(* follows one successor per node.                                          *)

Succ(k) ==
  CASE edge[k].kind = "lock" -> owner[edge[k].lock]
    [] edge[k].kind = "task" -> edge[k].task
    [] OTHER -> NoKey

TaskSucc(k) == IF edge[k].kind = "task" THEN edge[k].task ELSE NoKey

Closed(S, Next(_)) == \A k \in S : Next(k) \in S \cup {NoKey}

(* Mutant of Reaches: only cycles of two keys are found. *)
ReachesInTwo(from, me) == from = me \/ Succ(from) = me

(* cycle_locked(from, me): following the edges from "from" leads to me.     *)
(* Stated as: me lies in every set that contains from and is closed under   *)
(* the successor.  The loop of the code is WalkReaches below.               *)
Reaches(from, me) ==
  \A S \in SUBSET Keys : from \in S /\ Closed(S, Succ) => me \in S

(* Mutant of ReachesByTasks: every cycle is taken for a cycle of joins. *)
ReachesAtAll(from, me) == Reaches(from, me)

(* ... and no lock is met on the way (cycle_locked leaves lockOut at -1).   *)
ReachesByTasks(from, me) ==
  \A S \in SUBSET Keys : from \in S /\ Closed(S, TaskSucc) => me \in S

(* The loop of cycle_locked, for at most n steps. *)
WalkFor(from, me, n) ==
  LET walk[i \in 0..n] ==
        IF i = 0 THEN from
        ELSE IF walk[i-1] = NoKey THEN NoKey ELSE Succ(walk[i-1])
  IN  \E i \in 0..n : walk[i] = me

(* Mutant of WalkReaches: the walk gives up too early. *)
WalkReachesShort(from, me) == WalkFor(from, me, 1)

(* As many steps as there are keys stand for the 1000000 of the code. *)
WalkReaches(from, me) == WalkFor(from, me, Cardinality(Keys))

-----------------------------------------------------------------------------
(* Acquiring *)

Owned(k) == {l \in Locks : owner[l] = k}

Usable(l) == l \in StaticLocks \/ l <= MutexBase + mutexNext

Blockers(k, ids) == {l \in ids : owner[l] \notin {NoKey, k}}

(* The loop takes the ids in increasing order and stops at the first one    *)
(* that another key owns.                                                   *)
Tried(k, ids) == {l \in ids : \A b \in Blockers(k, ids) : l < b}

FirstBlocker(k, ids) ==
  CHOOSE b \in Blockers(k, ids) : \A c \in Blockers(k, ids) : b <= c

(* Mutant of SelfLocked: LOCK blocks are reentrant. *)
NeverSelfLocked(k, ids, mode) == FALSE

(* try_acquire_locked: an explicit second LOCK of a lock is an error.       *)
SelfLocked(k, ids, mode) ==
  mode = "explicit" /\ \E l \in Tried(k, ids) : owner[l] = k /\ explDepth[l] > 0

SelfDeadlock(k, ids, mode) ==
  /\ SelfLocked(k, ids, mode)
  /\ fatal' = "SELF_DEADLOCK"
  /\ UNCHANGED <<tableVars, edge, call, autos>>

(* Mutant of NewlyTaken: the owner is looked at after it was set. *)
TakenAfterwards(ids) == {l \in ids : owner'[l] = NoKey}

(* What counts in heldCount: the locks that were free, not the reentered ones. *)
NewlyTaken(ids) == {l \in ids : owner[l] = NoKey}

(* Nothing in the way: every lock is taken (or re-entered) at once.         *)
Take(k, ids, mode) ==
  /\ ~SelfLocked(k, ids, mode)
  /\ Blockers(k, ids) = {}
  /\ owner' = [l \in Locks |-> IF l \in ids THEN k ELSE owner[l]]
  /\ held' = [held EXCEPT ![k] = @ + Cardinality(NewlyTaken(ids))]
  /\ IF mode = "explicit"
       THEN /\ explDepth' = [l \in Locks |-> IF l \in ids THEN explDepth[l] + 1 ELSE explDepth[l]]
            /\ expl' = [expl EXCEPT ![k] = Append(@, ids)]
            /\ entries' = entries + 1
            /\ UNCHANGED <<autoDepth, autos>>
       ELSE /\ autoDepth' = [l \in Locks |-> IF l \in ids THEN autoDepth[l] + 1 ELSE autoDepth[l]]
            /\ autos' = [autos EXCEPT ![k] = Append(@, ids)]
            /\ UNCHANGED <<explDepth, expl, entries>>
  /\ edge' = [edge EXCEPT ![k] = NoEdge]
  /\ call' = [call EXCEPT ![k] = NoCall]
  /\ UNCHANGED <<mutexNext, fatal>>

Dec(n) == IF n > 0 THEN n - 1 ELSE n

(* Mutant of Free: one depth is enough. *)
FreeEither(auto, xpl) == auto = 0 \/ xpl = 0

Free(auto, xpl) == auto = 0 /\ xpl = 0

(* Mutant of RollBack: the locks are not given back. *)
KeepTaken(k, ids, mode) ==
  /\ owner' = [l \in Locks |-> IF l \in ids THEN k ELSE owner[l]]
  /\ UNCHANGED <<autoDepth, explDepth, held>>

(* What a call took before it met a lock of another key it gives back, lock *)
(* by lock: a depth that it raised goes down again, and a lock is free if   *)
(* its depths are zero then, not if it was free before.                     *)
RollBack(k, ids, mode) ==
  LET auto(l) == IF l \in ids /\ mode = "auto" THEN Dec(autoDepth[l] + 1) ELSE autoDepth[l]
      xpl(l)  == IF l \in ids /\ mode = "explicit" THEN Dec(explDepth[l] + 1) ELSE explDepth[l]
      freed   == {l \in ids : Free(auto(l), xpl(l))}
  IN  /\ autoDepth' = [l \in Locks |-> auto(l)]
      /\ explDepth' = [l \in Locks |-> xpl(l)]
      /\ owner' = [l \in Locks |-> IF l \in freed THEN NoKey ELSE IF l \in ids THEN k ELSE owner[l]]
      /\ held' = [held EXCEPT ![k] = @ + Cardinality(NewlyTaken(ids)) - Cardinality(freed)]

(* A lock is owned by another key: what this call took is given back, and   *)
(* the call sleeps on the first such lock, unless that closes a cycle of    *)
(* waits.                                                                   *)
Block(k, ids, mode) ==
  /\ ~SelfLocked(k, ids, mode)
  /\ Blockers(k, ids) # {}
  /\ RollBack(k, Tried(k, ids), mode)
  /\ LET b == FirstBlocker(k, ids)
     IN  /\ edge' = [edge EXCEPT ![k] = LockEdge(b)]
         /\ IF Reaches(owner[b], k)
              THEN fatal' = "LOCK_DEADLOCK" /\ UNCHANGED call
              ELSE /\ call' = [call EXCEPT ![k] = [ids |-> ids, mode |-> mode, on |-> b]]
                   /\ UNCHANGED fatal
  /\ UNCHANGED <<expl, entries, mutexNext, autos>>

Attempt(k, ids, mode) ==
  \/ SelfDeadlock(k, ids, mode)
  \/ Take(k, ids, mode)
  \/ Block(k, ids, mode)

Running(k) == fatal = "none" /\ ~done[k] /\ edge[k] = NoEdge /\ call[k] = NoCall

(* __uxb_rt_sync_enter *)
Enter(k, ids, mode) ==
  /\ Running(k)
  /\ ids # {}
  /\ \A l \in ids : Usable(l)
  /\ Attempt(k, ids, mode)
  /\ UNCHANGED done

(* The sleep of wait_free_locked ends when the lock is free; the mutex is   *)
(* held again from here on and the call starts over.                        *)
Wake(k) ==
  /\ fatal = "none"
  /\ call[k] # NoCall
  /\ owner[call[k].on] \in {NoKey, k}
  /\ Attempt(k, call[k].ids, call[k].mode)
  /\ UNCHANGED done

-----------------------------------------------------------------------------
(* Releasing *)

(* release_locked for every lock of ids: a lock whose two depths are zero   *)
(* is free again.  A lock that k does not own is an internal error.         *)
Release(k, ids, mode) ==
  LET auto(l) == IF l \in ids /\ mode = "auto" THEN Dec(autoDepth[l]) ELSE autoDepth[l]
      xpl(l)  == IF l \in ids /\ mode = "explicit" THEN Dec(explDepth[l]) ELSE explDepth[l]
      freed   == {l \in ids : Free(auto(l), xpl(l))}
  IN  IF \A l \in ids : owner[l] = k
        THEN /\ autoDepth' = [l \in Locks |-> auto(l)]
             /\ explDepth' = [l \in Locks |-> xpl(l)]
             /\ owner' = [l \in Locks |-> IF l \in freed THEN NoKey ELSE owner[l]]
             /\ held' = [held EXCEPT ![k] = @ - Cardinality(freed)]
             /\ UNCHANGED fatal
        ELSE /\ fatal' = "NOT_OWNER"
             /\ UNCHANGED <<autoDepth, explDepth, owner, held>>

(* __uxb_rt_sync_leave, mode 0: the statement k entered last is left. *)
LeaveAuto(k) ==
  /\ Running(k)
  /\ autos[k] # <<>>
  /\ Release(k, autos[k][Len(autos[k])], "auto")
  /\ autos' = [autos EXCEPT ![k] = SubSeq(@, 1, Len(@) - 1)]
  /\ UNCHANGED <<expl, entries, mutexNext, edge, call, done>>

(* Mutant of BlocksAbove: lock_release_to leaves one block. *)
OneBlockAbove(k, mark) == IF Len(expl[k]) > mark THEN 1 ELSE 0

(* The LOCK blocks that k opened after the mark. *)
BlocksAbove(k, mark) == Len(expl[k]) - mark

(* __uxb_rt_sync_leave, mode 1 (mark = Len - 1), and __uxb_rt_lock_release_to: *)
(* the LOCK blocks above the mark are left, innermost first.                   *)
ReleaseTo(k, mark) ==
  /\ Running(k)
  /\ mark < Len(expl[k])
  /\ Release(k, UNION {expl[k][i] : i \in (mark + 1)..Len(expl[k])}, "explicit")
  /\ expl' = [expl EXCEPT ![k] = SubSeq(@, 1, mark)]
  /\ entries' = entries - BlocksAbove(k, mark)
  /\ UNCHANGED <<autos, mutexNext, edge, call, done>>

(* sync_release_all: a task that ends, normally or not, and the main        *)
(* program before it shuts down, give up everything they own.               *)
ReleaseAll(k) ==
  /\ owner' = [l \in Locks |-> IF owner[l] = k THEN NoKey ELSE owner[l]]
  /\ autoDepth' = [l \in Locks |-> IF owner[l] = k THEN 0 ELSE autoDepth[l]]
  /\ explDepth' = [l \in Locks |-> IF owner[l] = k THEN 0 ELSE explDepth[l]]
  /\ held' = [held EXCEPT ![k] = 0]
  /\ entries' = entries - BlocksAbove(k, 0)
  /\ expl' = [expl EXCEPT ![k] = <<>>]
  /\ edge' = [edge EXCEPT ![k] = NoEdge]
  /\ autos' = [autos EXCEPT ![k] = <<>>]
  /\ UNCHANGED <<mutexNext, call, fatal>>

Finish(k) ==
  /\ Running(k)
  /\ ReleaseAll(k)
  /\ done' = [done EXCEPT ![k] = TRUE]

(* The main program begins to shut down: it still waits for tasks.          *)
Unlock == Running(Main) /\ ReleaseAll(Main) /\ UNCHANGED done

(* A task that is cancelled before it runs finishes without calling us.     *)
Skip(k) ==
  /\ Running(k)
  /\ Owned(k) = {}
  /\ done' = [done EXCEPT ![k] = TRUE]
  /\ UNCHANGED <<tableVars, waitVars, autos>>

(* __uxb_rt_mutex_new *)
MutexNew ==
  /\ fatal = "none"
  /\ mutexNext < MaxMutexes
  /\ mutexNext' = mutexNext + 1
  /\ UNCHANGED <<owner, autoDepth, explDepth, held, expl, entries, waitVars, autos, done>>

-----------------------------------------------------------------------------
(* Waiting for a task *)

(* sync_note_wait_task; the wait may replace an earlier one of the same key. *)
NoteWaitTask(k, t) ==
  /\ fatal = "none"
  /\ call[k] = NoCall
  /\ edge' = [edge EXCEPT ![k] = TaskEdge(t)]
  /\ fatal' = IF ~Reaches(t, k) THEN "none"
              ELSE IF ReachesByTasks(t, k) THEN "TASK_WAIT_CYCLE" ELSE "LOCK_DEADLOCK"
  /\ UNCHANGED <<tableVars, call, autos, done>>

(* sync_clear_wait *)
ClearWait(k) ==
  /\ fatal = "none"
  /\ call[k] = NoCall
  /\ edge' = [edge EXCEPT ![k] = NoEdge]
  /\ UNCHANGED <<tableVars, call, fatal, autos, done>>

-----------------------------------------------------------------------------
LockInit ==
  /\ owner = [l \in Locks |-> NoKey]
  /\ autoDepth = [l \in Locks |-> 0]
  /\ explDepth = [l \in Locks |-> 0]
  /\ held = [k \in Keys |-> 0]
  /\ expl = [k \in Keys |-> <<>>]
  /\ entries = 0
  /\ mutexNext = 0
  /\ edge = [k \in Keys |-> NoEdge]
  /\ call = [k \in Keys |-> NoCall]
  /\ fatal = "none"
  /\ autos = [k \in Keys |-> <<>>]
  /\ done = [k \in Keys |-> FALSE]

(* WAIT, JOIN: a task waits for another one until that one has finished.   *)
(* While it waits it may note another task it has to wait for first.       *)
Join(k, t) == ~done[k] /\ t # Main /\ NoteWaitTask(k, t)
Joined(k) == edge[k].kind = "task" /\ done[edge[k].task] /\ ClearWait(k)

(* The process has exited, or all of its tasks have finished. *)
Stopped == (fatal # "none" \/ \A k \in Keys : done[k]) /\ UNCHANGED lockVars

LockStep(k) ==
  \/ \E ids \in SUBSET Locks, mode \in Modes : Enter(k, ids, mode)
  \/ Wake(k)
  \/ LeaveAuto(k)
  \/ \E mark \in 0..Len(expl[k]) : ReleaseTo(k, mark)
  \/ \E t \in Keys : Join(k, t)
  \/ Joined(k)
  \/ Finish(k)
  \/ Skip(k)

LockNext == MutexNew \/ Unlock \/ (\E k \in Keys : LockStep(k)) \/ Stopped

LockSpec == LockInit /\ [][LockNext]_lockVars

-----------------------------------------------------------------------------
(* Properties *)

In(s) == UNION {s[i] : i \in 1..Len(s)}
Occ(s, l) == Cardinality({i \in 1..Len(s) : l \in s[i]})
Inside(k) == In(expl[k]) \cup In(autos[k])

(* The values the variables take. *)
LockTypeOK ==
  /\ owner \in [Locks -> Keys \cup {NoKey}]
  /\ autoDepth \in [Locks -> Nat]
  /\ explDepth \in [Locks -> Nat]
  /\ held \in [Keys -> Nat]
  /\ expl \in [Keys -> Seq(SUBSET Locks)]
  /\ entries \in Int
  /\ mutexNext \in 0..MaxMutexes
  /\ edge \in [Keys -> Edges]
  /\ call \in [Keys -> Calls \cup {NoCall}]
  /\ fatal \in {"none", "SELF_DEADLOCK", "LOCK_DEADLOCK", "TASK_WAIT_CYCLE", "NOT_OWNER"}
  /\ autos \in [Keys -> Seq(SUBSET Locks)]
  /\ done \in [Keys -> BOOLEAN]

(* A lock is owned exactly while its owner is inside a statement or a LOCK  *)
(* block that names it: reentry, the roll-back of sync_enter, LOCK_RELEASE_TO *)
(* and the end of a task neither lose a lock early nor leak one.  Two tasks *)
(* are therefore never inside statements that share a lock.                 *)
OwnedIffInside == \A k \in Keys : Owned(k) = Inside(k)

(* The two depths of a lock count the open statements and LOCK blocks of    *)
(* its owner that name it; a LOCK block never names a lock that an          *)
(* enclosing one of the same task holds (SELF_DEADLOCK).                    *)
DepthsExact ==
  /\ \A l \in Locks :
       IF owner[l] = NoKey
         THEN autoDepth[l] = 0 /\ explDepth[l] = 0
         ELSE /\ autoDepth[l] = Occ(autos[owner[l]], l)
              /\ explDepth[l] = IF l \in In(expl[owner[l]]) THEN 1 ELSE 0
  /\ \A k \in Keys : \A i, j \in 1..Len(expl[k]) :
       i # j => expl[k][i] \cap expl[k][j] = {}

(* heldCount, which wait_finished reads to decide whether a waiter may run  *)
(* other tasks, is the number of locks the key owns.                        *)
HeldExact == \A k \in Keys : held[k] = Cardinality(Owned(k))

(* explicitEntries, which every waiter reads, counts the open LOCK blocks of *)
(* the whole program: it is zero exactly when no task is inside one.         *)
OpenBlocks == UNION {{k} \X (1..Len(expl[k])) : k \in Keys}
EntriesExact == entries = Cardinality(OpenBlocks)

(* "native: ic kilit hatasi": release_locked never meets a lock of another  *)
(* key, whatever the order of LEAVE, LOCK_RELEASE_TO and task ends.         *)
NoInternalLockError == fatal # "NOT_OWNER"

(* No cycle of waits: every group of keys has a member that waits for       *)
(* nothing inside the group.                                                *)
Acyclic == \A S \in SUBSET Keys : S # {} => \E k \in S : Succ(k) \notin S

(* A process that has not been stopped is not deadlocked: the check at the  *)
(* moment an edge is added is enough, although owners change afterwards     *)
(* without any check.                                                       *)
NoUndetectedDeadlock == fatal = "none" => Acyclic

(* all-or-nothing of sync_enter: over all its sleeps and retries a call     *)
(* keeps none of its locks until it takes all of them.                      *)
AllOrNothing ==
  [][\A k \in Keys : call[k] # NoCall =>
        Owned(k)' \in {Owned(k), Owned(k) \cup call[k].ids}]_lockVars

Circle(Next(_)) == \E S \in SUBSET Keys : S # {} /\ \A k \in S : Next(k) \in S

(* The diagnosis is the right one: TASK_WAIT_CYCLE is a circle of joins,    *)
(* LOCK_DEADLOCK a circle that only locks close.                            *)
DiagnosisExact ==
  /\ fatal = "TASK_WAIT_CYCLE" => Circle(TaskSucc)
  /\ fatal = "LOCK_DEADLOCK" => Circle(Succ) /\ ~Circle(TaskSucc)

(* The loop of cycle_locked decides reachability in the wait graph. *)
WalkIsReach ==
  \A from, me \in Keys : WalkReaches(from, me) <=> Reaches(from, me)

=============================================================================
