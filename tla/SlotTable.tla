------------------------------ MODULE SlotTable ------------------------------
(***************************************************************************)
(* The slot table of the native run time (uxb_runtime_state.cpp and         *)
(* uxb_runtime_task.cpp): EVENT, PIPE, THREAD and PARALEL tasks with their  *)
(* callbacks.  Every call is one section under the mutex, but a trigger     *)
(* works on a copy of the record it made there, after the section.  A task  *)
(* of type THREAD or PARALEL runs on a thread of its own that the caller     *)
(* joins at once, so that it is a frame of the caller here too.  Names and  *)
(* the numbers that go in and out are left out.                            *)
(***************************************************************************)
EXTENDS Integers, Sequences, FiniteSets, SequencesExt

CONSTANTS
  SlThreads,     \* the threads of the program that use the table
  SlSlots,       \* bound: the slot numbers that are used, senseless ones too
  SlTypes,       \* bound: the types that are used, of EVENT, PIPE, THREAD, PARALEL
  SlCallbacks,   \* the callbacks
  SlData,        \* the pointers given with them
  SlNesting      \* bound: how deep callbacks trigger others

ASSUME SlAssumption == SlSlots \subseteq Int /\ SlTypes \subseteq 1..4 /\ SlNesting \in Nat

VARIABLES
  slInitialized,   \* initialized_
  slTasks,         \* tasks_, of the slots in use
  slError,         \* last_error_
  slFrames,        \* of each thread, the triggers it is in
  slTriggerable    \* for the property: the records a slot had when it could be triggered

slVars == <<slInitialized, slTasks, slError, slFrames, slTriggerable>>

-----------------------------------------------------------------------------
ValidSlot(slot) == slot \in 0..255
Slots == {slot \in SlSlots : ValidSlot(slot)}

NoCallback == {}
EmptyTask == [defined |-> FALSE, active |-> FALSE, type |-> 0, callback |-> NoCallback, data |-> {}]

(* What snapshot_task says of a slot. *)
RefusalOf(slot) ==
  IF ~slInitialized THEN "runtime is not initialized"
  ELSE IF ~ValidSlot(slot) THEN "slot id"
  ELSE IF ~slTasks[slot].defined THEN "slot is not registered"
  ELSE IF ~slTasks[slot].active THEN "slot is OFF"
  ELSE IF slTasks[slot].callback = NoCallback THEN "slot callback is not bound"
  ELSE ""

(* A thread calls from the program or from the callback it runs. *)
MayUse(th) == slFrames[th] # <<>> => Last(slFrames[th]).at = "running"

Write(tasks) ==
  /\ slTasks' = tasks
  /\ slTriggerable' = [s \in Slots |->
       slTriggerable[s] \cup
         (IF tasks[s].active /\ tasks[s].callback # NoCallback THEN {tasks[s]} ELSE {})]

(* A call that is refused leaves its text, one that is not clears it. *)
Report(error) == slError' = error

(* guarded_bool: what a call throws is a text as well. *)
Guarded(error, thrown) == Report(IF thrown THEN "exception" ELSE error)

InitRuntime(th) ==
  /\ MayUse(th)
  /\ Write([s \in Slots |-> EmptyTask])
  /\ slInitialized' = TRUE
  /\ Report("")
  /\ UNCHANGED slFrames

ShutdownRuntime(th) ==
  /\ MayUse(th)
  /\ Write([s \in Slots |-> EmptyTask])
  /\ slInitialized' = FALSE
  /\ Report("")
  /\ UNCHANGED slFrames

(* register_task and bind_slot.  A callback of an earlier task stays bound.  When *)
(* there is no memory for the name the record has been written already.       *)
RegisterTask(th, slot, type, memory) ==
  /\ MayUse(th)
  /\ LET error == IF ~slInitialized THEN "runtime is not initialized"
                  ELSE IF ~ValidSlot(slot) THEN "slot id" ELSE ""
     IN  /\ Guarded(error, error = "" /\ ~memory)
         /\ IF error # "" THEN UNCHANGED <<slTasks, slTriggerable>>
            ELSE Write([slTasks EXCEPT ![slot].defined = TRUE, ![slot].active = TRUE,
                                       ![slot].type = type])
  /\ UNCHANGED <<slInitialized, slFrames>>

OfRegistered(slot) ==
  IF ~ValidSlot(slot) THEN "slot id"
  ELSE IF ~slTasks[slot].defined THEN "slot is not registered" ELSE ""

SetCallback(th, slot, callback, data) ==
  /\ MayUse(th)
  /\ Report(OfRegistered(slot))
  /\ IF OfRegistered(slot) # "" THEN UNCHANGED <<slTasks, slTriggerable>>
     ELSE Write([slTasks EXCEPT ![slot].callback = callback, ![slot].data = data])
  /\ UNCHANGED <<slInitialized, slFrames>>

ControlSlot(th, slot, active) ==
  /\ MayUse(th)
  /\ Report(OfRegistered(slot))
  /\ IF OfRegistered(slot) # "" THEN UNCHANGED <<slTasks, slTriggerable>>
     ELSE Write([slTasks EXCEPT ![slot].active = active])
  /\ UNCHANGED <<slInitialized, slFrames>>

(* execute_registered_task: first the copy, *)
SnapshotTask(th, slot, expected) ==
  /\ MayUse(th) /\ Len(slFrames[th]) < SlNesting
  /\ Report(RefusalOf(slot))
  /\ slFrames' =
       IF RefusalOf(slot) # "" THEN slFrames
       ELSE [slFrames EXCEPT ![th] = Append(@, [at |-> "copied", slot |-> slot, task |-> slTasks[slot],
                                                expected |-> expected])]
  /\ UNCHANGED <<slInitialized, slTasks, slTriggerable>>

(* Mutant of Used: the task is read from the table when the callback starts. *)
UsedFromTable(frame) == slTasks[frame.slot]

(* The record a trigger goes by is the copy it made. *)
Used(frame) == frame.task

(* then the type that the call expects, 0 for any, *)
Mismatch(th) ==
  /\ slFrames[th] # <<>>
  /\ LET frame == Last(slFrames[th])
     IN  /\ frame.at = "copied" /\ frame.expected # 0
         /\ Used(frame).type # frame.expected
  /\ Report("task type mismatch")
  /\ slFrames' = [slFrames EXCEPT ![th] = Front(@)]
  /\ UNCHANGED <<slInitialized, slTasks, slTriggerable>>

(* uxb_task_trigger asks for no type; uxb_thread_start, uxb_pipe_run and       *)
(* uxb_parallel_run ask for theirs (UXB_RT_TASK_PIPE = 2, THREAD = 3,         *)
(* PARALEL = 4).                                                            *)
ExpectedTypes == {0} \cup (SlTypes \cap 2..4)

(* then the callback, *)
Trigger(th) ==
  /\ slFrames[th] # <<>>
  /\ LET frame == Last(slFrames[th])
     IN  /\ frame.at = "copied"
         /\ frame.expected # 0 => Used(frame).type = frame.expected
         /\ slFrames' = [slFrames EXCEPT
              ![th][Len(slFrames[th])] = [frame EXCEPT !.at = "running", !.task = Used(frame)]]
  /\ UNCHANGED <<slInitialized, slTasks, slError, slTriggerable>>

(* which returns, or throws what the back end catches and reports. *)
Return(th, thrown) ==
  /\ slFrames[th] # <<>> /\ Last(slFrames[th]).at = "running"
  /\ slFrames' = [slFrames EXCEPT ![th] = Front(@)]
  /\ slError' = IF thrown THEN "callback exception" ELSE slError
  /\ UNCHANGED <<slInitialized, slTasks, slTriggerable>>

SlInit ==
  /\ slInitialized = FALSE /\ slError = ""
  /\ slTasks = [s \in Slots |-> EmptyTask]
  /\ slTriggerable = [s \in Slots |-> {}]
  /\ slFrames = [th \in SlThreads |-> <<>>]

SlNext ==
  \E th \in SlThreads :
    \/ InitRuntime(th) \/ ShutdownRuntime(th)
    \/ \E slot \in SlSlots :
         \/ \E type \in SlTypes, memory \in BOOLEAN : RegisterTask(th, slot, type, memory)
         \/ \E callback \in {NoCallback} \cup {{c} : c \in SlCallbacks}, d \in SlData :
              SetCallback(th, slot, callback, {d})
         \/ \E active \in BOOLEAN : ControlSlot(th, slot, active)
         \/ \E expected \in ExpectedTypes : SnapshotTask(th, slot, expected)
    \/ Mismatch(th) \/ Trigger(th)
    \/ \E thrown \in BOOLEAN : Return(th, thrown)

SlSpec == SlInit /\ [][SlNext]_slVars

-----------------------------------------------------------------------------
(* Properties *)

(* Whatever other threads, and the callback itself, do to its slot, what runs  *)
(* is a task as the slot held it at one moment when it was on: its callback   *)
(* with the pointer given for that callback, and of the type the caller asked *)
(* for.  Nothing is triggered before initialization.                         *)
SlotTasksConsistent ==
  \A th \in SlThreads : \A i \in DOMAIN slFrames[th] :
    LET frame == slFrames[th][i]
    IN  frame.at = "running" =>
          /\ frame.task \in slTriggerable[frame.slot]
          /\ frame.task.defined
          /\ frame.expected # 0 => frame.task.type = frame.expected

=============================================================================
