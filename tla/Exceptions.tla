----------------------------- MODULE Exceptions -----------------------------
(***************************************************************************)
(* THROW, TRY, CATCH and FINALLY in a native program.  The exception that   *)
(* is on its way is in registers of the thread (uxb_runtime_task_v2.cpp:    *)
(* 428-475), which the code that mir_lower_stmt_core_split.fbs generates    *)
(* for TRY sets, tests and clears.  A thread that waits for a task may run  *)
(* other tasks on top of what it was doing, with the same registers.        *)
(***************************************************************************)
EXTENDS Sequences, SequencesExt, Naturals

CONSTANTS
  ExThreads, ExMain,   \* the threads, and the one that runs the main program
  ExTasks,
  ExValues,    \* what is thrown
  ExDepth,     \* bound: how deep TRY statements nest in a context
  ExThrows     \* bound: the THROW statements that a context executes

ASSUME ExAssumption ==
  /\ ExMain \in ExThreads /\ "main" \notin ExTasks
  /\ "none" \notin ExValues
  /\ ExDepth \in Nat /\ ExThrows \in Nat

VARIABLES
  exActive,   \* tl_excActive
  exValue,    \* tl_excBits and tl_excText
  exStack,    \* what each thread runs: the last is running, the rest waits in JOIN
  exTries,    \* the TRY statements each context is in, the innermost last
  exState,    \* of a context: ready, running or done, and the error reported for it
  exFlying,   \* for the properties: what a context has thrown and not yet caught
  exThrown    \* how many times a context threw

exVars == <<exActive, exValue, exStack, exTries, exState, exFlying, exThrown>>

ExContexts == {"main"} \cup ExTasks
NoValue == "none"
Cleared == "0"    \* what the registers say after they were cleared
TryKinds == {"catch", "finally", "catch finally"}
HasCatch(try) == try.kind \in {"catch", "catch finally"}
HasFinally(try) == try.kind \in {"finally", "catch finally"}

ExBusy(th) == exStack[th] /= <<>>
ExCurrent(th) == Last(exStack[th])
ExTry(th) == Last(exTries[ExCurrent(th)])

(* A statement: the flag was tested after the call before it. *)
ExRuns(th) == ExBusy(th) /\ ~exActive[th]

ExSetTry(th, try) == [exTries EXCEPT ![ExCurrent(th)] = Append(Front(@), try)]
ExLeaveTry(th) == [exTries EXCEPT ![ExCurrent(th)] = Front(@)]

EnterTry(th, kind) ==
  /\ ExRuns(th) /\ Len(exTries[ExCurrent(th)]) < ExDepth
  /\ exTries' = [exTries EXCEPT ![ExCurrent(th)] =
                   Append(@, [kind |-> kind, at |-> "body", active |-> FALSE, flying |-> NoValue])]
  /\ exActive' = [exActive EXCEPT ![th] = FALSE]
  /\ UNCHANGED <<exValue, exStack, exState, exFlying, exThrown>>

Throw(th, v) ==
  /\ ExRuns(th) /\ exThrown[ExCurrent(th)] < ExThrows
  /\ exValue' = [exValue EXCEPT ![th] = v]
  /\ exActive' = [exActive EXCEPT ![th] = TRUE]
  /\ exFlying' = [exFlying EXCEPT ![ExCurrent(th)] = v]
  /\ exThrown' = [exThrown EXCEPT ![ExCurrent(th)] = @ + 1]
  /\ UNCHANGED <<exStack, exTries, exState>>

(* Mutant of FlagInHandler: the flag stays up while the handler runs. *)
FlagInHandlerUp(th) == exActive

(* MIRClearExceptionActive, on the way into a CATCH or a FINALLY. *)
FlagInHandler(th) == [exActive EXCEPT ![th] = FALSE]

(* Into the FINALLY of the innermost TRY, with the flag put aside (S-690). *)
EnterFinally(th) ==
  /\ HasFinally(ExTry(th))
  /\ exTries' = ExSetTry(th, [ExTry(th) EXCEPT !.at = "finally", !.active = exActive[th],
                                               !.flying = exFlying[ExCurrent(th)]])
  /\ exActive' = FlagInHandler(th)
  /\ exFlying' = [exFlying EXCEPT ![ExCurrent(th)] = NoValue]

(* A test finds the flag up: on to the handler, or out of this TRY.  Outside   *)
(* every TRY the routine returns, and its caller tests the flag.             *)
Unwind(th) ==
  /\ ExBusy(th) /\ exActive[th] /\ exTries[ExCurrent(th)] /= <<>>
  /\ \/ /\ ExTry(th).at = "body" /\ HasCatch(ExTry(th))
        /\ exTries' = ExSetTry(th, [ExTry(th) EXCEPT !.at = "catch"])
        /\ exActive' = FlagInHandler(th)
        /\ exFlying' = [exFlying EXCEPT ![ExCurrent(th)] = NoValue]
     \/ /\ ExTry(th).at = "catch" \/ (ExTry(th).at = "body" /\ ~HasCatch(ExTry(th)))
        /\ EnterFinally(th)
     \/ /\ ExTry(th).at = "finally" \/ (ExTry(th).at = "catch" /\ ~HasFinally(ExTry(th)))
        /\ exTries' = ExLeaveTry(th)
        /\ UNCHANGED <<exActive, exFlying>>
  /\ UNCHANGED <<exValue, exStack, exState, exThrown>>

(* The end of a body or of a CATCH that is reached without an exception. *)
EndOfPart(th) ==
  /\ ExRuns(th) /\ exTries[ExCurrent(th)] /= <<>> /\ ExTry(th).at /= "finally"
  /\ \/ EnterFinally(th)
     \/ ~HasFinally(ExTry(th)) /\ exTries' = ExLeaveTry(th) /\ UNCHANGED <<exActive, exFlying>>
  /\ UNCHANGED <<exValue, exStack, exState, exThrown>>

(* The end of a FINALLY: the flag comes back; the value was never put aside. *)
EndOfFinally(th) ==
  /\ ExRuns(th) /\ exTries[ExCurrent(th)] /= <<>> /\ ExTry(th).at = "finally"
  /\ exActive' = [exActive EXCEPT ![th] = ExTry(th).active]
  /\ exFlying' = [exFlying EXCEPT ![ExCurrent(th)] = ExTry(th).flying]
  /\ exTries' = ExLeaveTry(th)
  /\ UNCHANGED <<exValue, exStack, exState, exThrown>>

(* The end of the main program or of a task, with __uxb_rt_exc_uncaught: the   *)
(* error text comes from the registers, and they are cleared.                *)
EndOfContext(th) ==
  /\ ExBusy(th) /\ exTries[ExCurrent(th)] = <<>>
  /\ exState' = [exState EXCEPT ![ExCurrent(th)] =
                   [at |-> "done", error |-> IF exActive[th] THEN exValue[th] ELSE NoValue]]
  /\ exValue' = IF exActive[th] THEN [exValue EXCEPT ![th] = Cleared] ELSE exValue
  /\ exActive' = [exActive EXCEPT ![th] = FALSE]
  /\ exStack' = [exStack EXCEPT ![th] = Front(@)]
  /\ UNCHANGED <<exTries, exFlying, exThrown>>

(* run_task, by an idle worker or by a thread that waits. *)
ExRunTask(th, k) ==
  /\ exState[k].at = "ready"
  /\ ExRuns(th) \/ (~ExBusy(th) /\ th /= ExMain)
  /\ exState' = [exState EXCEPT ![k].at = "running"]
  /\ exStack' = [exStack EXCEPT ![th] = Append(@, k)]
  /\ UNCHANGED <<exActive, exValue, exTries, exFlying, exThrown>>

ExInit ==
  /\ exActive = [th \in ExThreads |-> FALSE]
  /\ exValue = [th \in ExThreads |-> Cleared]
  /\ exStack = [th \in ExThreads |-> IF th = ExMain THEN <<"main">> ELSE <<>>]
  /\ exTries = [c \in ExContexts |-> <<>>]
  /\ exState = [c \in ExContexts |-> [at |-> IF c = "main" THEN "running" ELSE "ready",
                                      error |-> NoValue]]
  /\ exFlying = [c \in ExContexts |-> NoValue]
  /\ exThrown = [c \in ExContexts |-> 0]

ExNext ==
  \E th \in ExThreads :
    \/ \E kind \in TryKinds : EnterTry(th, kind)
    \/ \E v \in ExValues : Throw(th, v)
    \/ Unwind(th)
    \/ EndOfPart(th)
    \/ EndOfFinally(th)
    \/ EndOfContext(th)
    \/ \E k \in ExTasks : ExRunTask(th, k)

ExSpec == ExInit /\ [][ExNext]_exVars

(* The flag of a thread is about the context it runs now: up exactly when that *)
(* one's exception is on its way.  No task starts with, or ends up with, the   *)
(* exception of the one it interrupted, and none gets lost: a context is       *)
(* reported as failed exactly if an exception left it (S-160, S-689, S-690).   *)
ExceptionFlagOwn ==
  /\ \A th \in ExThreads :
       /\ exActive[th] <=> ExBusy(th) /\ exFlying[ExCurrent(th)] /= NoValue
       /\ \A i \in 1..(Len(exStack[th]) - 1) : exFlying[exStack[th][i]] = NoValue
  /\ \A c \in ExContexts :
       exState[c].at = "done" => (exState[c].error /= NoValue <=> exFlying[c] /= NoValue)

(* What is reported for a context is what it threw: uxb_runtime_task_v2.cpp:   *)
(* 428-429 says the state of an exception is private to the thread and so to   *)
(* the running task.                                                         *)
ExceptionValueOwn ==
  \A c \in ExContexts : exState[c].error /= NoValue => exState[c].error = exFlying[c]

=============================================================================
