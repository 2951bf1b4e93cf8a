------------------------------ MODULE Console ------------------------------
(***************************************************************************)
(* Console output of a native program (uxb_runtime_mir.cpp, and its callers *)
(* in uxb_runtime_task_v2.cpp and uxb_runtime_sync.cpp).  Until the pool    *)
(* starts, text goes to the screen at once; then every context (the main   *)
(* program and each task) gathers its line in the buffer that the thread    *)
(* running it keeps for it.  A thread that waits runs other tasks on top    *)
(* of what it was doing, so one thread has the lines of several contexts.   *)
(***************************************************************************)
EXTENDS Sequences, SequencesExt, FiniteSets, Naturals

CONSTANTS
  CnThreads, CnMain,   \* the threads, and the one that runs the main program
  CnTasks,
  CnTexts,     \* what one PRINT item writes: sequences of characters, by newline-ness
  CnPrints     \* bound: the PRINT items of a run

CnCharacters == UNION {Range(text) : text \in CnTexts}

ASSUME CnAssumption ==
  /\ CnMain \in CnThreads /\ CnPrints \in Nat /\ "main" \notin CnTasks
  /\ CnTexts \subseteq Seq(CnCharacters)

VARIABLES
  cnStack,    \* what each thread runs: the last is current_task_key, the rest is suspended
  cnTask,     \* where each task is
  cnPool,     \* task_pool_active
  cnLine,     \* console_states: the unfinished lines a thread keeps
  cnLock,     \* who holds LOCK CONSOLE, or "none"
  cnScreen,   \* what was written to stdout, one entry a call
  cnSaid,     \* what each context printed
  cnExit      \* "no", "normal" or "fatal"

cnVars == <<cnStack, cnTask, cnPool, cnLine, cnLock, cnScreen, cnSaid, cnExit>>

CnContexts == {"main"} \cup CnTasks
CnNewline(c) == c[2]

CnRunning(th) == cnExit = "no" /\ cnStack[th] /= <<>>
CnCurrent(th) == Last(cnStack[th])

(* ConsoleAccess: with the pool active every call holds the console lock,     *)
(* which an explicit LOCK CONSOLE of another context keeps it from.          *)
ConsoleAccess(th) == cnLock \in {"none", CnCurrent(th)}

(* Mutant of CurrentConsole: one line a thread, whatever it runs. *)
CurrentConsoleOfThread(th) == "main"

(* current_console: the line of the context that the thread runs now.        *)
CurrentConsole(th) == CnCurrent(th)

(* Up to the last newline, and the rest. *)
CnWhole(line) ==
  LET ends == {i \in DOMAIN line : CnNewline(line[i])}
  IN  IF ends = {} THEN 0 ELSE CHOOSE i \in ends : \A j \in ends : j <= i

CnShow(text) == cnScreen' = IF text = <<>> THEN cnScreen ELSE Append(cnScreen, text)

(* console_write, which every PRINT item reaches. *)
ConsoleWrite(th, text) ==
  /\ CnRunning(th) /\ ConsoleAccess(th)
  /\ LET ctx == CnCurrent(th)
         key == CurrentConsole(th)
         said == [i \in DOMAIN text |-> <<ctx, text[i]>>]
         line == cnLine[th][key] \o said
         whole == CnWhole(line)
     IN  /\ MapThenSumSet(LAMBDA c : Len(cnSaid[c]), CnContexts) < CnPrints
         /\ cnSaid' = [cnSaid EXCEPT ![ctx] = Append(@, said)]
         /\ IF ~cnPool /\ cnLine[th][key] = <<>>
            THEN CnShow(said) /\ UNCHANGED cnLine
            ELSE /\ CnShow(SubSeq(line, 1, whole))
                 /\ cnLine' = [cnLine EXCEPT ![th][key] = SubSeq(line, whole + 1, Len(line))]
  /\ UNCHANGED <<cnStack, cnTask, cnPool, cnLock, cnExit>>

(* console_flush_current_thread. *)
FlushCurrent(th) ==
  /\ CnShow(cnLine[th][CurrentConsole(th)])
  /\ cnLine' = [cnLine EXCEPT ![th][CurrentConsole(th)] = <<>>]

(* INPUT, CLS, LOCATE, COLOR, GETKEY and INKEY show the prompt first. *)
ConsoleCommand(th) ==
  /\ CnRunning(th) /\ ConsoleAccess(th)
  /\ FlushCurrent(th)
  /\ UNCHANGED <<cnStack, cnTask, cnPool, cnLock, cnSaid, cnExit>>

LockConsole(th) ==
  /\ CnRunning(th) /\ cnLock = "none"
  /\ cnLock' = CnCurrent(th)
  /\ UNCHANGED <<cnStack, cnTask, cnPool, cnLine, cnScreen, cnSaid, cnExit>>

UnlockConsole(th) ==
  /\ CnRunning(th) /\ cnLock = CnCurrent(th)
  /\ cnLock' = "none"
  /\ UNCHANGED <<cnStack, cnTask, cnPool, cnLine, cnScreen, cnSaid, cnExit>>

CnSpawn(th, k) ==
  /\ CnRunning(th) /\ cnTask[k] = "new"
  /\ cnTask' = [cnTask EXCEPT ![k] = "ready"]
  /\ cnPool' = TRUE
  /\ UNCHANGED <<cnStack, cnLine, cnLock, cnScreen, cnSaid, cnExit>>

(* run_task: by an idle worker, or by a thread in the middle of a wait, which *)
(* helps only while its context holds no lock.                               *)
CnRun(th, k) ==
  /\ cnExit = "no" /\ cnTask[k] = "ready"
  /\ cnStack[th] /= <<>> => cnLock /= CnCurrent(th)
  /\ cnTask' = [cnTask EXCEPT ![k] = "running"]
  /\ cnStack' = [cnStack EXCEPT ![th] = Append(@, k)]
  /\ UNCHANGED <<cnPool, cnLine, cnLock, cnScreen, cnSaid, cnExit>>

(* The end of run_task: console_finish_current_task, with the context still   *)
(* the task's, then its locks, then the caller is the current one again.     *)
CnFinish(th) ==
  /\ CnRunning(th) /\ CnCurrent(th) \in CnTasks
  /\ cnLine[th][CurrentConsole(th)] = <<>> \/ ConsoleAccess(th)
  /\ FlushCurrent(th)
  /\ cnTask' = [cnTask EXCEPT ![CnCurrent(th)] = "done"]
  /\ cnStack' = [cnStack EXCEPT ![th] = Front(@)]
  /\ cnLock' = IF cnLock = CnCurrent(th) THEN "none" ELSE cnLock
  /\ UNCHANGED <<cnPool, cnSaid, cnExit>>

(* __uxb_rt_task_shutdown: the main program shows its line, without the       *)
(* console lock, and lets go of its locks; it runs no more statements.       *)
CnShutdown ==
  /\ CnRunning(CnMain) /\ CnCurrent(CnMain) = "main"
  /\ cnStack[CnMain] = <<"main">>
  /\ FlushCurrent(CnMain)
  /\ cnStack' = [cnStack EXCEPT ![CnMain] = <<>>]
  /\ cnLock' = IF cnLock = "main" THEN "none" ELSE cnLock
  /\ UNCHANGED <<cnTask, cnPool, cnSaid, cnExit>>

(* It waits for the tasks that were spawned, then the process ends. *)
CnExitNormal ==
  /\ cnExit = "no" /\ "main" \notin Range(cnStack[CnMain])
  /\ \A k \in CnTasks : cnTask[k] \in {"new", "done"}
  /\ cnExit' = "normal"
  /\ UNCHANGED <<cnStack, cnTask, cnPool, cnLine, cnLock, cnScreen, cnSaid>>

(* runtime_error_exit, runtime_fatal and sync_fatal: the line of the context  *)
(* that failed is shown and the process ends.                                *)
CnExitFatal(th) ==
  /\ CnRunning(th)
  /\ FlushCurrent(th)
  /\ cnExit' = "fatal"
  /\ UNCHANGED <<cnStack, cnTask, cnPool, cnLock, cnSaid>>

CnInit ==
  /\ cnStack = [th \in CnThreads |-> IF th = CnMain THEN <<"main">> ELSE <<>>]
  /\ cnTask = [k \in CnTasks |-> "new"]
  /\ cnPool = FALSE
  /\ cnLine = [th \in CnThreads |-> [ctx \in CnContexts |-> <<>>]]
  /\ cnLock = "none"
  /\ cnScreen = <<>>
  /\ cnSaid = [ctx \in CnContexts |-> <<>>]
  /\ cnExit = "no"

CnNext ==
  \/ \E th \in CnThreads :
       \/ \E text \in CnTexts : ConsoleWrite(th, text)
       \/ ConsoleCommand(th)
       \/ LockConsole(th)
       \/ UnlockConsole(th)
       \/ \E k \in CnTasks : CnSpawn(th, k) \/ CnRun(th, k)
       \/ CnFinish(th)
       \/ CnExitFatal(th)
  \/ CnShutdown
  \/ CnExitNormal

CnSpec == CnInit /\ [][CnNext]_cnVars

(* What is still unfinished of a context, wherever it is kept. *)
CnUnfinished(ctx) ==
  IF \E th \in CnThreads : cnLine[th][ctx] /= <<>>
  THEN cnLine[CHOOSE th \in CnThreads : cnLine[th][ctx] /= <<>>][ctx] ELSE <<>>

(* The characters of a context among those of all (SelectSeq, as a function). *)
CnOf(ctx, text) ==
  LET of[n \in 0..Len(text)] ==
        IF n = 0 THEN <<>> ELSE IF text[n][1] = ctx THEN Append(of[n - 1], text[n]) ELSE of[n - 1]
  IN  of[Len(text)]

(* One write to the screen is of one context, so no line mixes two; what a    *)
(* context printed is on the screen, in order, or in its unfinished line;     *)
(* what a finished task printed is all on the screen, and after a normal end  *)
(* of the program, what everyone printed (K9, print.h:2-6).                  *)
ConsoleFaithful ==
  /\ \A i \in DOMAIN cnScreen : \A c \in Range(cnScreen[i]) : c[1] = cnScreen[i][1][1]
  /\ \A ctx \in CnContexts :
       CnOf(ctx, FlattenSeq(cnScreen)) \o CnUnfinished(ctx) = FlattenSeq(cnSaid[ctx])
  /\ \A ctx \in CnContexts :
       cnExit = "normal" \/ (ctx \in CnTasks /\ cnTask[ctx] = "done") => CnUnfinished(ctx) = <<>>

=============================================================================
