------------------------------- MODULE UxFfi -------------------------------
(***************************************************************************)
(* Calls of foreign functions (src/runtime_ext/uxffi/uxffi.c) by several   *)
(* threads: the table of tokens that stand for pointers, given out round   *)
(* robin, the cache of modules, and the copy of a returned text made while *)
(* the lock for such calls is held.  A function that returns text writes   *)
(* it to the one buffer of its library, and any other function may write   *)
(* there, too; those of the FreeBASIC libraries hold the lock like the     *)
(* functions that return text, the others run without it.  Kinds of        *)
(* numbers are left out: a function that returns one behaves like one that *)
(* returns a null pointer.                                                 *)
(***************************************************************************)
EXTENDS Integers, FiniteSets

CONSTANTS
  FfThreads, NoThread,
  FfLibraries,
  FfRequired,       \* those whose name is_required_freebasic_module knows
  FfSlots,          \* bound: 65534 in the code
  FfModuleLimit,    \* bound: 64 in the code
  FfMaxGen          \* bound: the generations that the program uses up

ASSUME FfAssumption ==
  NoThread \notin FfThreads /\ FfSlots \in Nat \ {0} /\ FfRequired \subseteq FfLibraries

VARIABLES
  ffHandles,   \* g_handles; text: what was copied, see FfWrites
  ffNext,      \* g_next_handle
  ffModules,   \* g_modules
  ffLock,      \* who holds g_string_call_lock
  ffCopies,    \* the texts allocated and not freed
  ffCall       \* what each thread is in the middle of

ffVars == <<ffHandles, ffNext, ffModules, ffLock, ffCopies, ffCall>>

FfIndex == 1..FfSlots
FfIdle == [at |-> "idle", lib |-> "none", arg |-> <<0, 0>>, text |-> "own"]
FfUnused(gen) == [used |-> FALSE, gen |-> gen, owned |-> FALSE, text |-> "own"]

FfGeneration(g) == LET n == (g + 1) % 16384 IN IF n = 0 THEN 1 ELSE n

(* get_cached_module: a module stays until the shutdown. *)
GetCachedModule(m) ==
  \/ m \in ffModules /\ UNCHANGED ffModules
  \/ m \notin ffModules /\ Cardinality(ffModules) < FfModuleLimit /\ ffModules' = ffModules \cup {m}

(* store_handle: the slots from the next one on are tried, once around. *)
StoreHandle(owned, text) ==
  \E i \in FfIndex :
    LET after(j) == (j - ffNext) % FfSlots
    IN  /\ ~ffHandles[i].used /\ ffHandles[i].gen < FfMaxGen
        /\ \A j \in FfIndex : after(j) < after(i) => ffHandles[j].used
        /\ ffHandles' = [ffHandles EXCEPT ![i] = [used |-> TRUE, gen |-> FfGeneration(@.gen),
                                                  owned |-> owned, text |-> text]]
        /\ ffNext' = IF i = FfSlots THEN 1 ELSE i + 1
FfTableFull == \A i \in FfIndex : ffHandles[i].used

(* uxffi_release_handle; nothing happens for a token that is stale. *)
ReleaseHandle(token) ==
  LET live == {i \in FfIndex : <<i, ffHandles[i].gen>> = token /\ ffHandles[i].used}
  IN  /\ ffHandles' = [i \in FfIndex |-> IF i \in live THEN FfUnused(ffHandles[i].gen) ELSE ffHandles[i]]
      /\ ffCopies' = ffCopies - Cardinality({i \in live : ffHandles[i].owned})

(* uxffi_invoke10 up to the call: the module, and for a function named like a *)
(* destructor the token it is to use up; a stale one ends the call here.     *)
(* Other arguments leave no trace.  The module's ready function writes no    *)
(* text.                                                                     *)
FfStart(t, kind, m, token) ==
  /\ ffCall[t].at = "idle"
  /\ GetCachedModule(m)
  /\ IF kind = "release" THEN \E i \in FfIndex : ffHandles[i].used /\ token = <<i, ffHandles[i].gen>>
                         ELSE token = <<0, 0>>
  /\ ffCall' = [ffCall EXCEPT ![t] = [at |-> kind, lib |-> m, arg |-> token, text |-> "own"]]
  /\ UNCHANGED <<ffHandles, ffNext, ffLock, ffCopies>>

(* Mutant of FfLocked: only calls that return text take the lock. *)
FfLockedForText(c) == c.at \in {"text", "texted", "copied"}

(* lock_string_call *)
FfLocked(c) == c.at \in {"text", "texted", "copied"} \/ c.lib \in FfRequired

FfAcquire(t) ==
  IF FfLocked(ffCall[t]) THEN ffLock = NoThread /\ ffLock' = t ELSE UNCHANGED ffLock
FfRelease(t) == ffLock' = IF FfLocked(ffCall[t]) THEN NoThread ELSE ffLock

(* Thread t's call, which goes on at next, writes the buffer of its library,  *)
(* and so over the text of any other call there that was not copied yet.     *)
FfWriter(c) == IF c.at = "text" THEN "text" ELSE IF c.lib \in FfRequired THEN "required" ELSE "other"
FfWrites(t, next) ==
  LET over(u) == u # t /\ ffCall[u].at = "texted" /\ ffCall[u].lib = ffCall[t].lib
  IN  ffCall' = [u \in FfThreads |->
        IF u = t THEN [ffCall[u] EXCEPT !.at = next]
        ELSE IF over(u) THEN [ffCall[u] EXCEPT !.text = FfWriter(ffCall[t])] ELSE ffCall[u]]

(* ffi_call of a function that returns text. *)
FfCallText(t) ==
  /\ ffCall[t].at = "text"
  /\ FfAcquire(t)
  /\ FfWrites(t, "texted")
  /\ UNCHANGED <<ffHandles, ffNext, ffModules, ffCopies>>

FfCopyText(t) ==
  /\ ffCall[t].at = "texted"
  /\ \/ /\ ffCopies' = ffCopies + 1 /\ UNCHANGED ffLock
        /\ ffCall' = [ffCall EXCEPT ![t].at = "copied"]
     \/ /\ FfRelease(t) /\ UNCHANGED ffCopies    \* no text, or one that cannot be read
        /\ ffCall' = [ffCall EXCEPT ![t] = FfIdle]
  /\ UNCHANGED <<ffHandles, ffNext, ffModules>>
FfStoreText(t) ==
  /\ ffCall[t].at = "copied"
  /\ \/ StoreHandle(TRUE, ffCall[t].text) /\ UNCHANGED ffCopies
     \/ FfTableFull /\ ffCopies' = ffCopies - 1 /\ UNCHANGED <<ffHandles, ffNext>>
  /\ FfRelease(t)
  /\ ffCall' = [ffCall EXCEPT ![t] = FfIdle]
  /\ UNCHANGED ffModules

(* ffi_call of any other function: it may write the buffer of its library. *)
FfCallOther(t) ==
  /\ FfAcquire(t)
  /\ \E step \in {<<"pointer", "pointed">>, <<"release", "released">>} :
       /\ ffCall[t].at = step[1]
       /\ FfWrites(t, step[2]) \/ ffCall' = [ffCall EXCEPT ![t].at = step[2]]
  /\ UNCHANGED <<ffHandles, ffNext, ffModules, ffCopies>>

(* A pointer gets a token, unless it is null, or the call fails. *)
FfReturnPointer(t) ==
  /\ ffCall[t].at = "pointed"
  /\ \/ StoreHandle(FALSE, "own")
     \/ UNCHANGED <<ffHandles, ffNext>>
  /\ FfRelease(t)
  /\ ffCall' = [ffCall EXCEPT ![t] = FfIdle]
  /\ UNCHANGED <<ffModules, ffCopies>>

(* A function named like a destructor uses up its pointer argument, and       *)
(* uxffi_copy_string its token, both after the lock was let go.              *)
FfReturnRelease(t) ==
  /\ ffCall[t].at = "released"
  /\ FfRelease(t)
  /\ ffCall' = [ffCall EXCEPT ![t].at = "consume", ![t].lib = "none"]
  /\ UNCHANGED <<ffHandles, ffNext, ffModules, ffCopies>>
FfConsume(t) ==
  /\ ffCall[t].at = "consume"
  /\ ReleaseHandle(ffCall[t].arg)
  /\ ffCall' = [ffCall EXCEPT ![t] = FfIdle]
  /\ UNCHANGED <<ffNext, ffModules, ffLock>>

CopyString(t, i) ==
  /\ ffCall[t].at = "idle"
  /\ ffHandles[i].used /\ ffHandles[i].owned
  /\ ffCall' = [ffCall EXCEPT ![t].at = "consume", ![t].arg = <<i, ffHandles[i].gen>>]
  /\ UNCHANGED <<ffHandles, ffNext, ffModules, ffLock, ffCopies>>

FreedHandles == ffCopies' = ffCopies - Cardinality({i \in FfIndex : ffHandles[i].owned})

(* uxffi_clear_handles keeps the generations; uxffi_shutdown also unloads.   *)
ClearHandles(modules) ==
  /\ FreedHandles
  /\ ffHandles' = [i \in FfIndex |-> FfUnused(ffHandles[i].gen)]
  /\ ffNext' = 1
  /\ ffModules' = modules
  /\ UNCHANGED <<ffLock, ffCall>>

FfInit ==
  /\ ffHandles = [i \in FfIndex |-> FfUnused(0)]
  /\ ffNext = 1 /\ ffModules = {} /\ ffCopies = 0
  /\ ffLock = NoThread
  /\ ffCall = [t \in FfThreads |-> FfIdle]

FfNext ==
  \/ \E t \in FfThreads :
       \/ \E kind \in {"text", "pointer", "release"}, m \in FfLibraries :
            \/ FfStart(t, kind, m, <<0, 0>>)
            \/ \E i \in FfIndex : FfStart(t, kind, m, <<i, ffHandles[i].gen>>)
       \/ FfCallText(t) \/ FfCopyText(t) \/ FfStoreText(t)
       \/ FfCallOther(t) \/ FfReturnPointer(t) \/ FfReturnRelease(t) \/ FfConsume(t)
       \/ \E i \in FfIndex : CopyString(t, i)
  \/ ClearHandles(ffModules) \/ ClearHandles({})

FfSpec == FfInit /\ [][FfNext]_ffVars

-----------------------------------------------------------------------------
(* Properties *)

(* "Snapshot a foreign C string while the exporting DLL call is still         *)
(* serialized": the text behind a token is the one its own call returned, and *)
(* was not rewritten by another call that returns text or that is made into   *)
(* one of the FreeBASIC libraries, whatever other threads call.  Any other    *)
(* function runs without the lock, and may have rewritten the text of its    *)
(* library before it was copied: that is all the code promises.              *)
FfTextIsOwn ==
  \A i \in FfIndex : ffHandles[i].used => ffHandles[i].text \in {"own", "other"}

(* Every copy of a text has one owner, a token or the call that stores it:    *)
(* two threads that take the same text out, or a clear in between, free it   *)
(* once; a full table frees it, too.                                         *)
FfCopiesAccounted ==
  ffCopies = Cardinality({i \in FfIndex : ffHandles[i].used /\ ffHandles[i].owned})
             + Cardinality({t \in FfThreads : ffCall[t].at = "copied"})

(* Both: a returned text is its own call's as far as calls are serialized,    *)
(* and is freed exactly once.                                                *)
FfTexts == FfTextIsOwn /\ FfCopiesAccounted

(* The tokens that were given out and those that resolve, until a slot has    *)
(* been used so often that its generation comes round again: a token that     *)
(* was released or cleared away never resolves again.                         *)
FfIssued == {h \in FfIndex \X (1..FfMaxGen) : h[2] <= ffHandles[h[1]].gen}
FfLive == {h \in FfIssued : ffHandles[h[1]].used /\ ffHandles[h[1]].gen = h[2]}
FfRoot == <<0, 0>>
FfParent == [h \in FfLive |-> FfRoot]
FfTokens == INSTANCE Handles WITH Root <- FfRoot, issued <- FfIssued, parent <- FfParent
FfImplementsHandles == FfTokens!Spec

=============================================================================
