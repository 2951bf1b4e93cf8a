---------------------------- MODULE BridgeProofs ----------------------------
(***************************************************************************)
(* Theorems about the bridges to foreign run times whose properties count:  *)
(* the texts and tokens of foreign calls, the objects of WebAssembly        *)
(* sessions and the references of the Python bridge.  What a step adds to   *)
(* one side of an equation it adds to the other; the work is to find the    *)
(* sets that are counted and what a step moves between them.  The tokens of *)
(* foreign calls implement Handles for any threads and slots (before a      *)
(* generation comes round again), and so does, last, the QuickJS bridge      *)
(* until two calls have the same slot in hand.                              *)
(***************************************************************************)
EXTENDS UxFfi, UxWasm, UxPython, UxGsl, UxJs, FiniteSetTheorems, TLAPS

-----------------------------------------------------------------------------
(* Foreign functions *)

FfTextKinds == {"own", "text", "required", "other"}
FfCalls == [at : {"idle", "text", "texted", "copied", "pointer", "pointed", "release", "released", "consume"},
            lib : FfLibraries \cup {"none"}, arg : Nat \X Nat, text : FfTextKinds]
FfEntries == [used : BOOLEAN, gen : Nat, owned : BOOLEAN, text : FfTextKinds]

FfTypes ==
  /\ ffHandles \in [FfIndex -> FfEntries]
  /\ ffNext \in FfIndex
  /\ ffLock \in FfThreads \cup {NoThread}
  /\ ffCall \in [FfThreads -> FfCalls]
  /\ ffCopies \in Int

(* The tokens that own a copy, and the calls that hold one that has no token.  *)
FfOwned == {i \in FfIndex : ffHandles[i].used /\ ffHandles[i].owned}
FfStoring == {t \in FfThreads : ffCall[t].at = "copied"}

(* A text that nothing the lock is for has written over. *)
FfFine == {"own", "other"}

(* A call that takes the lock keeps it until it returns: what is handled under *)
(* it was only written over by calls that do without; a free slot owns        *)
(* nothing.                                                                  *)
FfHolding(c) == c.at \in {"texted", "copied", "pointed", "released"} /\ FfLocked(c)

FfSerialized ==
  /\ \A t \in FfThreads : /\ FfHolding(ffCall[t]) => ffLock = t
                          /\ ffCall[t].text \in FfFine
  /\ \A i \in FfIndex : ffHandles[i].owned => ffHandles[i].used

FfInv == FfTypes /\ FfSerialized /\ FfTexts

(* A table after a step: of the right type, with fine texts behind its tokens. *)
FfTableFine ==
  /\ ffHandles \in [FfIndex -> FfEntries]
  /\ \A i \in FfIndex : /\ ffHandles[i].owned => ffHandles[i].used
                        /\ ffHandles[i].used => ffHandles[i].text \in FfFine

LEMMA FfInvTable == FfInv => FfTableFine
BY DEF FfInv, FfTypes, FfSerialized, FfTexts, FfTextIsOwn, FfTableFine, FfFine

LEMMA FfTextHolds ==
  ASSUME NEW c, c.at \in {"texted", "copied"} PROVE FfHolding(c)
BY DEF FfHolding, FfLocked

LEMMA FfFinite ==
  /\ IsFiniteSet(FfIndex) /\ 1 \in FfIndex
  /\ \A S \in SUBSET FfIndex : IsFiniteSet(S) /\ Cardinality(S) \in Nat
<1>1. FfSlots \in Nat /\ 1 <= FfSlots
  BY FfAssumption
<1>2. IsFiniteSet(FfIndex) /\ 1 \in FfIndex
  BY <1>1, FS_Interval DEF FfIndex
<1>3. \A S \in SUBSET FfIndex : IsFiniteSet(S)
  BY <1>2, FS_Subset
<1> QED
  BY <1>2, <1>3, FS_CardinalityType

(* The lock admits one text at a time. *)
LEMMA FfOneStoring ==
  ASSUME FfTypes, FfSerialized, NEW t \in FfThreads, ffLock = t
  PROVE  /\ FfStoring = IF ffCall[t].at = "copied" THEN {t} ELSE {}
         /\ \A u \in FfThreads : ffCall[u].at \in {"texted", "copied"} => u = t
BY FfTextHolds DEF FfSerialized, FfStoring

LEMMA FfNoneStoring ==
  ASSUME FfTypes, FfSerialized, ffLock = NoThread
  PROVE  /\ FfStoring = {}
         /\ \A u \in FfThreads : ~FfHolding(ffCall[u]) /\ ffCall[u].at \notin {"texted", "copied"}
BY FfAssumption, FfTextHolds DEF FfSerialized, FfStoring

(* What a step of thread t, which goes on with call c, leaves of the others: a *)
(* text may have been written over, but only by a call that needs no lock.    *)
FfOthersKept(t, c) ==
  /\ ffCall' \in [FfThreads -> FfCalls] /\ ffCall'[t] = c
  /\ \A u \in FfThreads : u # t =>
       /\ ffCall'[u].at = ffCall[u].at /\ ffCall'[u].lib = ffCall[u].lib
       /\ ffCall'[u].text \in FfFine

(* The lock belongs to whom it should after the step. *)
FfLockKept(t, c) ==
  /\ ffLock' \in FfThreads \cup {NoThread}
  /\ FfHolding(c) => ffLock' = t
  /\ \A u \in FfThreads : u # t /\ ffLock = u => ffLock' = u

LEMMA FfOthersSame ==
  ASSUME FfInv, NEW t \in FfThreads, NEW c \in FfCalls, ffCall' = [ffCall EXCEPT ![t] = c]
  PROVE  FfOthersKept(t, c)
BY DEF FfInv, FfTypes, FfSerialized, FfOthersKept

LEMMA FfSerializedStep ==
  ASSUME FfInv, NEW t \in FfThreads, NEW c \in FfCalls, c.text \in FfFine,
         FfOthersKept(t, c), FfLockKept(t, c), FfTableFine'
  PROVE  FfSerialized'
<1>1. ASSUME NEW u \in FfThreads
      PROVE  (FfHolding(ffCall'[u]) => ffLock' = u) /\ ffCall'[u].text \in FfFine
  <2>1. CASE u = t
    BY <2>1 DEF FfOthersKept, FfLockKept
  <2>2. CASE u # t
    <3>1. ffCall'[u].at = ffCall[u].at /\ ffCall'[u].lib = ffCall[u].lib /\ ffCall'[u].text \in FfFine
      BY <2>2 DEF FfOthersKept
    <3>2. FfHolding(ffCall'[u]) => FfHolding(ffCall[u])
      BY <3>1 DEF FfHolding, FfLocked
    <3> QED
      BY <2>2, <3>1, <3>2 DEF FfInv, FfSerialized, FfLockKept
  <2> QED
    BY <2>1, <2>2
<1> QED
  BY <1>1 DEF FfSerialized, FfTableFine, FfFine, FfHolding, FfLocked

LEMMA FfTextsStep ==
  ASSUME FfTableFine', ffCopies' = Cardinality(FfOwned') + Cardinality(FfStoring')
  PROVE  FfTexts'
BY DEF FfTexts, FfTextIsOwn, FfCopiesAccounted, FfOwned, FfStoring, FfTableFine, FfFine

LEMMA FfCounts ==
  ASSUME FfInv
  PROVE  /\ ffCopies = Cardinality(FfOwned) + Cardinality(FfStoring)
         /\ Cardinality(FfOwned) \in Nat /\ Cardinality(FfStoring) \in Nat
         /\ ffCopies \in Int /\ Cardinality(FfOwned') \in Nat
<1>1. /\ ffCopies = Cardinality(FfOwned) + Cardinality(FfStoring)
      /\ Cardinality(FfOwned) \in Nat /\ ffCopies \in Int /\ Cardinality(FfOwned') \in Nat
  BY FfFinite DEF FfOwned, FfInv, FfTypes, FfTexts, FfCopiesAccounted, FfStoring
<1>2. Cardinality(FfStoring) \in Nat
  <2>1. CASE FfStoring = {}
    BY <2>1, FS_EmptySet
  <2>2. CASE \E u \in FfThreads : FfStoring = {u}
    <3>1. Cardinality(FfStoring) = 1
      BY <2>2, FS_Singleton
    <3> QED
      BY <3>1
  <2> QED
    BY <2>1, <2>2, FfOneStoring, FfNoneStoring DEF FfInv, FfTypes
<1> QED
  BY <1>1, <1>2

(* Thread t goes on to a step in which it handles no text: what is counted     *)
(* stays, if the table and the copies do.                                    *)
LEMMA FfQuietStep ==
  ASSUME FfInv, NEW t \in FfThreads, ffCall[t].at \notin {"texted", "copied"},
         NEW c \in FfCalls, c.text \in FfFine, c.at \notin {"texted", "copied"},
         FfOthersKept(t, c), FfLockKept(t, c),
         FfTableFine', ffNext' \in FfIndex, ffCopies' \in Int,
         ffCopies' - Cardinality(FfOwned') = ffCopies - Cardinality(FfOwned)
  PROVE  FfInv'
<1>1. FfTypes'
  BY DEF FfTypes, FfOthersKept, FfLockKept, FfTableFine
<1>2. FfSerialized'
  BY FfSerializedStep
<1>3. FfStoring' = FfStoring
  BY DEF FfStoring, FfOthersKept
<1>4. ffCopies' = Cardinality(FfOwned') + Cardinality(FfStoring')
  BY <1>3, FfCounts
<1> QED
  BY <1>1, <1>2, <1>4, FfTextsStep DEF FfInv

(* A step that leaves the table and the copies alone. *)
LEMMA FfSameTable ==
  ASSUME FfInv, UNCHANGED <<ffHandles, ffNext, ffCopies>>
  PROVE  /\ FfTableFine' /\ ffNext' \in FfIndex /\ ffCopies' \in Int /\ FfOwned' = FfOwned
         /\ ffCopies' - Cardinality(FfOwned') = ffCopies - Cardinality(FfOwned)
<1>1. FfOwned' = FfOwned
  BY DEF FfOwned
<1>2. FfTableFine'
  BY FfInvTable DEF FfTableFine
<1> QED
  BY <1>1, <1>2 DEF FfInv, FfTypes

(* store_handle gives a free slot away: no other token is touched. *)
LEMMA StoreHandleFacts ==
  ASSUME FfInv, NEW owned \in BOOLEAN, NEW text \in FfFine, StoreHandle(owned, text)
  PROVE  /\ FfTableFine' /\ ffNext' \in FfIndex
         /\ Cardinality(FfOwned') = Cardinality(FfOwned) + (IF owned THEN 1 ELSE 0)
<1>1. PICK i \in FfIndex :
        /\ ~ffHandles[i].used
        /\ ffHandles' = [ffHandles EXCEPT ![i] = [used |-> TRUE, gen |-> FfGeneration(@.gen),
                                                  owned |-> owned, text |-> text]]
        /\ ffNext' = IF i = FfSlots THEN 1 ELSE i + 1
  BY DEF StoreHandle
<1>2. FfGeneration(ffHandles[i].gen) \in Nat
  <2>1. ffHandles[i].gen \in Nat
    BY DEF FfInv, FfTypes, FfEntries
  <2>2. \A g \in Nat : (g + 1) % 16384 \in Nat
    OBVIOUS
  <2> QED
    BY <2>1, <2>2 DEF FfGeneration
<1>3. ffNext' \in FfIndex
  BY <1>1, FfFinite, FfAssumption DEF FfIndex
<1> DEFINE entry == [used |-> TRUE, gen |-> FfGeneration(ffHandles[i].gen), owned |-> owned, text |-> text]
<1>4. entry \in FfEntries
  BY <1>2 DEF FfEntries, FfFine, FfTextKinds
<1>5. entry.used /\ entry.owned = owned /\ entry.text \in FfFine
  OBVIOUS
<1>6. ffHandles' = [ffHandles EXCEPT ![i] = entry]
  BY <1>1
<1> HIDE DEF entry
<1>7. /\ ffHandles' \in [FfIndex -> FfEntries] /\ ffHandles'[i] = entry
      /\ \A j \in FfIndex : j # i => ffHandles'[j] = ffHandles[j]
  BY <1>4, <1>6 DEF FfInv, FfTypes
<1>8. FfTableFine'
  BY <1>5, <1>7, FfInvTable DEF FfTableFine
<1>9. Cardinality(FfOwned') = Cardinality(FfOwned) + (IF owned THEN 1 ELSE 0)
  <2>1. i \notin FfOwned /\ IsFiniteSet(FfOwned) /\ Cardinality(FfOwned) \in Nat
    BY <1>1, FfFinite DEF FfOwned
  <2>2. FfOwned' = IF owned THEN FfOwned \cup {i} ELSE FfOwned
    BY <1>5, <1>7, <2>1 DEF FfOwned
  <2>3. Cardinality(FfOwned \cup {i}) = Cardinality(FfOwned) + 1
    BY <2>1, FS_AddElement
  <2> QED
    BY <2>1, <2>2, <2>3
<1> QED
  BY <1>3, <1>8, <1>9

LEMMA FfUnusedEntry ==
  ASSUME NEW gen \in Nat
  PROVE  /\ FfUnused(gen) \in FfEntries /\ FfUnused(gen).gen = gen
         /\ ~FfUnused(gen).used /\ ~FfUnused(gen).owned
BY DEF FfUnused, FfEntries, FfTextKinds

(* uxffi_release_handle and a token that still owns a copy: both go. *)
LEMMA ReleaseHandleFacts ==
  ASSUME FfInv, NEW token \in Nat \X Nat, ReleaseHandle(token)
  PROVE  /\ FfTableFine' /\ ffCopies' \in Int
         /\ ffCopies' - Cardinality(FfOwned') = ffCopies - Cardinality(FfOwned)
<1> DEFINE live == {i \in FfIndex : <<i, ffHandles[i].gen>> = token /\ ffHandles[i].used}
           gone == {i \in live : ffHandles[i].owned}
<1>1. /\ ffHandles' = [i \in FfIndex |-> IF i \in live THEN FfUnused(ffHandles[i].gen) ELSE ffHandles[i]]
      /\ ffCopies' = ffCopies - Cardinality(gone)
  BY DEF ReleaseHandle
<1>2. \A i \in live : i = token[1]
  OBVIOUS
<1>3. gone \subseteq FfOwned /\ \A i \in gone : i = token[1]
  BY <1>2 DEF FfOwned
<1>4. \A i \in live : i \in FfOwned => i \in gone
  BY DEF FfOwned
<1>5. gone \subseteq live
  OBVIOUS
<1> HIDE DEF live, gone
<1>6. \A i \in FfIndex : IF i \in live THEN /\ ffHandles'[i] \in FfEntries
                                            /\ ~ffHandles'[i].used /\ ~ffHandles'[i].owned
                                       ELSE ffHandles'[i] = ffHandles[i]
  BY <1>1, FfUnusedEntry DEF FfInv, FfTypes, FfEntries
<1>7. ffHandles' \in [FfIndex -> FfEntries]
  BY <1>1, <1>6 DEF FfInv, FfTypes
<1>8. FfTableFine'
  BY <1>6, <1>7, FfInvTable DEF FfTableFine
<1>9. FfOwned' = FfOwned \ gone
  BY <1>4, <1>5, <1>6 DEF FfOwned
<1>10. /\ IsFiniteSet(FfOwned) /\ IsFiniteSet(gone) /\ Cardinality(FfOwned) \in Nat
       /\ Cardinality(gone) \in Nat /\ FfOwned \cap gone = gone
  BY <1>3, FfFinite DEF FfOwned
<1>11. Cardinality(FfOwned \ gone) = Cardinality(FfOwned) - Cardinality(gone)
  <2>1. Cardinality(FfOwned \ gone) = Cardinality(FfOwned) - Cardinality(FfOwned \cap gone)
    BY <1>10, FS_Difference
  <2> QED
    BY <1>10, <2>1
<1>12. ffCopies \in Int
  BY DEF FfInv, FfTypes
<1>13. ffCopies' - Cardinality(FfOwned') = ffCopies - Cardinality(FfOwned)
  <2>1. Cardinality(FfOwned') = Cardinality(FfOwned \ gone)
    BY <1>9
  <2>2. \A c \in Int, m, n \in Nat : (c - n) - (m - n) = c - m
    OBVIOUS
  <2>3. (ffCopies - Cardinality(gone)) - (Cardinality(FfOwned) - Cardinality(gone))
          = ffCopies - Cardinality(FfOwned)
    BY <1>10, <1>12, <2>2
  <2> QED
    BY <1>1, <1>11, <2>1, <2>3
<1>14. ffCopies' \in Int
  <2>1. \A c \in Int, n \in Nat : c - n \in Int
    OBVIOUS
  <2>2. ffCopies - Cardinality(gone) \in Int
    BY <1>10, <1>12, <2>1
  <2> QED
    BY <1>1, <2>2
<1> QED
  BY <1>8, <1>13, <1>14

LEMMA FfTokenType == ASSUME FfInv, NEW i \in FfIndex PROVE <<i, ffHandles[i].gen>> \in Nat \X Nat
BY FfAssumption DEF FfInv, FfTypes, FfEntries, FfIndex

LEMMA FfIdleCall == FfIdle \in FfCalls /\ FfIdle.text \in FfFine /\ FfIdle.at = "idle" /\ ~FfHolding(FfIdle)
BY DEF FfIdle, FfCalls, FfFine, FfTextKinds, FfHolding

LEMMA FfStartInv ==
  ASSUME FfInv, NEW t \in FfThreads, NEW kind \in {"text", "pointer", "release"}, NEW m \in FfLibraries,
         NEW token, FfStart(t, kind, m, token)
  PROVE  FfInv'
<1> DEFINE c == [at |-> kind, lib |-> m, arg |-> token, text |-> "own"]
<1>1. token \in Nat \X Nat
  BY FfTokenType DEF FfStart
<1>2. c \in FfCalls /\ c.text \in FfFine /\ c.at \notin {"texted", "copied"} /\ ~FfHolding(c)
  BY <1>1 DEF FfCalls, FfFine, FfTextKinds, FfHolding
<1>3. /\ ffCall[t].at = "idle" /\ ffCall' = [ffCall EXCEPT ![t] = c]
      /\ UNCHANGED <<ffHandles, ffNext, ffLock, ffCopies>>
  BY DEF FfStart
<1> HIDE DEF c
<1>4. FfLockKept(t, c)
  BY <1>2, <1>3 DEF FfLockKept, FfInv, FfTypes
<1> QED
  BY <1>2, <1>3, <1>4, FfOthersSame, FfSameTable, FfQuietStep

(* A call that is changed in one or two of its fields. *)
LEMMA FfCallChanged ==
  ASSUME NEW c \in FfCalls, NEW at \in {"texted", "copied", "pointed", "released", "consume"}
  PROVE  /\ [c EXCEPT !.at = at] \in FfCalls /\ [c EXCEPT !.at = at].at = at
         /\ [c EXCEPT !.at = at].text = c.text /\ [c EXCEPT !.at = at].lib = c.lib
         /\ [c EXCEPT !.at = at, !.lib = "none"] \in FfCalls /\ [c EXCEPT !.at = at, !.lib = "none"].at = at
         /\ [c EXCEPT !.at = at, !.lib = "none"].text = c.text
BY DEF FfCalls

LEMMA CopyStringInv ==
  ASSUME FfInv, NEW t \in FfThreads, NEW i \in FfIndex, CopyString(t, i)
  PROVE  FfInv'
<1> DEFINE arg == <<i, ffHandles[i].gen>>
           c == [ffCall[t] EXCEPT !.at = "consume", !.arg = arg]
<1>1. ffCall[t] \in FfCalls /\ ffCall[t].text \in FfFine
  BY DEF FfInv, FfTypes, FfSerialized
<1>2. arg \in Nat \X Nat
  BY FfTokenType
<1>3. /\ ffCall[t].at = "idle" /\ ffCall' = [ffCall EXCEPT ![t] = c]
      /\ UNCHANGED <<ffHandles, ffNext, ffLock, ffCopies>>
  BY DEF CopyString, FfInv, FfTypes
<1> HIDE DEF arg
<1>4. c \in FfCalls /\ c.text \in FfFine /\ c.at = "consume"
  <2>1. PICK old \in FfCalls : old = ffCall[t]
    BY <1>1
  <2>2. PICK token \in Nat \X Nat : token = arg
    BY <1>2
  <2> DEFINE new == [old EXCEPT !.at = "consume", !.arg = token]
  <2>3. new \in FfCalls /\ new.at = "consume" /\ new.text = old.text
    BY DEF FfCalls
  <2> QED
    BY <1>1, <2>1, <2>2, <2>3
<1> HIDE DEF c
<1>5. FfLockKept(t, c)
  BY <1>3, <1>4 DEF FfLockKept, FfInv, FfTypes, FfHolding
<1> QED
  BY <1>3, <1>4, <1>5, FfOthersSame, FfSameTable, FfQuietStep

(* The lock after unlocking: a call that held it has let it go. *)
LEMMA FfReleaseLock ==
  ASSUME FfInv, NEW t \in FfThreads, ffCall[t].at \in {"texted", "copied", "pointed", "released"},
         FfRelease(t), NEW c, ~FfHolding(c)
  PROVE  FfLockKept(t, c)
BY FfAssumption DEF FfRelease, FfLockKept, FfInv, FfTypes, FfSerialized, FfHolding

(* The lock after a call has been entered. *)
LEMMA FfAcquireLock ==
  ASSUME FfInv, NEW t \in FfThreads, FfAcquire(t), NEW c,
         FfLocked(c) => FfLocked(ffCall[t])
  PROVE  FfLockKept(t, c)
BY FfAssumption DEF FfAcquire, FfLockKept, FfInv, FfTypes, FfHolding

(* Whoever writes a library's buffer without the lock returns no text and is   *)
(* in none of the FreeBASIC libraries.                                       *)
LEMMA FfWritesKept ==
  ASSUME FfInv, NEW t \in FfThreads, ffCall[t].at \in {"text", "pointer", "release"},
         NEW next \in {"texted", "pointed", "released"}, FfAcquire(t), FfWrites(t, next)
  PROVE  FfOthersKept(t, [ffCall[t] EXCEPT !.at = next])
<1> DEFINE c == [ffCall[t] EXCEPT !.at = next]
           over(u) == u # t /\ ffCall[u].at = "texted" /\ ffCall[u].lib = ffCall[t].lib
           text(u) == [ffCall[u] EXCEPT !.text = FfWriter(ffCall[t])]
<1>1. ffCall' = [u \in FfThreads |-> IF u = t THEN c ELSE IF over(u) THEN text(u) ELSE ffCall[u]]
  BY DEF FfWrites
<1>2. ffCall[t] \in FfCalls /\ c \in FfCalls
  <2>1. ffCall[t] \in FfCalls
    BY DEF FfInv, FfTypes
  <2> QED
    BY <2>1, FfCallChanged
<1>3. ASSUME NEW u \in FfThreads, over(u)
      PROVE  /\ text(u) \in FfCalls /\ text(u).at = ffCall[u].at /\ text(u).lib = ffCall[u].lib
             /\ text(u).text \in FfFine
  <2>1. ffLock = u /\ u # NoThread
    BY <1>3, FfTextHolds, FfAssumption DEF FfInv, FfSerialized
  <2>2. ~FfLocked(ffCall[t])
    BY <2>1 DEF FfAcquire
  <2>3. FfWriter(ffCall[t]) = "other"
    BY <2>2 DEF FfWriter, FfLocked
  <2>4. ffCall[u] \in FfCalls
    BY DEF FfInv, FfTypes
  <2> QED
    BY <2>3, <2>4 DEF FfCalls, FfFine, FfTextKinds
<1> HIDE DEF c, over, text
<1>4. ASSUME NEW u \in FfThreads
      PROVE  /\ ffCall'[u] \in FfCalls
             /\ u # t => /\ ffCall'[u].at = ffCall[u].at /\ ffCall'[u].lib = ffCall[u].lib
                         /\ ffCall'[u].text \in FfFine
  BY <1>1, <1>2, <1>3 DEF FfInv, FfTypes, FfSerialized
<1>5. ffCall' \in [FfThreads -> FfCalls] /\ ffCall'[t] = c
  <2>1. ffCall'[t] = c
    BY <1>1
  <2>2. \E f : ffCall' = [u \in FfThreads |-> f[u]]
    BY <1>1
  <2> QED
    BY <1>4, <2>1, <2>2
<1> QED
  BY <1>4, <1>5 DEF FfOthersKept, c

LEMMA FfOtherInv ==
  ASSUME FfInv, NEW t \in FfThreads, FfCallOther(t)
  PROVE  FfInv'
<1>1. PICK next \in {"pointed", "released"} :
        /\ ffCall[t].at \in {"pointer", "release"}
        /\ FfWrites(t, next) \/ ffCall' = [ffCall EXCEPT ![t].at = next]
  BY DEF FfCallOther
<1> DEFINE c == [ffCall[t] EXCEPT !.at = next]
<1>2. FfAcquire(t) /\ UNCHANGED <<ffHandles, ffNext, ffCopies>>
  BY DEF FfCallOther
<1>3. ffCall[t] \in FfCalls /\ ffCall[t].text \in FfFine
  BY DEF FfInv, FfTypes, FfSerialized
<1>4. c \in FfCalls /\ c.text \in FfFine /\ c.at = next /\ c.lib = ffCall[t].lib
  <2>1. PICK old \in FfCalls : old = ffCall[t]
    BY <1>3
  <2>2. /\ [old EXCEPT !.at = next] \in FfCalls /\ [old EXCEPT !.at = next].at = next
        /\ [old EXCEPT !.at = next].text = old.text /\ [old EXCEPT !.at = next].lib = old.lib
    BY DEF FfCalls
  <2> QED
    BY <1>3, <2>1, <2>2
<1>5. FfOthersKept(t, c)
  <2>1. CASE FfWrites(t, next)
    BY <1>1, <1>2, <2>1, FfWritesKept
  <2>2. CASE ffCall' = [ffCall EXCEPT ![t].at = next]
    <3>1. ffCall' = [ffCall EXCEPT ![t] = c]
      BY <2>2
    <3> QED
      BY <1>4, <3>1, FfOthersSame
  <2> QED
    BY <1>1, <2>1, <2>2
<1> HIDE DEF c
<1>6. FfLocked(c) => FfLocked(ffCall[t])
  BY <1>1, <1>4 DEF FfLocked
<1>7. FfLockKept(t, c)
  BY <1>2, <1>6, FfAcquireLock
<1> QED
  BY <1>1, <1>2, <1>4, <1>5, <1>7, FfSameTable, FfQuietStep

LEMMA FfReturnPointerInv ==
  ASSUME FfInv, NEW t \in FfThreads, FfReturnPointer(t)
  PROVE  FfInv'
<1>1. /\ ffCall[t].at = "pointed" /\ ffCall' = [ffCall EXCEPT ![t] = FfIdle] /\ FfRelease(t)
      /\ UNCHANGED ffCopies
  BY DEF FfReturnPointer
<1>2. FfLockKept(t, FfIdle) /\ FfOthersKept(t, FfIdle)
  BY <1>1, FfReleaseLock, FfIdleCall, FfOthersSame
<1>3. /\ FfTableFine' /\ ffNext' \in FfIndex /\ ffCopies' \in Int
      /\ ffCopies' - Cardinality(FfOwned') = ffCopies - Cardinality(FfOwned)
  <2>1. CASE StoreHandle(FALSE, "own")
    <3>1. PICK text \in FfFine : text = "own"
      BY DEF FfFine
    <3>2. /\ FfTableFine' /\ ffNext' \in FfIndex
          /\ Cardinality(FfOwned') = Cardinality(FfOwned) + (IF FALSE THEN 1 ELSE 0)
      BY <2>1, <3>1, StoreHandleFacts
    <3> QED
      BY <1>1, <3>2, FfCounts
  <2>2. CASE UNCHANGED <<ffHandles, ffNext>>
    BY <1>1, <2>2, FfSameTable
  <2> QED
    BY <2>1, <2>2 DEF FfReturnPointer
<1> QED
  BY <1>1, <1>2, <1>3, FfIdleCall, FfQuietStep

LEMMA FfReturnReleaseInv ==
  ASSUME FfInv, NEW t \in FfThreads, FfReturnRelease(t)
  PROVE  FfInv'
<1> DEFINE c == [ffCall[t] EXCEPT !.at = "consume", !.lib = "none"]
<1>1. ffCall[t] \in FfCalls /\ ffCall[t].text \in FfFine
  BY DEF FfInv, FfTypes, FfSerialized
<1>2. c \in FfCalls /\ c.text \in FfFine /\ c.at = "consume"
  BY <1>1, FfCallChanged
<1>3. /\ ffCall[t].at = "released" /\ ffCall' = [ffCall EXCEPT ![t] = c] /\ FfRelease(t)
      /\ UNCHANGED <<ffHandles, ffNext, ffCopies>>
  BY DEF FfReturnRelease, FfInv, FfTypes
<1> HIDE DEF c
<1>4. ~FfHolding(c)
  BY <1>2 DEF FfHolding
<1>5. FfLockKept(t, c) /\ FfOthersKept(t, c)
  BY <1>2, <1>3, <1>4, FfReleaseLock, FfOthersSame
<1> QED
  BY <1>2, <1>3, <1>5, FfSameTable, FfQuietStep

LEMMA FfConsumeInv ==
  ASSUME FfInv, NEW t \in FfThreads, FfConsume(t)
  PROVE  FfInv'
<1>1. /\ ffCall[t].at = "consume" /\ ffCall' = [ffCall EXCEPT ![t] = FfIdle]
      /\ UNCHANGED <<ffNext, ffLock>>
  BY DEF FfConsume
<1>2. PICK token \in Nat \X Nat : token = ffCall[t].arg
  BY DEF FfInv, FfTypes, FfCalls
<1>3. ReleaseHandle(token)
  BY <1>2 DEF FfConsume
<1>4. /\ FfTableFine' /\ ffCopies' \in Int /\ ffNext' \in FfIndex
      /\ ffCopies' - Cardinality(FfOwned') = ffCopies - Cardinality(FfOwned)
  BY <1>1, <1>3, ReleaseHandleFacts DEF FfInv, FfTypes
<1>5. FfLockKept(t, FfIdle) /\ FfOthersKept(t, FfIdle)
  BY <1>1, FfIdleCall, FfOthersSame DEF FfLockKept, FfInv, FfTypes
<1> QED
  BY <1>1, <1>4, <1>5, FfIdleCall, FfQuietStep

LEMMA ClearHandlesInv ==
  ASSUME FfInv, NEW modules, ClearHandles(modules) PROVE FfInv'
<1>1. /\ ffHandles' = [i \in FfIndex |-> FfUnused(ffHandles[i].gen)]
      /\ ffNext' = 1 /\ UNCHANGED <<ffLock, ffCall>>
      /\ ffCopies' = ffCopies - Cardinality({i \in FfIndex : ffHandles[i].owned})
  BY DEF ClearHandles, FreedHandles
<1>2. ffHandles' \in [FfIndex -> FfEntries] /\ \A i \in FfIndex : ~ffHandles'[i].used /\ ~ffHandles'[i].owned
  BY <1>1, FfUnusedEntry DEF FfInv, FfTypes, FfEntries
<1>3. {i \in FfIndex : ffHandles[i].owned} = FfOwned /\ FfOwned' = {}
  BY <1>2 DEF FfOwned, FfInv, FfSerialized
<1>4. Cardinality(FfOwned') = 0 /\ FfStoring' = FfStoring /\ FfTableFine'
  BY <1>1, <1>2, <1>3, FS_EmptySet DEF FfStoring, FfTableFine
<1>5. ffCopies' = Cardinality(FfOwned') + Cardinality(FfStoring') /\ ffCopies' \in Int
  <2>1. \A m, n \in Int : (m + n) - m = n /\ 0 + n = n
    OBVIOUS
  <2>2. ffCopies' = Cardinality(FfStoring)
    <3>1. ffCopies' = (Cardinality(FfOwned) + Cardinality(FfStoring)) - Cardinality(FfOwned)
      BY <1>1, <1>3, FfCounts
    <3> QED
      BY <2>1, <3>1, FfCounts
  <2>3. Cardinality(FfOwned') + Cardinality(FfStoring') = Cardinality(FfStoring)
    BY <1>4, <2>1, FfCounts
  <2> QED
    BY <2>2, <2>3, FfCounts
<1>6. FfTypes'
  BY <1>1, <1>2, <1>5, FfFinite DEF FfInv, FfTypes
<1>7. FfSerialized'
  BY <1>1, <1>2 DEF FfInv, FfSerialized, FfHolding, FfLocked
<1>8. FfTexts'
  BY <1>4, <1>5, FfTextsStep
<1> QED
  BY <1>6, <1>7, <1>8 DEF FfInv

(* A text is called for, copied and stored, or given up: the lock is taken     *)
(* for all of it.                                                            *)
LEMMA FfCallTextInv ==
  ASSUME FfInv, NEW t \in FfThreads, FfCallText(t)
  PROVE  FfInv'
<1> DEFINE c == [ffCall[t] EXCEPT !.at = "texted"]
<1>1. /\ ffCall[t].at = "text" /\ FfAcquire(t) /\ FfWrites(t, "texted")
      /\ UNCHANGED <<ffHandles, ffNext, ffCopies>>
  BY DEF FfCallText
<1>2. ffCall[t] \in FfCalls /\ ffCall[t].text \in FfFine
  BY DEF FfInv, FfTypes, FfSerialized
<1>3. c \in FfCalls /\ c.text \in FfFine /\ c.at = "texted"
  BY <1>2, FfCallChanged
<1>4. FfOthersKept(t, c)
  BY <1>1, FfWritesKept
<1> HIDE DEF c
<1>5. FfLocked(ffCall[t])
  BY <1>1 DEF FfLocked
<1>6. FfLockKept(t, c) /\ ffLock = NoThread
  BY <1>1, <1>5, FfAcquireLock DEF FfAcquire
<1>7. FfTableFine' /\ ffNext' \in FfIndex /\ ffCopies' \in Int /\ FfOwned' = FfOwned
  BY <1>1, FfSameTable
<1>8. FfStoring = {} /\ FfStoring' = {}
  <2>1. FfStoring = {}
    BY <1>6, FfNoneStoring DEF FfInv
  <2> QED
    BY <1>3, <1>4, <2>1 DEF FfStoring, FfOthersKept
<1>9. ffCopies' = Cardinality(FfOwned') + Cardinality(FfStoring')
  BY <1>1, <1>7, <1>8, FfCounts
<1>10. FfTypes'
  BY <1>4, <1>6, <1>7 DEF FfTypes, FfOthersKept, FfLockKept, FfTableFine
<1> QED
  BY <1>3, <1>4, <1>6, <1>7, <1>9, <1>10, FfSerializedStep, FfTextsStep DEF FfInv

LEMMA FfCopyTextInv ==
  ASSUME FfInv, NEW t \in FfThreads, FfCopyText(t)
  PROVE  FfInv'
<1>1. ffCall[t].at = "texted" /\ UNCHANGED <<ffHandles, ffNext>>
  BY DEF FfCopyText
<1>2. ffLock = t /\ FfStoring = {}
  BY <1>1, FfTextHolds, FfOneStoring DEF FfInv, FfSerialized
<1>3. FfTableFine' /\ FfOwned' = FfOwned /\ ffNext' \in FfIndex
  BY <1>1, FfInvTable DEF FfTableFine, FfOwned, FfInv, FfTypes
<1>4. Cardinality({}) = 0 /\ Cardinality({t}) = 1
  BY FS_EmptySet, FS_Singleton
<1>5. \A u \in FfThreads : ffCall[u].at = "copied" => u = t
  BY <1>2, FfOneStoring DEF FfInv
<1>6. CASE ffCopies' = ffCopies + 1 /\ UNCHANGED ffLock /\ ffCall' = [ffCall EXCEPT ![t].at = "copied"]
  <2> DEFINE c == [ffCall[t] EXCEPT !.at = "copied"]
  <2>1. ffCall[t] \in FfCalls /\ ffCall[t].text \in FfFine
    BY DEF FfInv, FfTypes, FfSerialized
  <2>2. c \in FfCalls /\ c.text \in FfFine /\ c.at = "copied"
    BY <2>1, FfCallChanged
  <2>3. ffCall' = [ffCall EXCEPT ![t] = c]
    BY <1>6
  <2> HIDE DEF c
  <2>4. FfOthersKept(t, c) /\ FfLockKept(t, c)
    BY <1>2, <1>6, <2>2, <2>3, FfOthersSame DEF FfLockKept, FfInv, FfTypes
  <2>5. FfStoring' = {t}
    BY <1>5, <2>2, <2>4 DEF FfStoring, FfOthersKept
  <2>6. ffCopies' = Cardinality(FfOwned') + Cardinality(FfStoring') /\ ffCopies' \in Int
    BY <1>2, <1>3, <1>4, <1>6, <2>5, FfCounts
  <2>7. FfTypes'
    BY <1>3, <2>4, <2>6 DEF FfTypes, FfOthersKept, FfLockKept, FfTableFine
  <2> QED
    BY <1>3, <2>2, <2>4, <2>6, <2>7, FfSerializedStep, FfTextsStep DEF FfInv
<1>7. CASE FfRelease(t) /\ UNCHANGED ffCopies /\ ffCall' = [ffCall EXCEPT ![t] = FfIdle]
  <2>1. FfOthersKept(t, FfIdle) /\ FfLockKept(t, FfIdle)
    BY <1>1, <1>7, FfOthersSame, FfIdleCall, FfReleaseLock
  <2>2. FfStoring' = {}
    BY <1>5, <2>1, FfIdleCall DEF FfStoring, FfOthersKept
  <2>3. ffCopies' = Cardinality(FfOwned') + Cardinality(FfStoring') /\ ffCopies' \in Int
    BY <1>2, <1>3, <1>4, <1>7, <2>2, FfCounts
  <2>4. FfTypes'
    BY <1>3, <2>1, <2>3 DEF FfTypes, FfOthersKept, FfLockKept, FfTableFine
  <2> QED
    BY <1>3, <2>1, <2>3, <2>4, FfIdleCall, FfSerializedStep, FfTextsStep DEF FfInv
<1> QED
  BY <1>6, <1>7 DEF FfCopyText

LEMMA FfStoreTextInv ==
  ASSUME FfInv, NEW t \in FfThreads, FfStoreText(t)
  PROVE  FfInv'
<1>1. ffCall[t].at = "copied" /\ ffCall' = [ffCall EXCEPT ![t] = FfIdle] /\ FfRelease(t)
  BY DEF FfStoreText
<1>2. ffLock = t /\ FfStoring = {t}
  BY <1>1, FfTextHolds, FfOneStoring DEF FfInv, FfSerialized
<1>3. FfOthersKept(t, FfIdle) /\ FfLockKept(t, FfIdle)
  BY <1>1, FfOthersSame, FfIdleCall, FfReleaseLock
<1>4. FfStoring' = {}
  BY <1>2, <1>3, FfIdleCall DEF FfStoring, FfOthersKept
<1>5. Cardinality(FfStoring) = 1 /\ Cardinality(FfStoring') = 0
  BY <1>2, <1>4, FS_EmptySet, FS_Singleton
<1>6. /\ FfTableFine' /\ ffNext' \in FfIndex /\ ffCopies' \in Int
      /\ ffCopies' = Cardinality(FfOwned') + Cardinality(FfStoring')
  <2>1. CASE StoreHandle(TRUE, ffCall[t].text) /\ UNCHANGED ffCopies
    <3>1. PICK text \in FfFine : text = ffCall[t].text
      BY DEF FfInv, FfSerialized
    <3>2. /\ FfTableFine' /\ ffNext' \in FfIndex
          /\ Cardinality(FfOwned') = Cardinality(FfOwned) + (IF TRUE THEN 1 ELSE 0)
      BY <2>1, <3>1, StoreHandleFacts
    <3> QED
      BY <1>5, <2>1, <3>2, FfCounts
  <2>2. CASE ffCopies' = ffCopies - 1 /\ UNCHANGED <<ffHandles, ffNext>>
    <3>1. FfTableFine' /\ FfOwned' = FfOwned /\ ffNext' \in FfIndex
      BY <2>2, FfInvTable DEF FfTableFine, FfOwned, FfInv, FfTypes
    <3> QED
      BY <1>5, <2>2, <3>1, FfCounts
  <2> QED
    BY <2>1, <2>2 DEF FfStoreText
<1>7. FfTypes'
  BY <1>3, <1>6 DEF FfTypes, FfOthersKept, FfLockKept, FfTableFine
<1> QED
  BY <1>3, <1>6, <1>7, FfIdleCall, FfSerializedStep, FfTextsStep DEF FfInv

LEMMA FfInitInv == FfInit => FfInv
<1> SUFFICES ASSUME FfInit PROVE FfInv
  OBVIOUS
<1>1. FfTypes
  BY FfIdleCall, FfUnusedEntry, FfFinite DEF FfInit, FfTypes
<1>2. FfSerialized
  BY FfIdleCall, FfUnusedEntry DEF FfInit, FfSerialized
<1>3. FfOwned = {} /\ FfStoring = {}
  BY FfIdleCall, FfUnusedEntry DEF FfInit, FfOwned, FfStoring
<1>4. ffCopies = Cardinality(FfOwned) + Cardinality(FfStoring)
  BY <1>3, FS_EmptySet DEF FfInit
<1>5. FfTexts
  BY <1>4, FfUnusedEntry DEF FfInit, FfTexts, FfTextIsOwn, FfCopiesAccounted, FfOwned, FfStoring
<1> QED
  BY <1>1, <1>2, <1>5 DEF FfInv

LEMMA FfNextInv == ASSUME FfInv, [FfNext]_ffVars PROVE FfInv'
<1>1. CASE UNCHANGED ffVars
  BY <1>1 DEF ffVars, FfInv, FfTypes, FfSerialized, FfHolding, FfLocked, FfTexts, FfTextIsOwn,
              FfCopiesAccounted
<1>2. CASE FfNext
  BY <1>2, FfStartInv, FfCallTextInv, FfCopyTextInv, FfStoreTextInv, FfOtherInv, FfReturnPointerInv,
     FfReturnReleaseInv, FfConsumeInv, CopyStringInv, ClearHandlesInv DEF FfNext
<1> QED
  BY <1>1, <1>2

(* The text behind a token is the one its own call returned, unless a function *)
(* that the code does not serialize wrote over it, and every copy of a text    *)
(* has one owner and is freed once, whatever the threads call, and for any     *)
(* number of them, any libraries and any size of the table (FfTexts).         *)
THEOREM ForeignTextsOwned == FfSpec => []FfTexts
<1>1. FfInv => FfTexts
  BY DEF FfInv
<1> QED
  BY <1>1, FfInitInv, FfNextInv, PTL DEF FfSpec

-----------------------------------------------------------------------------
(* Foreign functions: the table of tokens as handles *)

TokensIn(hs) == {h \in FfIndex \X (1..FfMaxGen) : h[2] <= hs[h[1]].gen}
LiveIn(hs) == {h \in TokensIn(hs) : hs[h[1]].used /\ hs[h[1]].gen = h[2]}

(* Only a slot that was given out is used, and no generation has come round.   *)
FfTableOK(hs) ==
  /\ hs \in [FfIndex -> FfEntries]
  /\ \A i \in FfIndex : hs[i].gen <= FfMaxGen /\ (hs[i].used => hs[i].gen >= 1)

FfFresh == FfMaxGen \in Nat /\ FfMaxGen < 16384

(* Of the slots that were used some may be free now. *)
FfGivenBack(hs, hs2) ==
  /\ hs2 \in [FfIndex -> FfEntries]
  /\ \A i \in FfIndex : hs2[i].gen = hs[i].gen /\ (hs2[i].used => hs[i].used)

LEMMA GivenBackTokens ==
  ASSUME NEW hs, NEW hs2, FfTableOK(hs), FfGivenBack(hs, hs2)
  PROVE  FfTableOK(hs2) /\ TokensIn(hs2) = TokensIn(hs) /\ LiveIn(hs2) \subseteq LiveIn(hs)
<1>1. TokensIn(hs2) = TokensIn(hs)
  BY DEF FfGivenBack, TokensIn
<1>2. FfTableOK(hs2)
  BY DEF FfGivenBack, FfTableOK
<1>3. ASSUME NEW h \in LiveIn(hs2) PROVE h \in LiveIn(hs)
  <2>1. h \in TokensIn(hs) /\ h[1] \in FfIndex /\ hs2[h[1]].used /\ hs2[h[1]].gen = h[2]
    BY <1>1 DEF LiveIn, TokensIn
  <2> QED
    BY <2>1 DEF FfGivenBack, LiveIn
<1> QED
  BY <1>1, <1>2, <1>3

(* A free slot is given out once more. *)
FfGivenOut(hs, hs2, i) ==
  /\ hs2 \in [FfIndex -> FfEntries]
  /\ ~hs[i].used /\ hs2[i].used /\ hs[i].gen < FfMaxGen /\ hs2[i].gen = hs[i].gen + 1
  /\ \A j \in FfIndex : j # i => hs2[j] = hs[j]

LEMMA GivenOutTokens ==
  ASSUME FfFresh, NEW hs, NEW hs2, FfTableOK(hs), NEW i \in FfIndex, FfGivenOut(hs, hs2, i),
         NEW new, new = <<i, hs2[i].gen>>
  PROVE  /\ FfTableOK(hs2) /\ new \notin TokensIn(hs)
         /\ TokensIn(hs2) = TokensIn(hs) \cup {new} /\ LiveIn(hs2) = LiveIn(hs) \cup {new}
<1>1. PICK g \in Nat : g = hs[i].gen /\ hs2[i].gen = g + 1 /\ g < FfMaxGen /\ g + 1 \in 1..FfMaxGen
  BY DEF FfTableOK, FfEntries, FfGivenOut, FfFresh
<1>2. FfTableOK(hs2)
  <2>1. ASSUME NEW j \in FfIndex PROVE hs2[j].gen <= FfMaxGen /\ (hs2[j].used => hs2[j].gen >= 1)
    <3>1. CASE j = i
      BY <1>1, <3>1
    <3>2. CASE j # i
      BY <3>2 DEF FfTableOK, FfGivenOut
    <3> QED
      BY <3>1, <3>2
  <2> QED
    BY <2>1 DEF FfTableOK, FfGivenOut
<1>3. new \in FfIndex \X (1..FfMaxGen) /\ new[1] = i /\ new[2] = g + 1
  BY <1>1
<1>4. new \notin TokensIn(hs)
  BY <1>1, <1>3 DEF TokensIn
<1>5. ASSUME NEW h \in FfIndex \X (1..FfMaxGen), h[1] = i
      PROVE  (h[2] <= hs2[i].gen) <=> (h[2] <= hs[i].gen \/ h = new)
  <2>1. PICK k \in Nat : k = h[2] /\ h = <<i, k>>
    BY <1>5, <1>1 DEF FfFresh
  <2>2. h = new <=> k = g + 1
    BY <1>1, <2>1
  <2> QED
    BY <1>1, <2>1, <2>2
<1>6. TokensIn(hs2) = TokensIn(hs) \cup {new}
  <2>1. ASSUME NEW h \in FfIndex \X (1..FfMaxGen)
        PROVE  h \in TokensIn(hs2) <=> h \in TokensIn(hs) \/ h = new
    <3>1. CASE h[1] = i
      BY <1>5, <3>1 DEF TokensIn
    <3>2. CASE h[1] # i
      <4>1. hs2[h[1]] = hs[h[1]] /\ h # new
        BY <1>3, <3>2 DEF FfGivenOut
      <4> QED
        BY <4>1 DEF TokensIn
    <3> QED
      BY <3>1, <3>2
  <2>2. TokensIn(hs2) \subseteq FfIndex \X (1..FfMaxGen) /\ TokensIn(hs) \subseteq FfIndex \X (1..FfMaxGen)
    BY DEF TokensIn
  <2> QED
    BY <1>3, <2>1, <2>2
<1>7. LiveIn(hs2) = LiveIn(hs) \cup {new}
  <2>1. new \in LiveIn(hs2)
    BY <1>1, <1>3, <1>6 DEF LiveIn, FfGivenOut
  <2>2. ASSUME NEW h \in LiveIn(hs), h # new PROVE h \in LiveIn(hs2)
    <3>1. h \in TokensIn(hs) /\ hs[h[1]].used /\ hs[h[1]].gen = h[2] /\ h[1] \in FfIndex
      BY DEF LiveIn, TokensIn
    <3>2. h[1] # i
      BY <3>1 DEF FfGivenOut
    <3> QED
      BY <1>6, <3>1, <3>2 DEF LiveIn, FfGivenOut
  <2>3. ASSUME NEW h \in LiveIn(hs2), h # new PROVE h \in LiveIn(hs)
    <3>1. /\ h \in TokensIn(hs2) /\ hs2[h[1]].used /\ hs2[h[1]].gen = h[2]
          /\ h \in FfIndex \X (1..FfMaxGen)
      BY DEF LiveIn, TokensIn
    <3>2. h[1] # i
      <4>1. ASSUME h[1] = i PROVE h = new
        <5>1. h = <<h[1], h[2]>>
          BY <3>1
        <5> QED
          BY <3>1, <4>1, <5>1
      <4> QED
        BY <2>3, <4>1
    <3>3. hs2[h[1]] = hs[h[1]] /\ h \in TokensIn(hs)
      BY <1>6, <2>3, <3>1, <3>2 DEF FfGivenOut
    <3> QED
      BY <3>1, <3>3 DEF LiveIn
  <2> QED
    BY <2>1, <2>2, <2>3
<1> QED
  BY <1>2, <1>4, <1>6, <1>7

FfTokensInv == FfTableOK(ffHandles)

LEMMA TokensAre ==
  /\ FfIssued = TokensIn(ffHandles) /\ FfLive = LiveIn(ffHandles)
  /\ FfParent = [h \in LiveIn(ffHandles) |-> FfRoot]
BY DEF FfIssued, FfLive, FfParent, TokensIn, LiveIn

LEMMA TokensAreNext ==
  /\ FfIssued' = TokensIn(ffHandles') /\ FfLive' = LiveIn(ffHandles')
  /\ FfParent' = [h \in LiveIn(ffHandles') |-> FfRoot]
BY DEF FfIssued, FfLive, FfParent, TokensIn, LiveIn, FfRoot

LEMMA GivenBackStep ==
  ASSUME FfTokensInv, FfGivenBack(ffHandles, ffHandles')
  PROVE  FfTokensInv' /\ FfTokens!Retire
<1>1. PICK hs : hs = ffHandles
  OBVIOUS
<1>2. PICK hs2 : hs2 = ffHandles'
  OBVIOUS
<1>3. FfTableOK(hs2) /\ TokensIn(hs2) = TokensIn(hs) /\ LiveIn(hs2) \subseteq LiveIn(hs)
  BY <1>1, <1>2, GivenBackTokens DEF FfTokensInv
<1>4. PICK live : live = LiveIn(hs)
  OBVIOUS
<1>5. PICK left : left = LiveIn(hs2)
  OBVIOUS
<1>6. FfParent = [h \in live |-> FfRoot] /\ FfParent' = [h \in left |-> FfRoot] /\ FfIssued' = FfIssued
  BY <1>1, <1>2, <1>3, <1>4, <1>5, TokensAre, TokensAreNext
<1>7. left \subseteq live
  BY <1>3, <1>4, <1>5
<1>8. DOMAIN FfParent = live /\ (DOMAIN FfParent)' = left
  BY <1>6
<1>9. FfParent' = [h \in left |-> FfParent[h]] /\ \A h \in left : FfParent[h] = FfRoot
  BY <1>6, <1>7
<1>10. FfTokens!Retire
  BY <1>6, <1>7, <1>8, <1>9 DEF FfTokens!Retire, FfTokens!Live
<1> QED
  BY <1>2, <1>3, <1>10 DEF FfTokensInv

LEMMA GivenOutStep ==
  ASSUME FfFresh, FfTokensInv, NEW i \in FfIndex, FfGivenOut(ffHandles, ffHandles', i)
  PROVE  FfTokensInv' /\ FfTokens!Issue
<1>1. PICK hs : hs = ffHandles
  OBVIOUS
<1>2. PICK hs2 : hs2 = ffHandles'
  OBVIOUS
<1>3. PICK new : new = <<i, hs2[i].gen>>
  OBVIOUS
<1>4. /\ FfTableOK(hs2) /\ new \notin TokensIn(hs)
      /\ TokensIn(hs2) = TokensIn(hs) \cup {new} /\ LiveIn(hs2) = LiveIn(hs) \cup {new}
  BY <1>1, <1>2, <1>3, GivenOutTokens DEF FfTokensInv
<1>5. PICK live : live = LiveIn(hs)
  OBVIOUS
<1>6. /\ FfParent = [h \in live |-> FfRoot] /\ FfParent' = [h \in live \cup {new} |-> FfRoot]
      /\ FfIssued' = FfIssued \cup {new} /\ new \in FfIssued' \ FfIssued
  BY <1>1, <1>2, <1>4, <1>5, TokensAre, TokensAreNext
<1>7. DOMAIN FfParent = live
  BY <1>6
<1>8. FfParent' = [x \in live \cup {new} |-> IF x = new THEN FfRoot ELSE FfParent[x]]
  BY <1>6
<1>9. FfTokens!Issue
  BY <1>6, <1>7, <1>8 DEF FfTokens!Issue, FfTokens!Live
<1> QED
  BY <1>2, <1>4, <1>9 DEF FfTokensInv

LEMMA StoreHandleTokens ==
  ASSUME FfFresh, FfTokensInv, NEW owned \in BOOLEAN, NEW text \in FfTextKinds, StoreHandle(owned, text)
  PROVE  FfTokensInv' /\ FfTokens!Issue
<1>1. PICK i \in FfIndex :
        /\ ~ffHandles[i].used /\ ffHandles[i].gen < FfMaxGen
        /\ ffHandles' = [ffHandles EXCEPT ![i] = [used |-> TRUE, gen |-> FfGeneration(@.gen),
                                                  owned |-> owned, text |-> text]]
  BY DEF StoreHandle
<1>2. PICK g \in Nat : g = ffHandles[i].gen /\ g < FfMaxGen
  BY <1>1 DEF FfTokensInv, FfTableOK, FfEntries
<1>3. FfGeneration(g) = g + 1
  <2>1. (g + 1) % 16384 = g + 1 /\ g + 1 # 0
    BY <1>2 DEF FfFresh
  <2> QED
    BY <2>1 DEF FfGeneration
<1> DEFINE entry == [used |-> TRUE, gen |-> g + 1, owned |-> owned, text |-> text]
<1>4. entry \in FfEntries /\ entry.used /\ entry.gen = g + 1
  BY DEF FfEntries
<1>5. ffHandles' = [ffHandles EXCEPT ![i] = entry]
  BY <1>1, <1>2, <1>3
<1> HIDE DEF entry
<1>6. /\ ffHandles' \in [FfIndex -> FfEntries] /\ ffHandles'[i] = entry
      /\ \A j \in FfIndex : j # i => ffHandles'[j] = ffHandles[j]
  BY <1>4, <1>5 DEF FfTokensInv, FfTableOK
<1>7. FfGivenOut(ffHandles, ffHandles', i)
  BY <1>1, <1>2, <1>4, <1>6 DEF FfGivenOut
<1> QED
  BY <1>7, GivenOutStep

LEMMA ReleaseTokens ==
  ASSUME FfTokensInv, NEW token, ReleaseHandle(token)
  PROVE  FfTokensInv' /\ FfTokens!Retire
<1>1. PICK live : ffHandles' = [i \in FfIndex |->
                    IF i \in live THEN FfUnused(ffHandles[i].gen) ELSE ffHandles[i]]
  BY DEF ReleaseHandle
<1>2. ASSUME NEW i \in FfIndex
      PROVE  /\ ffHandles'[i] \in FfEntries /\ ffHandles'[i].gen = ffHandles[i].gen
             /\ ffHandles'[i].used => ffHandles[i].used
  <2>1. ffHandles[i] \in FfEntries /\ ffHandles[i].gen \in Nat
    BY DEF FfTokensInv, FfTableOK, FfEntries
  <2>2. CASE i \in live
    BY <1>1, <2>1, <2>2, FfUnusedEntry
  <2>3. CASE i \notin live
    BY <1>1, <2>1, <2>3
  <2> QED
    BY <2>2, <2>3
<1>3. FfGivenBack(ffHandles, ffHandles')
  BY <1>1, <1>2 DEF FfGivenBack
<1> QED
  BY <1>3, GivenBackStep

LEMMA ClearTokens ==
  ASSUME FfTokensInv, NEW modules, ClearHandles(modules)
  PROVE  FfTokensInv' /\ FfTokens!Retire
<1>1. ffHandles' = [i \in FfIndex |-> FfUnused(ffHandles[i].gen)]
  BY DEF ClearHandles
<1>2. ASSUME NEW i \in FfIndex
      PROVE  /\ ffHandles'[i] \in FfEntries /\ ffHandles'[i].gen = ffHandles[i].gen
             /\ ffHandles'[i].used => ffHandles[i].used
  <2>1. ffHandles[i] \in FfEntries /\ ffHandles[i].gen \in Nat
    BY DEF FfTokensInv, FfTableOK, FfEntries
  <2> QED
    BY <1>1, <2>1, FfUnusedEntry
<1>3. FfGivenBack(ffHandles, ffHandles')
  BY <1>1, <1>2 DEF FfGivenBack
<1> QED
  BY <1>3, GivenBackStep

LEMMA FfTokensStart ==
  ASSUME FfFresh, FfInit PROVE FfTokensInv /\ FfTokens!Init
<1> DEFINE first == FfUnused(0)
<1>1. first \in FfEntries /\ ~first.used /\ first.gen = 0
  BY FfUnusedEntry
<1>2. ffHandles = [i \in FfIndex |-> first]
  BY DEF FfInit
<1> HIDE DEF first
<1>3. FfTokensInv
  BY <1>1, <1>2 DEF FfTokensInv, FfTableOK, FfFresh
<1>4. TokensIn(ffHandles) = {}
  <2>1. ASSUME NEW h \in TokensIn(ffHandles) PROVE FALSE
    <3>1. h[1] \in FfIndex /\ h[2] \in 1..FfMaxGen /\ h[2] <= ffHandles[h[1]].gen
      BY DEF TokensIn
    <3> QED
      BY <1>1, <1>2, <3>1
  <2> QED
    BY <2>1
<1>5. LiveIn(ffHandles) = {}
  BY <1>4 DEF LiveIn
<1>6. FfIssued = {} /\ FfParent = [h \in {} |-> FfRoot]
  BY <1>4, <1>5, TokensAre
<1> QED
  BY <1>3, <1>6 DEF FfTokens!Init

LEMMA FfTokensStep ==
  ASSUME FfFresh, FfInv, FfTokensInv, [FfNext]_ffVars
  PROVE  FfTokensInv' /\ [FfTokens!Issue \/ FfTokens!Retire]_<<FfIssued, FfParent>>
<1>1. CASE UNCHANGED ffHandles
  <2>1. FfIssued' = FfIssued /\ FfParent' = FfParent
    BY <1>1, TokensAre, TokensAreNext
  <2> QED
    BY <1>1, <2>1 DEF FfTokensInv
<1>2. CASE UNCHANGED ffVars
  BY <1>1, <1>2 DEF ffVars
<1>3. ASSUME NEW t \in FfThreads, NEW kind, NEW m, NEW token, FfStart(t, kind, m, token)
      PROVE  UNCHANGED ffHandles
  BY <1>3 DEF FfStart
<1>4. ASSUME NEW t \in FfThreads, FfCallText(t) \/ FfCopyText(t) \/ FfCallOther(t) \/ FfReturnRelease(t)
      PROVE  UNCHANGED ffHandles
  BY <1>4 DEF FfCallText, FfCopyText, FfCallOther, FfReturnRelease
<1>5. ASSUME NEW t \in FfThreads, NEW i \in FfIndex, CopyString(t, i) PROVE UNCHANGED ffHandles
  BY <1>5 DEF CopyString
<1>6. ASSUME NEW t \in FfThreads, FfStoreText(t) \/ FfReturnPointer(t)
      PROVE  UNCHANGED ffHandles \/ (FfTokensInv' /\ FfTokens!Issue)
  <2>1. CASE StoreHandle(TRUE, ffCall[t].text)
    <3>1. PICK text \in FfTextKinds : text = ffCall[t].text
      BY DEF FfInv, FfTypes, FfCalls
    <3> QED
      BY <2>1, <3>1, StoreHandleTokens
  <2>2. CASE StoreHandle(FALSE, "own")
    <3>1. "own" \in FfTextKinds
      BY DEF FfTextKinds
    <3> QED
      BY <2>2, <3>1, StoreHandleTokens
  <2> QED
    BY <1>6, <2>1, <2>2 DEF FfStoreText, FfReturnPointer
<1>7. ASSUME NEW t \in FfThreads, FfConsume(t) PROVE FfTokensInv' /\ FfTokens!Retire
  <2>1. PICK token : token = ffCall[t].arg
    OBVIOUS
  <2>2. ReleaseHandle(token)
    BY <1>7, <2>1 DEF FfConsume
  <2> QED
    BY <2>2, ReleaseTokens
<1>8. ASSUME NEW modules, ClearHandles(modules) PROVE FfTokensInv' /\ FfTokens!Retire
  BY <1>8, ClearTokens
<1>9. CASE FfNext
  <2>1. CASE ClearHandles(ffModules) \/ ClearHandles({})
    <3>1. PICK modules : ClearHandles(modules)
      BY <2>1
    <3> QED
      BY <1>8, <3>1
  <2>2. CASE \E t \in FfThreads : FfConsume(t)
    BY <1>7, <2>2
  <2>3. CASE \E t \in FfThreads : FfStoreText(t) \/ FfReturnPointer(t)
    BY <1>1, <1>6, <2>3
  <2>4. CASE UNCHANGED ffHandles
    BY <1>1, <2>4
  <2> QED
    BY <1>3, <1>4, <1>5, <1>9, <2>1, <2>2, <2>3, <2>4 DEF FfNext
<1> QED
  BY <1>2, <1>9

(* The tokens of foreign calls implement handles for any number of threads and *)
(* slots, as long as no slot is given out more than 16383 times: a token that   *)
(* was released or cleared away never resolves again, whoever took its slot.   *)
THEOREM FfTokensImplementHandles ==
  FfMaxGen \in Nat /\ FfMaxGen < 16384 => (FfSpec => FfImplementsHandles)
<1> SUFFICES ASSUME FfMaxGen \in Nat, FfMaxGen < 16384 PROVE FfSpec => FfImplementsHandles
  OBVIOUS
<1>1. FfFresh
  BY DEF FfFresh
<1>2. FfInit => FfInv /\ FfTokensInv /\ FfTokens!Init
  BY <1>1, FfInitInv, FfTokensStart
<1>3. FfInv /\ FfTokensInv /\ [FfNext]_ffVars =>
        FfInv' /\ FfTokensInv' /\ [FfTokens!Issue \/ FfTokens!Retire]_<<FfIssued, FfParent>>
  BY <1>1, FfNextInv, FfTokensStep
<1> QED
  BY <1>2, <1>3, PTL DEF FfSpec, FfImplementsHandles, FfTokens!Spec

-----------------------------------------------------------------------------
(* WebAssembly *)

WmOwners == WmThreads \cup {CHOOSE t \in WmThreads : TRUE, "nobody"}
WmSessions == [used : BOOLEAN, gen : Int, owner : WmOwners, objs : SUBSET WmKinds,
               code : {"ok", "failed", "thread"}, own : {"ok", "failed"}]
WmHolds == [by : WmOwners, at : {"free", "open", "validate", "close", "shutdown"},
            objs : {WmObjs(n) : n \in 0..6}, report : {"", "ok", "failed"}]

WmTypes ==
  /\ wmRuntime \in BOOLEAN
  /\ wmSes \in [1..WmSlots -> WmSessions]
  /\ wmAlive \in [WmKinds -> Int]
  /\ wmHold \in WmHolds

WmWith(k) == {s \in 1..WmSlots : k \in wmSes[s].objs}

(* The equation of the property, with the sessions that have a kind as a set. *)
WmCounted ==
  \A k \in WmKinds : wmAlive[k] = Cardinality(WmWith(k)) + (IF k \in wmHold.objs THEN 1 ELSE 0)

WmWhole == \A s \in 1..WmSlots : wmSes[s].objs = IF wmSes[s].used THEN WmKinds ELSE {}

(* The library is loaded while a session lives and while a call works on one. *)
WmLoaded ==
  /\ wmHold.at = "free" => wmHold.objs = {}
  /\ wmHold.at # "free" \/ (\E s \in 1..WmSlots : wmSes[s].used) => wmRuntime

WmCodes == \A s \in 1..WmSlots : wmSes[s].code \in {wmSes[s].own, "thread"}

WmInv == WmTypes /\ WmCounted /\ WmWhole /\ WmLoaded /\ WmCodes

LEMMA WmObjsAre ==
  /\ WmObjs(0) = {} /\ WmObjs(1) = {"engine"} /\ WmObjs(2) = {"engine", "store"}
  /\ WmObjs(3) = {"engine", "store", "module"} /\ WmObjs(4) = {"engine", "store", "module", "funcs"}
  /\ WmObjs(5) = {"engine", "store", "module", "funcs", "instance"}
  /\ WmObjs(6) = {"engine", "store", "module", "funcs", "instance", "exports"}
  /\ WmKinds = WmObjs(6) /\ DOMAIN WmOrder = 1..6
<1>1. /\ WmOrder[1] = "engine" /\ WmOrder[2] = "store" /\ WmOrder[3] = "module"
      /\ WmOrder[4] = "funcs" /\ WmOrder[5] = "instance" /\ WmOrder[6] = "exports"
      /\ DOMAIN WmOrder = 1..6
  BY DEF WmOrder
<1>2. /\ 1..0 = {} /\ 1..1 = {1} /\ 1..2 = {1, 2} /\ 1..3 = {1, 2, 3} /\ 1..4 = {1, 2, 3, 4}
      /\ 1..5 = {1, 2, 3, 4, 5} /\ 1..6 = {1, 2, 3, 4, 5, 6}
  OBVIOUS
<1>3. WmObjs(0) = {} /\ WmObjs(1) = {"engine"} /\ WmObjs(2) = {"engine", "store"}
  BY <1>1, <1>2 DEF WmObjs
<1>4. WmObjs(3) = {"engine", "store", "module"} /\ WmObjs(4) = {"engine", "store", "module", "funcs"}
  BY <1>1, <1>2 DEF WmObjs
<1>5. WmObjs(5) = {"engine", "store", "module", "funcs", "instance"}
  BY <1>1, <1>2 DEF WmObjs
<1>6. WmObjs(6) = {"engine", "store", "module", "funcs", "instance", "exports"}
  BY <1>1, <1>2 DEF WmObjs
<1>7. WmKinds = WmObjs(6)
  BY <1>1 DEF WmKinds, WmObjs
<1> QED
  BY <1>1, <1>3, <1>4, <1>5, <1>6, <1>7

(* The objects made so far are a beginning of the order; its next one is new.  *)
LEMMA WmObjsFacts ==
  /\ \A n \in 0..6 : Cardinality(WmObjs(n)) = n /\ WmObjs(n) \subseteq WmKinds
  /\ \A n \in 0..5 : /\ WmOrder[n + 1] \notin WmObjs(n) /\ WmOrder[n + 1] \in WmKinds
                     /\ WmObjs(n + 1) = WmObjs(n) \cup {WmOrder[n + 1]}
<1>1. \A n \in 0..5 : /\ WmOrder[n + 1] \notin WmObjs(n) /\ WmOrder[n + 1] \in WmKinds
                      /\ WmObjs(n + 1) = WmObjs(n) \cup {WmOrder[n + 1]}
  <2>1. /\ WmOrder[1] = "engine" /\ WmOrder[2] = "store" /\ WmOrder[3] = "module"
        /\ WmOrder[4] = "funcs" /\ WmOrder[5] = "instance" /\ WmOrder[6] = "exports"
    BY DEF WmOrder
  <2> SUFFICES ASSUME NEW n \in 0..5
               PROVE  /\ WmOrder[n + 1] \notin WmObjs(n) /\ WmOrder[n + 1] \in WmKinds
                      /\ WmObjs(n + 1) = WmObjs(n) \cup {WmOrder[n + 1]}
    OBVIOUS
  <2>2. CASE n = 0
    BY <2>1, <2>2, WmObjsAre
  <2>3. CASE n = 1
    BY <2>1, <2>3, WmObjsAre
  <2>4. CASE n = 2
    BY <2>1, <2>4, WmObjsAre
  <2>5. CASE n = 3
    BY <2>1, <2>5, WmObjsAre
  <2>6. CASE n = 4
    BY <2>1, <2>6, WmObjsAre
  <2>7. CASE n = 5
    BY <2>1, <2>7, WmObjsAre
  <2> QED
    BY <2>2, <2>3, <2>4, <2>5, <2>6, <2>7
<1>2. ASSUME NEW n \in 0..5, IsFiniteSet(WmObjs(n)), Cardinality(WmObjs(n)) = n
      PROVE  IsFiniteSet(WmObjs(n + 1)) /\ Cardinality(WmObjs(n + 1)) = n + 1
  <2>1. /\ IsFiniteSet(WmObjs(n) \cup {WmOrder[n + 1]})
        /\ Cardinality(WmObjs(n) \cup {WmOrder[n + 1]}) = Cardinality(WmObjs(n)) + 1
    BY <1>1, <1>2, FS_AddElement
  <2> QED
    BY <1>1, <1>2, <2>1
<1>3. IsFiniteSet(WmObjs(0)) /\ Cardinality(WmObjs(0)) = 0
  BY WmObjsAre, FS_EmptySet
<1>4. IsFiniteSet(WmObjs(0 + 1)) /\ Cardinality(WmObjs(0 + 1)) = 0 + 1
  BY <1>2, <1>3
<1>5. IsFiniteSet(WmObjs(1 + 1)) /\ Cardinality(WmObjs(1 + 1)) = 1 + 1
  BY <1>2, <1>4
<1>6. IsFiniteSet(WmObjs(2 + 1)) /\ Cardinality(WmObjs(2 + 1)) = 2 + 1
  BY <1>2, <1>5
<1>7. IsFiniteSet(WmObjs(3 + 1)) /\ Cardinality(WmObjs(3 + 1)) = 3 + 1
  BY <1>2, <1>6
<1>8. IsFiniteSet(WmObjs(4 + 1)) /\ Cardinality(WmObjs(4 + 1)) = 4 + 1
  BY <1>2, <1>7
<1>9. IsFiniteSet(WmObjs(5 + 1)) /\ Cardinality(WmObjs(5 + 1)) = 5 + 1
  BY <1>2, <1>8
<1>10. \A n \in 0..6 : Cardinality(WmObjs(n)) = n
  BY <1>3, <1>4, <1>5, <1>6, <1>7, <1>8, <1>9
<1>11. \A n \in 0..6 : WmObjs(n) \subseteq WmKinds
  BY WmObjsAre
<1> QED
  BY <1>1, <1>10, <1>11

LEMMA WmFinite ==
  /\ \A S \in SUBSET (1..WmSlots) : IsFiniteSet(S) /\ Cardinality(S) \in Nat
  /\ \A k, S : Cardinality({k} \cap S) = IF k \in S THEN 1 ELSE 0
<1>1. WmSlots \in Nat
  BY WmAssumption
<1>2. IsFiniteSet(1..WmSlots)
  BY <1>1, FS_Interval
<1>3. \A S \in SUBSET (1..WmSlots) : IsFiniteSet(S)
  BY <1>2, FS_Subset
<1>4. ASSUME NEW k, NEW S PROVE Cardinality({k} \cap S) = IF k \in S THEN 1 ELSE 0
  <2>1. CASE k \in S
    <3>1. {k} \cap S = {k} /\ Cardinality({k}) = 1
      BY <2>1, FS_Singleton
    <3> QED
      BY <2>1, <3>1
  <2>2. CASE k \notin S
    <3>1. {k} \cap S = {}
      BY <2>2
    <3> QED
      BY <2>2, <3>1, FS_EmptySet
  <2> QED
    BY <2>1, <2>2
<1> QED
  BY <1>3, <1>4, FS_CardinalityType

(* A step that makes and moves no object keeps what is counted. *)
LEMMA WmKept ==
  ASSUME WmInv, UNCHANGED wmAlive, wmHold'.objs = wmHold.objs,
         \A s \in 1..WmSlots : wmSes'[s].objs = wmSes[s].objs /\ wmSes'[s].used = wmSes[s].used
  PROVE  WmCounted' /\ WmWhole'
<1>1. \A k \in WmKinds : WmWith(k)' = WmWith(k)
  BY DEF WmWith
<1>2. WmCounted'
  BY <1>1 DEF WmInv, WmCounted
<1> QED
  BY <1>2 DEF WmInv, WmWhole

LEMMA WmHeld ==
  ASSUME WmInv
  PROVE  /\ \E n \in 0..6 : wmHold.objs = WmObjs(n) /\ Cardinality(wmHold.objs) = n
         /\ wmHold.by \in WmOwners /\ WmFree \in WmHolds
         /\ \A by \in WmOwners, n \in 0..6, at \in {"open", "validate", "close", "shutdown"} :
              [WmFree EXCEPT !.by = by, !.at = at, !.objs = WmObjs(n)] \in WmHolds
<1>1. {} \in {WmObjs(n) : n \in 0..6}
  BY WmObjsAre
<1>2. WmFree \in WmHolds
  BY <1>1 DEF WmFree, WmHolds, WmOwners
<1>3. PICK n \in 0..6 : wmHold.objs = WmObjs(n)
  BY DEF WmInv, WmTypes, WmHolds
<1>4. wmHold.by \in WmOwners
  BY DEF WmInv, WmTypes, WmHolds
<1>5. \A by \in WmOwners, m \in 0..6, at \in {"open", "validate", "close", "shutdown"} :
        [WmFree EXCEPT !.by = by, !.at = at, !.objs = WmObjs(m)] \in WmHolds
  BY <1>1 DEF WmFree, WmHolds, WmOwners
<1> QED
  BY <1>2, <1>3, <1>4, <1>5, WmObjsFacts

LEMMA WmBeginInv ==
  ASSUME WmInv, NEW t \in WmThreads, NEW at \in {"open", "validate"}, WmBegin(t, at)
  PROVE  WmInv'
<1>1. /\ wmHold.at = "free" /\ wmHold.objs = {} /\ wmRuntime' \in {wmRuntime, TRUE} /\ wmRuntime' \in BOOLEAN
      /\ UNCHANGED <<wmSes, wmAlive>>
  BY DEF WmBegin, WmMutexFree, WmInv, WmLoaded, WmTypes
<1>2. CASE wmRuntime' /\ wmHold' = [WmFree EXCEPT !.by = t, !.at = at]
  <2>1. wmHold' = [by |-> t, at |-> at, objs |-> {}, report |-> ""]
    BY <1>2 DEF WmFree
  <2>2. wmHold' \in WmHolds
    <3>1. {} \in {WmObjs(n) : n \in 0..6} /\ t \in WmOwners
      BY WmObjsAre DEF WmOwners
    <3> QED
      BY <2>1, <3>1 DEF WmHolds
  <2>3. wmHold'.objs = {} /\ wmHold'.at # "free"
    BY <1>2 DEF WmFree
  <2>4. WmCounted' /\ WmWhole'
    BY <1>1, <2>3, WmKept
  <2> QED
    BY <1>1, <1>2, <2>2, <2>3, <2>4 DEF WmInv, WmTypes, WmLoaded, WmCodes
<1>3. CASE UNCHANGED wmHold
  <2>1. WmCounted' /\ WmWhole'
    BY <1>1, <1>3, WmKept
  <2>2. wmRuntime => wmRuntime'
    BY <1>1
  <2> QED
    BY <1>1, <1>3, <2>1, <2>2 DEF WmInv, WmTypes, WmLoaded, WmCodes
<1> QED
  BY <1>2, <1>3 DEF WmBegin

(* Object number n is made (up) or deleted, by a call that works. *)
LEMMA WmObjectMoves ==
  ASSUME WmInv, NEW n \in 0..5, wmHold.at # "free", wmHold' \in WmHolds, wmHold'.at # "free",
         UNCHANGED <<wmRuntime, wmSes>>,
         \/ /\ wmHold.objs = WmObjs(n) /\ wmHold'.objs = WmObjs(n + 1)
            /\ wmAlive' = [wmAlive EXCEPT ![WmOrder[n + 1]] = @ + 1]
         \/ /\ wmHold.objs = WmObjs(n + 1) /\ wmHold'.objs = WmObjs(n)
            /\ wmAlive' = [wmAlive EXCEPT ![WmOrder[n + 1]] = @ - 1]
  PROVE  WmInv'
<1> DEFINE o == WmOrder[n + 1]
<1>1. o \in WmKinds /\ o \notin WmObjs(n) /\ WmObjs(n + 1) = WmObjs(n) \cup {o}
  BY WmObjsFacts
<1> HIDE DEF o
<1>2. \A k \in WmKinds : WmWith(k)' = WmWith(k) /\ Cardinality(WmWith(k)) \in Nat /\ wmAlive[k] \in Int
  BY WmFinite DEF WmWith, WmInv, WmTypes
<1>3. wmAlive' \in [WmKinds -> Int]
  BY DEF WmInv, WmTypes
<1>4. ASSUME NEW k \in WmKinds
      PROVE  wmAlive'[k] = Cardinality(WmWith(k)') + (IF k \in wmHold'.objs THEN 1 ELSE 0)
  <2>1. wmAlive[k] = Cardinality(WmWith(k)) + (IF k \in wmHold.objs THEN 1 ELSE 0)
    BY DEF WmInv, WmCounted
  <2>2. CASE k # o
    <3>1. wmAlive'[k] = wmAlive[k] /\ (k \in wmHold'.objs <=> k \in wmHold.objs)
      BY <1>1, <2>2 DEF WmInv, WmTypes, o
    <3> QED
      BY <1>2, <2>1, <3>1
  <2>3. CASE k = o /\ wmHold.objs = WmObjs(n) /\ wmHold'.objs = WmObjs(n + 1)
             /\ wmAlive' = [wmAlive EXCEPT ![WmOrder[n + 1]] = @ + 1]
    <3>1. wmAlive[k] = Cardinality(WmWith(k)) + 0 /\ wmAlive'[k] = wmAlive[k] + 1
      BY <1>1, <2>1, <2>3 DEF WmInv, WmTypes, o
    <3>2. wmAlive'[k] = Cardinality(WmWith(k)) + 1
      BY <1>2, <3>1
    <3> QED
      BY <1>1, <1>2, <2>3, <3>2
  <2>4. CASE k = o /\ wmHold.objs = WmObjs(n + 1) /\ wmHold'.objs = WmObjs(n)
             /\ wmAlive' = [wmAlive EXCEPT ![WmOrder[n + 1]] = @ - 1]
    <3>1. wmAlive[k] = Cardinality(WmWith(k)) + 1 /\ wmAlive'[k] = wmAlive[k] - 1
      BY <1>1, <2>1, <2>4 DEF WmInv, WmTypes, o
    <3>2. wmAlive'[k] = Cardinality(WmWith(k)) + 0
      BY <1>2, <3>1
    <3> QED
      BY <1>1, <1>2, <2>4, <3>2
  <2> QED
    BY <2>2, <2>3, <2>4
<1>5. WmCounted'
  BY <1>4 DEF WmCounted
<1> QED
  BY <1>3, <1>5 DEF WmInv, WmTypes, WmWhole, WmLoaded, WmCodes

LEMMA WmBuildInv == ASSUME WmInv, WmBuild PROVE WmInv'
<1> DEFINE n == Cardinality(wmHold.objs)
<1>1. PICK m \in 0..6 : wmHold.objs = WmObjs(m) /\ n = m
  BY WmHeld
<1>2. wmHold.at \in {"open", "validate"} /\ m + 1 \in 1..6 /\ UNCHANGED <<wmRuntime, wmSes>>
  BY <1>1, WmObjsAre DEF WmBuild
<1>3. CASE wmAlive' = [wmAlive EXCEPT ![WmOrder[m + 1]] = @ + 1] /\ wmHold' = [wmHold EXCEPT !.objs = WmObjs(m + 1)]
  <2>1. m \in 0..5 /\ m + 1 \in 0..6
    BY <1>2
  <2>2. wmHold' \in WmHolds /\ wmHold'.at # "free" /\ wmHold'.objs = WmObjs(m + 1)
    BY <1>2, <1>3, <2>1 DEF WmInv, WmTypes, WmHolds
  <2> QED
    BY <1>1, <1>2, <1>3, <2>1, <2>2, WmObjectMoves
<1>4. CASE wmHold' = [wmHold EXCEPT !.at = "close", !.report = "failed"] /\ UNCHANGED wmAlive
  <2>1. wmHold' \in WmHolds /\ wmHold'.at # "free" /\ wmHold'.objs = wmHold.objs
    BY <1>4 DEF WmInv, WmTypes, WmHolds
  <2>2. WmCounted' /\ WmWhole'
    BY <1>2, <1>4, <2>1, WmKept
  <2> QED
    BY <1>2, <1>4, <2>1, <2>2 DEF WmInv, WmTypes, WmLoaded, WmCodes
<1> QED
  BY <1>1, <1>3, <1>4 DEF WmBuild

LEMMA WmCleanupInv == ASSUME WmInv, WmCleanup PROVE WmInv'
<1>1. PICK m \in 0..6 : wmHold.objs = WmObjs(m) /\ Cardinality(wmHold.objs) = m
  BY WmHeld
<1>2. /\ wmHold.at \in {"close", "shutdown"} /\ wmHold.objs # {} /\ UNCHANGED <<wmRuntime, wmSes>>
      /\ wmAlive' = [wmAlive EXCEPT ![WmOrder[m]] = @ - 1]
      /\ wmHold' = [wmHold EXCEPT !.objs = WmObjs(m - 1)]
  BY <1>1 DEF WmCleanup
<1>3. m # 0
  BY <1>1, <1>2, WmObjsAre
<1>4. PICK n \in 0..5 : m = n + 1 /\ m - 1 = n /\ n \in 0..6
  <2>1. m - 1 \in 0..5 /\ m = (m - 1) + 1 /\ m - 1 \in 0..6
    BY <1>3
  <2> QED
    BY <2>1
<1>5. wmHold' \in WmHolds /\ wmHold'.at # "free" /\ wmHold'.objs = WmObjs(n)
  BY <1>2, <1>4 DEF WmInv, WmTypes, WmHolds
<1> QED
  BY <1>1, <1>2, <1>4, <1>5, WmObjectMoves

(* The objects of session s pass from the call that works to it, or back. *)
LEMMA WmSessionMoves ==
  ASSUME WmInv, NEW s \in 1..WmSlots, NEW r \in WmSessions, r.used \in BOOLEAN,
         wmSes' = [wmSes EXCEPT ![s] = r], r.code \in {r.own, "thread"}, UNCHANGED <<wmRuntime, wmAlive>>,
         wmRuntime, wmHold' \in WmHolds, wmHold'.at = "free" => wmHold'.objs = {},
         \/ /\ ~wmSes[s].used /\ wmHold.objs = WmKinds
            /\ r.used /\ r.objs = WmKinds /\ wmHold'.objs = {}
         \/ /\ wmSes[s].used /\ wmHold.objs = {}
            /\ ~r.used /\ r.objs = {} /\ wmHold'.objs = WmKinds
  PROVE  WmInv'
<1>1. wmSes'[s] = r /\ \A q \in 1..WmSlots : q # s => wmSes'[q] = wmSes[q]
  BY DEF WmInv, WmTypes
<1>2. wmSes' \in [1..WmSlots -> WmSessions]
  BY DEF WmInv, WmTypes
<1>3. \A k \in WmKinds : IsFiniteSet(WmWith(k)) /\ Cardinality(WmWith(k)) \in Nat
  BY WmFinite DEF WmWith
<1>4. ASSUME NEW k \in WmKinds
      PROVE  wmAlive'[k] = Cardinality(WmWith(k)') + (IF k \in wmHold'.objs THEN 1 ELSE 0)
  <2>1. wmAlive[k] = Cardinality(WmWith(k)) + (IF k \in wmHold.objs THEN 1 ELSE 0)
    BY DEF WmInv, WmCounted
  <2>2. CASE ~wmSes[s].used
    <3>1. s \notin WmWith(k) /\ WmWith(k)' = WmWith(k) \cup {s}
      BY <1>1, <2>2 DEF WmWith, WmInv, WmWhole
    <3>2. Cardinality(WmWith(k)') = Cardinality(WmWith(k)) + 1
      <4>1. IsFiniteSet(WmWith(k))
        BY <1>3
      <4>2. Cardinality(WmWith(k) \cup {s}) = Cardinality(WmWith(k)) + 1
        BY <3>1, <4>1, FS_AddElement
      <4> QED
        BY <3>1, <4>2
    <3>3. wmAlive'[k] = Cardinality(WmWith(k)) + 1 /\ k \notin wmHold'.objs
      BY <2>1, <2>2
    <3>4. PICK n \in Nat : n = Cardinality(WmWith(k))
      BY <1>3
    <3>5. wmAlive'[k] = n + 1 /\ Cardinality(WmWith(k)') = n + 1
      BY <3>2, <3>3, <3>4
    <3> QED
      BY <3>3, <3>4, <3>5
  <2>3. CASE wmSes[s].used
    <3>1. s \in WmWith(k) /\ WmWith(k)' = WmWith(k) \ {s}
      BY <1>1, <2>3 DEF WmWith, WmInv, WmWhole
    <3>2. Cardinality(WmWith(k)') = Cardinality(WmWith(k)) - 1
      <4>1. IsFiniteSet(WmWith(k))
        BY <1>3
      <4>2. Cardinality(WmWith(k) \ {s}) = Cardinality(WmWith(k)) - 1
        BY <3>1, <4>1, FS_RemoveElement
      <4> QED
        BY <3>1, <4>2
    <3>3. wmAlive[k] = Cardinality(WmWith(k)) + 0 /\ k \in wmHold'.objs
      BY <2>1, <2>3
    <3> QED
      BY <1>3, <3>2, <3>3
  <2> QED
    BY <2>2, <2>3
<1>5. WmCounted'
  BY <1>4 DEF WmCounted
<1>6. WmWhole'
  BY <1>1 DEF WmInv, WmWhole
<1>7. WmLoaded'
  BY DEF WmLoaded
<1>8. WmCodes'
  BY <1>1 DEF WmInv, WmCodes
<1> QED
  BY <1>2, <1>5, <1>6, <1>7, <1>8 DEF WmInv, WmTypes

LEMMA WmAllocateInv == ASSUME WmInv, WmAllocate PROVE WmInv'
<1>1. /\ wmHold.at \in {"open", "validate"} /\ wmHold.objs = WmKinds /\ wmRuntime
      /\ UNCHANGED <<wmRuntime, wmAlive>>
  BY DEF WmAllocate, WmInv, WmLoaded
<1>2. ASSUME NEW s \in DOMAIN wmSes, ~wmSes[s].used, wmHold' = WmFree,
             wmSes' = [wmSes EXCEPT ![s] = [used |-> TRUE, gen |-> NextWmGeneration(@.gen),
                                            owner |-> wmHold.by, objs |-> wmHold.objs,
                                            code |-> "ok", own |-> "ok"]]
      PROVE  WmInv'
  <2> DEFINE r == [used |-> TRUE, gen |-> NextWmGeneration(wmSes[s].gen), owner |-> wmHold.by,
                   objs |-> wmHold.objs, code |-> "ok", own |-> "ok"]
  <2>1. s \in 1..WmSlots /\ wmSes[s] \in WmSessions
    BY DEF WmInv, WmTypes
  <2>2. NextWmGeneration(wmSes[s].gen) \in Int
    <3>1. wmSes[s].gen \in Int
      BY <2>1 DEF WmSessions
    <3> QED
      BY <3>1 DEF NextWmGeneration
  <2>3. r \in WmSessions
    BY <1>1, <2>2, WmHeld DEF WmSessions
  <2>4. r.used = TRUE /\ r.objs = WmKinds /\ r.code = r.own
    BY <1>1
  <2>5. wmSes' = [wmSes EXCEPT ![s] = r]
    BY <1>2
  <2> HIDE DEF r
  <2>6. wmHold' \in WmHolds /\ wmHold'.objs = {} /\ wmHold'.at = "free"
    BY <1>2, WmHeld DEF WmFree
  <2> QED
    BY <1>1, <1>2, <2>1, <2>3, <2>4, <2>5, <2>6, WmSessionMoves
<1>3. CASE UNCHANGED wmSes /\ \E report \in {"ok", "failed"} :
             wmHold' = [wmHold EXCEPT !.at = "close", !.report = report]
  <2>1. wmHold' \in WmHolds /\ wmHold'.at # "free" /\ wmHold'.objs = wmHold.objs
    BY <1>3 DEF WmInv, WmTypes, WmHolds
  <2>2. WmCounted' /\ WmWhole'
    BY <1>1, <1>3, <2>1, WmKept
  <2> QED
    BY <1>1, <1>3, <2>1, <2>2 DEF WmInv, WmTypes, WmLoaded, WmCodes
<1>4. (IF wmHold.at = "validate" THEN "ok" ELSE "failed") \in {"ok", "failed"}
  OBVIOUS
<1> QED
  BY <1>2, <1>3, <1>4 DEF WmAllocate

LEMMA WmTakeOverInv ==
  ASSUME WmInv, NEW s \in 1..WmSlots, wmSes[s].used, wmHold.objs = {}, NEW by \in WmOwners,
         NEW at \in {"close", "shutdown"}, WmTakeOver(s, by, at), UNCHANGED <<wmRuntime, wmAlive>>
  PROVE  WmInv'
<1> DEFINE r == [wmSes[s] EXCEPT !.used = FALSE, !.objs = {}]
<1>1. r \in WmSessions /\ r.used = FALSE /\ r.objs = {} /\ r.code \in {r.own, "thread"}
  BY DEF WmInv, WmTypes, WmSessions, WmCodes
<1>2. wmSes' = [wmSes EXCEPT ![s] = r]
  BY DEF WmTakeOver, WmInv, WmTypes
<1>3. wmHold' = [by |-> by, at |-> at, objs |-> WmKinds, report |-> ""]
  BY DEF WmTakeOver, WmInv, WmWhole, WmFree
<1>4. WmKinds \in {WmObjs(n) : n \in 0..6}
  BY WmObjsAre
<1>5. wmHold' \in WmHolds /\ wmHold'.objs = WmKinds /\ wmHold'.at # "free"
  BY <1>3, <1>4 DEF WmHolds
<1>6. wmRuntime
  BY DEF WmInv, WmLoaded
<1> HIDE DEF r
<1> QED
  BY <1>1, <1>2, <1>5, <1>6, WmSessionMoves

(* A call that only leaves an error, in its session or, with a handle of none, *)
(* in the bridge.                                                            *)
LEMMA WmErrorInv ==
  ASSUME WmInv, UNCHANGED <<wmRuntime, wmAlive, wmHold>>, NEW s \in 1..WmSlots,
         \/ UNCHANGED wmSes
         \/ wmSes' = [wmSes EXCEPT ![s].code = "thread"]
         \/ \E code \in {"ok", "failed"} : wmSes' = [wmSes EXCEPT ![s].code = code, ![s].own = code]
  PROVE  WmInv'
<1>1. wmSes' \in [1..WmSlots -> WmSessions]
  <2>1. wmSes[s] \in WmSessions
    BY DEF WmInv, WmTypes
  <2>2. [wmSes[s] EXCEPT !.code = "thread"] \in WmSessions
    BY <2>1 DEF WmSessions
  <2>3. \A code \in {"ok", "failed"} : [wmSes[s] EXCEPT !.code = code, !.own = code] \in WmSessions
    BY <2>1 DEF WmSessions
  <2>4. CASE UNCHANGED wmSes
    BY <2>4 DEF WmInv, WmTypes
  <2>5. CASE wmSes' = [wmSes EXCEPT ![s].code = "thread"]
    BY <2>2, <2>5 DEF WmInv, WmTypes
  <2>6. ASSUME NEW code \in {"ok", "failed"}, wmSes' = [wmSes EXCEPT ![s].code = code, ![s].own = code]
        PROVE  wmSes' \in [1..WmSlots -> WmSessions]
    <3>1. wmSes' = [wmSes EXCEPT ![s] = [wmSes[s] EXCEPT !.code = code, !.own = code]]
      BY <2>6 DEF WmInv, WmTypes
    <3> QED
      BY <2>3, <3>1 DEF WmInv, WmTypes
  <2> QED
    BY <2>4, <2>5, <2>6
<1>2. \A q \in 1..WmSlots : /\ wmSes'[q].objs = wmSes[q].objs /\ wmSes'[q].used = wmSes[q].used
                            /\ wmSes'[q].code \in {wmSes'[q].own, "thread"}
  <2>1. \A q \in 1..WmSlots : wmSes[q].code \in {wmSes[q].own, "thread"}
    BY DEF WmInv, WmCodes
  <2>2. CASE UNCHANGED wmSes
    BY <2>1, <2>2
  <2>3. CASE wmSes' = [wmSes EXCEPT ![s].code = "thread"]
    BY <2>1, <2>3 DEF WmInv, WmTypes, WmSessions
  <2>4. ASSUME NEW code \in {"ok", "failed"}, wmSes' = [wmSes EXCEPT ![s].code = code, ![s].own = code],
               NEW q \in 1..WmSlots
        PROVE  /\ wmSes'[q].objs = wmSes[q].objs /\ wmSes'[q].used = wmSes[q].used
               /\ wmSes'[q].code \in {wmSes'[q].own, "thread"}
    <3>1. CASE q = s
      <4>1. wmSes'[s] = [wmSes[s] EXCEPT !.code = code, !.own = code] /\ wmSes[s] \in WmSessions
        BY <2>4 DEF WmInv, WmTypes
      <4> QED
        BY <3>1, <4>1 DEF WmSessions
    <3>2. CASE q /= s
      <4>1. wmSes'[q] = wmSes[q]
        BY <2>4, <3>2 DEF WmInv, WmTypes
      <4> QED
        BY <2>1, <4>1
    <3> QED
      BY <3>1, <3>2
  <2> QED
    BY <2>2, <2>3, <2>4
<1>3. WmCounted' /\ WmWhole'
  BY <1>2, WmKept
<1> QED
  BY <1>1, <1>2, <1>3 DEF WmInv, WmTypes, WmLoaded, WmCodes

LEMMA WmHandleInv ==
  ASSUME WmInv, NEW t \in WmThreads, NEW s \in DOMAIN wmSes,
         \/ WmClose(t, s, wmSes[s].gen)
         \/ \E g \in 1..wmSes[s].gen : Refused(t, s, g)
         \/ \E found \in BOOLEAN : HasExport(t, s, found)
         \/ \E found, fits \in BOOLEAN : CallI32(t, s, found, fits, "print", 0)
         \/ \E id \in HostIds, a \in (-WmMaxInt - 1)..WmMaxInt : CallI32(t, s, TRUE, TRUE, id, a)
  PROVE  WmInv'
<1>1. s \in 1..WmSlots
  BY DEF WmInv, WmTypes
<1>2. CASE WmClose(t, s, wmSes[s].gen)
  <2>1. wmSes[s].used /\ wmHold.objs = {} /\ WmTakeOver(s, t, "close") /\ UNCHANGED <<wmRuntime, wmAlive>>
    BY <1>2 DEF WmClose, SessionFromHandle, WmMutexFree, WmInv, WmLoaded
  <2> QED
    BY <1>1, <2>1, WmTakeOverInv DEF WmOwners
<1>3. ASSUME NEW g, Refused(t, s, g) PROVE WmInv'
  BY <1>1, <1>3, WmErrorInv DEF Refused
<1>4. ASSUME NEW found \in BOOLEAN, HasExport(t, s, found) PROVE WmInv'
  <2>1. PICK code \in {"ok", "failed"} : wmSes' = [wmSes EXCEPT ![s].code = code, ![s].own = code]
    BY <1>4 DEF HasExport
  <2> QED
    BY <1>1, <1>4, <2>1, WmErrorInv DEF HasExport
<1>5. ASSUME NEW found \in BOOLEAN, NEW fits \in BOOLEAN, NEW id, NEW a, CallI32(t, s, found, fits, id, a)
      PROVE  WmInv'
  <2>1. PICK code \in {"ok", "failed"} : wmSes' = [wmSes EXCEPT ![s].code = code, ![s].own = code]
    BY <1>5 DEF CallI32
  <2> QED
    BY <1>1, <1>5, <2>1, WmErrorInv DEF CallI32
<1> QED
  BY <1>2, <1>3, <1>4, <1>5

LEMMA WmEndsInv ==
  ASSUME WmInv, WmCleaned \/ WmShutdown \/ (\E t \in WmThreads : WmShutdownBegin(t))
  PROVE  WmInv'
<1>1. WmFree \in WmHolds /\ WmFree.objs = {} /\ WmFree.at = "free"
  BY WmHeld DEF WmFree
<1>2. CASE WmCleaned
  <2>1. wmHold.objs = {} /\ wmHold' = WmFree /\ UNCHANGED <<wmRuntime, wmSes, wmAlive>>
    BY <1>2 DEF WmCleaned
  <2>2. WmCounted' /\ WmWhole'
    BY <1>1, <2>1, WmKept
  <2> QED
    BY <1>1, <2>1, <2>2 DEF WmInv, WmTypes, WmLoaded, WmCodes
<1>3. ASSUME NEW t \in WmThreads, WmShutdownBegin(t) PROVE WmInv'
  <2>1. /\ wmHold.objs = {} /\ wmRuntime /\ wmHold' = [WmFree EXCEPT !.by = t, !.at = "shutdown"]
        /\ UNCHANGED <<wmRuntime, wmSes, wmAlive>>
    BY <1>3 DEF WmShutdownBegin, WmMutexFree, WmInv, WmLoaded
  <2>2. wmHold' = [by |-> t, at |-> "shutdown", objs |-> {}, report |-> ""]
    BY <2>1 DEF WmFree
  <2>3. {} \in {WmObjs(n) : n \in 0..6} /\ t \in WmOwners
    BY WmObjsAre DEF WmOwners
  <2>4. wmHold' \in WmHolds /\ wmHold'.objs = {}
    BY <2>2, <2>3 DEF WmHolds
  <2>5. WmCounted' /\ WmWhole'
    BY <2>1, <2>4, WmKept
  <2> QED
    BY <2>1, <2>4, <2>5 DEF WmInv, WmTypes, WmLoaded, WmCodes
<1>4. CASE WmShutdown
  <2>1. wmHold.at = "shutdown" /\ wmHold.objs = {} /\ UNCHANGED wmAlive /\ wmHold.by \in WmOwners
    BY <1>4, WmHeld DEF WmShutdown
  <2>2. ASSUME NEW s \in DOMAIN wmSes, wmSes[s].used, WmTakeOver(s, wmHold.by, "shutdown"), UNCHANGED wmRuntime
        PROVE  WmInv'
    <3>1. s \in 1..WmSlots
      BY DEF WmInv, WmTypes
    <3> QED
      BY <2>1, <2>2, <3>1, WmTakeOverInv
  <2>3. CASE /\ \A s \in DOMAIN wmSes : ~wmSes[s].used
             /\ wmRuntime' = FALSE /\ wmHold' = WmFree /\ UNCHANGED wmSes
    <3>1. \A s \in 1..WmSlots : ~wmSes[s].used
      BY <2>3 DEF WmInv, WmTypes
    <3>2. WmCounted' /\ WmWhole'
      BY <1>1, <2>1, <2>3, WmKept
    <3> QED
      BY <1>1, <2>1, <2>3, <3>1, <3>2 DEF WmInv, WmTypes, WmLoaded, WmCodes
  <2> QED
    BY <1>4, <2>2, <2>3 DEF WmShutdown
<1> QED
  BY <1>2, <1>3, <1>4

LEMMA WmInitInv == WmInit => WmInv
<1> SUFFICES ASSUME WmInit PROVE WmInv
  OBVIOUS
<1> DEFINE r == [used |-> FALSE, gen |-> 0, owner |-> CHOOSE t \in WmThreads : TRUE,
                 objs |-> {}, code |-> "ok", own |-> "ok"]
<1>1. r \in WmSessions /\ r.objs = {} /\ ~r.used /\ r.code = r.own
  BY DEF WmSessions, WmOwners
<1>2. /\ wmRuntime = FALSE /\ wmSes = [s \in 1..WmSlots |-> r] /\ wmHold = WmFree
      /\ wmAlive = [k \in WmKinds |-> 0]
  BY DEF WmInit
<1> HIDE DEF r
<1>3. wmHold \in WmHolds /\ wmHold.objs = {} /\ wmHold.at = "free"
  <2>1. {} \in {WmObjs(n) : n \in 0..6}
    BY WmObjsAre
  <2> QED
    BY <1>2, <2>1 DEF WmFree, WmHolds, WmOwners
<1>4. WmTypes /\ WmWhole /\ WmLoaded /\ WmCodes
  <2>1. \A s \in 1..WmSlots : wmSes[s] = r
    BY <1>2
  <2>2. WmTypes
    <3>1. wmSes \in [1..WmSlots -> WmSessions]
      BY <1>1, <1>2
    <3>2. wmAlive \in [WmKinds -> Int]
      BY <1>2
    <3>3. wmRuntime \in BOOLEAN
      BY <1>2
    <3> QED
      BY <1>3, <3>1, <3>2, <3>3 DEF WmTypes
  <2>3. WmWhole /\ WmCodes
    BY <1>1, <2>1 DEF WmWhole, WmCodes
  <2>4. WmLoaded
    BY <1>1, <1>3, <2>1 DEF WmLoaded
  <2> QED
    BY <2>2, <2>3, <2>4
<1>5. ASSUME NEW k \in WmKinds
      PROVE  wmAlive[k] = Cardinality(WmWith(k)) + (IF k \in wmHold.objs THEN 1 ELSE 0)
  <2>1. WmWith(k) = {} /\ wmAlive[k] = 0 /\ k \notin wmHold.objs
    BY <1>1, <1>2, <1>3 DEF WmWith
  <2> QED
    BY <2>1, FS_EmptySet
<1> QED
  BY <1>4, <1>5 DEF WmInv, WmCounted

LEMMA WmNextInv == ASSUME WmInv, [WmNext]_wmVars PROVE WmInv'
<1>1. CASE UNCHANGED wmVars
  BY <1>1 DEF wmVars, WmInv, WmTypes, WmCounted, WmWith, WmWhole, WmLoaded, WmCodes
<1>2. CASE WmNext
  BY <1>2, WmBeginInv, WmHandleInv, WmBuildInv, WmAllocateInv, WmCleanupInv, WmEndsInv DEF WmNext
<1> QED
  BY <1>1, <1>2

LEMMA WmInvHolds == WmInv => WmObjectsAccounted
<1> SUFFICES ASSUME WmInv PROVE WmObjectsAccounted
  OBVIOUS
<1>1. DOMAIN wmSes = 1..WmSlots
  BY DEF WmInv, WmTypes
<1>2. \A k \in WmKinds :
        wmAlive[k] = Cardinality({s \in DOMAIN wmSes : k \in wmSes[s].objs}) + Cardinality({k} \cap wmHold.objs)
  BY <1>1, WmFinite DEF WmInv, WmCounted, WmWith
<1>3. ASSUME NEW k \in WmKinds, wmAlive[k] > 0 PROVE wmRuntime
  <2>1. CASE WmWith(k) = {} /\ k \notin wmHold.objs
    <3>1. wmAlive[k] = 0
      BY <2>1, FS_EmptySet DEF WmInv, WmCounted
    <3> QED
      BY <1>3, <3>1
  <2>2. CASE k \in wmHold.objs
    BY <2>2 DEF WmInv, WmLoaded
  <2>3. ASSUME NEW s \in 1..WmSlots, k \in wmSes[s].objs PROVE wmRuntime
    BY <2>3 DEF WmInv, WmLoaded, WmWhole
  <2> QED
    BY <2>1, <2>2, <2>3 DEF WmWith
<1> QED
  BY <1>1, <1>2, <1>3 DEF WmInv, WmWhole, WmCodes, WmObjectsAccounted

(* Whichever step of an open fails and whatever shutdown meets, every Wasmtime *)
(* object belongs to one session or to the call that works on it, and the      *)
(* library outlives them, for any number of threads and sessions              *)
(* (WmObjectsAccounted).                                                     *)
THEOREM WasmObjectsAccounted == WmSpec => []WmObjectsAccounted
  BY WmInitInv, WmNextInv, WmInvHolds, PTL DEF WmSpec

-----------------------------------------------------------------------------
(* Python *)

PyPlaces == {"idle", "start", "open", "import", "use", "close", "held", "drop", "shutdown"}
PyHolds == [PyObjects -> 0..PyObjSlots]
PyCalls == [at : PyPlaces, ses : Nat, held : PyHolds]
PyEntries == [active : BOOLEAN, gen : Nat, ses : Nat, obj : PyObjects \cup {CHOOSE o \in PyObjects : TRUE}]

PyTypes ==
  /\ DOMAIN pySes = 1..PySesSlots
  /\ pyObj \in [1..PyObjSlots -> PyEntries]
  /\ pyRef \in [PyObjects -> Int]
  /\ pyCall \in [PyThreads -> PyCalls]

(* A call holds references while it uses an object or drops what it cleared.   *)
PyHeldInUse ==
  /\ \A t \in PyThreads : pyCall[t].at \notin {"held", "drop"} => pyCall[t].held = NoRefs
  /\ \A i \in 1..PyObjSlots : pyObj[i].active => pyObj[i].obj \in PyObjects

(* The entries of o, and the references to o that calls hold. *)
PyOf(o) == {i \in 1..PyObjSlots : pyObj[i].active /\ pyObj[i].obj = o}
PyUses(o) == {use \in PyThreads \X (1..PyObjSlots) : use[2] <= pyCall[use[1]].held[o]}

PyCounted == \A o \in PyObjects : pyRef[o] = Cardinality(PyOf(o)) + Cardinality(PyUses(o))

PyInv == PyTypes /\ PyHeldInUse /\ PyCounted

LEMMA PyFinite ==
  /\ \A S \in SUBSET (1..PyObjSlots) : IsFiniteSet(S) /\ Cardinality(S) \in 0..PyObjSlots
  /\ \A S \in SUBSET (PyThreads \X (1..PyObjSlots)) : IsFiniteSet(S) /\ Cardinality(S) \in Nat
<1>1. PyObjSlots \in Nat /\ IsFiniteSet(PyThreads)
  BY PyAssumption
<1>2. IsFiniteSet(1..PyObjSlots) /\ Cardinality(1..PyObjSlots) = PyObjSlots
  <2>1. /\ IsFiniteSet(1..PyObjSlots)
        /\ Cardinality(1..PyObjSlots) = IF 1 > PyObjSlots THEN 0 ELSE PyObjSlots - 1 + 1
    BY <1>1, FS_Interval
  <2> QED
    BY <1>1, <2>1
<1>3. ASSUME NEW S \in SUBSET (1..PyObjSlots) PROVE IsFiniteSet(S) /\ Cardinality(S) \in 0..PyObjSlots
  <2>1. IsFiniteSet(S) /\ Cardinality(S) <= PyObjSlots
    BY <1>2, FS_Subset
  <2>2. Cardinality(S) \in Nat
    BY <2>1, FS_CardinalityType
  <2> QED
    BY <1>1, <2>1, <2>2
<1>4. IsFiniteSet(PyThreads \X (1..PyObjSlots))
  BY <1>1, <1>2, FS_Product
<1>5. ASSUME NEW S \in SUBSET (PyThreads \X (1..PyObjSlots)) PROVE IsFiniteSet(S) /\ Cardinality(S) \in Nat
  <2>1. IsFiniteSet(S)
    BY <1>4, FS_Subset
  <2> QED
    BY <2>1, FS_CardinalityType
<1> QED
  BY <1>3, <1>5

(* What thread t holds of o is counted once: as many pairs as references. *)
LEMMA PyUsesOf ==
  ASSUME NEW t \in PyThreads, NEW held \in [PyThreads -> 0..PyObjSlots]
  PROVE  Cardinality({use \in PyThreads \X (1..PyObjSlots) : use[2] <= held[use[1]]})
           = Cardinality({use \in PyThreads \X (1..PyObjSlots) : use[1] # t /\ use[2] <= held[use[1]]}) + held[t]
<1> DEFINE all == {use \in PyThreads \X (1..PyObjSlots) : use[2] <= held[use[1]]}
           rest == {use \in PyThreads \X (1..PyObjSlots) : use[1] # t /\ use[2] <= held[use[1]]}
           mine == {t} \X (1..held[t])
<1>1. held[t] \in Nat /\ held[t] <= PyObjSlots /\ PyObjSlots \in Nat
  BY PyAssumption
<1>2. IsFiniteSet(1..held[t]) /\ Cardinality(1..held[t]) = held[t]
  <2>1. PICK m \in Nat : m = held[t]
    BY <1>1
  <2>2. IsFiniteSet(1..m) /\ Cardinality(1..m) = IF 1 > m THEN 0 ELSE m - 1 + 1
    BY FS_Interval
  <2>3. Cardinality(1..m) = m
    BY <2>2
  <2> QED
    BY <2>1, <2>2, <2>3
<1>3. IsFiniteSet({t}) /\ Cardinality({t}) = 1
  BY FS_Singleton
<1>4. IsFiniteSet(mine) /\ Cardinality(mine) = 1 * held[t]
  BY <1>2, <1>3, FS_Product
<1>5. IsFiniteSet(rest) /\ Cardinality(rest) \in Nat
  BY PyFinite
<1>6. all = rest \cup mine /\ rest \cap mine = {}
  <2>1. \A x \in mine : x \in all
    BY <1>1
  <2>2. \A x \in all : x \in rest \/ x \in mine
    BY <1>1
  <2>3. \A x \in rest : x \in all /\ x \notin mine
    OBVIOUS
  <2> QED
    BY <2>1, <2>2, <2>3
<1> HIDE DEF all, rest, mine
<1>7. Cardinality(all) = Cardinality(rest) + Cardinality(mine) - Cardinality(rest \cap mine)
  BY <1>4, <1>5, <1>6, FS_Union
<1>8. Cardinality(rest \cap mine) = 0 /\ Cardinality(mine) = held[t]
  BY <1>1, <1>4, <1>6, FS_EmptySet
<1>9. Cardinality(all) = Cardinality(rest) + held[t]
  BY <1>1, <1>5, <1>7, <1>8
<1> QED
  BY <1>9 DEF all, rest

(* Thread t goes on with call c: its references, the entries and the count of  *)
(* an object change by the same number.                                      *)
LEMMA PyStep ==
  ASSUME PyInv, NEW t \in PyThreads, NEW c \in PyCalls, c.at \notin {"held", "drop"} => c.held = NoRefs,
         pyCall' = [pyCall EXCEPT ![t] = c], DOMAIN pySes' = 1..PySesSlots,
         pyObj' \in [1..PyObjSlots -> PyEntries], pyRef' \in [PyObjects -> Int],
         \A i \in 1..PyObjSlots : pyObj'[i].active => pyObj'[i].obj \in PyObjects,
         \A o \in PyObjects : \E d \in Int : \E h \in Int :
           /\ Cardinality(PyOf(o)') = Cardinality(PyOf(o)) + d
           /\ c.held[o] = pyCall[t].held[o] + h
           /\ pyRef'[o] = pyRef[o] + (d + h)
  PROVE  PyInv'
<1>1. pyCall'[t] = c /\ (\A u \in PyThreads : u # t => pyCall'[u] = pyCall[u]) /\ pyCall' \in [PyThreads -> PyCalls]
  BY DEF PyInv, PyTypes
<1>2. PyTypes' /\ PyHeldInUse'
  BY <1>1 DEF PyInv, PyTypes, PyHeldInUse
<1>3. ASSUME NEW o \in PyObjects PROVE pyRef'[o] = Cardinality(PyOf(o)') + Cardinality(PyUses(o)')
  <2> DEFINE old == [u \in PyThreads |-> pyCall[u].held[o]]
             new == [u \in PyThreads |-> pyCall'[u].held[o]]
             rest == {use \in PyThreads \X (1..PyObjSlots) : use[1] # t /\ use[2] <= old[use[1]]}
  <2>1. old \in [PyThreads -> 0..PyObjSlots] /\ new \in [PyThreads -> 0..PyObjSlots]
    BY <1>1 DEF PyInv, PyTypes, PyCalls, PyHolds
  <2>2. PyUses(o) = {use \in PyThreads \X (1..PyObjSlots) : use[2] <= old[use[1]]}
    BY DEF PyUses
  <2>3. PyUses(o)' = {use \in PyThreads \X (1..PyObjSlots) : use[2] <= new[use[1]]}
    BY DEF PyUses
  <2>4. {use \in PyThreads \X (1..PyObjSlots) : use[1] # t /\ use[2] <= new[use[1]]} = rest
    BY <1>1
  <2>5. old[t] = pyCall[t].held[o] /\ new[t] = c.held[o]
    BY <1>1
  <2> HIDE DEF old, new
  <2>6. Cardinality(PyUses(o)) = Cardinality(rest) + old[t]
    BY <2>1, <2>2, PyUsesOf
  <2>7. Cardinality(PyUses(o)') = Cardinality(rest) + new[t]
    BY <2>1, <2>3, <2>4, PyUsesOf
  <2>8. PICK d \in Int, h \in Int :
          /\ Cardinality(PyOf(o)') = Cardinality(PyOf(o)) + d
          /\ c.held[o] = pyCall[t].held[o] + h
          /\ pyRef'[o] = pyRef[o] + (d + h)
    OBVIOUS
  <2>9. /\ Cardinality(rest) \in Int /\ Cardinality(PyOf(o)) \in Int
        /\ old[t] \in Int /\ new[t] \in Int /\ new[t] = old[t] + h
    <3>1. Cardinality(rest) \in Nat /\ Cardinality(PyOf(o)) \in 0..PyObjSlots
      BY PyFinite DEF PyOf
    <3>2. old[t] \in 0..PyObjSlots /\ new[t] \in 0..PyObjSlots
      BY <2>1
    <3> QED
      BY <2>5, <2>8, <3>1, <3>2
  <2>10. pyRef[o] = Cardinality(PyOf(o)) + (Cardinality(rest) + old[t])
    BY <2>6 DEF PyInv, PyCounted
  <2>11. \A p, r, x, dd, hh \in Int : (p + (r + x)) + (dd + hh) = (p + dd) + (r + (x + hh))
    OBVIOUS
  <2>12. pyRef'[o] = (Cardinality(PyOf(o)) + (Cardinality(rest) + old[t])) + (d + h)
    BY <2>8, <2>10
  <2>13. Cardinality(PyOf(o)') + Cardinality(PyUses(o)')
           = (Cardinality(PyOf(o)) + d) + (Cardinality(rest) + (old[t] + h))
    BY <2>7, <2>8, <2>9
  <2> QED
    BY <2>9, <2>11, <2>12, <2>13
<1> QED
  BY <1>2, <1>3 DEF PyInv, PyCounted

LEMMA PyNoRefs ==
  /\ NoRefs \in PyHolds /\ \A o \in PyObjects : NoRefs[o] = 0
  /\ PyIdle \in PyCalls /\ PyIdle.at = "idle" /\ PyIdle.held = NoRefs
<1>1. 0 \in 0..PyObjSlots
  BY PyAssumption
<1>2. NoRefs \in PyHolds /\ \A o \in PyObjects : NoRefs[o] = 0
  BY <1>1 DEF NoRefs, PyHolds
<1> QED
  BY <1>2 DEF PyIdle, PyCalls, PyPlaces

(* A step that moves no reference. *)
LEMMA PyQuietStep ==
  ASSUME PyInv, NEW t \in PyThreads, NEW c \in PyCalls, c.held = pyCall[t].held,
         c.at \notin {"held", "drop"} => c.held = NoRefs,
         pyCall' = [pyCall EXCEPT ![t] = c], DOMAIN pySes' = 1..PySesSlots, UNCHANGED <<pyObj, pyRef>>
  PROVE  PyInv'
<1>1. ASSUME NEW o \in PyObjects
      PROVE  \E d \in Int : \E h \in Int :
               /\ Cardinality(PyOf(o)') = Cardinality(PyOf(o)) + d
               /\ c.held[o] = pyCall[t].held[o] + h
               /\ pyRef'[o] = pyRef[o] + (d + h)
  <2>1. PyOf(o)' = PyOf(o) /\ Cardinality(PyOf(o)) \in Int
    <3>1. Cardinality(PyOf(o)) \in 0..PyObjSlots
      BY PyFinite DEF PyOf
    <3> QED
      BY <3>1 DEF PyOf
  <2>2. c.held[o] \in Int
    <3>1. c.held \in PyHolds
      BY DEF PyCalls
    <3> QED
      BY <3>1 DEF PyHolds
  <2>3. pyRef[o] \in Int /\ pyRef'[o] = pyRef[o]
    BY DEF PyInv, PyTypes
  <2>4. \A n \in Int : n = n + 0 /\ n = n + (0 + 0)
    OBVIOUS
  <2>5. /\ Cardinality(PyOf(o)') = Cardinality(PyOf(o)) + 0
        /\ c.held[o] = pyCall[t].held[o] + 0
        /\ pyRef'[o] = pyRef[o] + (0 + 0)
    BY <2>1, <2>2, <2>3, <2>4
  <2> QED
    BY <2>5
<1>2. pyObj' \in [1..PyObjSlots -> PyEntries] /\ pyRef' \in [PyObjects -> Int]
  BY DEF PyInv, PyTypes
<1>3. \A i \in 1..PyObjSlots : pyObj'[i].active => pyObj'[i].obj \in PyObjects
  BY DEF PyInv, PyHeldInUse
<1> QED
  BY <1>1, <1>2, <1>3, PyStep

(* Thread t, which holds the references refs, is done with its call, and gives *)
(* them up (DecRef).                                                         *)
LEMMA PyDropInv ==
  ASSUME PyInv, NEW t \in PyThreads, DecRef(pyCall[t].held), UNCHANGED pyObj,
         pyCall' = [pyCall EXCEPT ![t] = PyIdle], DOMAIN pySes' = 1..PySesSlots
  PROVE  PyInv'
<1>1. pyCall[t].held \in PyHolds
  BY DEF PyInv, PyTypes, PyCalls
<1>2. ASSUME NEW o \in PyObjects
      PROVE  \E d \in Int : \E h \in Int :
               /\ Cardinality(PyOf(o)') = Cardinality(PyOf(o)) + d
               /\ PyIdle.held[o] = pyCall[t].held[o] + h
               /\ pyRef'[o] = pyRef[o] + (d + h)
  <2>1. PyOf(o)' = PyOf(o) /\ Cardinality(PyOf(o)) \in Int
    <3>1. Cardinality(PyOf(o)) \in 0..PyObjSlots
      BY PyFinite DEF PyOf
    <3> QED
      BY <3>1 DEF PyOf
  <2>2. PICK n \in Int : n = pyCall[t].held[o]
    BY <1>1 DEF PyHolds
  <2>3. pyRef[o] \in Int /\ pyRef'[o] = pyRef[o] - n
    BY <2>2 DEF DecRef, PyInv, PyTypes
  <2>4. \A m, p \in Int : m = m + 0 /\ 0 = p + (-p) /\ m - p = m + (0 + (-p)) /\ -p \in Int
    OBVIOUS
  <2>5. /\ Cardinality(PyOf(o)') = Cardinality(PyOf(o)) + 0
        /\ PyIdle.held[o] = pyCall[t].held[o] + (-n)
        /\ pyRef'[o] = pyRef[o] + (0 + (-n)) /\ -n \in Int
    BY <2>1, <2>2, <2>3, <2>4, PyNoRefs
  <2> QED
    BY <2>5
<1>3. pyObj' \in [1..PyObjSlots -> PyEntries]
  BY DEF PyInv, PyTypes
<1>4. pyRef' \in [PyObjects -> Int]
  <2>1. \A o \in PyObjects : pyRef[o] - pyCall[t].held[o] \in Int
    BY <1>1 DEF PyInv, PyTypes, PyHolds
  <2> QED
    BY <2>1 DEF DecRef
<1>5. \A i \in 1..PyObjSlots : pyObj'[i].active => pyObj'[i].obj \in PyObjects
  BY DEF PyInv, PyHeldInUse
<1> QED
  BY <1>2, <1>3, <1>4, <1>5, PyNoRefs, PyStep

(* An answer o takes the place of the references that t held. *)
LEMMA PlaceInv ==
  ASSUME PyInv, NEW t \in PyThreads, NEW o \in PyObjects, Place(t, o, pyCall[t].held),
         pyCall' = [pyCall EXCEPT ![t] = PyIdle], DOMAIN pySes' = 1..PySesSlots
  PROVE  PyInv'
<1>1. pyCall[t].held \in PyHolds /\ pyCall[t].ses \in Nat
  BY DEF PyInv, PyTypes, PyCalls
<1>2. PICK i \in 1..PyObjSlots :
        /\ ~pyObj[i].active
        /\ pyObj' = [pyObj EXCEPT ![i] = [active |-> TRUE, gen |-> @.gen + 1, ses |-> pyCall[t].ses, obj |-> o]]
        /\ pyRef' = [x \in PyObjects |-> pyRef[x] + OneRef(o)[x] - pyCall[t].held[x]]
  BY DEF Place, PyFree, PyInv, PyTypes
<1> DEFINE e == [active |-> TRUE, gen |-> pyObj[i].gen + 1, ses |-> pyCall[t].ses, obj |-> o]
<1>3. e \in PyEntries /\ e.active = TRUE /\ e.obj = o
  <2>1. pyObj[i].gen + 1 \in Nat
    BY DEF PyInv, PyTypes, PyEntries
  <2> QED
    BY <1>1, <2>1 DEF PyEntries
<1>4. pyObj' = [pyObj EXCEPT ![i] = e]
  BY <1>2
<1> HIDE DEF e
<1>5. /\ pyObj' \in [1..PyObjSlots -> PyEntries] /\ pyObj'[i] = e
      /\ \A j \in 1..PyObjSlots : j # i => pyObj'[j] = pyObj[j]
  BY <1>3, <1>4 DEF PyInv, PyTypes
<1>6. ASSUME NEW x \in PyObjects
      PROVE  /\ \E d \in Int : \E h \in Int :
                  /\ Cardinality(PyOf(x)') = Cardinality(PyOf(x)) + d
                  /\ PyIdle.held[x] = pyCall[t].held[x] + h
                  /\ pyRef'[x] = pyRef[x] + (d + h)
             /\ pyRef'[x] \in Int
  <2> DEFINE d == IF x = o THEN 1 ELSE 0
  <2>1. i \notin PyOf(x) /\ PyOf(x)' = IF x = o THEN PyOf(x) \cup {i} ELSE PyOf(x)
    BY <1>2, <1>3, <1>5 DEF PyOf
  <2>2. IsFiniteSet(PyOf(x)) /\ Cardinality(PyOf(x)) \in Int
    <3>1. IsFiniteSet(PyOf(x)) /\ Cardinality(PyOf(x)) \in 0..PyObjSlots
      BY PyFinite DEF PyOf
    <3> QED
      BY <3>1
  <2>3. Cardinality(PyOf(x)') = Cardinality(PyOf(x)) + d
    <3>1. CASE x = o
      BY <2>1, <2>2, <3>1, FS_AddElement
    <3>2. CASE x # o
      BY <2>1, <2>2, <3>2
    <3> QED
      BY <3>1, <3>2
  <2>4. PICK n \in Int : n = pyCall[t].held[x]
    BY <1>1 DEF PyHolds
  <2>5. OneRef(o)[x] = d /\ d \in Int
    BY PyNoRefs DEF OneRef, NoRefs
  <2> HIDE DEF d
  <2>6. pyRef[x] \in Int /\ pyRef'[x] = pyRef[x] + d - n
    BY <1>2, <2>4, <2>5 DEF PyInv, PyTypes
  <2>7. \A m, k, p \in Int : 0 = p + (-p) /\ m + k - p = m + (k + (-p)) /\ -p \in Int /\ m + k - p \in Int
    OBVIOUS
  <2>8. PyIdle.held[x] = pyCall[t].held[x] + (-n) /\ pyRef'[x] = pyRef[x] + (d + (-n)) /\ -n \in Int
    BY <2>4, <2>5, <2>6, <2>7, PyNoRefs
  <2>9. pyRef'[x] \in Int
    BY <2>5, <2>6, <2>7
  <2> QED
    BY <2>3, <2>5, <2>8, <2>9
<1>7. pyRef' \in [PyObjects -> Int]
  BY <1>2, <1>6
<1>8. \A j \in 1..PyObjSlots : pyObj'[j].active => pyObj'[j].obj \in PyObjects
  BY <1>3, <1>5 DEF PyInv, PyHeldInUse
<1> QED
  BY <1>5, <1>6, <1>7, <1>8, PyNoRefs, PyStep

LEMMA PyReturnInv ==
  ASSUME PyInv, NEW t \in PyThreads, PyReturn(t) PROVE PyInv'
<1>1. pyCall' = [pyCall EXCEPT ![t] = PyIdle] /\ DOMAIN pySes' = 1..PySesSlots
  BY DEF PyReturn, PyInv, PyTypes
<1>2. CASE DecRef(pyCall[t].held) /\ UNCHANGED pyObj
  BY <1>1, <1>2, PyDropInv
<1>3. ASSUME NEW o \in PyObjects, Place(t, o, pyCall[t].held) PROVE PyInv'
  BY <1>1, <1>3, PlaceInv
<1> QED
  BY <1>2, <1>3 DEF PyReturn, Store

LEMMA AcquireInv ==
  ASSUME PyInv, NEW t \in PyThreads, Acquire(t) PROVE PyInv'
<1>1. /\ pyCall[t].at = "use" /\ pyCall[t].held = NoRefs /\ pyCall[t] \in PyCalls
      /\ DOMAIN pySes' = 1..PySesSlots /\ UNCHANGED pyObj
  BY DEF Acquire, PyInv, PyTypes, PyHeldInUse
<1>2. CASE UNCHANGED pyRef /\ pyCall' = [pyCall EXCEPT ![t] = PyIdle]
  BY <1>1, <1>2, PyNoRefs, PyQuietStep
<1>3. ASSUME NEW i \in 1..PyObjSlots, pyObj[i].active,
             pyRef' = [pyRef EXCEPT ![pyObj[i].obj] = @ + 1],
             pyCall' = [pyCall EXCEPT ![t].at = "held", ![t].held = OneRef(pyObj[i].obj)]
      PROVE  PyInv'
  <2> DEFINE o == pyObj[i].obj
             c == [pyCall[t] EXCEPT !.at = "held", !.held = OneRef(o)]
  <2>1. o \in PyObjects
    BY <1>3 DEF PyInv, PyHeldInUse
  <2> HIDE DEF o
  <2>2. OneRef(o) \in PyHolds /\ \A x \in PyObjects : OneRef(o)[x] = IF x = o THEN 1 ELSE 0
    <3>1. 0 \in 0..PyObjSlots /\ 1 \in 0..PyObjSlots
      BY PyAssumption, <1>3
    <3> QED
      BY <2>1, <3>1 DEF OneRef, NoRefs, PyHolds
  <2>3. c \in PyCalls /\ c.at = "held" /\ c.held = OneRef(o)
    BY <1>1, <2>2 DEF PyCalls, PyPlaces
  <2>4. pyCall' = [pyCall EXCEPT ![t] = c]
    BY <1>3 DEF PyInv, PyTypes, o
  <2> HIDE DEF c
  <2>5. pyRef' = [pyRef EXCEPT ![o] = @ + 1]
    BY <1>3 DEF o
  <2>6. pyRef' \in [PyObjects -> Int] /\ pyObj' \in [1..PyObjSlots -> PyEntries]
    <3>1. pyRef \in [PyObjects -> Int] /\ pyRef[o] + 1 \in Int
      BY <2>1 DEF PyInv, PyTypes
    <3>2. pyRef' \in [PyObjects -> Int]
      BY <2>1, <2>5, <3>1
    <3> QED
      BY <1>1, <3>2 DEF PyInv, PyTypes
  <2>7. ASSUME NEW x \in PyObjects
        PROVE  \E d \in Int : \E h \in Int :
                 /\ Cardinality(PyOf(x)') = Cardinality(PyOf(x)) + d
                 /\ c.held[x] = pyCall[t].held[x] + h
                 /\ pyRef'[x] = pyRef[x] + (d + h)
    <3> DEFINE h == IF x = o THEN 1 ELSE 0
    <3>1. PyOf(x)' = PyOf(x) /\ Cardinality(PyOf(x)) \in Int
      <4>1. Cardinality(PyOf(x)) \in 0..PyObjSlots
        BY PyFinite DEF PyOf
      <4> QED
        BY <1>1, <4>1 DEF PyOf
    <3>2. c.held[x] = h /\ pyCall[t].held[x] = 0 /\ h \in Int
      BY <1>1, <2>2, <2>3, PyNoRefs
    <3>3. pyRef[x] \in Int /\ pyRef'[x] = pyRef[x] + h
      <4>1. pyRef \in [PyObjects -> Int] /\ pyRef[x] \in Int
        BY DEF PyInv, PyTypes
      <4>2. \A n \in Int : n = n + 0
        OBVIOUS
      <4>3. CASE x = o
        BY <2>1, <2>5, <4>1, <4>3
      <4>4. CASE x # o
        <5>1. pyRef'[x] = pyRef[x] /\ h = 0
          BY <2>5, <4>1, <4>4
        <5> QED
          BY <4>1, <4>2, <5>1
      <4> QED
        BY <4>3, <4>4
    <3> HIDE DEF h
    <3>4. \A m, k \in Int : m = m + 0 /\ k = 0 + k /\ m + k = m + (0 + k)
      OBVIOUS
    <3>5. /\ Cardinality(PyOf(x)') = Cardinality(PyOf(x)) + 0
          /\ c.held[x] = pyCall[t].held[x] + h
          /\ pyRef'[x] = pyRef[x] + (0 + h)
      BY <3>1, <3>2, <3>3, <3>4
    <3>6. PICK d \in Int : d = 0
      OBVIOUS
    <3>7. PICK g \in Int : g = h
      BY <3>2
    <3>8. /\ Cardinality(PyOf(x)') = Cardinality(PyOf(x)) + d
          /\ c.held[x] = pyCall[t].held[x] + g
          /\ pyRef'[x] = pyRef[x] + (d + g)
      BY <3>5, <3>6, <3>7
    <3> QED
      BY <3>8, Zenon
  <2>8. \A j \in 1..PyObjSlots : pyObj'[j].active => pyObj'[j].obj \in PyObjects
    BY <1>1 DEF PyInv, PyHeldInUse
  <2> QED
    BY <1>1, <2>3, <2>4, <2>6, <2>7, <2>8, PyStep
<1> QED
  BY <1>2, <1>3 DEF Acquire, PyInv, PyTypes

(* The entries I are cleared, and t holds their references: what leaves the   *)
(* table of an object is what is held of it.                                 *)
LEMMA DeactivateInv ==
  ASSUME PyInv, NEW t \in PyThreads, NEW I \in SUBSET (1..PyObjSlots), \A i \in I : pyObj[i].active,
         pyCall[t].held = NoRefs, Deactivate(t, I), DOMAIN pySes' = 1..PySesSlots
  PROVE  PyInv'
<1> DEFINE held == [o \in PyObjects |-> Cardinality({i \in I : pyObj[i].obj = o})]
           c == [pyCall[t] EXCEPT !.at = "drop", !.held = held]
<1>1. held \in PyHolds
  <2>1. ASSUME NEW o \in PyObjects PROVE Cardinality({i \in I : pyObj[i].obj = o}) \in 0..PyObjSlots
    <3>1. {i \in I : pyObj[i].obj = o} \in SUBSET (1..PyObjSlots)
      OBVIOUS
    <3> QED
      BY <3>1, PyFinite
  <2> QED
    BY <2>1 DEF PyHolds
<1>2. pyCall[t] \in PyCalls /\ pyRef' = pyRef /\ pyRef \in [PyObjects -> Int]
  BY DEF Deactivate, PyInv, PyTypes
<1>3. pyCall' = [pyCall EXCEPT ![t] = c]
  BY DEF Deactivate, PyInv, PyTypes
<1>4. \A o \in PyObjects : held[o] = Cardinality({i \in I : pyObj[i].obj = o})
  OBVIOUS
<1> HIDE DEF held
<1>5. c \in PyCalls /\ c.at = "drop" /\ c.held = held
  BY <1>1, <1>2 DEF PyCalls, PyPlaces
<1> HIDE DEF c
<1>6. /\ DOMAIN pyObj' = 1..PyObjSlots /\ pyObj' = [i \in DOMAIN pyObj' |-> pyObj'[i]]
      /\ \A i \in I : pyObj'[i] = [pyObj[i] EXCEPT !.active = FALSE, !.ses = 1]
      /\ \A i \in 1..PyObjSlots : i \notin I => pyObj'[i] = pyObj[i]
  BY DEF Deactivate, PyInv, PyTypes
<1>7. \A i \in I : pyObj'[i] \in PyEntries /\ pyObj'[i].active = FALSE
  <2>1. ASSUME NEW e \in PyEntries
        PROVE  /\ [e EXCEPT !.active = FALSE, !.ses = 1] \in PyEntries
               /\ [e EXCEPT !.active = FALSE, !.ses = 1].active = FALSE
    <3>1. FALSE \in BOOLEAN /\ 1 \in Nat
      OBVIOUS
    <3> QED
      BY <3>1 DEF PyEntries
  <2>2. ASSUME NEW i \in I PROVE pyObj'[i] \in PyEntries /\ pyObj'[i].active = FALSE
    <3>1. pyObj[i] \in PyEntries
      BY DEF PyInv, PyTypes
    <3>2. pyObj'[i] = [pyObj[i] EXCEPT !.active = FALSE, !.ses = 1]
      BY <1>6
    <3>3. PICK e \in PyEntries : pyObj'[i] = [e EXCEPT !.active = FALSE, !.ses = 1]
      BY <3>1, <3>2
    <3> QED
      BY <2>1, <3>3
  <2> QED
    BY <2>2
<1>8. pyObj' \in [1..PyObjSlots -> PyEntries]
  <2>1. \A i \in 1..PyObjSlots : pyObj'[i] \in PyEntries
    BY <1>6, <1>7 DEF PyInv, PyTypes
  <2> QED
    BY <1>6, <2>1
<1>9. \A i \in 1..PyObjSlots : pyObj'[i].active => pyObj'[i].obj \in PyObjects
  BY <1>6, <1>7 DEF PyInv, PyHeldInUse
<1>10. ASSUME NEW o \in PyObjects
       PROVE  \E d \in Int : \E h \in Int :
                /\ Cardinality(PyOf(o)') = Cardinality(PyOf(o)) + d
                /\ c.held[o] = pyCall[t].held[o] + h
                /\ pyRef'[o] = pyRef[o] + (d + h)
  <2> DEFINE gone == {i \in I : pyObj[i].obj = o}
  <2>1. gone \subseteq PyOf(o) /\ PyOf(o)' = PyOf(o) \ gone
    BY <1>6, <1>7 DEF PyOf
  <2>2. held[o] = Cardinality(gone)
    BY <1>4
  <2>3. gone \in SUBSET (1..PyObjSlots) /\ PyOf(o) \in SUBSET (1..PyObjSlots)
    BY DEF PyOf
  <2> HIDE DEF gone
  <2>4. IsFiniteSet(PyOf(o)) /\ Cardinality(PyOf(o)) \in Int /\ Cardinality(gone) \in Int
    <3>1. IsFiniteSet(PyOf(o)) /\ Cardinality(PyOf(o)) \in 0..PyObjSlots /\ Cardinality(gone) \in 0..PyObjSlots
      BY <2>3, PyFinite
    <3> QED
      BY <3>1
  <2>5. Cardinality(PyOf(o) \ gone) = Cardinality(PyOf(o)) - Cardinality(PyOf(o) \cap gone)
    BY <2>4, FS_Difference
  <2>6. PyOf(o) \cap gone = gone
    BY <2>1
  <2>7. PICK n \in Int : n = Cardinality(gone)
    BY <2>4
  <2>8. \A m \in Int : m - n = m + (-n) /\ n = 0 + n /\ m = m + (-n + n) /\ -n \in Int
    BY <2>7
  <2>9. Cardinality(PyOf(o)') = Cardinality(PyOf(o)) + (-n)
    BY <2>1, <2>4, <2>5, <2>6, <2>7, <2>8
  <2>10. c.held[o] = pyCall[t].held[o] + n
    BY <1>5, <2>2, <2>4, <2>7, <2>8, PyNoRefs
  <2>11. pyRef'[o] = pyRef[o] + (-n + n)
    <3>1. pyRef[o] \in Int
      BY <1>2
    <3> QED
      BY <1>2, <2>8, <3>1
  <2> QED
    BY <2>4, <2>7, <2>8, <2>9, <2>10, <2>11
<1> QED
  BY <1>2, <1>3, <1>5, <1>8, <1>9, <1>10, PyStep

LEMMA PyReleaseInv ==
  ASSUME PyInv, NEW t \in PyThreads, PyRelease(t) PROVE PyInv'
<1>1. pyCall[t].held = NoRefs /\ DOMAIN pySes' = 1..PySesSlots /\ DOMAIN pyObj = 1..PyObjSlots
  BY DEF PyRelease, PyInv, PyTypes, PyHeldInUse
<1>2. PICK i \in 1..PyObjSlots : pyObj[i].active /\ Deactivate(t, {i})
  BY <1>1 DEF PyRelease
<1>3. {i} \in SUBSET (1..PyObjSlots) /\ \A j \in {i} : pyObj[j].active
  BY <1>2
<1> QED
  BY <1>1, <1>2, <1>3, DeactivateInv

LEMMA PyCloseInv ==
  ASSUME PyInv, NEW t \in PyThreads, PyClose(t) PROVE PyInv'
<1>1. pyCall[t].held = NoRefs /\ DOMAIN pySes = 1..PySesSlots /\ DOMAIN pyObj = 1..PyObjSlots
  BY DEF PyClose, PyInv, PyTypes, PyHeldInUse
<1>2. CASE /\ Deactivate(t, {i \in DOMAIN pyObj : pyObj[i].active /\ pyObj[i].ses = pyCall[t].ses})
           /\ pySes' = [pySes EXCEPT ![pyCall[t].ses].active = FALSE]
  <2> DEFINE I == {i \in DOMAIN pyObj : pyObj[i].active /\ pyObj[i].ses = pyCall[t].ses}
  <2>1. I \in SUBSET (1..PyObjSlots) /\ \A i \in I : pyObj[i].active
    BY <1>1
  <2>2. DOMAIN pySes' = 1..PySesSlots
    BY <1>1, <1>2
  <2>3. Deactivate(t, I)
    BY <1>2
  <2> HIDE DEF I
  <2> QED
    BY <1>1, <2>1, <2>2, <2>3, DeactivateInv
<1>3. CASE /\ pyCall' = [pyCall EXCEPT ![t] = PyIdle]
           /\ UNCHANGED <<pyState, pySes, pyObj, pyRef>>
  BY <1>1, <1>3, PyNoRefs, PyQuietStep
<1> QED
  BY <1>2, <1>3 DEF PyClose

(* The steps that neither take nor drop a reference. *)
LEMMA PyOtherInv ==
  ASSUME PyInv, NEW t \in PyThreads,
         \/ InitializeLook(t) \/ InitializeStart(t) \/ AllocateSession(t)
         \/ \E s \in DOMAIN pySes, op \in {"import", "use", "close"} : PyBegin(t, s, op)
         \/ ShutdownLook(t) \/ Shutdown(t)
  PROVE  PyInv'
<1>1. pyCall[t] \in PyCalls /\ DOMAIN pySes = 1..PySesSlots /\ (pyCall[t].at \notin {"held", "drop"} => pyCall[t].held = NoRefs)
  BY DEF PyInv, PyTypes, PyHeldInUse
<1>2. ASSUME NEW at \in {"idle", "start", "open", "shutdown"}, pyCall[t].held = NoRefs,
             pyCall' = [pyCall EXCEPT ![t].at = at], UNCHANGED <<pySes, pyObj, pyRef>>
      PROVE  PyInv'
  <2> DEFINE c == [pyCall[t] EXCEPT !.at = at]
  <2>1. c \in PyCalls /\ c.held = NoRefs
    BY <1>1, <1>2 DEF PyCalls, PyPlaces
  <2>2. pyCall' = [pyCall EXCEPT ![t] = c]
    BY <1>2 DEF PyInv, PyTypes
  <2> HIDE DEF c
  <2> QED
    BY <1>1, <1>2, <2>1, <2>2, PyQuietStep
<1>3. ASSUME pyCall[t].held = NoRefs, pyCall' = [pyCall EXCEPT ![t] = PyIdle],
             DOMAIN pySes' = 1..PySesSlots, UNCHANGED <<pyObj, pyRef>>
      PROVE  PyInv'
  BY <1>3, PyNoRefs, PyQuietStep
<1>4. CASE InitializeLook(t)
  BY <1>1, <1>2, <1>4 DEF InitializeLook
<1>5. CASE InitializeStart(t)
  BY <1>1, <1>2, <1>3, <1>5 DEF InitializeStart
<1>6. CASE AllocateSession(t)
  <2>1. pyCall[t].held = NoRefs
    BY <1>1, <1>6 DEF AllocateSession
  <2>2. DOMAIN pySes' = 1..PySesSlots
    BY <1>1, <1>6 DEF AllocateSession
  <2> QED
    BY <1>3, <1>6, <2>1, <2>2 DEF AllocateSession
<1>7. ASSUME NEW s \in DOMAIN pySes, NEW op \in {"import", "use", "close"}, PyBegin(t, s, op) PROVE PyInv'
  <2> DEFINE c == [at |-> op, ses |-> s, held |-> NoRefs]
  <2>1. s \in Nat
    BY <1>1
  <2>2. c \in PyCalls /\ c.held = pyCall[t].held /\ c.held = NoRefs
    BY <1>1, <1>7, <2>1, PyNoRefs DEF PyBegin, PyCalls, PyPlaces
  <2>3. pyCall' = [pyCall EXCEPT ![t] = c] /\ UNCHANGED <<pySes, pyObj, pyRef>>
    BY <1>7 DEF PyBegin
  <2> HIDE DEF c
  <2> QED
    BY <1>1, <2>2, <2>3, PyQuietStep
<1>8. CASE ShutdownLook(t)
  BY <1>1, <1>2, <1>8 DEF ShutdownLook
<1>9. CASE Shutdown(t)
  BY <1>1, <1>3, <1>9 DEF Shutdown
<1> QED
  BY <1>4, <1>5, <1>6, <1>7, <1>8, <1>9

LEMMA PyInitInv == PyInit => PyInv
<1> SUFFICES ASSUME PyInit PROVE PyInv
  OBVIOUS
<1>1. PyTypes
  BY PyNoRefs DEF PyInit, PyTypes, PyEntries, PyHolds
<1>2. PyHeldInUse
  BY PyNoRefs DEF PyInit, PyHeldInUse
<1>3. ASSUME NEW o \in PyObjects PROVE pyRef[o] = Cardinality(PyOf(o)) + Cardinality(PyUses(o))
  <2>1. PyOf(o) = {}
    BY DEF PyInit, PyOf
  <2>2. PyUses(o) = {}
    BY PyNoRefs, PyAssumption DEF PyInit, PyUses
  <2>3. pyRef[o] = 0
    BY PyNoRefs DEF PyInit
  <2> QED
    BY <2>1, <2>2, <2>3, FS_EmptySet
<1> QED
  BY <1>1, <1>2, <1>3 DEF PyInv, PyCounted

LEMMA PyNextInv == PyInv /\ [PyNext]_pyVars => PyInv'
<1> SUFFICES ASSUME PyInv, [PyNext]_pyVars PROVE PyInv'
  OBVIOUS
<1>1. CASE UNCHANGED pyVars
  BY <1>1 DEF pyVars, PyInv, PyTypes, PyHeldInUse, PyCounted, PyOf, PyUses
<1>2. ASSUME NEW t \in PyThreads, PyDrop(t) PROVE PyInv'
  <2>1. DOMAIN pySes' = 1..PySesSlots
    BY <1>2 DEF PyDrop, PyInv, PyTypes
  <2> QED
    BY <1>2, <2>1, PyDropInv DEF PyDrop
<1> QED
  BY <1>1, <1>2, PyReturnInv, AcquireInv, PyReleaseInv, PyCloseInv, PyOtherInv DEF PyNext

(* The references the Python bridge has taken of an object are one for each   *)
(* active entry of its table and one for each use by a call under way, for    *)
(* any number of threads, objects, sessions and entries: store_object,        *)
(* acquire_object, uxpython_release and uxpython_close lose and repeat none.  *)
THEOREM PythonRefsExact == PySpec => []PyRefsExact
<1>1. PyInv => PyRefsExact
  <2>1. PyInv => DOMAIN pyObj = 1..PyObjSlots
    BY DEF PyInv, PyTypes
  <2> QED
    BY <2>1 DEF PyInv, PyCounted, PyOf, PyUses, PyRefsExact
<1> QED
  BY <1>1, PyInitInv, PyNextInv, PTL DEF PySpec

-----------------------------------------------------------------------------
(* Objects of the GSL facade *)

AllKinds == {"rng", "vector", "matrix", "integration workspace", "complex", "root bisection"}
AnyHandle == GslAddresses \X AllKinds

GslTypes ==
  /\ gslMemory \in [GslAddresses -> AllKinds \cup {"free"}]
  /\ gslHandles \in SUBSET AnyHandle
  /\ gslConfigured \in SUBSET GslAddresses
  /\ gslCall \in [GslThreads -> {GslIdle} \cup [at : {"register", "free"}, handle : AnyHandle]]

Busy(t) == gslCall[t].at # "idle"

(* GslOwnership, thread by thread and address by address. *)
Owned ==
  /\ \A t \in GslThreads : Busy(t) => /\ gslMemory[gslCall[t].handle[1]] = gslCall[t].handle[2]
                                      /\ gslCall[t].handle \notin gslHandles
  /\ \A s, t \in GslThreads :
       Busy(s) /\ Busy(t) /\ gslCall[s].handle = gslCall[t].handle => s = t
  /\ \A h \in gslHandles : gslMemory[h[1]] = h[2]
  /\ \A a \in GslAddresses :
       gslMemory[a] # "free" =>
         \/ <<a, gslMemory[a]>> \in gslHandles
         \/ \E t \in GslThreads : Busy(t) /\ gslCall[t].handle = <<a, gslMemory[a]>>
  /\ \A a \in gslConfigured : gslMemory[a] = "root bisection"
  /\ \A t \in GslThreads : gslCall[t].at = "register" => gslCall[t].handle[1] \notin gslConfigured

GslInv == GslTypes /\ Owned

LEMMA HandleIs ==
  \A h \in AnyHandle : /\ h = <<h[1], h[2]>> /\ h[1] \in GslAddresses
                       /\ h[2] \in AllKinds /\ h[2] # "free"
<1>1. "free" \notin AllKinds
  BY DEF AllKinds
<1>2. \A h \in AnyHandle : h = <<h[1], h[2]>> /\ h[1] \in GslAddresses /\ h[2] \in AllKinds
  BY DEF AnyHandle
<1> QED BY <1>1, <1>2

LEMMA BusyHandle ==
  ASSUME GslTypes, NEW t \in GslThreads, Busy(t)
  PROVE  gslCall[t] \in [at : {"register", "free"}, handle : AnyHandle] /\ gslCall[t].handle \in AnyHandle
BY DEF GslTypes, Busy, GslIdle

LEMMA OwnedIsOwnership ==
  GslInv => GslOwnership
<1> SUFFICES ASSUME GslInv PROVE GslOwnership
  OBVIOUS
<1> DEFINE pending == {gslCall[t].handle : t \in {x \in GslThreads : gslCall[x].at # "idle"}}
           objects == {<<a, gslMemory[a]>> : a \in {x \in GslAddresses : gslMemory[x] # "free"}}
<1>1. \A h : h \in pending <=> \E t \in GslThreads : Busy(t) /\ h = gslCall[t].handle
  BY DEF Busy
<1>2. \A h : h \in objects <=> \E a \in GslAddresses : gslMemory[a] # "free" /\ h = <<a, gslMemory[a]>>
  OBVIOUS
<1> HIDE DEF pending, objects
<1>3. gslHandles \cap pending = {}
  <2> SUFFICES ASSUME NEW h \in gslHandles, h \in pending PROVE FALSE
    OBVIOUS
  <2>1. PICK t \in GslThreads : Busy(t) /\ h = gslCall[t].handle
    BY <1>1
  <2> QED BY <2>1 DEF GslInv, Owned
<1>4. ASSUME NEW s \in GslThreads, NEW t \in GslThreads, gslCall[s].handle = gslCall[t].handle
      PROVE  s = t \/ gslCall[s].at = "idle"
  <2>1. ASSUME Busy(s), ~Busy(t) PROVE FALSE
    <3>1. gslCall[s].handle \in AnyHandle
      BY <2>1, BusyHandle DEF GslInv
    <3>2. gslCall[t].handle = <<>>
      BY <2>1 DEF GslInv, GslTypes, Busy, GslIdle
    <3> QED BY <1>4, <3>1, <3>2 DEF AnyHandle
  <2> QED BY <1>4, <2>1 DEF GslInv, Owned, Busy
<1>5. gslHandles \cup pending = objects
  <2>1. ASSUME NEW h \in gslHandles PROVE h \in objects
    <3>1. h = <<h[1], h[2]>> /\ h[1] \in GslAddresses /\ h[2] # "free" /\ gslMemory[h[1]] = h[2]
      BY HandleIs DEF GslInv, GslTypes, Owned
    <3> QED BY <1>2, <3>1
  <2>2. ASSUME NEW h \in pending PROVE h \in objects
    <3>1. PICK t \in GslThreads : Busy(t) /\ h = gslCall[t].handle
      BY <1>1
    <3>2. h \in AnyHandle /\ gslMemory[h[1]] = h[2]
      BY <3>1, BusyHandle DEF GslInv, Owned
    <3> QED BY <1>2, <3>2, HandleIs
  <2>3. ASSUME NEW h \in objects PROVE h \in gslHandles \/ h \in pending
    <3>1. PICK a \in GslAddresses : gslMemory[a] # "free" /\ h = <<a, gslMemory[a]>>
      BY <1>2
    <3>2. CASE \E t \in GslThreads : Busy(t) /\ gslCall[t].handle = <<a, gslMemory[a]>>
      BY <1>1, <3>1, <3>2
    <3> QED BY <3>1, <3>2 DEF GslInv, Owned
  <2> QED BY <2>1, <2>2, <2>3
<1> QED BY <1>3, <1>4, <1>5 DEF GslOwnership, GslInv, Owned, pending, objects

LEMMA GslAllocates ==
  ASSUME GslInv, NEW t \in GslThreads, NEW a \in GslAddresses, NEW kind \in AllKinds,
         GslAllocate(t, a, kind)
  PROVE  GslInv'
<1>1. /\ ~Busy(t) /\ gslMemory[a] = "free"
      /\ gslMemory' = [gslMemory EXCEPT ![a] = kind]
      /\ gslCall' = [gslCall EXCEPT ![t] = [at |-> "register", handle |-> <<a, kind>>]]
      /\ gslHandles' = gslHandles /\ gslConfigured' = gslConfigured
  BY DEF GslAllocate, Busy
<1>2. GslTypes'
  BY <1>1 DEF GslInv, GslTypes, AnyHandle
<1>3. kind # "free"
  BY DEF AllKinds
<1>4. /\ gslCall'[t].handle = <<a, kind>> /\ Busy(t)'
      /\ \A s \in GslThreads : s # t => gslCall'[s] = gslCall[s] /\ (Busy(s)' <=> Busy(s))
  BY <1>1 DEF GslInv, GslTypes, Busy
<1>5. \A x \in GslAddresses : gslMemory'[x] = IF x = a THEN kind ELSE gslMemory[x]
  BY <1>1 DEF GslInv, GslTypes
<1>6. \A s \in GslThreads : Busy(s) => /\ gslCall[s].handle[1] \in GslAddresses \ {a}
                                       /\ gslCall[s].handle # <<a, kind>>
  <2> SUFFICES ASSUME NEW s \in GslThreads, Busy(s)
               PROVE  gslCall[s].handle[1] \in GslAddresses \ {a} /\ gslCall[s].handle # <<a, kind>>
    OBVIOUS
  <2>1. gslCall[s].handle \in AnyHandle /\ gslMemory[gslCall[s].handle[1]] = gslCall[s].handle[2]
    BY BusyHandle DEF GslInv, Owned
  <2>2. gslCall[s].handle[1] \in GslAddresses /\ gslCall[s].handle[2] # "free"
    BY <2>1, HandleIs
  <2>3. gslCall[s].handle[1] # a
    BY <1>1, <2>1, <2>2
  <2>4. <<a, kind>>[1] = a
    OBVIOUS
  <2>5. gslCall[s].handle # <<a, kind>>
    BY <2>3, <2>4, Zenon
  <2> QED BY <2>2, <2>3, <2>5
<1>7. \A h \in gslHandles : h[1] \in GslAddresses \ {a} /\ h # <<a, kind>>
  <2> SUFFICES ASSUME NEW h \in gslHandles PROVE h[1] \in GslAddresses \ {a} /\ h # <<a, kind>>
    OBVIOUS
  <2>1. h \in AnyHandle /\ gslMemory[h[1]] = h[2]
    BY DEF GslInv, GslTypes, Owned
  <2> QED BY <1>1, <2>1, HandleIs
<1>8. \A s \in GslThreads : Busy(s)' => /\ gslMemory'[gslCall'[s].handle[1]] = gslCall'[s].handle[2]
                                        /\ gslCall'[s].handle \notin gslHandles'
  <2> SUFFICES ASSUME NEW s \in GslThreads, Busy(s)'
               PROVE  /\ gslMemory'[gslCall'[s].handle[1]] = gslCall'[s].handle[2]
                      /\ gslCall'[s].handle \notin gslHandles'
    OBVIOUS
  <2>1. CASE s = t
    <3>1. gslMemory'[a] = kind /\ <<a, kind>> \notin gslHandles
      BY <1>5, <1>7
    <3>2. <<a, kind>>[1] = a /\ <<a, kind>>[2] = kind
      OBVIOUS
    <3>3. gslCall'[s].handle = <<a, kind>> /\ gslHandles' = gslHandles
      BY <1>1, <1>4, <2>1
    <3> QED BY <3>1, <3>2, <3>3, Zenon
  <2>2. CASE s # t
    <3>1. gslCall'[s].handle = gslCall[s].handle /\ Busy(s)
      BY <1>4, <2>2
    <3>2. gslCall[s].handle[1] \in GslAddresses /\ gslCall[s].handle[1] # a
      BY <1>6, <3>1
    <3>3. gslMemory'[gslCall[s].handle[1]] = gslMemory[gslCall[s].handle[1]]
      BY <1>5, <3>2
    <3>4. /\ gslMemory[gslCall[s].handle[1]] = gslCall[s].handle[2]
          /\ gslCall[s].handle \notin gslHandles
      BY <3>1 DEF GslInv, Owned
    <3>5. gslHandles' = gslHandles
      BY <1>1
    <3> QED BY <3>1, <3>3, <3>4, <3>5, Zenon
  <2> QED BY <2>1, <2>2
<1>9. \A r, s \in GslThreads :
        Busy(r)' /\ Busy(s)' /\ gslCall'[r].handle = gslCall'[s].handle => r = s
  <2> SUFFICES ASSUME NEW r \in GslThreads, NEW s \in GslThreads, Busy(r)', Busy(s)',
                      gslCall'[r].handle = gslCall'[s].handle
               PROVE  r = s
    OBVIOUS
  <2>1. CASE r # t /\ s # t
    BY <1>4, <2>1 DEF GslInv, Owned
  <2>2. CASE r = t /\ s # t
    BY <1>4, <1>6, <2>2
  <2>3. CASE r # t /\ s = t
    BY <1>4, <1>6, <2>3
  <2> QED BY <2>1, <2>2, <2>3
<1>10. \A h \in gslHandles' : gslMemory'[h[1]] = h[2]
  BY <1>1, <1>5, <1>7 DEF GslInv, Owned
<1>11. ASSUME NEW x \in GslAddresses, gslMemory'[x] # "free"
       PROVE  \/ <<x, gslMemory'[x]>> \in gslHandles'
              \/ \E s \in GslThreads : Busy(s)' /\ gslCall'[s].handle = <<x, gslMemory'[x]>>
  <2>1. CASE x = a
    BY <1>4, <1>5, <2>1
  <2>2. CASE x # a
    <3>1. gslMemory'[x] = gslMemory[x]
      BY <1>5, <2>2
    <3>2. CASE <<x, gslMemory[x]>> \in gslHandles
      <4>1. gslHandles' = gslHandles
        BY <1>1
      <4> QED BY <3>1, <3>2, <4>1, Zenon
    <3>3. CASE \E s \in GslThreads : Busy(s) /\ gslCall[s].handle = <<x, gslMemory[x]>>
      BY <1>1, <1>4, <3>1, <3>3
    <3> QED BY <1>11, <3>1, <3>2, <3>3 DEF GslInv, Owned
  <2> QED BY <2>1, <2>2
<1>12. \A x \in gslConfigured' : gslMemory'[x] = "root bisection"
  BY <1>1, <1>5 DEF GslInv, Owned, GslTypes
<1>13. ASSUME NEW s \in GslThreads, gslCall'[s].at = "register"
       PROVE  gslCall'[s].handle[1] \notin gslConfigured'
  <2>1. CASE s = t
    <3>1. a \notin gslConfigured /\ <<a, kind>>[1] = a
      BY <1>1 DEF GslInv, Owned
    <3>2. gslCall'[s].handle = <<a, kind>> /\ gslConfigured' = gslConfigured
      BY <1>1, <1>4, <2>1
    <3> QED BY <3>1, <3>2, Zenon
  <2>2. CASE s # t
    <3>1. gslCall'[s] = gslCall[s] /\ gslConfigured' = gslConfigured
      BY <1>1, <1>4, <2>2
    <3>2. gslCall[s].handle[1] \notin gslConfigured
      BY <1>13, <3>1 DEF GslInv, Owned
    <3> QED BY <3>1, <3>2, Zenon
  <2> QED BY <2>1, <2>2
<1> QED BY <1>2, <1>8, <1>9, <1>10, <1>11, <1>12, <1>13 DEF GslInv, Owned

LEMMA SamePlace ==
  ASSUME NEW g \in AnyHandle, NEW h \in AnyHandle,
         gslMemory[g[1]] = g[2], gslMemory[h[1]] = h[2], g[1] = h[1]
  PROVE  g = h
<1>1. g = <<g[1], g[2]>> /\ h = <<h[1], h[2]>>
  BY HandleIs
<1>2. g[2] = h[2]
  OBVIOUS
<1> QED BY <1>1, <1>2, Zenon

(* A thread lets go of the object it has, which goes to the registry ...      *)
LEMMA GslGivesIn ==
  ASSUME GslInv, NEW t \in GslThreads, Busy(t), gslCall' = [gslCall EXCEPT ![t] = GslIdle],
         gslHandles' = gslHandles \cup {gslCall[t].handle}, gslMemory' = gslMemory,
         gslConfigured' = gslConfigured
  PROVE  GslInv'
<1> DEFINE h == gslCall[t].handle
<1>1. h \in AnyHandle /\ gslMemory[h[1]] = h[2] /\ h \notin gslHandles
  BY BusyHandle DEF GslInv, Owned
<1>2. GslTypes'
  BY <1>1 DEF GslInv, GslTypes
<1>3. /\ gslCall'[t] = GslIdle /\ ~Busy(t)'
      /\ \A s \in GslThreads : s # t => gslCall'[s] = gslCall[s] /\ (Busy(s)' <=> Busy(s))
  BY DEF GslInv, GslTypes, Busy, GslIdle
<1>4. \A s \in GslThreads : Busy(s)' => s # t /\ Busy(s) /\ gslCall'[s] = gslCall[s]
  BY <1>3
<1>5. ASSUME NEW s \in GslThreads, Busy(s)'
      PROVE  gslMemory'[gslCall'[s].handle[1]] = gslCall'[s].handle[2] /\ gslCall'[s].handle \notin gslHandles'
  <2>1. s # t /\ Busy(s) /\ gslCall'[s] = gslCall[s]
    BY <1>4, <1>5
  <2>2. gslCall[s].handle # h /\ gslCall[s].handle \notin gslHandles
    BY <2>1 DEF GslInv, Owned
  <2>3. gslMemory[gslCall[s].handle[1]] = gslCall[s].handle[2]
    BY <2>1 DEF GslInv, Owned
  <2>4. gslCall[s].handle \notin gslHandles'
    BY <2>2
  <2> QED BY <2>1, <2>3, <2>4, Zenon
<1>6. \A r, s \in GslThreads :
        Busy(r)' /\ Busy(s)' /\ gslCall'[r].handle = gslCall'[s].handle => r = s
  BY <1>4 DEF GslInv, Owned
<1>7. \A x \in gslHandles' : gslMemory'[x[1]] = x[2]
  BY <1>1 DEF GslInv, Owned
<1>8. ASSUME NEW x \in GslAddresses, gslMemory'[x] # "free"
      PROVE  \/ <<x, gslMemory'[x]>> \in gslHandles'
             \/ \E s \in GslThreads : Busy(s)' /\ gslCall'[s].handle = <<x, gslMemory'[x]>>
  <2> DEFINE o == <<x, gslMemory[x]>>
  <2>1. o \in gslHandles \/ \E s \in GslThreads : Busy(s) /\ gslCall[s].handle = o
    BY <1>8 DEF GslInv, Owned
  <2>2. o = <<x, gslMemory'[x]>>
    OBVIOUS
  <2> HIDE DEF o
  <2>3. o \in gslHandles' \/ \E s \in GslThreads : Busy(s)' /\ gslCall'[s].handle = o
    BY <1>3, <2>1
  <2> QED BY <2>2, <2>3, Zenon
<1>9. \A x \in gslConfigured' : gslMemory'[x] = "root bisection"
  BY DEF GslInv, Owned
<1>10. ASSUME NEW s \in GslThreads, gslCall'[s].at = "register"
       PROVE  gslCall'[s].handle[1] \notin gslConfigured'
  <2>1. s # t
    BY <1>3, <1>10 DEF GslIdle
  <2>2. gslCall'[s] = gslCall[s]
    BY <1>3, <2>1
  <2>3. gslCall[s].handle[1] \notin gslConfigured
    BY <1>10, <2>2 DEF GslInv, Owned
  <2> QED BY <2>2, <2>3
<1> QED BY <1>2, <1>5, <1>6, <1>7, <1>8, <1>9, <1>10 DEF GslInv, Owned

(* ... or back to the memory, configured no more.                            *)
LEMMA GslGivesBack ==
  ASSUME GslInv, NEW t \in GslThreads, Busy(t), gslCall' = [gslCall EXCEPT ![t] = GslIdle],
         gslHandles' = gslHandles,
         gslMemory' = [gslMemory EXCEPT ![gslCall[t].handle[1]] = "free"],
         gslConfigured' \subseteq gslConfigured, gslCall[t].handle[1] \notin gslConfigured'
  PROVE  GslInv'
<1> DEFINE h == gslCall[t].handle
<1>1. h \in AnyHandle /\ gslMemory[h[1]] = h[2] /\ h \notin gslHandles
  BY BusyHandle DEF GslInv, Owned
<1>2. h[1] \in GslAddresses
  BY <1>1, HandleIs
<1>3. GslTypes'
  BY <1>2 DEF GslInv, GslTypes
<1>4. /\ gslCall'[t] = GslIdle /\ ~Busy(t)'
      /\ \A s \in GslThreads : s # t => gslCall'[s] = gslCall[s] /\ (Busy(s)' <=> Busy(s))
  BY DEF GslInv, GslTypes, Busy, GslIdle
<1>5. \A s \in GslThreads : Busy(s)' => s # t /\ Busy(s) /\ gslCall'[s] = gslCall[s]
  BY <1>4
<1>6. \A x \in GslAddresses : gslMemory'[x] = IF x = h[1] THEN "free" ELSE gslMemory[x]
  BY DEF GslInv, GslTypes
<1>7. ASSUME NEW g \in AnyHandle, g # h, gslMemory[g[1]] = g[2]
      PROVE  gslMemory'[g[1]] = g[2]
  <2>1. g[1] \in GslAddresses /\ g[1] # h[1]
    BY <1>1, <1>7, HandleIs, SamePlace
  <2> QED BY <1>6, <1>7, <2>1
<1>8. ASSUME NEW s \in GslThreads, Busy(s)'
      PROVE  gslMemory'[gslCall'[s].handle[1]] = gslCall'[s].handle[2] /\ gslCall'[s].handle \notin gslHandles'
  <2>1. s # t /\ Busy(s) /\ gslCall'[s] = gslCall[s]
    BY <1>5, <1>8
  <2>2. gslCall[s].handle # h /\ gslCall[s].handle \notin gslHandles
    BY <2>1 DEF GslInv, Owned
  <2>3. gslMemory[gslCall[s].handle[1]] = gslCall[s].handle[2] /\ gslCall[s].handle \in AnyHandle
    BY <2>1, BusyHandle DEF GslInv, Owned
  <2>4. gslMemory'[gslCall[s].handle[1]] = gslCall[s].handle[2]
    BY <1>7, <2>2, <2>3
  <2>5. gslHandles' = gslHandles
    OBVIOUS
  <2> QED BY <2>1, <2>2, <2>4, <2>5, Zenon
<1>9. ASSUME NEW r \in GslThreads, NEW s \in GslThreads, Busy(r)', Busy(s)',
             gslCall'[r].handle = gslCall'[s].handle
      PROVE  r = s
  <2>1. Busy(r) /\ Busy(s) /\ gslCall'[r] = gslCall[r] /\ gslCall'[s] = gslCall[s]
    BY <1>5, <1>9
  <2>2. gslCall[r].handle = gslCall[s].handle
    BY <1>9, <2>1
  <2> QED BY <2>1, <2>2 DEF GslInv, Owned
<1>10. \A x \in gslHandles' : gslMemory'[x[1]] = x[2]
  BY <1>1, <1>7 DEF GslInv, Owned, GslTypes
<1>11. ASSUME NEW x \in GslAddresses, gslMemory'[x] # "free"
       PROVE  \/ <<x, gslMemory'[x]>> \in gslHandles'
              \/ \E s \in GslThreads : Busy(s)' /\ gslCall'[s].handle = <<x, gslMemory'[x]>>
  <2> DEFINE o == <<x, gslMemory[x]>>
  <2>1. x # h[1] /\ gslMemory'[x] = gslMemory[x]
    BY <1>6, <1>11
  <2>2. o \in gslHandles \/ \E s \in GslThreads : Busy(s) /\ gslCall[s].handle = o
    BY <1>11, <2>1 DEF GslInv, Owned
  <2>3. o = <<x, gslMemory'[x]>> /\ o[1] = x
    BY <2>1
  <2>4. o # h
    BY <2>1, <2>3
  <2> HIDE DEF o
  <2>5. o \in gslHandles' \/ \E s \in GslThreads : Busy(s)' /\ gslCall'[s].handle = o
    BY <1>4, <2>2, <2>4
  <2> QED BY <2>3, <2>5, Zenon
<1>12. \A x \in gslConfigured' : gslMemory'[x] = "root bisection"
  BY <1>6 DEF GslInv, Owned, GslTypes
<1>13. ASSUME NEW s \in GslThreads, gslCall'[s].at = "register"
       PROVE  gslCall'[s].handle[1] \notin gslConfigured'
  <2>1. s # t
    BY <1>4, <1>13 DEF GslIdle
  <2>2. gslCall'[s] = gslCall[s]
    BY <1>4, <2>1
  <2>3. gslCall[s].handle[1] \notin gslConfigured
    BY <1>13, <2>2 DEF GslInv, Owned
  <2> QED BY <2>2, <2>3
<1> QED BY <1>3, <1>8, <1>9, <1>10, <1>11, <1>12, <1>13 DEF GslInv, Owned

(* A handle taken out of the registry belongs to the thread that took it.     *)
LEMMA GslTakes ==
  ASSUME GslInv, NEW t \in GslThreads, NEW h \in AnyHandle, TakeHandle(t, h),
         gslMemory' = gslMemory, gslConfigured' = gslConfigured
  PROVE  GslInv'
<1>1. /\ ~Busy(t) /\ h \in gslHandles /\ gslHandles' = gslHandles \ {h}
      /\ gslCall' = [gslCall EXCEPT ![t] = [at |-> "free", handle |-> h]]
      /\ gslMemory[h[1]] = h[2]
  BY DEF TakeHandle, HasHandle, Busy, GslInv, Owned
<1>2. GslTypes'
  BY <1>1 DEF GslInv, GslTypes
<1>3. /\ gslCall'[t].handle = h /\ gslCall'[t].at = "free" /\ Busy(t)'
      /\ \A s \in GslThreads : s # t => gslCall'[s] = gslCall[s] /\ (Busy(s)' <=> Busy(s))
  BY <1>1 DEF GslInv, GslTypes, Busy
<1>4. \A s \in GslThreads : Busy(s) => gslCall[s].handle # h
  BY <1>1 DEF GslInv, Owned
<1>5. ASSUME NEW s \in GslThreads, Busy(s)'
      PROVE  gslMemory'[gslCall'[s].handle[1]] = gslCall'[s].handle[2] /\ gslCall'[s].handle \notin gslHandles'
  <2>1. CASE s = t
    <3>1. gslCall'[s].handle = h /\ h \notin gslHandles'
      BY <1>1, <1>3, <2>1
    <3> QED BY <1>1, <3>1, Zenon
  <2>2. CASE s # t
    <3>1. gslCall'[s] = gslCall[s] /\ Busy(s)
      BY <1>3, <1>5, <2>2
    <3>2. /\ gslMemory[gslCall[s].handle[1]] = gslCall[s].handle[2]
          /\ gslCall[s].handle \notin gslHandles
      BY <3>1 DEF GslInv, Owned
    <3>3. gslCall[s].handle \notin gslHandles'
      BY <1>1, <3>2
    <3> QED BY <3>1, <3>2, <3>3, Zenon
  <2> QED BY <2>1, <2>2
<1>6. ASSUME NEW r \in GslThreads, NEW s \in GslThreads, Busy(r)', Busy(s)',
             gslCall'[r].handle = gslCall'[s].handle
      PROVE  r = s
  <2>1. CASE r # t /\ s # t
    <3>1. Busy(r) /\ Busy(s) /\ gslCall'[r] = gslCall[r] /\ gslCall'[s] = gslCall[s]
      BY <1>3, <1>6, <2>1
    <3>2. gslCall[r].handle = gslCall[s].handle
      BY <1>6, <3>1
    <3> QED BY <3>1, <3>2 DEF GslInv, Owned
  <2>2. CASE r = t /\ s # t
    BY <1>3, <1>4, <1>6, <2>2
  <2>3. CASE r # t /\ s = t
    BY <1>3, <1>4, <1>6, <2>3
  <2> QED BY <2>1, <2>2, <2>3
<1>7. \A x \in gslHandles' : gslMemory'[x[1]] = x[2]
  BY <1>1 DEF GslInv, Owned
<1>8. ASSUME NEW x \in GslAddresses, gslMemory'[x] # "free"
      PROVE  \/ <<x, gslMemory'[x]>> \in gslHandles'
             \/ \E s \in GslThreads : Busy(s)' /\ gslCall'[s].handle = <<x, gslMemory'[x]>>
  <2> DEFINE o == <<x, gslMemory[x]>>
  <2>1. o \in gslHandles \/ \E s \in GslThreads : Busy(s) /\ gslCall[s].handle = o
    BY <1>8 DEF GslInv, Owned
  <2>2. o = <<x, gslMemory'[x]>>
    OBVIOUS
  <2> HIDE DEF o
  <2>3. o \in gslHandles' \/ \E s \in GslThreads : Busy(s)' /\ gslCall'[s].handle = o
    BY <1>1, <1>3, <2>1
  <2> QED BY <2>2, <2>3, Zenon
<1>9. \A x \in gslConfigured' : gslMemory'[x] = "root bisection"
  BY DEF GslInv, Owned
<1>10. ASSUME NEW s \in GslThreads, gslCall'[s].at = "register"
       PROVE  gslCall'[s].handle[1] \notin gslConfigured'
  <2>1. s # t
    BY <1>3, <1>10
  <2>2. gslCall'[s] = gslCall[s]
    BY <1>3, <2>1
  <2>3. gslCall[s].handle[1] \notin gslConfigured
    BY <1>10, <2>2 DEF GslInv, Owned
  <2> QED BY <2>2, <2>3, Zenon
<1> QED BY <1>2, <1>5, <1>6, <1>7, <1>8, <1>9, <1>10 DEF GslInv, Owned

(* A solver no thread is making or freeing gets its function, or loses it.    *)
LEMMA GslConfigures ==
  ASSUME GslInv, NEW t \in GslThreads, NEW a \in GslAddresses, RootBisectionSet(t, a)
  PROVE  GslInv'
<1> DEFINE h == <<a, "root bisection">>
<1>1. /\ h \in gslHandles /\ h[1] = a /\ h[2] = "root bisection"
      /\ gslConfigured' \subseteq gslConfigured \cup {a}
      /\ gslMemory' = gslMemory /\ gslHandles' = gslHandles /\ gslCall' = gslCall
  BY DEF RootBisectionSet, HasHandle
<1> HIDE DEF h
<1>2. h \in AnyHandle /\ gslMemory[a] = "root bisection"
  BY <1>1 DEF GslInv, GslTypes, Owned
<1>3. GslTypes'
  BY <1>1 DEF GslInv, GslTypes
<1>4. \A x \in gslConfigured' : gslMemory'[x] = "root bisection"
  BY <1>1, <1>2 DEF GslInv, Owned
<1>5. ASSUME NEW s \in GslThreads, gslCall'[s].at = "register"
      PROVE  gslCall'[s].handle[1] \notin gslConfigured'
  <2>1. gslCall[s].at = "register" /\ Busy(s)
    BY <1>1, <1>5 DEF Busy
  <2>2. /\ gslMemory[gslCall[s].handle[1]] = gslCall[s].handle[2] /\ gslCall[s].handle \in AnyHandle
        /\ gslCall[s].handle \notin gslHandles /\ gslCall[s].handle[1] \notin gslConfigured
    BY <2>1, BusyHandle DEF GslInv, Owned
  <2>3. gslCall[s].handle[1] # a
    BY <1>1, <1>2, <2>2, SamePlace
  <2>4. gslCall[s].handle[1] \notin gslConfigured'
    BY <1>1, <2>2, <2>3
  <2> QED BY <1>1, <2>4
<1> QED BY <1>1, <1>3, <1>4, <1>5 DEF GslInv, Owned, Busy

LEMMA GslStart ==
  GslInit => GslInv
BY DEF GslInit, GslInv, GslTypes, Owned, Busy, GslIdle

LEMMA GslStep ==
  ASSUME GslInv, [GslNext]_gslVars PROVE GslInv'
<1>1. ASSUME NEW t \in GslThreads, RegisterHandle(t) PROVE GslInv'
  <2>1. /\ gslCall[t].at = "register" /\ Busy(t) /\ gslConfigured' = gslConfigured
        /\ gslCall' = [gslCall EXCEPT ![t] = GslIdle]
    BY <1>1 DEF RegisterHandle, Busy
  <2>2. CASE gslHandles' = gslHandles \cup {gslCall[t].handle} /\ gslMemory' = gslMemory
    BY <2>1, <2>2, GslGivesIn
  <2>3. CASE gslMemory' = [gslMemory EXCEPT ![gslCall[t].handle[1]] = "free"] /\ gslHandles' = gslHandles
    <3>1. gslCall[t].handle[1] \notin gslConfigured
      BY <2>1 DEF GslInv, Owned
    <3> QED BY <2>1, <2>3, <3>1, GslGivesBack
  <2> QED BY <1>1, <2>2, <2>3 DEF RegisterHandle
<1>2. ASSUME NEW t \in GslThreads, GslFreeMemory(t) PROVE GslInv'
  BY <1>2, GslGivesBack DEF GslFreeMemory, Busy
<1>3. ASSUME NEW t \in GslThreads, NEW a \in GslAddresses, NEW kind \in AllKinds, GslTake(t, a, kind)
      PROVE  GslInv'
  <2>1. <<a, kind>> \in AnyHandle
    BY DEF AnyHandle
  <2> QED BY <1>3, <2>1, GslTakes DEF GslTake
<1>4. ASSUME UNCHANGED gslVars PROVE GslInv'
  BY <1>4 DEF gslVars, GslInv, GslTypes, Owned, Busy
<1>5. ASSUME NEW t \in GslThreads, NEW a \in GslAddresses,
             \E kind \in AllKinds : GslAllocate(t, a, kind) \/ GslTake(t, a, kind)
      PROVE  GslInv'
  BY <1>3, <1>5, GslAllocates
<1>6. ASSUME NEW t \in GslThreads, NEW a \in GslAddresses, RootBisectionSet(t, a) PROVE GslInv'
  BY <1>6, GslConfigures
<1> QED BY <1>1, <1>2, <1>4, <1>5, <1>6
    DEF GslNext, GslKind, AllKinds, RngCreate, VectorCreate, MatrixCreate,
        IntegrationWorkspaceCreate, ComplexCreate, RootBisectionCreate, RngFree, VectorFree,
        MatrixFree, IntegrationWorkspaceFree, ComplexFree, RootBisectionFree

(* An object of the GSL facade has one owner, the registry or the thread that *)
(* is making or freeing it: it is neither leaked nor freed twice.            *)
THEOREM GslObjectsOwned == GslSpec => []GslOwnership
<1>1. GslInv /\ [GslNext]_gslVars => GslInv'
  BY GslStep
<1>2. GslSpec => []GslInv
  BY <1>1, GslStart, PTL DEF GslSpec
<1> QED BY <1>2, OwnedIsOwnership, PTL

-----------------------------------------------------------------------------
(* QuickJS *)

(* The invariant holds until two calls have the same slot in hand.  A slot is  *)
(* real when its object has been returned and not freed; what it was made from *)
(* is then real, too.                                                        *)
JsReal(k, i) == jsTable[k][i].used /\ ~JsFilling(k, i)

JsOwners == JsThreads \cup Nat
JsSlotType == [used : BOOLEAN, gen : Nat, of : JsOwners]
JsCallType == [at : {"idle", "look", "new", "fill", "free", "bump"}, kind : JsKinds, slot : Nat,
               for : JsOwners \cup (JsKinds \X Nat)]

JsTableType == jsTable = [k \in JsKinds |-> jsTable[k]] /\
               \A k \in JsKinds : jsTable[k] \in [JsSlots[k] -> JsSlotType]

JsLinks ==
  /\ \A i \in JsSlots["ctx"] : JsReal("ctx", i) =>
       jsTable["ctx"][i].of \in JsSlots["rt"] /\ JsReal("rt", jsTable["ctx"][i].of)
  /\ \A i \in JsSlots["res"] : JsReal("res", i) =>
       jsTable["res"][i].of \in JsSlots["ctx"] /\ JsReal("ctx", jsTable["res"][i].of)

(* A used slot has an odd generation, and so has one whose generation a call   *)
(* is about to advance.                                                      *)
JsOdd(g) == g % 2 = 1
JsBumped(k, i) == \E t \in JsThreads : jsCall[t].at = "bump" /\ JsInHand(t, k, i)
JsCounted ==
  \A k \in JsKinds : \A i \in JsSlots[k] :
    /\ jsTable[k][i].gen <= JsMaxGen[k] + 1
    /\ jsTable[k][i].used => JsOdd(jsTable[k][i].gen)
    /\ JsOdd(jsTable[k][i].gen) =>
         jsTable[k][i].gen <= JsMaxGen[k] /\ (jsTable[k][i].used \/ JsBumped(k, i))

(* The thread whose runtime an object belongs to. *)
JsOwned(t, k, i) ==
  /\ i \in JsSlots[k] /\ JsReal(k, i)
  /\ k = "rt" => jsTable["rt"][i].of = t
  /\ k = "ctx" => jsTable["rt"][jsTable["ctx"][i].of].of = t
  /\ k = "res" => jsTable["rt"][jsTable["ctx"][jsTable["res"][i].of].of].of = t

JsMay(t, k, for) ==
  /\ k = "rt" => for = t
  /\ k = "ctx" => JsOwned(t, "rt", for)
  /\ k = "res" => JsOwned(t, "ctx", for)

JsGoal(t) ==
  \E k \in JsKinds : \E i \in JsSlots[k] :
    /\ jsCall[t].for = <<k, i>>
    /\ JsOwned(t, k, i) \/ (jsCall[t].at = "bump" /\ jsCall[t].kind = k /\ jsCall[t].slot = i)

JsCallOK(t) ==
  LET c == jsCall[t]
      s == jsTable[c.kind][c.slot]
  IN  /\ c.at \in {"look", "new", "fill", "bump"} => c.slot \in JsSlots[c.kind]
      /\ c.at \in {"look", "new", "fill"} => JsMay(t, c.kind, c.for)
      /\ c.at = "new" => ~s.used /\ ~JsOdd(s.gen)
      /\ c.at = "fill" => s.used
      /\ c.at = "bump" => ~s.used /\ JsOdd(s.gen)
      /\ c.at \in {"free", "bump"} => JsGoal(t)

JsCalm ==
  /\ JsTableType /\ jsCall \in [JsThreads -> JsCallType]
  /\ JsLinks /\ JsCounted /\ ~JsClash
  /\ \A t \in JsThreads : JsCallOK(t)

JsInv == jsClashed \/ JsCalm

LEMMA JsKindsAre ==
  /\ JsKinds = {"rt", "ctx", "res"}
  /\ \A k \in JsKinds : JsSlots[k] \subseteq Nat /\ 1 \in JsSlots[k] /\ 0 \notin JsSlots[k]
                        /\ JsMaxGen[k] \in Nat /\ JsMaxGen[k] < 32767
<1>1. JsKinds = {"rt", "ctx", "res"}
  BY DEF JsKinds, JsSlots
<1>2. JsSlots["rt"] = 1..JsRtSlots /\ JsSlots["ctx"] = 1..JsCtxSlots /\ JsSlots["res"] = 1..JsResSlots
  BY DEF JsSlots
<1>3. ASSUME NEW n \in Nat \ {0} PROVE 1..n \subseteq Nat /\ 1 \in 1..n /\ 0 \notin 1..n
  BY <1>3
<1>4. \A k \in JsKinds : JsSlots[k] \subseteq Nat /\ 1 \in JsSlots[k] /\ 0 \notin JsSlots[k]
  BY <1>1, <1>2, <1>3, JsAssumption
<1>5. \A k \in JsKinds : JsMaxGen[k] \in Nat /\ JsMaxGen[k] < 32767
  BY <1>1, JsAssumption
<1> QED
  BY <1>1, <1>4, <1>5

(* What a step does to the tables and to the calls. *)
JsSlotSet(k, i, new) ==
  /\ JsTableType' /\ jsTable'[k][i] = new
  /\ \A l \in JsKinds : \A j \in JsSlots[l] : (l # k \/ j # i) => jsTable'[l][j] = jsTable[l][j]
JsCallSet(t, c) ==
  /\ jsCall' \in [JsThreads -> JsCallType] /\ jsCall'[t] = c
  /\ \A u \in JsThreads : u # t => jsCall'[u] = jsCall[u]

LEMMA JsOneSlot ==
  ASSUME JsTableType, NEW k \in JsKinds, NEW i \in JsSlots[k], NEW new \in JsSlotType,
         jsTable' = [jsTable EXCEPT ![k] = [jsTable[k] EXCEPT ![i] = new]]
  PROVE  JsSlotSet(k, i, new)
<1> DEFINE row == [jsTable[k] EXCEPT ![i] = new]
<1>1. /\ row \in [JsSlots[k] -> JsSlotType] /\ row[i] = new
      /\ \A j \in JsSlots[k] : j # i => row[j] = jsTable[k][j]
  BY DEF JsTableType
<1>2. jsTable' = [l \in JsKinds |-> IF l = k THEN row ELSE jsTable[l]]
  BY DEF JsTableType
<1> HIDE DEF row
<1>3. jsTable' = [l \in JsKinds |-> jsTable'[l]]
  BY <1>2
<1>4. jsTable'[k] = row /\ \A l \in JsKinds : l # k => jsTable'[l] = jsTable[l]
  BY <1>2
<1>5. JsTableType'
  BY <1>1, <1>3, <1>4 DEF JsTableType
<1> QED
  BY <1>1, <1>4, <1>5 DEF JsSlotSet

LEMMA JsOneCall ==
  ASSUME jsCall \in [JsThreads -> JsCallType], NEW t \in JsThreads, NEW c \in JsCallType,
         jsCall' = [jsCall EXCEPT ![t] = c]
  PROVE  JsCallSet(t, c)
BY DEF JsCallSet

LEMMA JsIdleCall == JsIdle \in JsCallType /\ JsIdle.at = "idle"
BY JsKindsAre DEF JsIdle, JsCallType, Nowhere, JsOwners

(* Slots that thread t neither stops filling nor starts to fill. *)
LEMMA JsFillingSame ==
  ASSUME NEW t \in JsThreads, NEW c, JsCallSet(t, c), NEW k, NEW i,
         ~(jsCall[t].at = "fill" /\ JsInHand(t, k, i)), ~(c.at = "fill" /\ c.kind = k /\ c.slot = i)
  PROVE  JsFilling(k, i)' <=> JsFilling(k, i)
BY DEF JsCallSet, JsFilling, JsInHand

LEMMA JsAlone ==
  ASSUME ~JsClash, NEW t \in JsThreads, NEW u \in JsThreads, NEW k \in JsKinds, NEW i \in JsSlots[k],
         JsInHand(t, k, i), JsInHand(u, k, i)
  PROVE  t = u
BY DEF JsClash

LEMMA JsAloneNext ==
  ASSUME ~JsClash', NEW t \in JsThreads, NEW u \in JsThreads, NEW k \in JsKinds, NEW i \in JsSlots[k],
         JsInHand(t, k, i)', JsInHand(u, k, i)'
  PROVE  t = u
BY DEF JsClash

(* What is real stays as it is, but for one slot, from which nothing real was  *)
(* made.                                                                     *)
JsKept(k, i) ==
  /\ JsReal(k, i)' /\ jsTable'[k][i].of = jsTable[k][i].of
  /\ jsTable'[k][i].gen = jsTable[k][i].gen
JsKeptBut(k0, i0) ==
  \A k \in JsKinds : \A i \in JsSlots[k] : JsReal(k, i) /\ (k # k0 \/ i # i0) => JsKept(k, i)
JsNoChild(k0, i0) ==
  /\ k0 = "rt" => \A c \in JsSlots["ctx"] : JsReal("ctx", c) => jsTable["ctx"][c].of # i0
  /\ k0 = "ctx" => \A r \in JsSlots["res"] : JsReal("res", r) => jsTable["res"][r].of # i0

LEMMA JsOwnedKept ==
  ASSUME JsLinks, NEW k0, NEW i0, JsKeptBut(k0, i0), JsNoChild(k0, i0),
         NEW t, NEW k \in JsKinds, NEW i, k # k0 \/ i # i0, JsOwned(t, k, i)
  PROVE  JsOwned(t, k, i)'
<1>1. i \in JsSlots[k] /\ JsReal(k, i) /\ JsKept(k, i)
  BY DEF JsOwned, JsKeptBut
<1>2. CASE k = "rt"
  BY <1>1, <1>2 DEF JsOwned, JsKept
<1>3. ASSUME NEW c \in JsSlots["ctx"], JsReal("ctx", c), "ctx" # k0 \/ c # i0
      PROVE  /\ jsTable'["ctx"][c].of = jsTable["ctx"][c].of
             /\ jsTable'["rt"][jsTable["ctx"][c].of].of = jsTable["rt"][jsTable["ctx"][c].of].of
  <2>1. jsTable["ctx"][c].of \in JsSlots["rt"] /\ JsReal("rt", jsTable["ctx"][c].of)
    BY <1>3 DEF JsLinks
  <2>2. "rt" # k0 \/ jsTable["ctx"][c].of # i0
    BY <1>3 DEF JsNoChild
  <2>3. JsKept("rt", jsTable["ctx"][c].of) /\ JsKept("ctx", c)
    BY <1>3, <2>1, <2>2, JsKindsAre DEF JsKeptBut
  <2> QED
    BY <2>3 DEF JsKept
<1>4. CASE k = "ctx"
  BY <1>1, <1>3, <1>4 DEF JsOwned, JsKept
<1>5. CASE k = "res"
  <2>1. PICK c \in JsSlots["ctx"] : c = jsTable["res"][i].of /\ JsReal("ctx", c)
    BY <1>1, <1>5 DEF JsLinks
  <2>2. "ctx" # k0 \/ c # i0
    BY <1>1, <1>5, <2>1 DEF JsNoChild
  <2>3. jsTable'["res"][i].of = c
    BY <1>1, <1>5, <2>1 DEF JsKept
  <2> QED
    BY <1>1, <1>3, <1>5, <2>1, <2>2, <2>3 DEF JsOwned, JsKept
<1> QED
  BY <1>2, <1>4, <1>5, JsKindsAre

LEMMA JsLinksKept ==
  ASSUME JsLinks, NEW k0, NEW i0, JsKeptBut(k0, i0), JsNoChild(k0, i0), NEW for, NEW t,
         \A k \in JsKinds : \A i \in JsSlots[k] : JsReal(k, i)' =>
           \/ JsReal(k, i) /\ (k # k0 \/ i # i0)
           \/ k = k0 /\ i = i0 /\ jsTable'[k][i].of = for /\ JsMay(t, k, for)
  PROVE  JsLinks'
<1>1. ASSUME NEW c \in JsSlots["ctx"], JsReal("ctx", c)'
      PROVE  \E r \in JsSlots["rt"] : r = jsTable'["ctx"][c].of /\ JsReal("rt", r)'
  <2>1. CASE JsReal("ctx", c) /\ ("ctx" # k0 \/ c # i0)
    <3>1. JsKept("ctx", c)
      BY <2>1, JsKindsAre DEF JsKeptBut
    <3>2. PICK r \in JsSlots["rt"] : r = jsTable["ctx"][c].of /\ JsReal("rt", r)
      BY <2>1 DEF JsLinks
    <3>3. JsKept("rt", r)
      BY <2>1, <3>2, JsKindsAre DEF JsNoChild, JsKeptBut
    <3> QED
      BY <3>1, <3>2, <3>3 DEF JsKept
  <2>2. CASE "ctx" = k0 /\ jsTable'["ctx"][c].of = for /\ JsMay(t, "ctx", for)
    <3>1. for \in JsSlots["rt"] /\ JsReal("rt", for)
      BY <2>2 DEF JsMay, JsOwned
    <3>2. JsKept("rt", for)
      BY <2>2, <3>1, JsKindsAre DEF JsKeptBut
    <3> QED
      BY <2>2, <3>1, <3>2 DEF JsKept
  <2> QED
    BY <1>1, <2>1, <2>2, JsKindsAre
<1>2. ASSUME NEW r \in JsSlots["res"], JsReal("res", r)'
      PROVE  \E c \in JsSlots["ctx"] : c = jsTable'["res"][r].of /\ JsReal("ctx", c)'
  <2>1. CASE JsReal("res", r) /\ ("res" # k0 \/ r # i0)
    <3>1. JsKept("res", r)
      BY <2>1, JsKindsAre DEF JsKeptBut
    <3>2. PICK c \in JsSlots["ctx"] : c = jsTable["res"][r].of /\ JsReal("ctx", c)
      BY <2>1 DEF JsLinks
    <3>3. JsKept("ctx", c)
      BY <2>1, <3>2, JsKindsAre DEF JsNoChild, JsKeptBut
    <3> QED
      BY <3>1, <3>2, <3>3 DEF JsKept
  <2>2. CASE "res" = k0 /\ jsTable'["res"][r].of = for /\ JsMay(t, "res", for)
    <3>1. for \in JsSlots["ctx"] /\ JsReal("ctx", for)
      BY <2>2 DEF JsMay, JsOwned
    <3>2. JsKept("ctx", for)
      BY <2>2, <3>1, JsKindsAre DEF JsKeptBut
    <3> QED
      BY <2>2, <3>1, <3>2 DEF JsKept
  <2> QED
    BY <1>2, <2>1, <2>2, JsKindsAre
<1> QED
  BY <1>1, <1>2 DEF JsLinks, JsReal, JsFilling, JsInHand

(* The calls of the other threads, if a step leaves alone what they have in    *)
(* hand and what they own.                                                   *)
LEMMA JsOthersOK ==
  ASSUME JsCalm, NEW t \in JsThreads, NEW c, JsCallSet(t, c),
         NEW k0, NEW i0, JsKeptBut(k0, i0), JsNoChild(k0, i0),
         k0 \in JsKinds => \A u \in JsThreads : u # t => ~JsOwned(u, k0, i0),
         NEW u \in JsThreads, u # t,
         \A k \in JsKinds : \A i \in JsSlots[k] : JsInHand(u, k, i) => jsTable'[k][i] = jsTable[k][i]
  PROVE  JsCallOK(u)'
<1>1. jsCall'[u] = jsCall[u] /\ JsCallOK(u) /\ JsLinks /\ jsCall[u].kind \in JsKinds
  BY DEF JsCallSet, JsCalm, JsCallType
<1>2. \A k \in JsKinds : \A i : JsOwned(u, k, i) => JsOwned(u, k, i)'
  BY <1>1, JsOwnedKept
<1>3. \A k \in JsKinds : \A for : JsMay(u, k, for) => JsMay(u, k, for)'
  BY <1>2, JsKindsAre DEF JsMay
<1>4. ASSUME JsGoal(u) PROVE JsGoal(u)'
  <2>1. PICK k \in JsKinds : \E i \in JsSlots[k] :
          /\ jsCall[u].for = <<k, i>>
          /\ JsOwned(u, k, i) \/ (jsCall[u].at = "bump" /\ jsCall[u].kind = k /\ jsCall[u].slot = i)
    BY <1>4 DEF JsGoal
  <2>2. PICK i \in JsSlots[k] :
          /\ jsCall[u].for = <<k, i>>
          /\ JsOwned(u, k, i) \/ (jsCall[u].at = "bump" /\ jsCall[u].kind = k /\ jsCall[u].slot = i)
    BY <2>1
  <2>3. JsOwned(u, k, i) => JsOwned(u, k, i)'
    BY <1>2
  <2> QED
    BY <1>1, <2>2, <2>3 DEF JsGoal
<1>5. jsCall[u].at \in {"new", "fill", "bump"} =>
        jsTable'[jsCall[u].kind][jsCall[u].slot] = jsTable[jsCall[u].kind][jsCall[u].slot]
  BY <1>1 DEF JsInHand, JsCallOK
<1>6. PICK kk \in JsKinds : kk = jsCall[u].kind
  BY <1>1
<1>7. PICK ff : ff = jsCall[u].for
  OBVIOUS
<1>8. jsCall[u].at \in {"look", "new", "fill"} => JsMay(u, kk, ff)'
  BY <1>1, <1>3, <1>6, <1>7 DEF JsCallOK
<1> QED
  BY <1>1, <1>4, <1>5, <1>6, <1>7, <1>8 DEF JsCallOK

LEMMA JsBumpedKept ==
  ASSUME NEW t \in JsThreads, NEW c, JsCallSet(t, c), NEW k, NEW i,
         ~(jsCall[t].at = "bump" /\ JsInHand(t, k, i)), JsBumped(k, i)
  PROVE  JsBumped(k, i)'
BY DEF JsCallSet, JsBumped, JsInHand

(* A step that changes no table, in which thread t neither fills nor bumps.    *)
LEMMA JsCallStep ==
  ASSUME JsCalm, ~JsClash', UNCHANGED jsTable, NEW t \in JsThreads, NEW c, JsCallSet(t, c),
         jsCall[t].at \notin {"fill", "bump"}, c.at # "fill", JsCallOK(t)'
  PROVE  /\ JsCalm' /\ JsKeptBut("none", 0) /\ JsNoChild("none", 0)
         /\ \A k \in JsKinds : \A i \in JsSlots[k] : /\ JsReal(k, i)' <=> JsReal(k, i)
                                                     /\ JsReturned(k, i)' = JsReturned(k, i)
<1>1. \A k \in JsKinds : \A i \in JsSlots[k] : JsFilling(k, i)' <=> JsFilling(k, i)
  BY JsFillingSame
<1>2. \A k \in JsKinds : \A i \in JsSlots[k] : /\ JsReal(k, i)' <=> JsReal(k, i)
                                               /\ JsReturned(k, i)' = JsReturned(k, i)
  BY <1>1 DEF JsReal, JsReturned
<1>3. JsKeptBut("none", 0) /\ JsNoChild("none", 0)
  BY <1>2 DEF JsKeptBut, JsKept, JsNoChild
<1>4. JsLinks'
  <2>1. \A k \in JsKinds : k # "none"
    BY JsKindsAre
  <2> QED
    BY <1>2, <1>3, <2>1, JsLinksKept DEF JsCalm
<1>5. JsCounted'
  <2>1. \A k \in JsKinds : \A i \in JsSlots[k] : JsBumped(k, i) => JsBumped(k, i)'
    BY JsBumpedKept
  <2> QED
    BY <2>1 DEF JsCalm, JsCounted
<1>6. \A u \in JsThreads : u # t => JsCallOK(u)'
  BY <1>3, JsKindsAre, JsOthersOK
<1>7. JsTableType' /\ jsCall' \in [JsThreads -> JsCallType]
  BY DEF JsCalm, JsTableType, JsCallSet
<1> QED
  BY <1>2, <1>3, <1>4, <1>5, <1>6, <1>7 DEF JsCalm

(* A step that writes one slot, which no other thread has in hand before or    *)
(* after it; thread t fills and bumps only that one.                         *)
JsWrites(t, c, k0, i0, new) ==
  /\ JsCallSet(t, c) /\ JsSlotSet(k0, i0, new)
  /\ jsCall[t].at \in {"fill", "bump"} => jsCall[t].kind = k0 /\ jsCall[t].slot = i0
  /\ c.at \in {"fill", "bump"} => c.kind = k0 /\ c.slot = i0
  /\ \A u \in JsThreads : u # t => ~JsInHand(u, k0, i0)

LEMMA JsInOneHand ==
  ASSUME NEW t \in JsThreads, NEW c, NEW k0 \in JsKinds, NEW i0 \in JsSlots[k0], NEW new,
         JsWrites(t, c, k0, i0, new)
  PROVE  /\ JsFilling(k0, i0) <=> jsCall[t].at = "fill"
         /\ JsFilling(k0, i0)' <=> c.at = "fill"
         /\ JsBumped(k0, i0)' <=> c.at = "bump"
<1>1. \A u \in JsThreads : u # t => ~JsInHand(u, k0, i0)'
  BY DEF JsWrites, JsCallSet, JsInHand
<1>2. jsCall'[t] = c
  BY DEF JsWrites, JsCallSet
<1>3. jsCall[t].at = "fill" => JsInHand(t, k0, i0)
  BY DEF JsWrites, JsInHand
<1>4. c.at \in {"fill", "bump"} => JsInHand(t, k0, i0)'
  BY <1>2 DEF JsWrites, JsInHand
<1> QED
  BY <1>1, <1>2, <1>3, <1>4 DEF JsWrites, JsFilling, JsBumped

LEMMA JsOtherSlots ==
  ASSUME NEW t \in JsThreads, NEW c, NEW k0 \in JsKinds, NEW i0 \in JsSlots[k0], NEW new,
         JsWrites(t, c, k0, i0, new),
         NEW k \in JsKinds, NEW i \in JsSlots[k], k # k0 \/ i # i0
  PROVE  /\ JsReal(k, i)' <=> JsReal(k, i)
         /\ JsReal(k, i) => JsKept(k, i)
         /\ JsReturned(k, i)' = JsReturned(k, i)
         /\ JsBumped(k, i) => JsBumped(k, i)'
<1>1. jsTable'[k][i] = jsTable[k][i]
  BY DEF JsWrites, JsSlotSet
<1>2. JsFilling(k, i)' <=> JsFilling(k, i)
  BY JsFillingSame DEF JsWrites, JsInHand
<1>3. JsBumped(k, i) => JsBumped(k, i)'
  BY JsBumpedKept DEF JsWrites, JsInHand
<1> QED
  BY <1>1, <1>2, <1>3 DEF JsReal, JsKept, JsReturned

LEMMA JsSlotStep ==
  ASSUME JsCalm, ~JsClash', NEW t \in JsThreads, NEW c, NEW k0 \in JsKinds, NEW i0 \in JsSlots[k0],
         NEW new, JsWrites(t, c, k0, i0, new), JsNoChild(k0, i0),
         \A u \in JsThreads : u # t => ~JsOwned(u, k0, i0),
         JsReal(k0, i0)' => JsMay(t, k0, new.of),
         new.gen <= JsMaxGen[k0] + 1, new.used => JsOdd(new.gen),
         JsOdd(new.gen) => new.gen <= JsMaxGen[k0] /\ (new.used \/ c.at = "bump"),
         JsCallOK(t)'
  PROVE  JsCalm' /\ JsKeptBut(k0, i0)
<1>1. JsKeptBut(k0, i0)
  BY JsOtherSlots DEF JsKeptBut
<1>2. jsTable'[k0][i0] = new /\ JsCallSet(t, c) /\ JsTableType' /\ jsCall' \in [JsThreads -> JsCallType]
  BY DEF JsWrites, JsSlotSet, JsCallSet
<1>3. JsLinks'
  <2>1. \A k \in JsKinds : \A i \in JsSlots[k] : JsReal(k, i)' =>
           \/ JsReal(k, i) /\ (k # k0 \/ i # i0)
           \/ k = k0 /\ i = i0 /\ jsTable'[k][i].of = new.of /\ JsMay(t, k, new.of)
    BY <1>2, JsOtherSlots
  <2> QED
    BY <1>1, <2>1, JsLinksKept DEF JsCalm
<1>4. JsCounted'
  <2>1. ASSUME NEW k \in JsKinds, NEW i \in JsSlots[k]
        PROVE  /\ jsTable'[k][i].gen <= JsMaxGen[k] + 1
               /\ jsTable'[k][i].used => JsOdd(jsTable'[k][i].gen)
               /\ JsOdd(jsTable'[k][i].gen) =>
                    jsTable'[k][i].gen <= JsMaxGen[k] /\ (jsTable'[k][i].used \/ JsBumped(k, i)')
    <3>1. CASE k = k0 /\ i = i0
      BY <1>2, <3>1, JsInOneHand
    <3>2. CASE k # k0 \/ i # i0
      <4>1. jsTable'[k][i] = jsTable[k][i] /\ (JsBumped(k, i) => JsBumped(k, i)')
        BY <3>2, JsOtherSlots DEF JsWrites, JsSlotSet
      <4> QED
        BY <4>1 DEF JsCalm, JsCounted
    <3> QED
      BY <3>1, <3>2
  <2> QED
    BY <2>1 DEF JsCounted
<1>5. \A u \in JsThreads : u # t => JsCallOK(u)'
  <2>1. ASSUME NEW u \in JsThreads, u # t
        PROVE  \A k \in JsKinds : \A i \in JsSlots[k] : JsInHand(u, k, i) => jsTable'[k][i] = jsTable[k][i]
    BY <2>1 DEF JsWrites, JsSlotSet
  <2> QED
    BY <1>1, <1>2, <2>1, JsOthersOK
<1> QED
  BY <1>1, <1>2, <1>3, <1>4, <1>5 DEF JsCalm

(* What every step but Fill does: it takes at most one object away, from which *)
(* no other was made.                                                        *)
JsRetires(k0, i0) ==
  /\ JsKeptBut(k0, i0) /\ JsNoChild(k0, i0)
  /\ \A k \in JsKinds : \A i \in JsSlots[k] :
       /\ JsReal(k, i)' => JsReal(k, i) /\ (k # k0 \/ i # i0)
       /\ \A g \in 1..JsMaxGen[k] : JsOdd(g) => (g <= JsReturned(k, i)' <=> g <= JsReturned(k, i))
JsTakesAway == \E k0, i0 : JsRetires(k0, i0)

LEMMA JsOnlyCalls ==
  ASSUME JsCalm, ~JsClash', UNCHANGED jsTable, NEW t \in JsThreads, NEW c \in JsCallType,
         jsCall' = [jsCall EXCEPT ![t] = c],
         jsCall[t].at \notin {"fill", "bump"}, c.at # "fill", JsCallOK(t)'
  PROVE  JsCalm' /\ JsTakesAway
<1>1. JsCallSet(t, c)
  BY JsOneCall DEF JsCalm
<1>2. /\ JsCalm' /\ JsKeptBut("none", 0) /\ JsNoChild("none", 0)
      /\ \A k \in JsKinds : \A i \in JsSlots[k] : /\ JsReal(k, i)' <=> JsReal(k, i)
                                                  /\ JsReturned(k, i)' = JsReturned(k, i)
  BY <1>1, JsCallStep
<1>3. JsRetires("none", 0)
  BY <1>2, JsKindsAre DEF JsRetires
<1> QED
  BY <1>2, <1>3 DEF JsTakesAway

LEMMA JsSearches ==
  ASSUME JsCalm, ~JsClash', NEW t \in JsThreads, NEW k \in JsKinds, NEW for \in JsOwners,
         Search(t, k, for), JsMay(t, k, for)
  PROVE  JsCalm' /\ JsTakesAway
<1> DEFINE c == [at |-> "look", kind |-> k, slot |-> 1, for |-> for]
<1>1. c \in JsCallType /\ c.at = "look" /\ c.kind = k /\ c.slot = 1 /\ c.for = for
  BY DEF JsCallType
<1>2. UNCHANGED jsTable /\ jsCall' = [jsCall EXCEPT ![t] = c] /\ jsCall[t].at = "idle"
  BY JsIdleCall DEF Search
<1>3. JsCallSet(t, c)
  BY <1>1, <1>2, JsOneCall DEF JsCalm
<1> HIDE DEF c
<1>4. JsMay(t, k, for)'
  <2>1. \A kk \in JsKinds : \A i : JsOwned(t, kk, i) => JsOwned(t, kk, i)'
    <3>1. \A kk \in JsKinds : \A i \in JsSlots[kk] : JsFilling(kk, i)' <=> JsFilling(kk, i)
      BY <1>1, <1>2, <1>3, JsFillingSame
    <3> QED
      BY <1>2, <3>1 DEF JsOwned, JsReal
  <2> QED
    BY <2>1, JsKindsAre DEF JsMay
<1>5. JsCallOK(t)'
  BY <1>1, <1>3, <1>4, JsKindsAre DEF JsCallOK, JsCallSet
<1> QED
  BY <1>1, <1>2, <1>5, JsOnlyCalls

(* A handle that was returned is not of a slot that is being filled.         *)
LEMMA JsOfIssued ==
  ASSUME JsCalm, NEW k \in JsKinds, NEW h \in JsIssuedOf(k)
  PROVE  h[2] \in JsSlots[k] /\ (JsResolves(k, h[2], h[3]) => JsReal(k, h[2]))
<1>1. PICK i \in JsSlots[k] :
        h \in {k} \X {i} \X {g \in 1..JsMaxGen[k] : g <= JsReturned(k, i) /\ g % 2 = 1}
  BY DEF JsIssuedOf
<1>2. h[2] = i /\ h[3] \in 1..JsMaxGen[k] /\ h[3] <= JsReturned(k, i)
  BY <1>1
<1>3. jsTable[k][i].gen \in Nat
  BY DEF JsCalm, JsTableType, JsSlotType
<1>4. ASSUME JsResolves(k, i, h[3]) PROVE JsReal(k, i)
  <2>1. jsTable[k][i].used /\ jsTable[k][i].gen = h[3]
    BY <1>4 DEF JsResolves
  <2>2. JsFilling(k, i) => JsReturned(k, i) = h[3] - 1
    BY <2>1 DEF JsReturned
  <2>3. h[3] \in Nat
    BY <1>3, <2>1
  <2>4. ~JsFilling(k, i)
    BY <1>2, <2>2, <2>3
  <2> QED
    BY <2>1, <2>4 DEF JsReal
<1> QED
  BY <1>2, <1>4

LEMMA JsGetRuntimeOwned ==
  ASSUME JsCalm, NEW t \in JsThreads, NEW h \in JsIssuedOf("rt"), GetRuntime(t, h[2], h[3])
  PROVE  h[2] \in JsSlots["rt"] /\ JsOwned(t, "rt", h[2])
BY JsKindsAre, JsOfIssued DEF GetRuntime, JsOwned

LEMMA JsGetContextOwned ==
  ASSUME JsCalm, NEW t \in JsThreads, NEW h \in JsIssuedOf("ctx"), GetContext(t, h[2], h[3])
  PROVE  h[2] \in JsSlots["ctx"] /\ JsOwned(t, "ctx", h[2])
BY JsKindsAre, JsOfIssued DEF GetContext, JsOwned

LEMMA JsGetResultOwned ==
  ASSUME JsCalm, NEW t \in JsThreads, NEW h \in JsIssuedOf("res"), NEW c, JsOwned(t, "ctx", c),
         GetResult(h[2], h[3], c)
  PROVE  h[2] \in JsSlots["res"] /\ JsOwned(t, "res", h[2])
BY JsKindsAre, JsOfIssued DEF GetResult, JsOwned

LEMMA JsReleases ==
  ASSUME JsCalm, ~JsClash', NEW t \in JsThreads, NEW k \in JsKinds, NEW i \in JsSlots[k],
         Release(t, k, i), JsOwned(t, k, i)
  PROVE  JsCalm' /\ JsTakesAway
<1> DEFINE c == [at |-> "free", kind |-> k, slot |-> i, for |-> <<k, i>>]
<1>1. c \in JsCallType /\ c.at = "free" /\ c.for = <<k, i>>
  BY JsKindsAre DEF JsCallType
<1>2. UNCHANGED jsTable /\ jsCall' = [jsCall EXCEPT ![t] = c] /\ jsCall[t].at = "idle"
  BY JsIdleCall DEF Release
<1>3. JsCallSet(t, c)
  BY <1>1, <1>2, JsOneCall DEF JsCalm
<1> HIDE DEF c
<1>4. JsOwned(t, k, i)'
  <2>1. \A kk \in JsKinds : \A j \in JsSlots[kk] : JsFilling(kk, j)' <=> JsFilling(kk, j)
    BY <1>1, <1>2, <1>3, JsFillingSame
  <2> QED
    BY <1>2, <2>1 DEF JsOwned, JsReal
<1>5. JsCallOK(t)'
  <2>1. jsCall'[t] = c
    BY <1>3 DEF JsCallSet
  <2>2. JsGoal(t)'
    BY <1>1, <1>4, <2>1 DEF JsGoal
  <2> QED
    BY <1>1, <2>1, <2>2 DEF JsCallOK
<1> QED
  BY <1>1, <1>2, <1>5, JsOnlyCalls

LEMMA JsCallsSafe ==
  ASSUME JsCalm, ~JsClash', NEW t \in JsThreads, JsCalls(t)
  PROVE  JsCalm' /\ JsTakesAway
<1>1. "rt" \in JsKinds /\ "ctx" \in JsKinds /\ "res" \in JsKinds /\ t \in JsOwners
      /\ JsSlots["rt"] \subseteq JsOwners /\ JsSlots["ctx"] \subseteq JsOwners
  BY JsKindsAre DEF JsOwners
<1>2. CASE RuntimeCreate(t)
  BY <1>1, <1>2, JsSearches DEF RuntimeCreate, JsMay
<1>3. ASSUME NEW h \in JsIssuedOf("rt"), ContextCreate(t, h[2], h[3]) \/ RuntimeFree(t, h[2], h[3])
      PROVE  JsCalm' /\ JsTakesAway
  <2>1. h[2] \in JsSlots["rt"] /\ JsOwned(t, "rt", h[2])
    BY <1>3, JsGetRuntimeOwned DEF ContextCreate, RuntimeFree
  <2>2. JsMay(t, "ctx", h[2])
    BY <2>1 DEF JsMay
  <2>3. CASE ContextCreate(t, h[2], h[3])
    BY <1>1, <2>1, <2>2, <2>3, JsSearches DEF ContextCreate
  <2>4. CASE RuntimeFree(t, h[2], h[3])
    BY <1>1, <2>1, <2>4, JsReleases DEF RuntimeFree
  <2> QED
    BY <1>3, <2>3, <2>4
<1>4. ASSUME NEW h \in JsIssuedOf("ctx"), GetContext(t, h[2], h[3]),
             \/ CallJson(t, h[2], h[3]) \/ ContextFree(t, h[2], h[3])
             \/ \E k \in JsIssuedOf("res") : ResultFree(t, h[2], h[3], k[2], k[3])
      PROVE  JsCalm' /\ JsTakesAway
  <2>1. h[2] \in JsSlots["ctx"] /\ JsOwned(t, "ctx", h[2])
    BY <1>4, JsGetContextOwned
  <2>2. JsMay(t, "res", h[2])
    BY <2>1 DEF JsMay
  <2>3. CASE CallJson(t, h[2], h[3])
    BY <1>1, <2>1, <2>2, <2>3, JsSearches DEF CallJson
  <2>4. CASE ContextFree(t, h[2], h[3])
    BY <1>1, <2>1, <2>4, JsReleases DEF ContextFree
  <2>5. ASSUME NEW k \in JsIssuedOf("res"), ResultFree(t, h[2], h[3], k[2], k[3])
        PROVE  JsCalm' /\ JsTakesAway
    <3>1. k[2] \in JsSlots["res"] /\ JsOwned(t, "res", k[2])
      BY <2>1, <2>5, JsGetResultOwned DEF ResultFree
    <3> QED
      BY <1>1, <2>5, <3>1, JsReleases DEF ResultFree
  <2> QED
    BY <1>4, <2>3, <2>4, <2>5
<1> QED
  BY <1>2, <1>3, <1>4 DEF JsCalls, CallJson, ContextFree, ResultFree

LEMMA JsMayOnlyCalls ==
  ASSUME JsCalm, UNCHANGED jsTable, NEW t \in JsThreads, NEW c, JsCallSet(t, c),
         jsCall[t].at # "fill", c.at # "fill", NEW k \in JsKinds, NEW for, JsMay(t, k, for)
  PROVE  JsMay(t, k, for)'
<1>1. \A kk \in JsKinds : \A i \in JsSlots[kk] : JsFilling(kk, i)' <=> JsFilling(kk, i)
  BY JsFillingSame
<1>2. \A kk \in JsKinds : \A i : JsOwned(t, kk, i) => JsOwned(t, kk, i)'
  BY <1>1 DEF JsOwned, JsReal
<1> QED
  BY <1>2, JsKindsAre DEF JsMay

LEMMA JsStops ==
  ASSUME JsCalm, ~JsClash', UNCHANGED jsTable, NEW t \in JsThreads,
         jsCall[t].at \notin {"fill", "bump"}, jsCall' = [jsCall EXCEPT ![t] = JsIdle]
  PROVE  JsCalm' /\ JsTakesAway
<1>1. JsCallOK(t)'
  <2>1. jsCall'[t] = JsIdle
    BY DEF JsCalm
  <2> QED
    BY <2>1, JsIdleCall DEF JsCallOK
<1> QED
  BY <1>1, JsIdleCall, JsOnlyCalls

LEMMA JsLooks ==
  ASSUME JsCalm, ~JsClash', NEW t \in JsThreads, Look(t)
  PROVE  JsCalm' /\ JsTakesAway
<1>1. PICK old \in JsCallType : old = jsCall[t]
  BY DEF JsCalm
<1>2. /\ old.at = "look" /\ UNCHANGED jsTable
      /\ jsCall' = [jsCall EXCEPT ![t] =
           IF ~jsTable[old.kind][old.slot].used THEN [old EXCEPT !.at = "new"]
           ELSE IF old.slot + 1 \in JsSlots[old.kind] THEN [old EXCEPT !.slot = old.slot + 1] ELSE JsIdle]
  BY <1>1 DEF Look
<1>3. old.kind \in JsKinds /\ old.slot \in JsSlots[old.kind] /\ JsMay(t, old.kind, old.for)
  BY <1>1, <1>2 DEF JsCalm, JsCallOK, JsCallType
<1>4. CASE ~jsTable[old.kind][old.slot].used
  <2> DEFINE c == [old EXCEPT !.at = "new"]
  <2>1. c \in JsCallType /\ c.at = "new" /\ c.kind = old.kind /\ c.slot = old.slot /\ c.for = old.for
    BY DEF JsCallType
  <2>2. jsCall' = [jsCall EXCEPT ![t] = c]
    BY <1>2, <1>4
  <2> HIDE DEF c
  <2>3. JsCallSet(t, c)
    BY <2>1, <2>2, JsOneCall DEF JsCalm
  <2>4. JsMay(t, old.kind, old.for)'
    BY <1>1, <1>2, <1>3, <2>1, <2>3, JsMayOnlyCalls
  <2>5. ~JsBumped(old.kind, old.slot)
    <3>1. JsInHand(t, old.kind, old.slot)'
      BY <2>1, <2>3 DEF JsInHand, JsCallSet
    <3>2. ASSUME NEW u \in JsThreads, jsCall[u].at = "bump", JsInHand(u, old.kind, old.slot) PROVE FALSE
      <4>1. u # t
        BY <1>1, <1>2, <3>2
      <4>2. JsInHand(u, old.kind, old.slot)'
        BY <2>3, <3>2, <4>1 DEF JsInHand, JsCallSet
      <4> QED
        BY <1>3, <3>1, <4>1, <4>2, JsAloneNext
    <3> QED
      BY <3>2 DEF JsBumped
  <2>6. ~JsOdd(jsTable[old.kind][old.slot].gen)
    BY <1>3, <1>4, <2>5 DEF JsCalm, JsCounted
  <2>7. JsCallOK(t)'
    BY <1>2, <1>3, <1>4, <2>1, <2>3, <2>4, <2>6 DEF JsCallOK, JsCallSet
  <2> QED
    BY <1>1, <1>2, <2>1, <2>2, <2>7, JsOnlyCalls
<1>5. CASE jsTable[old.kind][old.slot].used /\ old.slot + 1 \in JsSlots[old.kind]
  <2> DEFINE c == [old EXCEPT !.slot = old.slot + 1]
  <2>1. c \in JsCallType /\ c.at = "look" /\ c.kind = old.kind /\ c.slot = old.slot + 1 /\ c.for = old.for
    BY <1>2 DEF JsCallType
  <2>2. jsCall' = [jsCall EXCEPT ![t] = c]
    BY <1>2, <1>5
  <2> HIDE DEF c
  <2>3. JsCallSet(t, c)
    BY <2>1, <2>2, JsOneCall DEF JsCalm
  <2>4. JsMay(t, old.kind, old.for)'
    BY <1>1, <1>2, <1>3, <2>1, <2>3, JsMayOnlyCalls
  <2>5. JsCallOK(t)'
    BY <1>5, <2>1, <2>3, <2>4 DEF JsCallOK, JsCallSet
  <2> QED
    BY <1>1, <1>2, <2>1, <2>2, <2>5, JsOnlyCalls
<1>6. CASE jsTable[old.kind][old.slot].used /\ old.slot + 1 \notin JsSlots[old.kind]
  BY <1>1, <1>2, <1>6, JsStops
<1> QED
  BY <1>4, <1>5, <1>6

LEMMA JsAdvance ==
  ASSUME NEW k \in JsKinds, NEW g \in Nat, g <= JsMaxGen[k]
  PROVE  /\ NextGeneration(g) = g + 1
         /\ JsOdd(g + 1) <=> ~JsOdd(g)
BY JsKindsAre DEF NextGeneration, JsOdd

(* What a thread has in hand no other has.                                   *)
LEMMA JsHeldAlone ==
  ASSUME JsCalm, NEW t \in JsThreads, NEW k \in JsKinds, NEW i \in JsSlots[k], JsInHand(t, k, i)
  PROVE  \A u \in JsThreads : u # t => ~JsInHand(u, k, i)
BY JsAlone DEF JsCalm

LEMMA JsNotOwned ==
  ASSUME NEW k, NEW i, ~JsReal(k, i) PROVE \A u \in JsThreads : ~JsOwned(u, k, i)
BY DEF JsOwned

LEMMA JsNothingMade ==
  ASSUME JsLinks, NEW k, NEW i, ~JsReal(k, i) PROVE JsNoChild(k, i)
BY DEF JsNoChild, JsLinks

LEMMA JsTakes ==
  ASSUME JsCalm, ~JsClash', NEW t \in JsThreads, Take(t)
  PROVE  JsCalm' /\ JsTakesAway
<1>1. PICK call \in JsCallType : call = jsCall[t]
  BY DEF JsCalm
<1>2. PICK k \in JsKinds : k = call.kind
  BY DEF JsCallType
<1>3. call.at = "new" /\ JsCallOK(t)
  BY <1>1 DEF Take, JsCalm
<1>4. PICK i \in JsSlots[k] : i = call.slot
  BY <1>1, <1>2, <1>3 DEF JsCallOK
<1>5. PICK old \in JsSlotType : old = jsTable[k][i]
  BY DEF JsCalm, JsTableType
<1> DEFINE c == [call EXCEPT !.at = "fill"]
           new == [old EXCEPT !.used = TRUE, !.gen = NextGeneration(old.gen)]
<1>6. /\ old.gen \in Nat /\ old.gen < JsMaxGen[k]
      /\ jsTable' = [jsTable EXCEPT ![k] = [jsTable[k] EXCEPT ![i] = new]]
      /\ jsCall' = [jsCall EXCEPT ![t] = c]
  <2>1. jsTable' = [jsTable EXCEPT ![k] = [jsTable[k] EXCEPT ![i] = new]]
    <3>1. jsCall[t].kind = k /\ jsCall[t].slot = i
      BY <1>1, <1>2, <1>4
    <3>2. jsTable' = [jsTable EXCEPT ![k][i] = [jsTable[k][i] EXCEPT !.used = TRUE, !.gen = NextGeneration(@)]]
      BY <3>1 DEF Take
    <3> QED
      BY <1>5, <3>2
  <2>2. jsCall' = [jsCall EXCEPT ![t] = c]
    BY <1>1 DEF Take
  <2> QED
    BY <1>1, <1>2, <1>4, <1>5, <2>1, <2>2 DEF Take, JsSlotType
<1>7. ~old.used /\ ~JsOdd(old.gen) /\ JsMay(t, k, call.for)
  BY <1>1, <1>2, <1>3, <1>4, <1>5 DEF JsCallOK
<1>8. NextGeneration(old.gen) = old.gen + 1 /\ JsOdd(old.gen + 1)
  BY <1>6, <1>7, JsKindsAre, JsAdvance
<1>9. /\ c \in JsCallType /\ c.at = "fill" /\ c.kind = k /\ c.slot = i /\ c.for = call.for
  BY <1>2, <1>4 DEF JsCallType
<1>10. new \in JsSlotType /\ new.used /\ new.gen = old.gen + 1
  <2>1. old.gen + 1 \in Nat
    BY <1>6
  <2>2. new = [old EXCEPT !.used = TRUE, !.gen = old.gen + 1]
    BY <1>8
  <2> QED
    BY <2>1, <2>2 DEF JsSlotType
<1> HIDE DEF c, new
<1>11. JsInHand(t, k, i)
  BY <1>1, <1>2, <1>3, <1>4 DEF JsInHand
<1>12. JsWrites(t, c, k, i, new)
  <2>1. JsCallSet(t, c)
    BY <1>6, <1>9, JsOneCall DEF JsCalm
  <2>2. JsSlotSet(k, i, new)
    BY <1>6, <1>10, JsOneSlot DEF JsCalm
  <2> QED
    BY <1>1, <1>3, <1>9, <1>11, <2>1, <2>2, JsHeldAlone DEF JsWrites
<1>13. /\ jsTable'[k][i] = new /\ jsCall'[t] = c
       /\ ~JsFilling(k, i) /\ JsFilling(k, i)' /\ ~JsReal(k, i) /\ ~JsReal(k, i)'
  BY <1>1, <1>3, <1>5, <1>7, <1>9, <1>12, JsInOneHand DEF JsWrites, JsSlotSet, JsCallSet, JsReal
<1>14. \A u \in JsThreads : ~JsOwned(u, k, i)
  BY <1>13, JsNotOwned
<1>15. JsNoChild(k, i) /\ JsKeptBut(k, i)
  BY <1>12, <1>13, JsNothingMade, JsOtherSlots DEF JsCalm, JsKeptBut
<1>16. JsMay(t, k, call.for)'
  <2>1. \A kk \in JsKinds : \A j : JsOwned(t, kk, j) => JsOwned(t, kk, j)'
    BY <1>14, <1>15, JsOwnedKept DEF JsCalm
  <2> QED
    BY <1>7, <2>1, JsKindsAre DEF JsMay
<1>17. JsCallOK(t)'
  BY <1>9, <1>10, <1>13, <1>16 DEF JsCallOK
<1>18. JsCalm'
  <2>1. new.gen <= JsMaxGen[k] /\ new.gen <= JsMaxGen[k] + 1
    BY <1>6, <1>10, JsKindsAre
  <2>2. JsOdd(new.gen)
    BY <1>8, <1>10
  <2> QED
    BY <1>10, <1>12, <1>13, <1>14, <1>15, <1>17, <2>1, <2>2, JsKindsAre, JsSlotStep
<1>19. JsRetires(k, i)
  <2>1. JsReturned(k, i)' = JsReturned(k, i)
    BY <1>5, <1>6, <1>10, <1>13 DEF JsReturned
  <2>2. ASSUME NEW kk \in JsKinds, NEW j \in JsSlots[kk]
        PROVE  /\ JsReal(kk, j)' => JsReal(kk, j) /\ (kk # k \/ j # i)
               /\ JsReturned(kk, j)' = JsReturned(kk, j)
    BY <1>12, <1>13, <2>1, JsOtherSlots
  <2> QED
    BY <1>15, <2>2 DEF JsRetires
<1> QED
  BY <1>18, <1>19 DEF JsTakesAway

(* A slot whose object was freed is as little real before its generation       *)
(* advances as after, and the generation it advances to is not handed out.     *)
LEMMA JsBumps ==
  ASSUME JsCalm, ~JsClash', NEW t \in JsThreads, Bump(t)
  PROVE  JsCalm' /\ JsTakesAway
<1>1. PICK call \in JsCallType : call = jsCall[t]
  BY DEF JsCalm
<1>2. PICK k \in JsKinds : k = call.kind
  BY DEF JsCallType
<1>3. call.at = "bump" /\ JsCallOK(t)
  BY <1>1 DEF Bump, JsCalm
<1>4. PICK i \in JsSlots[k] : i = call.slot
  BY <1>1, <1>2, <1>3 DEF JsCallOK
<1>5. PICK old \in JsSlotType : old = jsTable[k][i]
  BY DEF JsCalm, JsTableType
<1> DEFINE c == IF call.for = <<k, i>> THEN JsIdle ELSE [call EXCEPT !.at = "free"]
           new == [old EXCEPT !.gen = NextGeneration(old.gen)]
<1>6. /\ jsTable' = [jsTable EXCEPT ![k] = [jsTable[k] EXCEPT ![i] = new]]
      /\ jsCall' = [jsCall EXCEPT ![t] = c]
  <2>1. jsTable' = [jsTable EXCEPT ![k] = [jsTable[k] EXCEPT ![i] = new]]
    <3>1. jsCall[t].kind = k /\ jsCall[t].slot = i
      BY <1>1, <1>2, <1>4
    <3>2. jsTable' = [jsTable EXCEPT ![k][i] = [jsTable[k][i] EXCEPT !.gen = NextGeneration(@)]]
      BY <3>1 DEF Bump
    <3> QED
      BY <1>5, <3>2
  <2>2. jsCall' = [jsCall EXCEPT ![t] = c]
    BY <1>1, <1>2, <1>4 DEF Bump
  <2> QED
    BY <2>1, <2>2
<1>7. ~old.used /\ JsOdd(old.gen) /\ JsGoal(t) /\ old.gen \in Nat /\ old.gen <= JsMaxGen[k]
  <2>1. ~old.used /\ JsOdd(old.gen) /\ JsGoal(t)
    BY <1>1, <1>2, <1>3, <1>4, <1>5 DEF JsCallOK
  <2> QED
    BY <1>5, <2>1 DEF JsCalm, JsCounted, JsSlotType
<1>8. NextGeneration(old.gen) = old.gen + 1 /\ ~JsOdd(old.gen + 1)
  BY <1>7, JsAdvance
<1>9. c \in JsCallType /\ c.at \in {"idle", "free"} /\ (c.at = "free" => c.for = call.for /\ call.for # <<k, i>>)
  BY JsIdleCall DEF JsCallType
<1>10. new \in JsSlotType /\ ~new.used /\ new.gen = old.gen + 1
  BY <1>7, <1>8 DEF JsSlotType
<1> HIDE DEF c, new
<1>11. JsInHand(t, k, i)
  BY <1>1, <1>2, <1>3, <1>4 DEF JsInHand
<1>12. JsWrites(t, c, k, i, new)
  <2>1. JsCallSet(t, c)
    BY <1>6, <1>9, JsOneCall DEF JsCalm
  <2>2. JsSlotSet(k, i, new)
    BY <1>6, <1>10, JsOneSlot DEF JsCalm
  <2> QED
    BY <1>1, <1>2, <1>4, <1>9, <1>11, <2>1, <2>2, JsHeldAlone DEF JsWrites
<1>13. /\ jsTable'[k][i] = new /\ jsCall'[t] = c
       /\ ~JsFilling(k, i) /\ ~JsFilling(k, i)' /\ ~JsReal(k, i) /\ ~JsReal(k, i)'
  BY <1>1, <1>3, <1>5, <1>7, <1>9, <1>10, <1>12, JsInOneHand DEF JsWrites, JsSlotSet, JsCallSet, JsReal
<1>14. \A u \in JsThreads : ~JsOwned(u, k, i)
  BY <1>13, JsNotOwned
<1>15. JsNoChild(k, i) /\ JsKeptBut(k, i)
  BY <1>12, <1>13, JsNothingMade, JsOtherSlots DEF JsCalm, JsKeptBut
<1>16. ASSUME c.at = "free" PROVE JsGoal(t)'
  <2>1. PICK kk \in JsKinds : \E j \in JsSlots[kk] :
          /\ jsCall[t].for = <<kk, j>>
          /\ JsOwned(t, kk, j) \/ (jsCall[t].at = "bump" /\ jsCall[t].kind = kk /\ jsCall[t].slot = j)
    BY <1>7 DEF JsGoal
  <2>2. PICK j \in JsSlots[kk] :
          /\ jsCall[t].for = <<kk, j>>
          /\ JsOwned(t, kk, j) \/ (jsCall[t].at = "bump" /\ jsCall[t].kind = kk /\ jsCall[t].slot = j)
    BY <2>1
  <2>3. c.for = <<kk, j>> /\ (kk # k \/ j # i)
    BY <1>1, <1>9, <1>16, <2>2
  <2>4. JsOwned(t, kk, j)'
    BY <1>1, <1>2, <1>4, <1>15, <2>2, <2>3, JsOwnedKept DEF JsCalm
  <2> QED
    BY <1>13, <2>3, <2>4 DEF JsGoal
<1>17. JsCallOK(t)'
  BY <1>9, <1>13, <1>16 DEF JsCallOK
<1>18. JsCalm'
  <2>1. new.gen <= JsMaxGen[k] + 1
    BY <1>7, <1>10, JsKindsAre
  <2>2. ~JsOdd(new.gen)
    BY <1>8, <1>10
  <2> QED
    BY <1>10, <1>12, <1>13, <1>14, <1>15, <1>17, <2>1, <2>2, JsSlotStep
<1>19. JsRetires(k, i)
  <2>1. JsReturned(k, i) = old.gen /\ JsReturned(k, i)' = old.gen + 1
    BY <1>5, <1>7, <1>10, <1>13 DEF JsReturned
  <2>2. \A g \in 1..JsMaxGen[k] : JsOdd(g) => (g <= JsReturned(k, i)' <=> g <= JsReturned(k, i))
    <3>1. ASSUME NEW g \in 1..JsMaxGen[k], JsOdd(g) PROVE g <= old.gen + 1 <=> g <= old.gen
      <4>1. g # old.gen + 1
        BY <1>8, <3>1
      <4> QED
        BY <1>7, <4>1, JsKindsAre
    <3> QED
      BY <2>1, <3>1
  <2>3. ASSUME NEW kk \in JsKinds, NEW j \in JsSlots[kk]
        PROVE  /\ JsReal(kk, j)' => JsReal(kk, j) /\ (kk # k \/ j # i)
               /\ \A g \in 1..JsMaxGen[kk] : JsOdd(g) => (g <= JsReturned(kk, j)' <=> g <= JsReturned(kk, j))
    <3>1. CASE kk = k /\ j = i
      BY <1>13, <2>2, <3>1
    <3>2. CASE kk # k \/ j # i
      BY <1>12, <3>2, JsOtherSlots
    <3> QED
      BY <3>1, <3>2
  <2> QED
    BY <1>15, <2>3 DEF JsRetires
<1> QED
  BY <1>18, <1>19 DEF JsTakesAway

LEMMA JsFills ==
  ASSUME JsCalm, ~JsClash', NEW t \in JsThreads, Fill(t)
  PROVE  /\ JsCalm'
         /\ \E k \in JsKinds : \E i \in JsSlots[k] :
              /\ JsKeptBut(k, i) /\ JsNoChild(k, i) /\ ~JsReal(k, i) /\ JsReal(k, i)'
              /\ \A l \in JsKinds : \A j \in JsSlots[l] : l # k \/ j # i =>
                   (JsReal(l, j)' => JsReal(l, j)) /\ JsReturned(l, j)' = JsReturned(l, j)
              /\ jsTable'[k][i].gen \in 1..JsMaxGen[k] /\ JsOdd(jsTable'[k][i].gen)
              /\ JsReturned(k, i)' = jsTable'[k][i].gen /\ JsReturned(k, i) = jsTable'[k][i].gen - 1
<1>1. PICK call \in JsCallType : call = jsCall[t]
  BY DEF JsCalm
<1>2. PICK k \in JsKinds : k = call.kind
  BY DEF JsCallType
<1>3. call.at = "fill" /\ JsCallOK(t)
  BY <1>1 DEF Fill, JsCalm
<1>4. PICK i \in JsSlots[k] : i = call.slot
  BY <1>1, <1>2, <1>3 DEF JsCallOK
<1>5. PICK old \in JsSlotType : old = jsTable[k][i]
  BY DEF JsCalm, JsTableType
<1> DEFINE new == [old EXCEPT !.of = call.for]
<1>6. /\ jsTable' = [jsTable EXCEPT ![k] = [jsTable[k] EXCEPT ![i] = new]]
      /\ jsCall' = [jsCall EXCEPT ![t] = JsIdle]
  <2>1. jsTable' = [jsTable EXCEPT ![k] = [jsTable[k] EXCEPT ![i] = new]]
    <3>1. jsCall[t].kind = k /\ jsCall[t].slot = i /\ jsCall[t].for = call.for
      BY <1>1, <1>2, <1>4
    <3>2. jsTable' = [jsTable EXCEPT ![k][i] = [@ EXCEPT !.of = call.for]]
      BY <3>1 DEF Fill
    <3> QED
      BY <1>5, <3>2
  <2> QED
    BY <2>1 DEF Fill
<1>7. old.used /\ JsMay(t, k, call.for)
  BY <1>1, <1>2, <1>3, <1>4, <1>5 DEF JsCallOK
<1>8. JsOdd(old.gen) /\ old.gen \in Nat /\ old.gen <= JsMaxGen[k]
  <2>1. JsOdd(old.gen) /\ old.gen <= JsMaxGen[k]
    BY <1>5, <1>7 DEF JsCalm, JsCounted
  <2> QED
    BY <2>1 DEF JsSlotType
<1>9. new \in JsSlotType /\ new.used /\ new.gen = old.gen /\ new.of = call.for
  <2>1. call.for \in JsOwners
    BY <1>7, JsKindsAre DEF JsMay, JsOwned, JsOwners
  <2> QED
    BY <1>7, <2>1 DEF JsSlotType
<1> HIDE DEF new
<1>10. JsInHand(t, k, i)
  BY <1>1, <1>2, <1>3, <1>4 DEF JsInHand
<1>11. JsWrites(t, JsIdle, k, i, new)
  <2>1. JsCallSet(t, JsIdle)
    BY <1>6, JsIdleCall, JsOneCall DEF JsCalm
  <2>2. JsSlotSet(k, i, new)
    BY <1>6, <1>9, JsOneSlot DEF JsCalm
  <2> QED
    BY <1>1, <1>2, <1>4, <1>10, <2>1, <2>2, JsIdleCall, JsHeldAlone DEF JsWrites
<1>12. /\ jsTable'[k][i] = new /\ jsCall'[t] = JsIdle
       /\ JsFilling(k, i) /\ ~JsFilling(k, i)' /\ ~JsReal(k, i) /\ JsReal(k, i)'
  BY <1>1, <1>3, <1>9, <1>11, JsIdleCall, JsInOneHand DEF JsWrites, JsSlotSet, JsCallSet, JsReal
<1>13. \A u \in JsThreads : ~JsOwned(u, k, i)
  BY <1>12, JsNotOwned
<1>14. JsNoChild(k, i) /\ JsKeptBut(k, i)
  BY <1>11, <1>12, JsNothingMade, JsOtherSlots DEF JsCalm, JsKeptBut
<1>15. JsCallOK(t)'
  BY <1>12, JsIdleCall DEF JsCallOK
<1>16. JsCalm'
  <2>1. new.gen <= JsMaxGen[k] + 1 /\ new.gen <= JsMaxGen[k] /\ JsOdd(new.gen)
    BY <1>8, <1>9, JsKindsAre
  <2>2. JsMay(t, k, new.of)
    BY <1>7, <1>9
  <2> QED
    BY <1>9, <1>11, <1>13, <1>14, <1>15, <2>1, <2>2, JsSlotStep
<1>17. old.gen \in 1..JsMaxGen[k]
  <2>1. old.gen # 0
    BY <1>8 DEF JsOdd
  <2> QED
    BY <1>8, <2>1, JsKindsAre
<1>18. JsReturned(k, i)' = old.gen /\ JsReturned(k, i) = old.gen - 1
  BY <1>5, <1>8, <1>9, <1>12 DEF JsReturned
<1> QED
  BY <1>8, <1>9, <1>11, <1>12, <1>14, <1>16, <1>17, <1>18, JsOtherSlots

(* What goes first: a real object of the calling thread, or one that another   *)
(* call is about to fill; nothing real was made from it.                     *)
LEMMA JsDoomedOwned ==
  ASSUME JsCalm, NEW t \in JsThreads, NEW k0 \in JsKinds, NEW i0 \in JsSlots[k0], JsOwned(t, k0, i0),
         NEW v \in Doomed(<<k0, i0>>)
  PROVE  /\ v = <<v[1], v[2]>> /\ v[1] \in JsKinds /\ v[2] \in JsSlots[v[1]] /\ jsTable[v[1]][v[2]].used
         /\ JsReal(v[1], v[2]) => JsOwned(t, v[1], v[2])
         /\ JsNoChild(v[1], v[2])
<1> DEFINE contexts == IF k0 = "rt" THEN MadeFrom("ctx", i0) ELSE IF k0 = "ctx" THEN {i0} ELSE {}
<1>1. k0 \in {"rt", "ctx", "res"} /\ "ctx" \in JsKinds /\ "res" \in JsKinds
  BY JsKindsAre
<1>2. Doomed(<<k0, i0>>) =
        IF contexts = {} THEN {<<k0, i0>>}
        ELSE {<<"res", r>> : r \in UNION {JsFirst(MadeFrom("res", c)) : c \in JsFirst(contexts)}}
             \cup {<<"ctx", c>> : c \in {d \in JsFirst(contexts) : MadeFrom("res", d) = {}}}
  BY <1>1 DEF Doomed
<1>3. ASSUME NEW c \in contexts
      PROVE  /\ c \in JsSlots["ctx"] /\ jsTable["ctx"][c].used
             /\ JsReal("ctx", c) => JsOwned(t, "ctx", c)
  BY <1>1, <1>3 DEF MadeFrom, JsOwned, JsReal
<1>4. \A r \in JsSlots["res"] : JsReal("res", r) => JsReal("ctx", jsTable["res"][r].of)
  BY DEF JsCalm, JsLinks
<1>5. CASE contexts = {}
  <2>1. v = <<k0, i0>> /\ k0 # "ctx"
    BY <1>2, <1>5
  <2>2. JsNoChild(k0, i0)
    BY <1>5, <2>1 DEF JsNoChild, MadeFrom, JsReal
  <2>3. jsTable[k0][i0].used
    BY DEF JsOwned, JsReal
  <2> QED
    BY <2>1, <2>2, <2>3
<1>6. CASE contexts # {}
  <2> HIDE DEF contexts
  <2>1. \/ \E c \in contexts : \E r \in MadeFrom("res", c) : v = <<"res", r>>
        \/ \E c \in contexts : MadeFrom("res", c) = {} /\ v = <<"ctx", c>>
    BY <1>2, <1>6 DEF JsFirst
  <2>2. ASSUME NEW c \in contexts, NEW r \in MadeFrom("res", c), v = <<"res", r>>
        PROVE  /\ v = <<v[1], v[2]>> /\ v[1] \in JsKinds /\ v[2] \in JsSlots[v[1]]
               /\ jsTable[v[1]][v[2]].used
               /\ JsReal(v[1], v[2]) => JsOwned(t, v[1], v[2])
               /\ JsNoChild(v[1], v[2])
    <3>1. r \in JsSlots["res"] /\ jsTable["res"][r].used /\ jsTable["res"][r].of = c
      BY <2>2 DEF MadeFrom
    <3>2. JsReal("res", r) => JsOwned(t, "res", r)
      BY <1>3, <1>4, <3>1 DEF JsOwned
    <3> QED
      BY <1>1, <2>2, <3>1, <3>2 DEF JsNoChild
  <2>3. ASSUME NEW c \in contexts, MadeFrom("res", c) = {}, v = <<"ctx", c>>
        PROVE  /\ v = <<v[1], v[2]>> /\ v[1] \in JsKinds /\ v[2] \in JsSlots[v[1]]
               /\ jsTable[v[1]][v[2]].used
               /\ JsReal(v[1], v[2]) => JsOwned(t, v[1], v[2])
               /\ JsNoChild(v[1], v[2])
    <3>1. JsNoChild("ctx", c)
      BY <2>3 DEF JsNoChild, MadeFrom, JsReal
    <3> QED
      BY <1>1, <1>3, <2>3, <3>1
  <2> QED
    BY <2>1, <2>2, <2>3
<1> QED
  BY <1>5, <1>6

LEMMA JsOneOwner ==
  ASSUME NEW t, NEW u, NEW k \in JsKinds, NEW i, JsOwned(t, k, i), JsOwned(u, k, i) PROVE t = u
BY JsKindsAre DEF JsOwned

LEMMA JsDrops ==
  ASSUME JsCalm, ~JsClash', NEW t \in JsThreads, Drop(t)
  PROVE  JsCalm' /\ JsTakesAway
<1>1. PICK call \in JsCallType : call = jsCall[t]
  BY DEF JsCalm
<1>2. call.at = "free" /\ JsGoal(t)
  BY <1>1 DEF Drop, JsCalm, JsCallOK
<1>3. PICK k0 \in JsKinds : \E i \in JsSlots[k0] :
        /\ jsCall[t].for = <<k0, i>>
        /\ JsOwned(t, k0, i) \/ (jsCall[t].at = "bump" /\ jsCall[t].kind = k0 /\ jsCall[t].slot = i)
  BY <1>2 DEF JsGoal
<1>4. PICK i0 \in JsSlots[k0] : call.for = <<k0, i0>> /\ JsOwned(t, k0, i0)
  BY <1>1, <1>2, <1>3
<1>5. PICK v \in Doomed(<<k0, i0>>) :
        /\ jsTable' = [jsTable EXCEPT ![v[1]][v[2]] =
                       [jsTable[v[1]][v[2]] EXCEPT !.used = FALSE, !.of = IF v[1] = "rt" THEN @ ELSE Nowhere]]
        /\ jsCall' = [jsCall EXCEPT ![t].at = "bump", ![t].kind = v[1], ![t].slot = v[2]]
  BY <1>1, <1>4 DEF Drop
<1>6. PICK k \in JsKinds : k = v[1]
  BY <1>4, JsDoomedOwned
<1>7. PICK i \in JsSlots[k] : i = v[2]
  BY <1>4, <1>6, JsDoomedOwned
<1>8. PICK old \in JsSlotType : old = jsTable[k][i]
  BY DEF JsCalm, JsTableType
<1>9. old.used /\ (JsReal(k, i) => JsOwned(t, k, i)) /\ JsNoChild(k, i)
  BY <1>4, <1>6, <1>7, <1>8, JsDoomedOwned
<1> DEFINE c == [call EXCEPT !.at = "bump", !.kind = k, !.slot = i]
           new == [old EXCEPT !.used = FALSE, !.of = IF k = "rt" THEN old.of ELSE Nowhere]
<1>10. /\ jsTable' = [jsTable EXCEPT ![k] = [jsTable[k] EXCEPT ![i] = new]]
       /\ jsCall' = [jsCall EXCEPT ![t] = c]
  <2>1. jsTable' = [jsTable EXCEPT ![k] = [jsTable[k] EXCEPT ![i] = new]]
    BY <1>5, <1>6, <1>7, <1>8
  <2>2. jsCall' = [jsCall EXCEPT ![t] = c]
    BY <1>1, <1>5, <1>6, <1>7
  <2> QED
    BY <2>1, <2>2
<1>11. c \in JsCallType /\ c.at = "bump" /\ c.kind = k /\ c.slot = i /\ c.for = <<k0, i0>>
  <2>1. i \in Nat
    BY JsKindsAre
  <2>2. c \in JsCallType
    BY <2>1 DEF JsCallType
  <2> QED
    BY <1>4, <2>2 DEF JsCallType
<1>12. new \in JsSlotType /\ ~new.used /\ new.gen = old.gen
  BY DEF JsSlotType, JsOwners, Nowhere
<1>13. JsOdd(old.gen) /\ old.gen \in Nat /\ old.gen <= JsMaxGen[k]
  <2>1. JsOdd(old.gen) /\ old.gen <= JsMaxGen[k]
    BY <1>8, <1>9 DEF JsCalm, JsCounted
  <2> QED
    BY <2>1 DEF JsSlotType
<1> HIDE DEF c, new
<1>14. JsCallSet(t, c)
  BY <1>10, <1>11, JsOneCall DEF JsCalm
<1>15. JsInHand(t, k, i)'
  BY <1>11, <1>14 DEF JsInHand, JsCallSet
<1>16. ASSUME NEW u \in JsThreads, u # t PROVE ~JsInHand(u, k, i)
  <2>1. JsInHand(u, k, i) => JsInHand(u, k, i)'
    BY <1>14, <1>16 DEF JsInHand, JsCallSet
  <2> QED
    BY <1>15, <1>16, <2>1, JsAloneNext
<1>17. JsWrites(t, c, k, i, new)
  <2>1. JsSlotSet(k, i, new)
    BY <1>10, <1>12, JsOneSlot DEF JsCalm
  <2> QED
    BY <1>1, <1>2, <1>11, <1>14, <1>16, <2>1 DEF JsWrites
<1>18. /\ jsTable'[k][i] = new /\ jsCall'[t] = c
       /\ ~JsFilling(k, i) /\ ~JsFilling(k, i)' /\ JsReal(k, i) /\ ~JsReal(k, i)'
  BY <1>1, <1>2, <1>8, <1>9, <1>11, <1>12, <1>17, JsInOneHand DEF JsWrites, JsSlotSet, JsCallSet, JsReal
<1>19. \A u \in JsThreads : u # t => ~JsOwned(u, k, i)
  BY <1>9, <1>18, JsOneOwner
<1>20. JsKeptBut(k, i)
  BY <1>17, JsOtherSlots DEF JsKeptBut
<1>21. JsGoal(t)'
  <2>1. CASE k0 = k /\ i0 = i
    BY <1>11, <1>18, <2>1 DEF JsGoal
  <2>2. CASE k0 # k \/ i0 # i
    <3>1. JsOwned(t, k0, i0)'
      BY <1>4, <1>9, <1>20, <2>2, JsOwnedKept DEF JsCalm
    <3> QED
      BY <1>11, <1>18, <3>1 DEF JsGoal
  <2> QED
    BY <2>1, <2>2
<1>22. JsCallOK(t)'
  BY <1>11, <1>12, <1>13, <1>18, <1>21 DEF JsCallOK
<1>23. JsCalm'
  <2>1. new.gen <= JsMaxGen[k] + 1 /\ new.gen <= JsMaxGen[k]
    BY <1>12, <1>13, JsKindsAre
  <2> QED
    BY <1>9, <1>11, <1>12, <1>17, <1>18, <1>19, <1>22, <2>1, JsSlotStep
<1>24. JsRetires(k, i)
  <2>1. JsReturned(k, i)' = JsReturned(k, i)
    BY <1>8, <1>12, <1>18 DEF JsReturned
  <2>2. ASSUME NEW kk \in JsKinds, NEW j \in JsSlots[kk]
        PROVE  /\ JsReal(kk, j)' => JsReal(kk, j) /\ (kk # k \/ j # i)
               /\ JsReturned(kk, j)' = JsReturned(kk, j)
    BY <1>17, <1>18, <2>1, JsOtherSlots
  <2> QED
    BY <1>9, <1>20, <2>2 DEF JsRetires
<1> QED
  BY <1>23, <1>24 DEF JsTakesAway

(* The tables of the abstract specification, in terms of what is real.       *)
LEMMA JsLiveAre ==
  ASSUME JsLinks
  PROVE  \A h : h \in JsLive <=> \E k \in JsKinds : \E i \in JsSlots[k] : JsReal(k, i) /\ h = JsHandle(k, i)
<1>1. \A k \in JsKinds : \A i \in JsSlots[k] : JsUsable(k, i) <=> JsReal(k, i)
  BY JsKindsAre DEF JsLinks, JsUsable, JsReal
<1> QED
  BY <1>1 DEF JsLive

LEMMA JsLiveAreNext ==
  ASSUME JsLinks'
  PROVE  \A h : h \in JsLive' <=> \E k \in JsKinds : \E i \in JsSlots[k] : JsReal(k, i)' /\ h = JsHandle(k, i)'
<1>1. \A k \in JsKinds : \A i \in JsSlots[k] : JsUsable(k, i)' <=> JsReal(k, i)'
  BY JsKindsAre DEF JsLinks, JsUsable, JsReal, JsFilling, JsInHand
<1> QED
  BY <1>1 DEF JsLive

LEMMA JsHandleIs ==
  ASSUME NEW k, NEW i, NEW h, h = JsHandle(k, i)
  PROVE  h[1] = k /\ h[2] = i
BY DEF JsHandle

(* What was made from a handle that is kept was made from one that is kept. *)
LEMMA JsHandleKept ==
  ASSUME JsLinks, JsLinks', NEW k0, NEW i0, JsKeptBut(k0, i0), JsNoChild(k0, i0),
         NEW k \in JsKinds, NEW i \in JsSlots[k], JsReal(k, i), k # k0 \/ i # i0,
         NEW h, h = JsHandle(k, i)
  PROVE  /\ h = JsHandle(k, i)' /\ h \in JsLive' /\ h \in JsLive
         /\ JsMadeFrom(h)' = JsMadeFrom(h) /\ JsMadeFrom(h) \in JsLive' \cup {JsRoot}
<1>1. h[1] = k /\ h[2] = i /\ JsKept(k, i)
  BY JsHandleIs DEF JsKeptBut
<1>2. h = JsHandle(k, i)' /\ jsTable'[k][i].of = jsTable[k][i].of /\ JsReal(k, i)'
  BY <1>1 DEF JsKept, JsHandle
<1>3. h \in JsLive' /\ h \in JsLive
  BY <1>2, JsLiveAre, JsLiveAreNext
<1>4. ASSUME NEW kp \in JsKinds, NEW j \in JsSlots[kp], JsReal(kp, j), kp # k0 \/ j # i0
      PROVE  JsHandle(kp, j)' = JsHandle(kp, j) /\ JsHandle(kp, j) \in JsLive'
  <2>1. JsKept(kp, j)
    BY <1>4 DEF JsKeptBut
  <2>2. JsHandle(kp, j)' = JsHandle(kp, j) /\ JsReal(kp, j)'
    BY <2>1 DEF JsKept, JsHandle
  <2> QED
    BY <2>2, JsLiveAreNext
<1>5. CASE k = "rt"
  BY <1>1, <1>2, <1>3, <1>5 DEF JsMadeFrom, JsRoot
<1>6. CASE k = "ctx"
  <2>1. PICK j \in JsSlots["rt"] : j = jsTable["ctx"][i].of /\ JsReal("rt", j) /\ ("rt" # k0 \/ j # i0)
    BY <1>6 DEF JsLinks, JsNoChild
  <2>2. JsHandle("rt", j)' = JsHandle("rt", j) /\ JsHandle("rt", j) \in JsLive'
    BY <1>4, <2>1, JsKindsAre
  <2>3. JsMadeFrom(h) = JsHandle("rt", j)
    BY <1>1, <1>6, <2>1 DEF JsMadeFrom
  <2>4. JsMadeFrom(h)' = JsHandle("rt", j)'
    BY <1>1, <1>2, <1>6, <2>1 DEF JsMadeFrom, JsHandle
  <2> QED
    BY <1>2, <1>3, <2>2, <2>3, <2>4
<1>7. CASE k = "res"
  <2>1. PICK j \in JsSlots["ctx"] : j = jsTable["res"][i].of /\ JsReal("ctx", j) /\ ("ctx" # k0 \/ j # i0)
    BY <1>7 DEF JsLinks, JsNoChild
  <2>2. JsHandle("ctx", j)' = JsHandle("ctx", j) /\ JsHandle("ctx", j) \in JsLive'
    BY <1>4, <2>1, JsKindsAre
  <2>3. JsMadeFrom(h) = JsHandle("ctx", j)
    BY <1>1, <1>7, <2>1 DEF JsMadeFrom
  <2>4. JsMadeFrom(h)' = JsHandle("ctx", j)'
    BY <1>1, <1>2, <1>7, <2>1 DEF JsMadeFrom, JsHandle
  <2> QED
    BY <1>2, <1>3, <2>2, <2>3, <2>4
<1> QED
  BY <1>5, <1>6, <1>7, JsKindsAre

LEMMA JsParents ==
  /\ DOMAIN JsParent = JsLive /\ DOMAIN JsParent' = JsLive'
  /\ \A h \in JsLive : JsParent[h] = JsMadeFrom(h)
  /\ JsParent' = [h \in JsLive' |-> JsMadeFrom(h)']
BY DEF JsParent

LEMMA JsIssuedAre ==
  \A h : h \in JsIssued <=>
    \E k \in JsKinds : \E i \in JsSlots[k] : \E g \in 1..JsMaxGen[k] :
      g <= JsReturned(k, i) /\ JsOdd(g) /\ h = <<k, i, g>>
<1>1. \A k \in JsKinds : \A h : h \in JsIssuedOf(k) <=>
        \E i \in JsSlots[k] : \E g \in 1..JsMaxGen[k] : g <= JsReturned(k, i) /\ JsOdd(g) /\ h = <<k, i, g>>
  BY DEF JsIssuedOf, JsOdd
<1> QED
  BY <1>1 DEF JsIssued

LEMMA JsIssuedAreNext ==
  \A h : h \in JsIssued' <=>
    \E k \in JsKinds : \E i \in JsSlots[k] : \E g \in 1..JsMaxGen[k] :
      g <= JsReturned(k, i)' /\ JsOdd(g) /\ h = <<k, i, g>>
<1>1. \A k \in JsKinds : \A h : h \in JsIssuedOf(k)' <=>
        \E i \in JsSlots[k] : \E g \in 1..JsMaxGen[k] : g <= JsReturned(k, i)' /\ JsOdd(g) /\ h = <<k, i, g>>
  BY DEF JsIssuedOf, JsOdd
<1> QED
  BY <1>1 DEF JsIssued

LEMMA JsRetireStep ==
  ASSUME JsCalm, JsCalm', JsTakesAway
  PROVE  JsTables!Retire
<1>1. PICK k0, i0 : JsRetires(k0, i0)
  BY DEF JsTakesAway
<1>2. JsLinks /\ JsLinks' /\ JsKeptBut(k0, i0) /\ JsNoChild(k0, i0)
  BY <1>1 DEF JsRetires, JsCalm
<1>3. ASSUME NEW h \in JsLive'
      PROVE  h \in JsLive /\ JsMadeFrom(h)' = JsMadeFrom(h) /\ JsMadeFrom(h) \in JsLive' \cup {JsRoot}
  <2>1. PICK k \in JsKinds : \E i \in JsSlots[k] : JsReal(k, i)' /\ h = JsHandle(k, i)'
    BY <1>2, <1>3, JsLiveAreNext
  <2>2. PICK i \in JsSlots[k] : JsReal(k, i)' /\ h = JsHandle(k, i)'
    BY <2>1
  <2>3. JsReal(k, i) /\ (k # k0 \/ i # i0)
    BY <1>1, <2>2 DEF JsRetires
  <2>4. h = JsHandle(k, i)
    BY <1>2, <2>2, <2>3, JsHandleKept
  <2> QED
    BY <1>2, <2>3, <2>4, JsHandleKept
<1>4. JsIssued' = JsIssued
  <2>1. \A k \in JsKinds : \A i \in JsSlots[k] : \A g \in 1..JsMaxGen[k] :
          JsOdd(g) => (g <= JsReturned(k, i)' <=> g <= JsReturned(k, i))
    BY <1>1 DEF JsRetires
  <2>2. \A h : h \in JsIssued' <=> h \in JsIssued
    BY <2>1, JsIssuedAre, JsIssuedAreNext
  <2> QED
    BY <2>2
<1>5. JsParent' = [h \in JsLive' |-> JsParent[h]]
  <2>1. \A h \in JsLive' : JsMadeFrom(h)' = JsParent[h]
    BY <1>3, JsParents
  <2> QED
    BY <2>1, JsParents
<1>6. JsLive' \subseteq JsLive /\ \A h \in JsLive' : JsParent[h] \in JsLive' \cup {JsRoot}
  BY <1>3, JsParents
<1> QED
  BY <1>4, <1>5, <1>6, JsParents DEF JsTables!Retire, JsTables!Live

LEMMA JsIssueStep ==
  ASSUME JsCalm, ~JsClash', NEW t \in JsThreads, Fill(t)
  PROVE  JsTables!Issue
<1>1. PICK k \in JsKinds : \E i \in JsSlots[k] :
        /\ JsKeptBut(k, i) /\ JsNoChild(k, i) /\ ~JsReal(k, i) /\ JsReal(k, i)'
        /\ \A l \in JsKinds : \A j \in JsSlots[l] : l # k \/ j # i =>
             (JsReal(l, j)' => JsReal(l, j)) /\ JsReturned(l, j)' = JsReturned(l, j)
        /\ jsTable'[k][i].gen \in 1..JsMaxGen[k] /\ JsOdd(jsTable'[k][i].gen)
        /\ JsReturned(k, i)' = jsTable'[k][i].gen /\ JsReturned(k, i) = jsTable'[k][i].gen - 1
  BY JsFills
<1>2. PICK i \in JsSlots[k] :
        /\ JsKeptBut(k, i) /\ JsNoChild(k, i) /\ ~JsReal(k, i) /\ JsReal(k, i)'
        /\ \A l \in JsKinds : \A j \in JsSlots[l] : l # k \/ j # i =>
             (JsReal(l, j)' => JsReal(l, j)) /\ JsReturned(l, j)' = JsReturned(l, j)
        /\ jsTable'[k][i].gen \in 1..JsMaxGen[k] /\ JsOdd(jsTable'[k][i].gen)
        /\ JsReturned(k, i)' = jsTable'[k][i].gen /\ JsReturned(k, i) = jsTable'[k][i].gen - 1
  BY <1>1
<1>3. JsLinks /\ JsLinks'
  BY JsFills DEF JsCalm
<1>4. PICK gen \in 1..JsMaxGen[k] : gen = jsTable'[k][i].gen
  BY <1>2
<1>5. PICK h : h = <<k, i, gen>>
  OBVIOUS
<1>6. h = JsHandle(k, i)' /\ h \in JsLive'
  BY <1>2, <1>3, <1>4, <1>5, JsLiveAreNext DEF JsHandle
<1>7. JsIssued' = JsIssued \cup {h} /\ h \notin JsIssued
  <2>1. JsReturned(k, i)' = gen /\ JsReturned(k, i) = gen - 1 /\ JsOdd(gen) /\ gen \in Nat
    BY <1>2, <1>4, JsKindsAre
  <2>2. \A x : x \in JsIssued' => x \in JsIssued \cup {h}
    <3>1. ASSUME NEW l \in JsKinds, NEW j \in JsSlots[l], NEW g \in 1..JsMaxGen[l],
                 g <= JsReturned(l, j)', JsOdd(g)
          PROVE  g <= JsReturned(l, j) \/ <<l, j, g>> = h
      <4>1. CASE l = k /\ j = i
        BY <1>5, <2>1, <3>1, <4>1, JsKindsAre
      <4>2. CASE l # k \/ j # i
        BY <1>2, <3>1, <4>2
      <4> QED
        BY <4>1, <4>2
    <3> QED
      BY <3>1, JsIssuedAre, JsIssuedAreNext
  <2>3. \A x : x \in JsIssued => x \in JsIssued'
    <3>1. ASSUME NEW l \in JsKinds, NEW j \in JsSlots[l], NEW g \in 1..JsMaxGen[l], g <= JsReturned(l, j)
          PROVE  g <= JsReturned(l, j)'
      <4>1. CASE l = k /\ j = i
        BY <2>1, <3>1, <4>1, JsKindsAre
      <4>2. CASE l # k \/ j # i
        BY <1>2, <3>1, <4>2
      <4> QED
        BY <4>1, <4>2
    <3> QED
      BY <3>1, JsIssuedAre, JsIssuedAreNext
  <2>4. h \in JsIssued'
    BY <1>5, <2>1, JsIssuedAreNext
  <2>5. h \notin JsIssued
    <3>1. ASSUME NEW l \in JsKinds, NEW j \in JsSlots[l], NEW g \in 1..JsMaxGen[l],
                 g <= JsReturned(l, j), h = <<l, j, g>> PROVE FALSE
      BY <1>5, <2>1, <3>1
    <3> QED
      BY <3>1, JsIssuedAre
  <2> QED
    BY <2>2, <2>3, <2>4, <2>5
<1>8. ASSUME NEW x \in JsLive PROVE x \in JsLive' /\ JsMadeFrom(x)' = JsMadeFrom(x)
  <2>1. PICK l \in JsKinds : \E j \in JsSlots[l] : JsReal(l, j) /\ x = JsHandle(l, j)
    BY <1>3, <1>8, JsLiveAre
  <2>2. PICK j \in JsSlots[l] : JsReal(l, j) /\ x = JsHandle(l, j)
    BY <2>1
  <2>3. l # k \/ j # i
    BY <1>2, <2>2
  <2> QED
    BY <1>2, <1>3, <2>2, <2>3, JsHandleKept
<1>9. ASSUME NEW x \in JsLive' PROVE x \in JsLive \cup {h}
  <2>1. PICK l \in JsKinds : \E j \in JsSlots[l] : JsReal(l, j)' /\ x = JsHandle(l, j)'
    BY <1>3, <1>9, JsLiveAreNext
  <2>2. PICK j \in JsSlots[l] : JsReal(l, j)' /\ x = JsHandle(l, j)'
    BY <2>1
  <2>3. CASE l = k /\ j = i
    BY <1>6, <2>2, <2>3
  <2>4. CASE l # k \/ j # i
    <3>1. JsReal(l, j) /\ JsKept(l, j)
      BY <1>2, <2>2, <2>4 DEF JsKeptBut
    <3>2. x = JsHandle(l, j)
      BY <2>2, <3>1 DEF JsKept, JsHandle
    <3> QED
      BY <1>3, <3>1, <3>2, JsLiveAre
  <2> QED
    BY <2>3, <2>4
<1>10. JsMadeFrom(h)' \in JsLive \cup {JsRoot}
  <2>1. h[1] = k /\ h[2] = i
    BY <1>5
  <2>2. ASSUME NEW kp \in JsKinds, NEW j \in JsSlots[kp], kp # k, JsReal(kp, j)'
        PROVE  JsHandle(kp, j)' \in JsLive
    <3>1. JsReal(kp, j) /\ JsKept(kp, j)
      BY <1>2, <2>2 DEF JsKeptBut
    <3>2. JsHandle(kp, j)' = JsHandle(kp, j)
      BY <3>1 DEF JsKept, JsHandle
    <3> QED
      BY <1>3, <3>1, <3>2, JsLiveAre
  <2>3. CASE k = "rt"
    BY <2>1, <2>3 DEF JsMadeFrom
  <2>4. CASE k = "ctx"
    <3>1. PICK j \in JsSlots["rt"] : j = jsTable'["ctx"][i].of
      BY <1>2, <1>3, <2>4 DEF JsLinks
    <3>2. JsReal("rt", j)'
      BY <1>2, <1>3, <2>4, <3>1 DEF JsLinks, JsReal, JsFilling, JsInHand
    <3>3. JsMadeFrom(h)' = JsHandle("rt", j)'
      BY <2>1, <2>4, <3>1 DEF JsMadeFrom, JsHandle
    <3> QED
      BY <2>2, <2>4, <3>2, <3>3, JsKindsAre
  <2>5. CASE k = "res"
    <3>1. PICK j \in JsSlots["ctx"] : j = jsTable'["res"][i].of
      BY <1>2, <1>3, <2>5 DEF JsLinks
    <3>2. JsReal("ctx", j)'
      BY <1>2, <1>3, <2>5, <3>1 DEF JsLinks, JsReal, JsFilling, JsInHand
    <3>3. JsMadeFrom(h)' = JsHandle("ctx", j)'
      BY <2>1, <2>5, <3>1 DEF JsMadeFrom, JsHandle
    <3> QED
      BY <2>2, <2>5, <3>2, <3>3, JsKindsAre
  <2> QED
    BY <2>3, <2>4, <2>5, JsKindsAre
<1>11. PICK p \in JsLive \cup {JsRoot} : p = JsMadeFrom(h)'
  BY <1>10
<1>12. JsParent' = [x \in JsLive \cup {h} |-> IF x = h THEN p ELSE JsParent[x]]
  <2>1. JsLive' = JsLive \cup {h}
    BY <1>6, <1>8, <1>9
  <2>2. \A x \in JsLive' : JsMadeFrom(x)' = IF x = h THEN p ELSE JsParent[x]
    BY <1>8, <1>11, <2>1, JsParents
  <2> QED
    BY <2>1, <2>2, JsParents
<1> QED
  BY <1>7, <1>11, <1>12, JsParents DEF JsTables!Issue, JsTables!Live

LEMMA JsInitOK == JsInit => JsCalm /\ JsTables!Init
<1> SUFFICES ASSUME JsInit PROVE JsCalm /\ JsTables!Init
  OBVIOUS
<1>1. \A k \in JsKinds : \A i \in JsSlots[k] :
        jsTable[k][i] = [used |-> FALSE, gen |-> 0, of |-> IF k = "rt" THEN Nowhere ELSE 1]
  BY DEF JsInit
<1>2. \A t \in JsThreads : jsCall[t] = JsIdle
  BY DEF JsInit
<1>3. \A k \in JsKinds : \A i \in JsSlots[k] : ~jsTable[k][i].used /\ jsTable[k][i].gen = 0
  <2>1. ASSUME NEW k \in JsKinds, NEW i \in JsSlots[k]
        PROVE  ~jsTable[k][i].used /\ jsTable[k][i].gen = 0
    <3>1. PICK from : from = IF k = "rt" THEN Nowhere ELSE 1
      OBVIOUS
    <3>2. jsTable[k][i] = [used |-> FALSE, gen |-> 0, of |-> from]
      BY <1>1, <3>1
    <3> QED
      BY <3>2
  <2> QED
    BY <2>1
<1>4. JsTableType /\ jsCall \in [JsThreads -> JsCallType]
  <2>1. jsTable = [k \in JsKinds |-> jsTable[k]]
    BY DEF JsInit
  <2>2. \A k \in JsKinds :
          jsTable[k] = [i \in JsSlots[k] |-> [used |-> FALSE, gen |-> 0, of |-> IF k = "rt" THEN Nowhere ELSE 1]]
    BY DEF JsInit
  <2>3. [used |-> FALSE, gen |-> 0, of |-> Nowhere] \in JsSlotType
        /\ [used |-> FALSE, gen |-> 0, of |-> 1] \in JsSlotType
    BY DEF JsSlotType, JsOwners, Nowhere
  <2>4. \A k \in JsKinds : jsTable[k] \in [JsSlots[k] -> JsSlotType]
    BY <2>2, <2>3
  <2> QED
    BY <2>1, <2>4, JsIdleCall DEF JsInit, JsTableType
<1>5. \A k \in JsKinds : \A i \in JsSlots[k] : ~JsReal(k, i) /\ ~JsFilling(k, i)
  <2>1. \A t \in JsThreads : jsCall[t].at # "fill"
    BY <1>2, JsIdleCall
  <2> QED
    BY <1>3, <2>1 DEF JsReal, JsFilling
<1>6. JsLinks /\ JsCounted
  BY <1>1, <1>5, JsKindsAre DEF JsLinks, JsCounted, JsOdd
<1>7. ~JsClash /\ \A t \in JsThreads : JsCallOK(t)
  BY <1>2, JsIdleCall DEF JsClash, JsInHand, JsCallOK
<1>8. JsIssued = {}
  <2>1. \A k \in JsKinds : \A i \in JsSlots[k] : JsReturned(k, i) = 0
    BY <1>5, <1>3 DEF JsReturned
  <2>2. \A h : h \notin JsIssued
    BY <2>1, JsKindsAre, JsIssuedAre
  <2> QED
    BY <2>2
<1>9. JsParent = [h \in {} |-> JsRoot]
  <2>1. JsLive = {}
    BY <1>5, <1>6, JsLiveAre
  <2> QED
    BY <2>1 DEF JsParent
<1> QED
  BY <1>4, <1>6, <1>7, <1>8, <1>9 DEF JsCalm, JsTables!Init

LEMMA JsStepOK ==
  ASSUME JsInv, [JsNext]_jsVars
  PROVE  /\ JsInv'
         /\ [jsClashed' \/ JsNoChange \/ JsTables!Issue \/ JsTables!Retire]_<<JsIssued, JsParent>>
<1>1. CASE UNCHANGED jsVars
  <2>1. JsInv'
    <3>1. jsTable' = jsTable /\ jsCall' = jsCall /\ jsClashed' = jsClashed
      BY <1>1 DEF jsVars
    <3>2. /\ \A k, i : (JsReal(k, i)' <=> JsReal(k, i)) /\ (JsBumped(k, i)' <=> JsBumped(k, i))
          /\ JsClash' <=> JsClash
      BY <3>1 DEF JsReal, JsFilling, JsBumped, JsClash, JsInHand
    <3>3. JsLinks' <=> JsLinks
      BY <3>1 DEF JsLinks, JsReal, JsFilling, JsInHand
    <3>4. JsCounted' <=> JsCounted
      BY <3>1, <3>2 DEF JsCounted
    <3>5. ASSUME NEW t \in JsThreads PROVE JsCallOK(t)' <=> JsCallOK(t)
      <4>1. \A k, i : JsOwned(t, k, i)' <=> JsOwned(t, k, i)
        BY <3>1, <3>2 DEF JsOwned
      <4>2. JsGoal(t)' <=> JsGoal(t)
        BY <3>1, <4>1 DEF JsGoal
      <4>3. \A k, for : JsMay(t, k, for)' <=> JsMay(t, k, for)
        BY <4>1 DEF JsMay
      <4>4. PICK call : call = jsCall[t]
        OBVIOUS
      <4>5. jsCall'[t] = call
        BY <3>1, <4>4
      <4> QED
        BY <3>1, <4>2, <4>3, <4>4, <4>5 DEF JsCallOK
    <3> QED
      BY <3>1, <3>2, <3>3, <3>4, <3>5 DEF JsInv, JsCalm, JsTableType
  <2> QED
    BY <1>1, <2>1 DEF JsNoChange
<1>2. CASE JsNext /\ jsClashed'
  BY <1>2 DEF JsInv
<1>3. CASE JsNext /\ ~jsClashed'
  <2>1. JsCalm /\ ~JsClash'
    BY <1>3 DEF JsNext, JsInv
  <2>2. PICK t \in JsThreads :
          JsCalls(t) \/ Look(t) \/ MakeFails(t) \/ Take(t) \/ Fill(t) \/ Drop(t) \/ Bump(t)
    BY <1>3 DEF JsNext
  <2>3. CASE Fill(t)
    BY <2>1, <2>3, JsFills, JsIssueStep DEF JsInv
  <2>4. CASE ~Fill(t)
    <3>1. ASSUME MakeFails(t) PROVE JsCalm' /\ JsTakesAway
      <4>1. jsCall[t].at = "new" /\ UNCHANGED jsTable /\ jsCall' = [jsCall EXCEPT ![t] = JsIdle]
        BY <3>1 DEF MakeFails
      <4> QED
        BY <2>1, <4>1, JsStops
    <3>2. JsCalm' /\ JsTakesAway
      BY <2>1, <2>2, <2>4, <3>1, JsCallsSafe, JsLooks, JsTakes, JsDrops, JsBumps
    <3> QED
      BY <2>1, <3>2, JsRetireStep DEF JsInv
  <2> QED
    BY <2>3, <2>4
<1> QED
  BY <1>1, <1>2, <1>3

(* Until two calls have the same slot in hand, the tables of the bridge        *)
(* implement handles, for any threads and tables of any size: uxjsrt.c keeps *)
(* no two calls apart, and nothing else of it can go wrong.                  *)
THEOREM JsTablesImplementHandles == JsSpec => JsImplementsHandles
<1>1. JsInit => JsInv /\ JsTables!Init
  BY JsInitOK DEF JsInv
<1>2. JsInv /\ [JsNext]_jsVars => JsInv'
        /\ [jsClashed' \/ JsNoChange \/ JsTables!Issue \/ JsTables!Retire]_<<JsIssued, JsParent>>
  BY JsStepOK
<1> QED
  BY <1>1, <1>2, PTL DEF JsSpec, JsImplementsHandles

=============================================================================
