-------------------------- MODULE LockTableProofs --------------------------
(* Theorems about LockTable, for every set of keys and locks.              *)
EXTENDS LockTable, FiniteSetTheorems, WellFoundedInduction, TLAPS

LEMMA LocksFinite == IsFiniteSet(Locks)
<1>1. MutexBase + 1 \in Int /\ MutexBase + MaxMutexes \in Int
  BY LocksAssumption
<1>2. IsFiniteSet(Mutexes)
  BY <1>1, FS_Interval DEF Mutexes
<1> QED
  BY <1>2, LocksAssumption, FS_Union DEF Locks

LEMMA LocksNat == Locks \subseteq Nat
BY LocksAssumption DEF Locks, Mutexes

(* A call that blocks, blocks on one of its own locks, owned by another key. *)
LEMMA FirstBlockerIsBlocker ==
  ASSUME NEW k, NEW ids \in SUBSET Locks, Blockers(k, ids) # {}
  PROVE  FirstBlocker(k, ids) \in Blockers(k, ids)
<1>1. Blockers(k, ids) \in SUBSET Nat
  BY LocksNat DEF Blockers
<1>2. \E b \in Blockers(k, ids) : \A c \in Blockers(k, ids) : b <= c
  <2> DEFINE R == OpToRel(<, Nat)
  <2>1. IsWellFoundedOn(R, Nat)
    BY NatLessThanWellFounded
  <2>2. PICK b \in Blockers(k, ids) : \A c \in Blockers(k, ids) : ~(<<c, b>> \in R)
    BY <1>1, <2>1, WFMin
  <2>3. \A c \in Blockers(k, ids) : ~(c < b)
    BY <1>1, <2>2 DEF OpToRel
  <2> QED
    BY <1>1, <2>3
<1>3. QED
  BY <1>2 DEF FirstBlocker

(* Every set of locks has a cardinality. *)
LEMMA LockSetCardinality ==
  ASSUME NEW S \in SUBSET Locks
  PROVE  IsFiniteSet(S) /\ Cardinality(S) \in Nat
BY LocksFinite, FS_Subset, FS_CardinalityType

LEMMA CardinalityDifference ==
  ASSUME NEW S, NEW T, IsFiniteSet(S), T \subseteq S
  PROVE  /\ Cardinality(S \ T) = Cardinality(S) - Cardinality(T)
         /\ Cardinality(T) \in 0..Cardinality(S)
<1>1. /\ IsFiniteSet(T) /\ Cardinality(T) \in Nat /\ Cardinality(T) <= Cardinality(S)
      /\ IsFiniteSet(S \ T) /\ Cardinality(S \ T) \in Nat /\ Cardinality(S) \in Nat
  BY FS_Subset, FS_CardinalityType
<1>2. (S \ T) \cup T = S /\ (S \ T) \cap T = {}
  OBVIOUS
<1>3. Cardinality(S) = Cardinality(S \ T) + Cardinality(T) - 0
  BY <1>1, <1>2, FS_Union, FS_EmptySet
<1> QED
  BY <1>1, <1>3

-----------------------------------------------------------------------------
(* Type correctness.  held needs more than its type: a release subtracts the *)
(* number of locks it frees, so the invariant that held is the number of     *)
(* owned locks comes with it; and a call that gives back what it took finds  *)
(* the table it began with, because a lock is free exactly when both of its  *)
(* depths are zero.                                                          *)
FreeDepths == \A l \in Locks : owner[l] = NoKey <=> Free(autoDepth[l], explDepth[l])

TypeInv == LockTypeOK /\ HeldExact /\ FreeDepths

(* The roll-back of sync_enter: whatever a call took before it met a lock of *)
(* another key, the table is as it was.                                      *)
LEMMA BlockKeepsTable ==
  ASSUME LockTypeOK, FreeDepths, NEW k \in Keys, NEW ids \in SUBSET Locks, NEW mode \in Modes,
         Block(k, ids, mode)
  PROVE  UNCHANGED tableVars
<1> DEFINE T == Tried(k, ids)
           au(l) == IF l \in T /\ mode = "auto" THEN Dec(autoDepth[l] + 1) ELSE autoDepth[l]
           ex(l) == IF l \in T /\ mode = "explicit" THEN Dec(explDepth[l] + 1) ELSE explDepth[l]
           freed == {l \in T : Free(au(l), ex(l))}
<1>1. /\ autoDepth' = [l \in Locks |-> au(l)] /\ explDepth' = [l \in Locks |-> ex(l)]
      /\ owner' = [l \in Locks |-> IF l \in freed THEN NoKey ELSE IF l \in T THEN k ELSE owner[l]]
      /\ held' = [held EXCEPT ![k] = @ + Cardinality(NewlyTaken(T)) - Cardinality(freed)]
  BY DEF Block, RollBack
<1>2. T \subseteq Locks /\ \A l \in T : owner[l] \in {NoKey, k}
  <2>1. T \subseteq Locks
    BY DEF Tried
  <2>2. ASSUME NEW l \in T, owner[l] \notin {NoKey, k} PROVE FALSE
    <3>1. l \in Blockers(k, ids) /\ l < l
      BY <2>2 DEF Tried, Blockers
    <3>2. l \in Nat
      BY <2>1, LocksNat
    <3>3. ~(l < l)
      BY <3>2
    <3> QED
      BY <3>1, <3>3
  <2> QED
    BY <2>1, <2>2
<1> HIDE DEF T
<1>3. \A l \in Locks : au(l) = autoDepth[l] /\ ex(l) = explDepth[l]
  <2>1. ASSUME NEW n \in Nat PROVE Dec(n + 1) = n
    BY DEF Dec
  <2>2. \A l \in Locks : autoDepth[l] \in Nat /\ explDepth[l] \in Nat
    BY DEF LockTypeOK
  <2> QED
    BY <2>1, <2>2
<1> HIDE DEF au, ex
<1>4. freed = NewlyTaken(T)
  BY <1>2, <1>3 DEF NewlyTaken, FreeDepths
<1> HIDE DEF freed
<1>5. owner' = owner
  BY <1>1, <1>2, <1>4 DEF NewlyTaken, LockTypeOK
<1>6. autoDepth' = autoDepth /\ explDepth' = explDepth
  BY <1>1, <1>3 DEF LockTypeOK
<1>7. held' = held
  <2>1. Cardinality(NewlyTaken(T)) \in Nat
    BY <1>2, LockSetCardinality DEF NewlyTaken
  <2> QED
    BY <1>1, <1>4, <2>1 DEF LockTypeOK
<1> QED
  BY <1>5, <1>6, <1>7 DEF Block, tableVars

LEMMA InitTypeInv == LockInit => TypeInv
<1> SUFFICES ASSUME LockInit PROVE TypeInv
  OBVIOUS
<1>1. LockTypeOK
  BY LocksAssumption, KeysAssumption DEF LockInit, LockTypeOK, Edges, NoEdge
<1>2. \A k \in Keys : Owned(k) = {}
  BY KeysAssumption DEF LockInit, Owned
<1>3. HeldExact
  BY <1>2, FS_EmptySet DEF LockInit, HeldExact
<1>4. FreeDepths
  BY DEF LockInit, FreeDepths, Free
<1> QED
  BY <1>1, <1>3, <1>4 DEF TypeInv

LEMMA AttemptTypeInv ==
  ASSUME TypeInv, NEW k \in Keys, NEW ids \in SUBSET Locks, NEW mode \in Modes,
         Attempt(k, ids, mode), UNCHANGED done
  PROVE  TypeInv'
<1>1. CASE SelfDeadlock(k, ids, mode)
  BY <1>1 DEF SelfDeadlock, TypeInv, LockTypeOK, HeldExact, FreeDepths, Owned, tableVars
<1>2. CASE Take(k, ids, mode)
  <2> DEFINE New == NewlyTaken(ids)
  <2>1. Cardinality(New) \in Nat /\ IsFiniteSet(New)
    BY LockSetCardinality DEF NewlyTaken
  <2>2. LockTypeOK'
    <3>1. owner' \in [Locks -> Keys \cup {NoKey}] /\ held' \in [Keys -> Nat]
      BY <1>2, <2>1 DEF Take, TypeInv, LockTypeOK
    <3>2. /\ autoDepth' \in [Locks -> Nat] /\ explDepth' \in [Locks -> Nat]
          /\ expl' \in [Keys -> Seq(SUBSET Locks)] /\ autos' \in [Keys -> Seq(SUBSET Locks)]
          /\ entries' \in Int
      <4>1. CASE mode = "explicit"
        <5>0. explDepth' = [l \in Locks |-> IF l \in ids THEN explDepth[l] + 1 ELSE explDepth[l]]
          BY <1>2, <4>1 DEF Take
        <5>1. explDepth' \in [Locks -> Nat]
          BY <5>0 DEF TypeInv, LockTypeOK
        <5>2. Append(expl[k], ids) \in Seq(SUBSET Locks)
          BY DEF TypeInv, LockTypeOK
        <5>3. expl' \in [Keys -> Seq(SUBSET Locks)]
          BY <1>2, <4>1, <5>2 DEF Take, TypeInv, LockTypeOK
        <5> QED
          BY <1>2, <4>1, <5>1, <5>3 DEF Take, TypeInv, LockTypeOK
      <4>2. CASE mode = "auto"
        <5>1. autoDepth' \in [Locks -> Nat]
          BY <1>2, <4>2 DEF Take, TypeInv, LockTypeOK
        <5>2. Append(autos[k], ids) \in Seq(SUBSET Locks)
          BY DEF TypeInv, LockTypeOK
        <5>3. autos' \in [Keys -> Seq(SUBSET Locks)]
          BY <1>2, <4>2, <5>2 DEF Take, TypeInv, LockTypeOK
        <5> QED
          BY <1>2, <4>2, <5>1, <5>3 DEF Take, TypeInv, LockTypeOK
      <4> QED
        BY <4>1, <4>2 DEF Modes
    <3>3. edge' \in [Keys -> Edges] /\ call' \in [Keys -> Calls \cup {NoCall}]
      BY <1>2 DEF Take, TypeInv, LockTypeOK, Edges
    <3> QED
      BY <1>2, <3>1, <3>2, <3>3 DEF Take, TypeInv, LockTypeOK
  <2>3. HeldExact'
    <3> SUFFICES ASSUME NEW j \in Keys PROVE held'[j] = Cardinality(Owned(j)')
      BY DEF HeldExact
    <3>1. held[j] = Cardinality(Owned(j))
      BY DEF TypeInv, HeldExact
    <3>2. CASE j # k
      <4>1. Owned(j)' = Owned(j)
        BY <1>2, <3>2, KeysAssumption DEF Take, Owned, Blockers
      <4> QED
        BY <1>2, <3>1, <3>2, <4>1 DEF Take, TypeInv, LockTypeOK
    <3>3. CASE j = k
      <4>1. Owned(k)' = Owned(k) \cup New /\ Owned(k) \cap New = {}
        BY <1>2, KeysAssumption DEF Take, NewlyTaken, Owned, Blockers
      <4>2. Cardinality(Owned(k)') = Cardinality(Owned(k)) + Cardinality(New)
        <5>1. IsFiniteSet(Owned(k)) /\ Cardinality(Owned(k)) \in Nat
          BY LockSetCardinality DEF Owned
        <5> QED
          <6>1. Cardinality(Owned(k) \cup New)
                  = Cardinality(Owned(k)) + Cardinality(New) - Cardinality(Owned(k) \cap New)
            BY <5>1, <2>1, FS_Union
          <6>2. Cardinality(Owned(k) \cap New) = 0
            BY <4>1, FS_EmptySet
          <6> QED
            BY <4>1, <5>1, <2>1, <6>1, <6>2
      <4> QED
        BY <1>2, <3>1, <3>3, <4>2 DEF Take, TypeInv, LockTypeOK
    <3> QED
      BY <3>2, <3>3
  <2>4. FreeDepths'
    <3>1. ASSUME NEW l \in Locks PROVE owner'[l] = NoKey <=> Free(autoDepth'[l], explDepth'[l])
      <4>1. /\ owner'[l] = IF l \in ids THEN k ELSE owner[l]
            /\ autoDepth'[l] = IF l \in ids /\ mode = "auto" THEN autoDepth[l] + 1 ELSE autoDepth[l]
            /\ explDepth'[l] = IF l \in ids /\ mode = "explicit" THEN explDepth[l] + 1 ELSE explDepth[l]
        BY <1>2 DEF Take, Modes
      <4>2. autoDepth[l] \in Nat /\ explDepth[l] \in Nat
        BY DEF TypeInv, LockTypeOK
      <4>3. owner[l] = NoKey <=> Free(autoDepth[l], explDepth[l])
        BY DEF TypeInv, FreeDepths
      <4> QED
        BY <4>1, <4>2, <4>3, KeysAssumption DEF Free, Modes
    <3> QED
      BY <3>1 DEF FreeDepths
  <2> QED
    BY <2>2, <2>3, <2>4 DEF TypeInv
<1>3. CASE Block(k, ids, mode)
  <2>0. UNCHANGED tableVars
    BY <1>3, BlockKeepsTable DEF TypeInv
  <2>1. FirstBlocker(k, ids) \in Locks
    BY <1>3, FirstBlockerIsBlocker DEF Block, Blockers
  <2>2. edge' \in [Keys -> Edges]
    BY <1>3, <2>1 DEF Block, TypeInv, LockTypeOK, Edges
  <2>3. call' \in [Keys -> Calls \cup {NoCall}]
    <3> DEFINE c == [ids |-> ids, mode |-> mode, on |-> FirstBlocker(k, ids)]
    <3>1. c \in Calls
      BY <2>1 DEF Calls
    <3>2. call' = call \/ call' = [call EXCEPT ![k] = c]
      BY <1>3 DEF Block
    <3> HIDE DEF c
    <3> QED
      BY <3>1, <3>2 DEF TypeInv, LockTypeOK
  <2>4. fatal' \in {fatal, "LOCK_DEADLOCK"}
    BY <1>3 DEF Block
  <2> QED
    BY <1>3, <2>0, <2>2, <2>3, <2>4
    DEF Block, TypeInv, LockTypeOK, HeldExact, FreeDepths, Owned, tableVars
<1> QED
  BY <1>1, <1>2, <1>3 DEF Attempt
(* What a release does to the table, in the terms of the proofs. *)
LEMMA ReleaseTypes ==
  ASSUME TypeInv, NEW k \in Keys, NEW ids \in SUBSET Locks, NEW mode \in Modes,
         Release(k, ids, mode)
  PROVE  /\ owner' \in [Locks -> Keys \cup {NoKey}]
         /\ autoDepth' \in [Locks -> Nat]
         /\ explDepth' \in [Locks -> Nat]
         /\ held' \in [Keys -> Nat]
         /\ fatal' \in {fatal, "NOT_OWNER"}
         /\ HeldExact' /\ FreeDepths'
<1>1. CASE ~ \A l \in ids : owner[l] = k
  BY <1>1 DEF Release, TypeInv, LockTypeOK, HeldExact, FreeDepths, Owned
<1>2. CASE \A l \in ids : owner[l] = k
  <2> DEFINE au(l) == IF l \in ids /\ mode = "auto" THEN Dec(autoDepth[l]) ELSE autoDepth[l]
             ex(l) == IF l \in ids /\ mode = "explicit" THEN Dec(explDepth[l]) ELSE explDepth[l]
             freed == {l \in ids : au(l) = 0 /\ ex(l) = 0}
  <2>1. /\ autoDepth' = [l \in Locks |-> au(l)]
        /\ explDepth' = [l \in Locks |-> ex(l)]
        /\ owner' = [l \in Locks |-> IF l \in freed THEN NoKey ELSE owner[l]]
        /\ held' = [held EXCEPT ![k] = @ - Cardinality(freed)]
        /\ fatal' = fatal
    BY <1>2 DEF Release, Free
  <2>2. freed \subseteq Owned(k) /\ Owned(k) \subseteq Locks
    BY <1>2 DEF Owned
  <2>3. \A l \in Locks : au(l) \in Nat /\ ex(l) \in Nat
    BY DEF TypeInv, LockTypeOK, Dec
  <2>13. FreeDepths'
    <3>1. ASSUME NEW l \in Locks PROVE owner'[l] = NoKey <=> Free(autoDepth'[l], explDepth'[l])
      <4>1. /\ owner'[l] = IF l \in freed THEN NoKey ELSE owner[l]
            /\ autoDepth'[l] = au(l) /\ explDepth'[l] = ex(l)
        BY <2>1
      <4>2. owner[l] = NoKey <=> Free(autoDepth[l], explDepth[l])
        BY DEF TypeInv, FreeDepths
      <4>3. CASE l \in ids
        BY <1>2, <4>1, <4>3, KeysAssumption DEF Free
      <4>4. CASE l \notin ids
        BY <4>1, <4>2, <4>4
      <4> QED
        BY <4>3, <4>4
    <3> QED
      BY <3>1 DEF FreeDepths
  <2> HIDE DEF au, ex, freed
  <2>4. autoDepth' \in [Locks -> Nat] /\ explDepth' \in [Locks -> Nat]
    BY <2>1, <2>3
  <2>5. owner' \in [Locks -> Keys \cup {NoKey}]
    BY <2>1 DEF TypeInv, LockTypeOK
  <2>6. IsFiniteSet(Owned(k)) /\ Cardinality(Owned(k)) \in Nat
    BY <2>2, LockSetCardinality
  <2>7. /\ Cardinality(Owned(k) \ freed) = Cardinality(Owned(k)) - Cardinality(freed)
        /\ Cardinality(freed) \in 0..Cardinality(Owned(k))
    BY <2>2, <2>6, CardinalityDifference
  <2>8. held[k] = Cardinality(Owned(k)) /\ held \in [Keys -> Nat]
    BY DEF TypeInv, HeldExact, LockTypeOK
  <2>9. held' \in [Keys -> Nat]
    BY <2>1, <2>6, <2>7, <2>8
  <2>10. Owned(k)' = Owned(k) \ freed
    BY <2>1, <2>2, KeysAssumption DEF Owned
  <2>11. ASSUME NEW j \in Keys, j # k PROVE Owned(j)' = Owned(j)
    BY <2>1, <2>2, <2>11, KeysAssumption DEF Owned
  <2>12. HeldExact'
    BY <2>1, <2>6, <2>7, <2>8, <2>10, <2>11 DEF TypeInv, HeldExact
  <2> QED
    BY <2>1, <2>4, <2>5, <2>9, <2>12, <2>13
<1> QED
  BY <1>1, <1>2

LEMMA ReleaseAllTypeInv ==
  ASSUME TypeInv, NEW k \in Keys, ReleaseAll(k), done' \in [Keys -> BOOLEAN]
  PROVE  TypeInv'
<1>1. LockTypeOK'
  <2>1. owner' \in [Locks -> Keys \cup {NoKey}]
    BY DEF ReleaseAll, TypeInv, LockTypeOK
  <2>2. autoDepth' \in [Locks -> Nat] /\ explDepth' \in [Locks -> Nat]
    BY DEF ReleaseAll, TypeInv, LockTypeOK
  <2>3. held' \in [Keys -> Nat] /\ edge' \in [Keys -> Edges]
    BY DEF ReleaseAll, TypeInv, LockTypeOK, Edges
  <2>4. expl' \in [Keys -> Seq(SUBSET Locks)] /\ autos' \in [Keys -> Seq(SUBSET Locks)]
    BY DEF ReleaseAll, TypeInv, LockTypeOK
  <2>5. entries' \in Int
    BY DEF ReleaseAll, TypeInv, LockTypeOK
  <2> QED
    BY <2>1, <2>2, <2>3, <2>4, <2>5 DEF ReleaseAll, TypeInv, LockTypeOK
<1>2. Owned(k)' = {}
  BY KeysAssumption DEF ReleaseAll, Owned
<1>3. ASSUME NEW j \in Keys, j # k PROVE Owned(j)' = Owned(j)
  BY <1>3, KeysAssumption DEF ReleaseAll, Owned
<1>4. HeldExact'
  BY <1>2, <1>3, FS_EmptySet DEF ReleaseAll, TypeInv, HeldExact, LockTypeOK
<1>5. FreeDepths'
  BY KeysAssumption DEF ReleaseAll, TypeInv, LockTypeOK, FreeDepths, Free
<1> QED
  BY <1>1, <1>4, <1>5 DEF TypeInv

LEMMA FrontType ==
  ASSUME NEW S, NEW s \in Seq(S), NEW n \in 0..Len(s)
  PROVE  /\ SubSeq(s, 1, n) \in Seq(S) /\ Len(SubSeq(s, 1, n)) = n
         /\ \A i \in 1..n : SubSeq(s, 1, n)[i] = s[i]
OBVIOUS

LEMMA StepTypeInv ==
  ASSUME TypeInv, NEW k \in Keys, LockStep(k)
  PROVE  TypeInv'
<1>1. ASSUME NEW ids \in SUBSET Locks, NEW mode \in Modes, Enter(k, ids, mode)
      PROVE  TypeInv'
  BY <1>1, AttemptTypeInv DEF Enter
<1>2. CASE Wake(k)
  <2>1. call[k].ids \in SUBSET Locks /\ call[k].mode \in Modes
    BY <1>2 DEF Wake, TypeInv, LockTypeOK, Calls
  <2> QED
    BY <1>2, <2>1, AttemptTypeInv DEF Wake
<1>3. CASE LeaveAuto(k)
  <2>1. autos[k] \in Seq(SUBSET Locks) /\ autos[k] # <<>>
    BY <1>3 DEF LeaveAuto, TypeInv, LockTypeOK
  <2>2. /\ Len(autos[k]) \in Nat \ {0} /\ autos[k][Len(autos[k])] \in SUBSET Locks
        /\ Len(autos[k]) - 1 \in 0..Len(autos[k])
    BY <2>1
  <2>3. SubSeq(autos[k], 1, Len(autos[k]) - 1) \in Seq(SUBSET Locks)
    BY <2>1, <2>2, FrontType
  <2>4. autos' \in [Keys -> Seq(SUBSET Locks)]
    BY <1>3, <2>3 DEF LeaveAuto, TypeInv, LockTypeOK
  <2> QED
    BY <1>3, <2>2, <2>4, ReleaseTypes DEF LeaveAuto, TypeInv, LockTypeOK, Modes
<1>4. ASSUME NEW mark \in 0..Len(expl[k]), ReleaseTo(k, mark)
      PROVE  TypeInv'
  <2>1. expl[k] \in Seq(SUBSET Locks)
    BY DEF TypeInv, LockTypeOK
  <2>2. UNION {expl[k][i] : i \in (mark + 1)..Len(expl[k])} \in SUBSET Locks
    BY <2>1
  <2>3. SubSeq(expl[k], 1, mark) \in Seq(SUBSET Locks)
    BY <2>1, FrontType
  <2>4. expl' \in [Keys -> Seq(SUBSET Locks)]
    BY <1>4, <2>3 DEF ReleaseTo, TypeInv, LockTypeOK
  <2>5. entries' \in Int
    BY <1>4, <2>1 DEF ReleaseTo, TypeInv, LockTypeOK
  <2> QED
    BY <1>4, <2>2, <2>4, <2>5, ReleaseTypes DEF ReleaseTo, TypeInv, LockTypeOK, Modes
<1>5. ASSUME NEW t \in Keys, Join(k, t)
      PROVE  TypeInv'
  <2>1. edge' \in [Keys -> Edges]
    BY <1>5 DEF Join, NoteWaitTask, TypeInv, LockTypeOK, Edges
  <2>2. fatal' \in {"none", "TASK_WAIT_CYCLE", "LOCK_DEADLOCK"}
    BY <1>5 DEF Join, NoteWaitTask
  <2> QED
    BY <1>5, <2>1, <2>2
    DEF Join, NoteWaitTask, tableVars, TypeInv, LockTypeOK, HeldExact, FreeDepths, Owned
<1>6. CASE Joined(k)
  <2>1. edge' \in [Keys -> Edges]
    BY <1>6 DEF Joined, ClearWait, TypeInv, LockTypeOK, Edges
  <2> QED
    BY <1>6, <2>1 DEF Joined, ClearWait, tableVars, TypeInv, LockTypeOK, HeldExact, FreeDepths, Owned
<1>7. CASE Finish(k)
  <2>1. done' \in [Keys -> BOOLEAN]
    BY <1>7 DEF Finish, TypeInv, LockTypeOK
  <2> QED
    BY <1>7, <2>1, ReleaseAllTypeInv DEF Finish
<1>8. CASE Skip(k)
  <2>1. done' \in [Keys -> BOOLEAN]
    BY <1>8 DEF Skip, TypeInv, LockTypeOK
  <2> QED
    BY <1>8, <2>1 DEF Skip, tableVars, waitVars, TypeInv, LockTypeOK, HeldExact, FreeDepths, Owned
<1> QED
  BY <1>1, <1>2, <1>3, <1>4, <1>5, <1>6, <1>7, <1>8 DEF LockStep

LEMMA NextTypeInv == TypeInv /\ [LockNext]_lockVars => TypeInv'
<1> SUFFICES ASSUME TypeInv, [LockNext]_lockVars PROVE TypeInv'
  OBVIOUS
<1>1. CASE MutexNew
  <2>1. mutexNext' \in 0..MaxMutexes
    BY <1>1, LocksAssumption DEF MutexNew, TypeInv, LockTypeOK
  <2> QED
    BY <1>1, <2>1 DEF MutexNew, waitVars, TypeInv, LockTypeOK, HeldExact, FreeDepths, Owned
<1>2. ASSUME NEW k \in Keys, LockStep(k) PROVE TypeInv'
  BY <1>2, StepTypeInv
<1>3. CASE UNCHANGED lockVars
  BY <1>3 DEF lockVars, tableVars, waitVars, TypeInv, LockTypeOK, HeldExact, FreeDepths, Owned
<1>4. CASE Unlock
  <2>1. done' \in [Keys -> BOOLEAN]
    BY <1>4 DEF Unlock, TypeInv, LockTypeOK
  <2> QED
    BY <1>4, <2>1, ReleaseAllTypeInv, KeysAssumption DEF Unlock
<1> QED
  BY <1>1, <1>2, <1>3, <1>4 DEF LockNext, Stopped

(* The variables of the lock table have their types, and heldCount is the   *)
(* number of locks its key owns: what sync_holds_any tells a waiter is true. *)
THEOREM LockTyping == LockSpec => [](LockTypeOK /\ HeldExact)
<1>1. LockInit => TypeInv
  BY InitTypeInv
<1>2. TypeInv /\ [LockNext]_lockVars => TypeInv'
  BY NextTypeInv
<1> QED
  BY <1>1, <1>2, PTL DEF LockSpec, TypeInv

-----------------------------------------------------------------------------
(* Sets of open statements: how often a sequence of lock sets names a lock.  *)

LEMMA OccType ==
  ASSUME NEW s \in Seq(SUBSET Locks), NEW l
  PROVE  /\ IsFiniteSet({i \in 1..Len(s) : l \in s[i]})
         /\ Occ(s, l) \in Nat
         /\ Occ(s, l) = 0 <=> l \notin In(s)
<1> DEFINE I == {i \in 1..Len(s) : l \in s[i]}
<1>1. IsFiniteSet(I)
  BY FS_Interval, FS_Subset
<1>2. I = {} <=> l \notin In(s)
  BY DEF In
<1> QED
  BY <1>1, <1>2, FS_CardinalityType, FS_EmptySet DEF Occ

LEMMA OccAppend ==
  ASSUME NEW s \in Seq(SUBSET Locks), NEW x \in SUBSET Locks, NEW l
  PROVE  /\ Occ(Append(s, x), l) = IF l \in x THEN Occ(s, l) + 1 ELSE Occ(s, l)
         /\ In(Append(s, x)) = In(s) \cup x
<1> DEFINE I == {i \in 1..Len(s) : l \in s[i]}
           t == Append(s, x)
           J == {i \in 1..Len(t) : l \in t[i]}
<1>1. /\ Len(t) = Len(s) + 1 /\ t[Len(s) + 1] = x /\ Len(s) \in Nat
      /\ \A i \in 1..Len(s) : t[i] = s[i]
  OBVIOUS
<1> HIDE DEF t
<1>2. J = IF l \in x THEN I \cup {Len(s) + 1} ELSE I
  BY <1>1
<1>3. IsFiniteSet(I) /\ Len(s) + 1 \notin I
  <2>1. IsFiniteSet(I)
    BY OccType
  <2>2. Len(s) + 1 \notin 1..Len(s)
    BY <1>1
  <2> QED
    BY <2>1, <2>2
<1>4. Cardinality(J) = IF l \in x THEN Cardinality(I) + 1 ELSE Cardinality(I)
  BY <1>2, <1>3, FS_AddElement
<1>5. In(t) = In(s) \cup x
  BY <1>1 DEF In
<1> QED
  BY <1>4, <1>5 DEF Occ, t

LEMMA OccFront ==
  ASSUME NEW s \in Seq(SUBSET Locks), s # <<>>, NEW l
  PROVE  LET x == s[Len(s)]
             f == SubSeq(s, 1, Len(s) - 1)
         IN  /\ Occ(f, l) = IF l \in x THEN Occ(s, l) - 1 ELSE Occ(s, l)
             /\ x \subseteq In(s) /\ In(f) \subseteq In(s) /\ In(s) = In(f) \cup x
<1> DEFINE n == Len(s)
           x == s[n]
           f == SubSeq(s, 1, n - 1)
           I == {i \in 1..Len(f) : l \in f[i]}
           J == {i \in 1..n : l \in s[i]}
<1>1. /\ n \in Nat \ {0} /\ Len(f) = n - 1
      /\ \A i \in 1..(n - 1) : f[i] = s[i]
  <2>1. n \in Nat \ {0} /\ n - 1 \in 0..Len(s)
    OBVIOUS
  <2> QED
    BY <2>1, FrontType
<1> HIDE DEF f
<1>2. J = IF l \in x THEN I \cup {n} ELSE I
  BY <1>1
<1>3. n \notin I /\ I \subseteq J
  BY <1>1
<1>4. IsFiniteSet(J) /\ Cardinality(J) \in Nat
  BY OccType DEF Occ
<1>5. IsFiniteSet(I) /\ Cardinality(I) \in Nat
  BY <1>3, <1>4, FS_Subset, FS_CardinalityType
<1>6. Cardinality(J) = IF l \in x THEN Cardinality(I) + 1 ELSE Cardinality(I)
  BY <1>2, <1>3, <1>5, FS_AddElement
<1>7. In(s) = In(f) \cup x
  BY <1>1 DEF In
<1>8. Cardinality(I) = IF l \in x THEN Cardinality(J) - 1 ELSE Cardinality(J)
  BY <1>4, <1>5, <1>6
<1>9. Occ(f, l) = IF l \in x THEN Occ(s, l) - 1 ELSE Occ(s, l)
  BY <1>8 DEF Occ
<1> QED
  BY <1>7, <1>9 DEF f

-----------------------------------------------------------------------------
(* The table and the statements that are open.  OwnedIffInside alone is not  *)
(* inductive: whether a release frees a lock depends on its depths, so the   *)
(* depths have to be known to count the open statements.                     *)
TableInv ==
  /\ LockTypeOK
  /\ OwnedIffInside
  /\ DepthsExact
  /\ NoInternalLockError

LEMMA InitTableInv == LockInit => TableInv
<1> SUFFICES ASSUME LockInit PROVE TableInv
  OBVIOUS
<1>1. LockTypeOK
  BY InitTypeInv DEF TypeInv
<1>2. OwnedIffInside
  BY KeysAssumption DEF LockInit, OwnedIffInside, Owned, Inside, In
<1>3. DepthsExact
  BY DEF LockInit, DepthsExact
<1> QED
  BY <1>1, <1>2, <1>3 DEF LockInit, TableInv, NoInternalLockError

LEMMA TableFreeDepths ==
  ASSUME TableInv PROVE FreeDepths
<1> SUFFICES ASSUME NEW l \in Locks, owner[l] # NoKey
             PROVE  ~Free(autoDepth[l], explDepth[l])
  BY DEF TableInv, DepthsExact, FreeDepths, Free
<1>1. owner[l] \in Keys /\ l \in Inside(owner[l])
  BY DEF TableInv, LockTypeOK, OwnedIffInside, Owned
<1>2. autos[owner[l]] \in Seq(SUBSET Locks)
  BY <1>1 DEF TableInv, LockTypeOK
<1>3. Occ(autos[owner[l]], l) = 0 => l \in In(expl[owner[l]])
  BY <1>1, <1>2, OccType DEF Inside
<1> QED
  BY <1>3 DEF TableInv, DepthsExact, Free

LEMMA AttemptTableInv ==
  ASSUME TableInv, NEW k \in Keys, NEW ids \in SUBSET Locks, NEW mode \in Modes,
         Attempt(k, ids, mode), UNCHANGED done, LockTypeOK'
  PROVE  TableInv'
<1>1. CASE SelfDeadlock(k, ids, mode)
  BY <1>1 DEF SelfDeadlock, tableVars, TableInv, OwnedIffInside, Owned, Inside, DepthsExact,
              NoInternalLockError
<1>2. CASE Block(k, ids, mode)
  <2>1. fatal' \in {fatal, "LOCK_DEADLOCK"}
    BY <1>2 DEF Block
  <2>2. UNCHANGED tableVars
    BY <1>2, TableFreeDepths, BlockKeepsTable DEF TableInv
  <2> QED
    BY <1>2, <2>1, <2>2 DEF Block, tableVars, TableInv, OwnedIffInside, Owned, Inside, DepthsExact,
                      NoInternalLockError
<1>3. CASE Take(k, ids, mode)
  <2>1. \A l \in ids : owner[l] \in {NoKey, k}
    BY <1>3 DEF Take, Blockers
  <2>2. owner' = [l \in Locks |-> IF l \in ids THEN k ELSE owner[l]] /\ fatal' = fatal
    BY <1>3 DEF Take
  <2>3. /\ expl[k] \in Seq(SUBSET Locks) /\ autos[k] \in Seq(SUBSET Locks)
        /\ expl \in [Keys -> Seq(SUBSET Locks)] /\ autos \in [Keys -> Seq(SUBSET Locks)]
        /\ owner \in [Locks -> Keys \cup {NoKey}]
        /\ autoDepth \in [Locks -> Nat] /\ explDepth \in [Locks -> Nat]
    BY DEF TableInv, LockTypeOK
  <2>4. CASE mode = "auto"
    <3>1. /\ expl' = expl /\ explDepth' = explDepth
          /\ autos' = [autos EXCEPT ![k] = Append(@, ids)]
          /\ autoDepth' = [l \in Locks |-> IF l \in ids THEN autoDepth[l] + 1 ELSE autoDepth[l]]
      BY <1>3, <2>4 DEF Take
    <3>2. /\ In(autos'[k]) = In(autos[k]) \cup ids
          /\ \A l \in Locks : Occ(autos'[k], l) = IF l \in ids THEN Occ(autos[k], l) + 1
                                                            ELSE Occ(autos[k], l)
      <4>1. autos'[k] = Append(autos[k], ids)
        BY <2>3, <3>1
      <4>2. In(Append(autos[k], ids)) = In(autos[k]) \cup ids
        BY <2>3, OccAppend
      <4>3. \A s \in Seq(SUBSET Locks) : \A l :
              Occ(Append(s, ids), l) = IF l \in ids THEN Occ(s, l) + 1 ELSE Occ(s, l)
        BY OccAppend
      <4> QED
        BY <2>3, <4>1, <4>2, <4>3
    <3>3. \A j \in Keys : j # k => autos'[j] = autos[j]
      BY <2>3, <3>1
    <3>4. OwnedIffInside'
      BY <2>1, <2>2, <3>1, <3>2, <3>3, KeysAssumption DEF TableInv, OwnedIffInside, Owned, Inside
    <3>5. \A l \in ids : owner[l] = NoKey => Occ(autos[k], l) = 0 /\ l \notin In(expl[k])
      <4>1. \A l \in ids : owner[l] = NoKey => l \notin In(autos[k]) /\ l \notin In(expl[k])
        BY KeysAssumption DEF TableInv, OwnedIffInside, Owned, Inside
      <4> QED
        BY <2>3, <4>1, OccType
    <3>6. ASSUME NEW l \in Locks
          PROVE  IF owner'[l] = NoKey
                   THEN autoDepth'[l] = 0 /\ explDepth'[l] = 0
                   ELSE /\ autoDepth'[l] = Occ(autos'[owner'[l]], l)
                        /\ explDepth'[l] = IF l \in In(expl'[owner'[l]]) THEN 1 ELSE 0
      <4>1. IF owner[l] = NoKey
              THEN autoDepth[l] = 0 /\ explDepth[l] = 0
              ELSE /\ autoDepth[l] = Occ(autos[owner[l]], l)
                   /\ explDepth[l] = IF l \in In(expl[owner[l]]) THEN 1 ELSE 0
        BY DEF TableInv, DepthsExact
      <4>2. CASE l \in ids
        <5>1. owner'[l] = k /\ autoDepth'[l] = autoDepth[l] + 1 /\ explDepth'[l] = explDepth[l]
          BY <2>2, <3>1, <4>2
        <5>2. autoDepth[l] = Occ(autos[k], l)
          BY <2>1, <3>5, <4>1, <4>2
        <5>3. explDepth[l] = IF l \in In(expl[k]) THEN 1 ELSE 0
          BY <2>1, <3>5, <4>1, <4>2
        <5> QED
          BY <3>1, <3>2, <4>2, <5>1, <5>2, <5>3, KeysAssumption
      <4>3. CASE l \notin ids
        <5>1. owner'[l] = owner[l] /\ autoDepth'[l] = autoDepth[l] /\ explDepth'[l] = explDepth[l]
          BY <2>2, <3>1, <4>3
        <5>2. owner[l] # NoKey => Occ(autos'[owner[l]], l) = Occ(autos[owner[l]], l)
          BY <2>3, <3>2, <3>3, <4>3
        <5> QED
          BY <3>1, <4>1, <5>1, <5>2
      <4> QED
        BY <4>2, <4>3
    <3>7. DepthsExact'
      <4>1. \A j \in Keys : \A i, m \in 1..Len(expl'[j]) : i # m => expl'[j][i] \cap expl'[j][m] = {}
        BY <3>1 DEF TableInv, DepthsExact
      <4> QED
        BY <3>6, <4>1 DEF DepthsExact
    <3> QED
      BY <2>2, <3>4, <3>7 DEF TableInv, NoInternalLockError
  <2>5. CASE mode = "explicit"
    <3>1. /\ autos' = autos /\ autoDepth' = autoDepth
          /\ expl' = [expl EXCEPT ![k] = Append(@, ids)]
          /\ explDepth' = [l \in Locks |-> IF l \in ids THEN explDepth[l] + 1 ELSE explDepth[l]]
      BY <1>3, <2>5 DEF Take
    <3>2. In(expl'[k]) = In(expl[k]) \cup ids
      BY <2>3, <3>1, OccAppend
    <3>3. \A j \in Keys : j # k => expl'[j] = expl[j]
      BY <2>3, <3>1
    <3>4. OwnedIffInside'
      BY <2>1, <2>2, <3>1, <3>2, <3>3, KeysAssumption DEF TableInv, OwnedIffInside, Owned, Inside
    <3>5. \A l \in ids : l \notin In(expl[k]) /\ explDepth[l] = 0
      <4>1. Tried(k, ids) = ids
        BY <1>3 DEF Take, Tried
      <4>2. \A l \in ids : owner[l] = k => ~(explDepth[l] > 0)
        BY <1>3, <2>5, <4>1 DEF Take, SelfLocked
      <4>3. \A l \in ids : owner[l] = k => explDepth[l] = 0
        BY <2>3, <4>2
      <4>4. \A l \in ids : owner[l] = k => l \notin In(expl[k])
        BY <4>3, KeysAssumption DEF TableInv, DepthsExact
      <4>5. \A l \in ids : owner[l] = NoKey => l \notin In(expl[k]) /\ explDepth[l] = 0
        BY KeysAssumption DEF TableInv, DepthsExact, OwnedIffInside, Owned, Inside
      <4> QED
        BY <2>1, <4>3, <4>4, <4>5
    <3>6. ASSUME NEW l \in Locks
          PROVE  IF owner'[l] = NoKey
                   THEN autoDepth'[l] = 0 /\ explDepth'[l] = 0
                   ELSE /\ autoDepth'[l] = Occ(autos'[owner'[l]], l)
                        /\ explDepth'[l] = IF l \in In(expl'[owner'[l]]) THEN 1 ELSE 0
      <4>1. IF owner[l] = NoKey
              THEN autoDepth[l] = 0 /\ explDepth[l] = 0
              ELSE /\ autoDepth[l] = Occ(autos[owner[l]], l)
                   /\ explDepth[l] = IF l \in In(expl[owner[l]]) THEN 1 ELSE 0
        BY DEF TableInv, DepthsExact
      <4>2. CASE l \in ids
        <5>1. owner'[l] = k /\ autoDepth'[l] = autoDepth[l] /\ explDepth'[l] = 1
          BY <2>2, <3>1, <3>5, <4>2
        <5>2. owner[l] = NoKey => l \notin In(autos[k])
          BY KeysAssumption DEF TableInv, OwnedIffInside, Owned, Inside
        <5>3. owner[l] = NoKey => Occ(autos[k], l) = 0
          BY <2>3, <5>2, OccType
        <5>4. autoDepth[l] = Occ(autos[k], l)
          BY <2>1, <4>1, <4>2, <5>3
        <5> QED
          BY <3>1, <3>2, <4>2, <5>1, <5>4, KeysAssumption
      <4>3. CASE l \notin ids
        <5>1. owner'[l] = owner[l] /\ autoDepth'[l] = autoDepth[l] /\ explDepth'[l] = explDepth[l]
          BY <2>2, <3>1, <4>3
        <5>2. owner[l] # NoKey => (l \in In(expl'[owner[l]]) <=> l \in In(expl[owner[l]]))
          BY <2>3, <3>2, <3>3, <4>3
        <5> QED
          BY <3>1, <4>1, <5>1, <5>2
      <4> QED
        BY <4>2, <4>3
    <3>7. ASSUME NEW j \in Keys, NEW i \in 1..Len(expl'[j]), NEW m \in 1..Len(expl'[j]), i # m
          PROVE  expl'[j][i] \cap expl'[j][m] = {}
      <4>1. \A p, q \in 1..Len(expl[j]) : p # q => expl[j][p] \cap expl[j][q] = {}
        BY DEF TableInv, DepthsExact
      <4>2. CASE j # k
        BY <3>3, <3>7, <4>1, <4>2
      <4>3. CASE j = k
        <5>1. /\ Len(expl'[k]) = Len(expl[k]) + 1 /\ expl'[k][Len(expl[k]) + 1] = ids
              /\ \A p \in 1..Len(expl[k]) : expl'[k][p] = expl[k][p]
          BY <2>3, <3>1
        <5>2. \A p \in 1..Len(expl[k]) : expl[k][p] \cap ids = {}
          BY <3>5 DEF In
        <5>3. i \in 1..Len(expl[k]) \/ i = Len(expl[k]) + 1
          BY <2>3, <3>7, <4>3, <5>1
        <5>4. m \in 1..Len(expl[k]) \/ m = Len(expl[k]) + 1
          BY <2>3, <3>7, <4>3, <5>1
        <5> QED
          BY <3>7, <4>1, <4>3, <5>1, <5>2, <5>3, <5>4
      <4> QED
        BY <4>2, <4>3
    <3>8. DepthsExact'
      BY <3>6, <3>7 DEF DepthsExact
    <3> QED
      BY <2>2, <3>4, <3>8 DEF TableInv, NoInternalLockError
  <2> QED
    BY <2>4, <2>5 DEF Modes
<1> QED
  BY <1>1, <1>2, <1>3 DEF Attempt

(* A release of statements that are open: no internal error, and a lock is   *)
(* freed exactly when the last statement naming it is left.                  *)
LEMMA ReleaseAutoTableInv ==
  ASSUME TableInv, NEW k \in Keys, LeaveAuto(k), LockTypeOK'
  PROVE  TableInv'
<1> DEFINE ids == autos[k][Len(autos[k])]
           front == SubSeq(autos[k], 1, Len(autos[k]) - 1)
<1>1. /\ expl \in [Keys -> Seq(SUBSET Locks)] /\ autos \in [Keys -> Seq(SUBSET Locks)]
      /\ owner \in [Locks -> Keys \cup {NoKey}]
      /\ autoDepth \in [Locks -> Nat] /\ explDepth \in [Locks -> Nat]
  BY DEF TableInv, LockTypeOK
<1>2. /\ autos' = [autos EXCEPT ![k] = front] /\ expl' = expl
      /\ autos[k] # <<>> /\ Release(k, ids, "auto")
  BY DEF LeaveAuto
<1>3. /\ ids \subseteq In(autos[k]) /\ In(autos[k]) = In(front) \cup ids
      /\ \A l : Occ(front, l) = IF l \in ids THEN Occ(autos[k], l) - 1 ELSE Occ(autos[k], l)
  BY <1>1, <1>2, OccFront
<1>4. /\ autos'[k] = front
      /\ \A j \in Keys : j # k => autos'[j] = autos[j]
  BY <1>1, <1>2
<1>5. front \in Seq(SUBSET Locks) /\ In(autos[k]) \subseteq Locks
  BY <1>4, <1>1 DEF LockTypeOK, In
<1>6. ids \subseteq Locks /\ \A l \in ids : owner[l] = k
  BY <1>3, <1>5 DEF TableInv, OwnedIffInside, Owned, Inside
<1> DEFINE freed == {l \in ids : Dec(autoDepth[l]) = 0 /\ explDepth[l] = 0}
<1>7. /\ autoDepth' = [l \in Locks |-> IF l \in ids THEN Dec(autoDepth[l]) ELSE autoDepth[l]]
      /\ explDepth' = explDepth
      /\ owner' = [l \in Locks |-> IF l \in freed THEN NoKey ELSE owner[l]]
      /\ fatal' = fatal
  BY <1>1, <1>2, <1>6 DEF Release, Free
<1> HIDE DEF ids, front
<1>8. ASSUME NEW l \in ids
      PROVE  /\ autoDepth[l] = Occ(autos[k], l) /\ autoDepth[l] > 0
             /\ Dec(autoDepth[l]) = Occ(front, l)
             /\ explDepth[l] = IF l \in In(expl[k]) THEN 1 ELSE 0
             /\ l \in freed <=> l \notin In(front) \cup In(expl[k])
  <2>1. /\ autoDepth[l] = Occ(autos[k], l)
        /\ explDepth[l] = IF l \in In(expl[k]) THEN 1 ELSE 0
    BY <1>6, KeysAssumption DEF TableInv, DepthsExact
  <2>2. Occ(autos[k], l) \in Nat /\ Occ(autos[k], l) # 0
    BY <1>1, <1>3, OccType
  <2>3. Occ(front, l) = Occ(autos[k], l) - 1
    BY <1>3
  <2>4. Occ(front, l) = 0 <=> l \notin In(front)
    BY <1>5, OccType
  <2> QED
    BY <2>1, <2>2, <2>3, <2>4 DEF Dec
<1>9. \A l \in Locks : owner'[l] = IF l \in ids /\ l \notin In(front) \cup In(expl[k])
                                  THEN NoKey ELSE owner[l]
  BY <1>7, <1>8
<1>10. ASSUME NEW j \in Keys PROVE Owned(j)' = Inside(j)'
  <2>1. Owned(j) = Inside(j) /\ Inside(j) \subseteq Locks
    BY DEF TableInv, OwnedIffInside, Owned
  <2>2. CASE j = k
    <3>1. Owned(k)' = Owned(k) \ {l \in ids : l \notin In(front) \cup In(expl[k])}
      BY <1>6, <1>9, KeysAssumption DEF Owned
    <3>2. Inside(k)' = In(expl[k]) \cup In(front)
      BY <1>2, <1>4 DEF Inside
    <3> QED
      BY <1>3, <2>1, <2>2, <3>1, <3>2 DEF Inside
  <2>3. CASE j # k
    <3>1. Owned(j)' = Owned(j)
      BY <1>6, <1>9, <2>3, KeysAssumption DEF Owned
    <3>2. Inside(j)' = Inside(j)
      BY <1>2, <1>4, <2>3 DEF Inside
    <3> QED
      BY <2>1, <3>1, <3>2
  <2> QED
    BY <2>2, <2>3
<1>11. ASSUME NEW l \in Locks
       PROVE  IF owner'[l] = NoKey
                THEN autoDepth'[l] = 0 /\ explDepth'[l] = 0
                ELSE /\ autoDepth'[l] = Occ(autos'[owner'[l]], l)
                     /\ explDepth'[l] = IF l \in In(expl'[owner'[l]]) THEN 1 ELSE 0
  <2>1. IF owner[l] = NoKey
          THEN autoDepth[l] = 0 /\ explDepth[l] = 0
          ELSE /\ autoDepth[l] = Occ(autos[owner[l]], l)
               /\ explDepth[l] = IF l \in In(expl[owner[l]]) THEN 1 ELSE 0
    BY DEF TableInv, DepthsExact
  <2>2. CASE l \in ids
    <3>1. autoDepth'[l] = Dec(autoDepth[l]) /\ explDepth'[l] = explDepth[l]
      BY <1>7, <2>2
    <3>2. CASE l \in freed
      <4>1. owner'[l] = NoKey /\ Dec(autoDepth[l]) = 0 /\ explDepth[l] = 0
        BY <1>7, <3>2
      <4> QED
        BY <3>1, <4>1
    <3>3. CASE l \notin freed
      <4>1. owner'[l] = k
        BY <1>6, <1>7, <2>2, <3>3
      <4> QED
        BY <1>2, <1>4, <1>8, <2>2, <3>1, <4>1, KeysAssumption
    <3> QED
      BY <3>2, <3>3
  <2>3. CASE l \notin ids
    <3>1. owner'[l] = owner[l] /\ autoDepth'[l] = autoDepth[l] /\ explDepth'[l] = explDepth[l]
      BY <1>7, <2>3
    <3>2. owner[l] # NoKey => Occ(autos'[owner[l]], l) = Occ(autos[owner[l]], l)
      BY <1>1, <1>3, <1>4, <2>3
    <3> QED
      BY <1>2, <2>1, <3>1, <3>2
  <2> QED
    BY <2>2, <2>3
<1>12. DepthsExact'
  <2>1. \A j \in Keys : \A i, m \in 1..Len(expl'[j]) : i # m => expl'[j][i] \cap expl'[j][m] = {}
    BY <1>2 DEF TableInv, DepthsExact
  <2> QED
    BY <1>11, <2>1 DEF DepthsExact
<1> QED
  BY <1>7, <1>10, <1>12 DEF TableInv, OwnedIffInside, NoInternalLockError

LEMMA ReleaseToTableInv ==
  ASSUME TableInv, NEW k \in Keys, NEW mark \in 0..Len(expl[k]), ReleaseTo(k, mark),
         LockTypeOK'
  PROVE  TableInv'
<1> DEFINE n == Len(expl[k])
           ids == UNION {expl[k][i] : i \in (mark + 1)..n}
           rest == SubSeq(expl[k], 1, mark)
<1>1. /\ expl \in [Keys -> Seq(SUBSET Locks)] /\ autos \in [Keys -> Seq(SUBSET Locks)]
      /\ owner \in [Locks -> Keys \cup {NoKey}]
      /\ autoDepth \in [Locks -> Nat] /\ explDepth \in [Locks -> Nat]
      /\ n \in Nat /\ mark \in Nat /\ mark <= n
  <2>1. expl[k] \in Seq(SUBSET Locks)
    BY DEF TableInv, LockTypeOK
  <2>2. n \in Nat
    BY <2>1
  <2>3. mark \in Nat /\ mark <= n
    BY <2>2
  <2> QED
    BY <2>2, <2>3 DEF TableInv, LockTypeOK
<1>2. /\ expl' = [expl EXCEPT ![k] = rest] /\ autos' = autos
      /\ Release(k, ids, "explicit")
  BY DEF ReleaseTo
<1>3. Len(rest) = mark /\ \A i \in 1..mark : rest[i] = expl[k][i]
  BY <1>1, FrontType
<1>4. expl'[k] = rest /\ \A j \in Keys : j # k => expl'[j] = expl[j]
  BY <1>1, <1>2
<1>5. In(expl[k]) = In(rest) \cup ids /\ In(rest) \cap ids = {}
  <2>1. 1..n = (1..mark) \cup ((mark + 1)..n)
    BY <1>1
  <2>2. \A i \in 1..mark, m \in (mark + 1)..n : expl[k][i] \cap expl[k][m] = {}
    <3>1. \A i, m \in 1..n : i # m => expl[k][i] \cap expl[k][m] = {}
      BY DEF TableInv, DepthsExact
    <3>2. ASSUME NEW i \in 1..mark, NEW m \in (mark + 1)..n
          PROVE  i \in 1..n /\ m \in 1..n /\ i # m
      BY <1>1
    <3> QED
      BY <3>1, <3>2
  <2>3. In(rest) = UNION {expl[k][i] : i \in 1..mark}
    BY <1>3 DEF In
  <2>4. In(expl[k]) = UNION {expl[k][i] : i \in 1..n}
    BY DEF In
  <2> HIDE DEF n, rest
  <2> QED
    BY <2>1, <2>2, <2>3, <2>4
<1>6. ids \subseteq Locks /\ \A l \in ids : owner[l] = k
  BY <1>5 DEF TableInv, OwnedIffInside, Owned, Inside
<1> DEFINE freed == {l \in ids : autoDepth[l] = 0 /\ Dec(explDepth[l]) = 0}
<1>7. /\ autoDepth' = autoDepth
      /\ explDepth' = [l \in Locks |-> IF l \in ids THEN Dec(explDepth[l]) ELSE explDepth[l]]
      /\ owner' = [l \in Locks |-> IF l \in freed THEN NoKey ELSE owner[l]]
      /\ fatal' = fatal
  BY <1>1, <1>2, <1>6 DEF Release, Free
<1> HIDE DEF ids, rest, n
<1>8. ASSUME NEW l \in ids
      PROVE  /\ autoDepth[l] = Occ(autos[k], l)
             /\ Dec(explDepth[l]) = 0 /\ l \notin In(rest)
             /\ l \in freed <=> l \notin In(autos[k])
  <2>1. autoDepth[l] = Occ(autos[k], l) /\ explDepth[l] = 1
    BY <1>5, <1>6, KeysAssumption DEF TableInv, DepthsExact
  <2>2. Occ(autos[k], l) = 0 <=> l \notin In(autos[k])
    BY <1>1, OccType
  <2> QED
    BY <1>5, <2>1, <2>2 DEF Dec
<1>9. \A l \in Locks : owner'[l] = IF l \in ids /\ l \notin In(autos[k])
                                  THEN NoKey ELSE owner[l]
  BY <1>7, <1>8
<1>10. ASSUME NEW j \in Keys PROVE Owned(j)' = Inside(j)'
  <2>1. Owned(j) = Inside(j) /\ Inside(j) \subseteq Locks
    BY DEF TableInv, OwnedIffInside, Owned
  <2>2. CASE j = k
    <3>1. Owned(k)' = Owned(k) \ {l \in ids : l \notin In(autos[k])}
      BY <1>6, <1>9, KeysAssumption DEF Owned
    <3>2. Inside(k)' = In(rest) \cup In(autos[k])
      BY <1>2, <1>4 DEF Inside
    <3> QED
      BY <1>5, <2>1, <2>2, <3>1, <3>2 DEF Inside
  <2>3. CASE j # k
    <3>1. Owned(j)' = Owned(j)
      BY <1>6, <1>9, <2>3, KeysAssumption DEF Owned
    <3>2. Inside(j)' = Inside(j)
      BY <1>2, <1>4, <2>3 DEF Inside
    <3> QED
      BY <2>1, <3>1, <3>2
  <2> QED
    BY <2>2, <2>3
<1>11. ASSUME NEW l \in Locks
       PROVE  IF owner'[l] = NoKey
                THEN autoDepth'[l] = 0 /\ explDepth'[l] = 0
                ELSE /\ autoDepth'[l] = Occ(autos'[owner'[l]], l)
                     /\ explDepth'[l] = IF l \in In(expl'[owner'[l]]) THEN 1 ELSE 0
  <2>1. IF owner[l] = NoKey
          THEN autoDepth[l] = 0 /\ explDepth[l] = 0
          ELSE /\ autoDepth[l] = Occ(autos[owner[l]], l)
               /\ explDepth[l] = IF l \in In(expl[owner[l]]) THEN 1 ELSE 0
    BY DEF TableInv, DepthsExact
  <2>2. CASE l \in ids
    <3>1. autoDepth'[l] = autoDepth[l] /\ explDepth'[l] = 0
      BY <1>7, <1>8, <2>2
    <3>2. CASE l \in freed
      <4>1. owner'[l] = NoKey /\ autoDepth[l] = 0
        BY <1>7, <3>2
      <4> QED
        BY <3>1, <4>1
    <3>3. CASE l \notin freed
      <4>1. owner'[l] = k
        BY <1>6, <1>7, <2>2, <3>3
      <4> QED
        BY <1>2, <1>4, <1>8, <2>2, <3>1, <4>1, KeysAssumption
    <3> QED
      BY <3>2, <3>3
  <2>3. CASE l \notin ids
    <3>1. owner'[l] = owner[l] /\ autoDepth'[l] = autoDepth[l] /\ explDepth'[l] = explDepth[l]
      BY <1>7, <2>3
    <3>2. owner[l] # NoKey => (l \in In(expl'[owner[l]]) <=> l \in In(expl[owner[l]]))
      BY <1>1, <1>4, <1>5, <2>3
    <3> QED
      BY <1>2, <2>1, <3>1, <3>2
  <2> QED
    BY <2>2, <2>3
<1>12. DepthsExact'
  <2>1. ASSUME NEW j \in Keys, NEW i \in 1..Len(expl'[j]), NEW m \in 1..Len(expl'[j]), i # m
        PROVE  expl'[j][i] \cap expl'[j][m] = {}
    <3>1. \A p, q \in 1..Len(expl[j]) : p # q => expl[j][p] \cap expl[j][q] = {}
      BY DEF TableInv, DepthsExact
    <3>2. CASE j # k
      BY <1>4, <2>1, <3>1, <3>2
    <3>3. CASE j = k
      <4>1. i \in 1..mark /\ m \in 1..mark
        BY <1>3, <1>4, <2>1, <3>3
      <4>2. i \in 1..Len(expl[k]) /\ m \in 1..Len(expl[k])
        BY <1>1, <4>1 DEF n
      <4> QED
        BY <1>3, <1>4, <2>1, <3>1, <3>3, <4>1, <4>2
    <3> QED
      BY <3>2, <3>3
  <2> QED
    BY <1>11, <2>1 DEF DepthsExact
<1> QED
  BY <1>7, <1>10, <1>12 DEF TableInv, OwnedIffInside, NoInternalLockError

(* A task that ends gives up everything it owns and nothing else. *)
LEMMA ReleaseAllTableInv ==
  ASSUME TableInv, NEW k \in Keys, ReleaseAll(k), LockTypeOK'
  PROVE  TableInv'
<1>1. /\ expl \in [Keys -> Seq(SUBSET Locks)] /\ autos \in [Keys -> Seq(SUBSET Locks)]
      /\ owner \in [Locks -> Keys \cup {NoKey}]
  BY DEF TableInv, LockTypeOK
<1>2. /\ owner' = [l \in Locks |-> IF owner[l] = k THEN NoKey ELSE owner[l]]
      /\ autoDepth' = [l \in Locks |-> IF owner[l] = k THEN 0 ELSE autoDepth[l]]
      /\ explDepth' = [l \in Locks |-> IF owner[l] = k THEN 0 ELSE explDepth[l]]
      /\ expl' = [expl EXCEPT ![k] = <<>>] /\ autos' = [autos EXCEPT ![k] = <<>>]
      /\ fatal' = fatal
  BY DEF ReleaseAll
<1>3. /\ expl'[k] = <<>> /\ autos'[k] = <<>>
      /\ \A j \in Keys : j # k => expl'[j] = expl[j] /\ autos'[j] = autos[j]
  BY <1>1, <1>2
<1>4. \A l \in Locks : owner'[l] # k
  BY <1>2, KeysAssumption
<1>5. ASSUME NEW j \in Keys PROVE Owned(j)' = Inside(j)'
  <2>1. CASE j = k
    <3>1. Inside(k)' = {}
      BY <1>3 DEF Inside, In
    <3> QED
      BY <1>4, <2>1, <3>1 DEF Owned
  <2>2. CASE j # k
    <3>1. Owned(j)' = Owned(j)
      BY <1>2, <2>2, KeysAssumption DEF Owned
    <3>2. Inside(j)' = Inside(j)
      BY <1>3, <2>2 DEF Inside
    <3> QED
      BY <3>1, <3>2 DEF TableInv, OwnedIffInside
  <2> QED
    BY <2>1, <2>2
<1>6. ASSUME NEW l \in Locks
      PROVE  IF owner'[l] = NoKey
               THEN autoDepth'[l] = 0 /\ explDepth'[l] = 0
               ELSE /\ autoDepth'[l] = Occ(autos'[owner'[l]], l)
                    /\ explDepth'[l] = IF l \in In(expl'[owner'[l]]) THEN 1 ELSE 0
  <2>1. IF owner[l] = NoKey
          THEN autoDepth[l] = 0 /\ explDepth[l] = 0
          ELSE /\ autoDepth[l] = Occ(autos[owner[l]], l)
               /\ explDepth[l] = IF l \in In(expl[owner[l]]) THEN 1 ELSE 0
    BY DEF TableInv, DepthsExact
  <2>2. CASE owner[l] = k
    BY <1>2, <2>2
  <2>3. CASE owner[l] # k
    <3>1. owner'[l] = owner[l] /\ autoDepth'[l] = autoDepth[l] /\ explDepth'[l] = explDepth[l]
      BY <1>2, <2>3
    <3>2. owner[l] # NoKey => /\ expl'[owner[l]] = expl[owner[l]]
                              /\ autos'[owner[l]] = autos[owner[l]]
      BY <1>1, <1>3, <2>3
    <3> QED
      BY <2>1, <3>1, <3>2
  <2> QED
    BY <2>2, <2>3
<1>7. ASSUME NEW j \in Keys, NEW p \in 1..Len(expl'[j]), NEW q \in 1..Len(expl'[j]), p # q
      PROVE  expl'[j][p] \cap expl'[j][q] = {}
  <2>1. CASE j = k
    BY <1>3, <1>7, <2>1
  <2>2. CASE j # k
    BY <1>3, <1>7, <2>2 DEF TableInv, DepthsExact
  <2> QED
    BY <2>1, <2>2
<1>8. DepthsExact'
  BY <1>6, <1>7 DEF DepthsExact
<1> QED
  BY <1>2, <1>5, <1>8 DEF TableInv, OwnedIffInside, NoInternalLockError

LEMMA NextTableInv == TableInv /\ HeldExact /\ [LockNext]_lockVars => TableInv'
<1> SUFFICES ASSUME TableInv, HeldExact, [LockNext]_lockVars PROVE TableInv'
  OBVIOUS
<1>1. LockTypeOK'
  BY NextTypeInv, TableFreeDepths DEF TypeInv, TableInv
<1>2. CASE MutexNew
  BY <1>1, <1>2 DEF MutexNew, waitVars, TableInv, OwnedIffInside, Owned, Inside, DepthsExact,
                    NoInternalLockError
<1>3. CASE UNCHANGED lockVars
  BY <1>1, <1>3 DEF lockVars, tableVars, waitVars, TableInv, OwnedIffInside, Owned, Inside,
                    DepthsExact, NoInternalLockError
<1>4. ASSUME NEW k \in Keys, LockStep(k) PROVE TableInv'
  <2>1. ASSUME NEW ids \in SUBSET Locks, NEW mode \in Modes, Enter(k, ids, mode)
        PROVE  TableInv'
    BY <1>1, <2>1, AttemptTableInv DEF Enter
  <2>2. CASE Wake(k)
    <3>1. call[k].ids \in SUBSET Locks /\ call[k].mode \in Modes
      BY <2>2 DEF Wake, TableInv, LockTypeOK, Calls
    <3> QED
      BY <1>1, <2>2, <3>1, AttemptTableInv DEF Wake
  <2>3. CASE LeaveAuto(k)
    BY <1>1, <2>3, ReleaseAutoTableInv
  <2>4. ASSUME NEW mark \in 0..Len(expl[k]), ReleaseTo(k, mark) PROVE TableInv'
    BY <1>1, <2>4, ReleaseToTableInv
  <2>5. ASSUME NEW t \in Keys, Join(k, t) PROVE TableInv'
    <3>1. fatal' \in {"none", "TASK_WAIT_CYCLE", "LOCK_DEADLOCK"}
      BY <2>5 DEF Join, NoteWaitTask
    <3> QED
      BY <1>1, <2>5, <3>1 DEF Join, NoteWaitTask, tableVars, TableInv, OwnedIffInside, Owned,
                              Inside, DepthsExact, NoInternalLockError
  <2>6. CASE Joined(k)
    BY <1>1, <2>6 DEF Joined, ClearWait, tableVars, TableInv, OwnedIffInside, Owned, Inside,
                      DepthsExact, NoInternalLockError
  <2>7. CASE Finish(k)
    BY <1>1, <2>7, ReleaseAllTableInv DEF Finish
  <2>8. CASE Skip(k)
    BY <1>1, <2>8 DEF Skip, tableVars, waitVars, TableInv, OwnedIffInside, Owned, Inside,
                      DepthsExact, NoInternalLockError
  <2> QED
    BY <1>4, <2>1, <2>2, <2>3, <2>4, <2>5, <2>6, <2>7, <2>8 DEF LockStep
<1>5. CASE Unlock
  BY <1>1, <1>5, ReleaseAllTableInv, KeysAssumption DEF Unlock
<1> QED
  BY <1>2, <1>3, <1>4, <1>5 DEF LockNext, Stopped

(* Mutual exclusion and no leak: at all times a task owns exactly the locks  *)
(* that its open statements and LOCK blocks name, the depths count them, and *)
(* release_locked never meets a lock of another task.                        *)
THEOREM LockSafety == LockSpec => [](OwnedIffInside /\ DepthsExact /\ NoInternalLockError)
<1> DEFINE I == TableInv /\ HeldExact
<1>1. LockInit => I
  BY InitTableInv, InitTypeInv DEF TypeInv
<1>2. I /\ [LockNext]_lockVars => I'
  BY NextTableInv, NextTypeInv, TableFreeDepths DEF TypeInv, TableInv
<1>3. I => OwnedIffInside /\ DepthsExact /\ NoInternalLockError
  BY DEF TableInv
<1> QED
  BY <1>1, <1>2, <1>3, PTL DEF LockSpec

-----------------------------------------------------------------------------
(* Deadlock.  An edge is checked when it is added.  Afterwards the graph     *)
(* changes without a check whenever a lock changes hands, because the edge   *)
(* of a task that waits for the lock then leads to another task.  That is    *)
(* harmless: a task that takes a lock waits for nothing.                     *)

(* A key that starts to wait for x, which does not lead back to it.          *)
LEMMA NewEdgeAcyclic ==
  ASSUME Acyclic, NEW k \in Keys, NEW x \in Keys \cup {NoKey},
         x # NoKey => ~Reaches(x, k),
         Succ(k)' = x, \A j \in Keys : j # k => Succ(j)' = Succ(j)
  PROVE  Acyclic'
<1> SUFFICES ASSUME NEW T \in SUBSET Keys, T # {},
                    \A j \in T : Succ(j)' \in T
             PROVE  FALSE
  BY DEF Acyclic
<1>1. k \in T
  BY DEF Acyclic
<1>2. x \in T
  BY <1>1
<1>3. PICK S \in SUBSET Keys : x \in S /\ Closed(S, Succ) /\ k \notin S
  BY <1>2, KeysAssumption DEF Reaches
<1>4. \A j \in S \cap T : Succ(j) \in S \cap T
  BY <1>3, KeysAssumption DEF Closed
<1> QED
  BY <1>2, <1>3, <1>4 DEF Acyclic

(* Edges that only disappear, or lead to a key that waits for nothing. *)
LEMMA FewerEdgesAcyclic ==
  ASSUME Acyclic, NEW k \in Keys,
         \A j \in Keys : Succ(j)' \in {Succ(j), NoKey, k},
         Succ(k)' = NoKey
  PROVE  Acyclic'
<1> SUFFICES ASSUME NEW T \in SUBSET Keys, T # {},
                    \A j \in T : Succ(j)' \in T
             PROVE  FALSE
  BY DEF Acyclic
<1>1. k \notin T
  BY KeysAssumption
<1>2. \A j \in T : Succ(j) \in T
  BY <1>1, KeysAssumption
<1> QED
  BY <1>2 DEF Acyclic

(* The successor of a key: its edge decides. *)
LEMMA SuccOfEdge ==
  ASSUME NEW j
  PROVE  /\ edge[j] = NoEdge => Succ(j) = NoKey
         /\ \A l : edge[j] = LockEdge(l) => Succ(j) = owner[l]
         /\ \A t : edge[j] = TaskEdge(t) => Succ(j) = t
BY DEF Succ, NoEdge, LockEdge, TaskEdge

LEMMA SuccOfEdgeNext ==
  ASSUME NEW j
  PROVE  /\ edge'[j] = NoEdge => Succ(j)' = NoKey
         /\ \A l : edge'[j] = LockEdge(l) => Succ(j)' = owner'[l]
         /\ \A t : edge'[j] = TaskEdge(t) => Succ(j)' = t
BY DEF Succ, NoEdge, LockEdge, TaskEdge

(* Owners that change to NoKey or to k change only the edges that lead to them. *)
LEMMA OwnersChange ==
  ASSUME LockTypeOK, NEW k \in Keys,
         \A l \in Locks : owner'[l] \in {owner[l], NoKey, k},
         NEW j \in Keys, edge'[j] = edge[j]
  PROVE  Succ(j)' \in {Succ(j), NoKey, k}
<1>1. edge[j] \in Edges
  BY DEF LockTypeOK
<1>2. CASE edge[j] = NoEdge
  BY <1>2, SuccOfEdge, SuccOfEdgeNext
<1>3. ASSUME NEW l \in Locks, edge[j] = LockEdge(l)
      PROVE  Succ(j)' \in {Succ(j), NoKey, k}
  <2>1. Succ(j) = owner[l] /\ Succ(j)' = owner'[l]
    BY <1>3, SuccOfEdge, SuccOfEdgeNext
  <2> QED
    BY <2>1
<1>4. ASSUME NEW t \in Keys, edge[j] = TaskEdge(t)
      PROVE  Succ(j)' \in {Succ(j), NoKey, k}
  BY <1>4, SuccOfEdge, SuccOfEdgeNext
<1> QED
  BY <1>1, <1>2, <1>3, <1>4 DEF Edges

LEMMA AttemptDeadlockInv ==
  ASSUME LockTypeOK, FreeDepths, Acyclic, NEW k \in Keys, NEW ids \in SUBSET Locks,
         NEW mode \in Modes, Attempt(k, ids, mode)
  PROVE  NoUndetectedDeadlock'
<1>1. CASE SelfDeadlock(k, ids, mode)
  BY <1>1 DEF SelfDeadlock, NoUndetectedDeadlock
<1>2. CASE Take(k, ids, mode)
  <2>1. /\ \A l \in Locks : owner'[l] \in {owner[l], NoKey, k}
        /\ edge'[k] = NoEdge /\ \A j \in Keys : j # k => edge'[j] = edge[j]
    BY <1>2 DEF Take, LockTypeOK
  <2>2. Succ(k)' = NoKey
    BY <2>1, SuccOfEdgeNext
  <2>3. \A j \in Keys : Succ(j)' \in {Succ(j), NoKey, k}
    BY <2>1, <2>2, OwnersChange
  <2> QED
    BY <2>2, <2>3, FewerEdgesAcyclic DEF NoUndetectedDeadlock
<1>3. CASE Block(k, ids, mode)
  <2> DEFINE b == FirstBlocker(k, ids)
  <2>1. b \in Locks /\ owner[b] \in Keys
    <3>1. b \in Blockers(k, ids)
      BY <1>3, FirstBlockerIsBlocker DEF Block
    <3> HIDE DEF b
    <3> QED
      BY <3>1 DEF Blockers, LockTypeOK
  <2>2. /\ edge'[k] = LockEdge(b) /\ \A j \in Keys : j # k => edge'[j] = edge[j]
        /\ owner' = owner
        /\ fatal' = "none" => ~Reaches(owner[b], k)
    BY <1>3, BlockKeepsTable DEF Block, tableVars, LockTypeOK
  <2> HIDE DEF b
  <2>3. Succ(k)' = owner[b]
    BY <2>2, SuccOfEdgeNext
  <2>4. \A j \in Keys : j # k => Succ(j)' = Succ(j)
    BY <2>2 DEF Succ
  <2>5. fatal' = "none" => Acyclic'
    BY <2>1, <2>2, <2>3, <2>4, NewEdgeAcyclic
  <2> QED
    BY <2>5 DEF NoUndetectedDeadlock
<1> QED
  BY <1>1, <1>2, <1>3 DEF Attempt

(* A key that waits for nothing, releases: edges only disappear. *)
LEMMA ReleaseDeadlockInv ==
  ASSUME LockTypeOK, Acyclic, NEW k \in Keys, edge'[k] = NoEdge,
         \A j \in Keys : j # k => edge'[j] = edge[j],
         \A l \in Locks : owner'[l] \in {owner[l], NoKey}
  PROVE  NoUndetectedDeadlock'
<1>1. Succ(k)' = NoKey
  BY SuccOfEdgeNext
<1>2. \A j \in Keys : Succ(j)' \in {Succ(j), NoKey, k}
  BY <1>1, OwnersChange
<1> QED
  BY <1>1, <1>2, FewerEdgesAcyclic DEF NoUndetectedDeadlock

LEMMA ReleaseOwners ==
  ASSUME LockTypeOK, NEW k, NEW ids, NEW mode, Release(k, ids, mode)
  PROVE  \A l \in Locks : owner'[l] \in {owner[l], NoKey}
BY DEF Release, LockTypeOK

LEMMA StepDeadlockInv ==
  ASSUME LockTypeOK, FreeDepths, fatal = "none", Acyclic, NEW k \in Keys, LockStep(k)
  PROVE  NoUndetectedDeadlock'
<1>1. ASSUME NEW ids \in SUBSET Locks, NEW mode \in Modes, Enter(k, ids, mode)
      PROVE  NoUndetectedDeadlock'
  BY <1>1, AttemptDeadlockInv DEF Enter
<1>2. CASE Wake(k)
  <2>1. call[k].ids \in SUBSET Locks /\ call[k].mode \in Modes
    BY <1>2 DEF Wake, LockTypeOK, Calls
  <2> QED
    BY <1>2, <2>1, AttemptDeadlockInv DEF Wake
<1>3. CASE LeaveAuto(k)
  BY <1>3, ReleaseOwners, ReleaseDeadlockInv DEF LeaveAuto, Running
<1>4. ASSUME NEW mark \in 0..Len(expl[k]), ReleaseTo(k, mark)
      PROVE  NoUndetectedDeadlock'
  BY <1>4, ReleaseOwners, ReleaseDeadlockInv DEF ReleaseTo, Running
<1>5. ASSUME NEW t \in Keys, Join(k, t)
      PROVE  NoUndetectedDeadlock'
  <2>1. /\ edge'[k] = TaskEdge(t) /\ \A j \in Keys : j # k => edge'[j] = edge[j]
        /\ owner' = owner
        /\ fatal' = "none" => ~Reaches(t, k)
    BY <1>5 DEF Join, NoteWaitTask, tableVars, LockTypeOK
  <2>2. Succ(k)' = t
    BY <2>1, SuccOfEdgeNext
  <2>3. \A j \in Keys : j # k => Succ(j)' = Succ(j)
    BY <2>1 DEF Succ
  <2>4. fatal' = "none" => Acyclic'
    BY <2>1, <2>2, <2>3, NewEdgeAcyclic
  <2> QED
    BY <2>4 DEF NoUndetectedDeadlock
<1>6. CASE Joined(k)
  <2>1. /\ edge'[k] = NoEdge /\ \A j \in Keys : j # k => edge'[j] = edge[j]
        /\ owner' = owner
    BY <1>6 DEF Joined, ClearWait, tableVars, LockTypeOK
  <2> QED
    BY <2>1, ReleaseDeadlockInv
<1>7. CASE Finish(k)
  <2>1. /\ edge'[k] = NoEdge /\ \A j \in Keys : j # k => edge'[j] = edge[j]
        /\ \A l \in Locks : owner'[l] \in {owner[l], NoKey}
    BY <1>7 DEF Finish, ReleaseAll, LockTypeOK
  <2> QED
    BY <2>1, ReleaseDeadlockInv
<1>8. CASE Skip(k)
  BY <1>8 DEF Skip, tableVars, waitVars, NoUndetectedDeadlock, Acyclic, Succ
<1> QED
  BY <1>1, <1>2, <1>3, <1>4, <1>5, <1>6, <1>7, <1>8 DEF LockStep

LEMMA InitAcyclic == LockInit => Acyclic
<1> SUFFICES ASSUME LockInit PROVE Acyclic
  OBVIOUS
<1>1. \A k \in Keys : Succ(k) = NoKey
  BY SuccOfEdge DEF LockInit
<1> QED
  BY <1>1, KeysAssumption DEF Acyclic

LEMMA NextDeadlockInv ==
  TypeInv /\ NoUndetectedDeadlock /\ [LockNext]_lockVars => (TypeInv /\ NoUndetectedDeadlock)'
<1> SUFFICES ASSUME TypeInv, NoUndetectedDeadlock, [LockNext]_lockVars
             PROVE  NoUndetectedDeadlock'
  BY NextTypeInv
<1>1. CASE edge' = edge /\ owner' = owner /\ fatal' = fatal
  BY <1>1 DEF NoUndetectedDeadlock, Acyclic, Succ
<1>2. ASSUME NEW k \in Keys, LockStep(k) PROVE NoUndetectedDeadlock'
  <2>1. fatal = "none"
    BY <1>2 DEF LockStep, Enter, Wake, LeaveAuto, ReleaseTo, Join, NoteWaitTask, Joined,
                ClearWait, Finish, Skip, Running
  <2> QED
    BY <1>2, <2>1, StepDeadlockInv DEF TypeInv, NoUndetectedDeadlock
<1>3. CASE Unlock
  <2>1. /\ edge'[Main] = NoEdge /\ \A j \in Keys : j # Main => edge'[j] = edge[j]
        /\ \A l \in Locks : owner'[l] \in {owner[l], NoKey}
    BY <1>3, KeysAssumption DEF Unlock, ReleaseAll, TypeInv, LockTypeOK
  <2>2. Acyclic
    BY <1>3 DEF Unlock, Running, NoUndetectedDeadlock
  <2> QED
    BY <2>1, <2>2, ReleaseDeadlockInv, KeysAssumption DEF TypeInv
<1> QED
  BY <1>1, <1>2, <1>3 DEF LockNext, Stopped, MutexNew, waitVars, lockVars, tableVars

(* As long as the process has not exited with a diagnosis, its tasks do not  *)
(* wait for each other in a circle, whether through locks or joins: the      *)
(* check that sync_enter and note_wait_task make when a wait begins misses   *)
(* nothing.                                                                  *)
THEOREM NoSilentDeadlock == LockSpec => []NoUndetectedDeadlock
<1> DEFINE I == TypeInv /\ NoUndetectedDeadlock
<1>1. LockInit => I
  BY InitTypeInv, InitAcyclic DEF NoUndetectedDeadlock
<1>2. I /\ [LockNext]_lockVars => I'
  BY NextDeadlockInv
<1> QED
  BY <1>1, <1>2, PTL DEF LockSpec

-----------------------------------------------------------------------------
(* What a step of j changes in the table: locks that are free or j's own.   *)
StepOwners(j) ==
  \A l \in Locks : owner'[l] = owner[l] \/ (owner[l] \in {NoKey, j} /\ owner'[l] \in {NoKey, j})

LEMMA StepChangesOwnLocks ==
  ASSUME LockTypeOK, FreeDepths, NEW j \in Keys, LockStep(j)
  PROVE  StepOwners(j)
<1>1. ASSUME NEW ids \in SUBSET Locks, NEW mode \in Modes, Attempt(j, ids, mode)
      PROVE  StepOwners(j)
  <2>1. CASE Take(j, ids, mode)
    <3>1. /\ \A l \in ids : owner[l] \in {NoKey, j}
          /\ owner' = [l \in Locks |-> IF l \in ids THEN j ELSE owner[l]]
      BY <2>1 DEF Take, Blockers
    <3> QED
      BY <3>1 DEF StepOwners
  <2>2. CASE owner' = owner
    BY <2>2 DEF StepOwners
  <2> QED
    BY <1>1, <2>1, <2>2, BlockKeepsTable DEF Attempt, SelfDeadlock, tableVars
<1>2. ASSUME NEW ids, NEW mode, Release(j, ids, mode) PROVE StepOwners(j)
  BY <1>2 DEF Release, LockTypeOK, StepOwners
<1>3. CASE \E ids \in SUBSET Locks, mode \in Modes : Enter(j, ids, mode)
  BY <1>1, <1>3 DEF Enter
<1>4. CASE Wake(j)
  <2>1. call[j].ids \in SUBSET Locks /\ call[j].mode \in Modes
    BY <1>4 DEF Wake, LockTypeOK, Calls
  <2> QED
    BY <1>1, <1>4, <2>1 DEF Wake
<1>5. CASE LeaveAuto(j)
  BY <1>2, <1>5 DEF LeaveAuto
<1>6. CASE \E mark \in 0..Len(expl[j]) : ReleaseTo(j, mark)
  BY <1>2, <1>6 DEF ReleaseTo
<1>7. CASE (\E t \in Keys : Join(j, t)) \/ Joined(j)
  BY <1>7 DEF Join, NoteWaitTask, Joined, ClearWait, tableVars, StepOwners
<1>8. CASE Finish(j)
  BY <1>8 DEF Finish, ReleaseAll, StepOwners
<1>9. CASE Skip(j)
  BY <1>9 DEF Skip, tableVars, StepOwners
<1> QED
  BY <1>3, <1>4, <1>5, <1>6, <1>7, <1>8, <1>9 DEF LockStep

(* A sleeping sync_enter holds none of the locks it asked for until it gets  *)
(* all of them, in one step.                                                 *)
THEOREM LockAllOrNothing == LockSpec => AllOrNothing
<1> DEFINE A == \A k \in Keys : call[k] # NoCall =>
                  Owned(k)' \in {Owned(k), Owned(k) \cup call[k].ids}
<1>1. TypeInv /\ [LockNext]_lockVars => A
  <2> SUFFICES ASSUME TypeInv, [LockNext]_lockVars, NEW k \in Keys, call[k] # NoCall
               PROVE  Owned(k)' \in {Owned(k), Owned(k) \cup call[k].ids}
    OBVIOUS
  <2>1. CASE owner' = owner
    BY <2>1 DEF Owned
  <2>2. ASSUME NEW j \in Keys, LockStep(j), j # k PROVE Owned(k)' = Owned(k)
    BY <2>2, StepChangesOwnLocks, KeysAssumption DEF TypeInv, StepOwners, Owned
  <2>3. CASE LockStep(k)
    <3>1. Wake(k) \/ Joined(k)
      BY <2>3 DEF LockStep, Enter, LeaveAuto, ReleaseTo, Join, NoteWaitTask, Finish, Skip,
                  Running
    <3>2. CASE Joined(k)
      BY <2>1, <3>2 DEF Joined, ClearWait, tableVars
    <3>3. CASE Wake(k)
      <4>1. call[k].ids \in SUBSET Locks
        BY DEF TypeInv, LockTypeOK, Calls
      <4>3. call[k].mode \in Modes
        BY DEF TypeInv, LockTypeOK, Calls
      <4>2. CASE Take(k, call[k].ids, call[k].mode)
        <5>1. owner' = [l \in Locks |-> IF l \in call[k].ids THEN k ELSE owner[l]]
          BY <4>2 DEF Take
        <5>2. Owned(k)' = Owned(k) \cup call[k].ids
          BY <4>1, <5>1 DEF Owned
        <5> QED
          BY <5>2
      <4> QED
        BY <2>1, <3>3, <4>1, <4>2, <4>3, BlockKeepsTable
        DEF TypeInv, Wake, Attempt, SelfDeadlock, tableVars
    <3> QED
      BY <3>1, <3>2, <3>3
  <2>4. CASE MutexNew \/ UNCHANGED lockVars
    BY <2>1, <2>4 DEF MutexNew, lockVars, tableVars
  <2>5. CASE Unlock
    <3>1. k # Main
      BY <2>5 DEF Unlock, Running
    <3> QED
      BY <2>5, <3>1, KeysAssumption DEF Unlock, ReleaseAll, Owned
  <2> QED
    BY <2>2, <2>3, <2>4, <2>5 DEF LockNext, Stopped
<1>2. LockInit => TypeInv
  BY InitTypeInv
<1>3. TypeInv /\ [LockNext]_lockVars => TypeInv'
  BY NextTypeInv
<1>4. TypeInv /\ [LockNext]_lockVars => [A]_lockVars
  BY <1>1
<1> QED
  BY <1>2, <1>3, <1>4, PTL DEF LockSpec, AllOrNothing

-----------------------------------------------------------------------------
(* The diagnosis.  The keys that lead to k form the circle that a new edge   *)
(* of k closes.                                                              *)
LEMMA ClosedCircle ==
  ASSUME NEW f \in [Keys -> Keys \cup {NoKey}], NEW k \in Keys, f[k] \in Keys,
         \A C \in SUBSET Keys : f[k] \in C /\ (\A j \in C : f[j] \in C \cup {NoKey}) => k \in C
  PROVE  \E S \in SUBSET Keys : S # {} /\ \A j \in S : f[j] \in S
<1> DEFINE Leads(j) == \A C \in SUBSET Keys :
                         j \in C /\ (\A i \in C : f[i] \in C \cup {NoKey}) => k \in C
           S == {j \in Keys : Leads(j)}
<1>1. k \in S /\ f[k] \in S
  OBVIOUS
<1>2. ASSUME NEW j \in S, j # k
      PROVE  f[j] \in S
  <2>1. Leads(j) /\ j \in Keys
    OBVIOUS
  <2>2. f[j] \in Keys
    <3>1. f[j] # NoKey
      <4>1. f[j] = NoKey => (\A i \in {j} : f[i] \in {j} \cup {NoKey})
        OBVIOUS
      <4>2. f[j] = NoKey => k \in {j}
        BY <2>1, <4>1
      <4> QED
        BY <1>2, <4>2
    <3> QED
      BY <2>1, <3>1
  <2>3. ASSUME NEW C \in SUBSET Keys, f[j] \in C, \A i \in C : f[i] \in C \cup {NoKey}
        PROVE  k \in C
    <3>1. \A i \in C \cup {j} : f[i] \in C \cup {j} \cup {NoKey}
      BY <2>3
    <3>2. k \in C \cup {j}
      BY <2>1, <3>1
    <3> QED
      BY <1>2, <3>2
  <2> QED
    BY <2>2, <2>3
<1>3. S # {} /\ S \in SUBSET Keys /\ \A j \in S : f[j] \in S
  BY <1>1, <1>2
<1> QED
  BY <1>3

LEMMA SuccTypes ==
  ASSUME LockTypeOK, NEW j \in Keys
  PROVE  /\ Succ(j) \in Keys \cup {NoKey}
         /\ TaskSucc(j) \in Keys \cup {NoKey}
         /\ TaskSucc(j) \in {Succ(j), NoKey}
<1>1. edge[j] \in Edges
  BY DEF LockTypeOK
<1>2. CASE edge[j] = NoEdge
  BY <1>2, SuccOfEdge DEF TaskSucc, NoEdge
<1>3. ASSUME NEW l \in Locks, edge[j] = LockEdge(l)
      PROVE  Succ(j) \in Keys \cup {NoKey} /\ TaskSucc(j) = NoKey
  <2>1. Succ(j) = owner[l] /\ TaskSucc(j) = NoKey
    BY <1>3, SuccOfEdge DEF TaskSucc, LockEdge
  <2> QED
    BY <2>1 DEF LockTypeOK
<1>4. ASSUME NEW t \in Keys, edge[j] = TaskEdge(t)
      PROVE  Succ(j) = t /\ TaskSucc(j) = t
  BY <1>4, SuccOfEdge DEF TaskSucc, TaskEdge
<1> QED
  BY <1>1, <1>2, <1>3, <1>4 DEF Edges

LEMMA ReachedCircle ==
  ASSUME LockTypeOK, LockTypeOK', NEW k \in Keys, NEW x \in Keys, Succ(k)' = x,
         \A j \in Keys : j # k => Succ(j)' = Succ(j), Reaches(x, k)
  PROVE  Circle(Succ)'
<1> DEFINE f == [j \in Keys |-> Succ(j)']
<1>1. f \in [Keys -> Keys \cup {NoKey}] /\ f[k] = x
  BY SuccTypes
<1>2. ASSUME NEW C \in SUBSET Keys, x \in C, \A j \in C : f[j] \in C \cup {NoKey}, k \notin C
      PROVE  FALSE
  <2>1. \A j \in C : Succ(j) \in C \cup {NoKey}
    BY <1>2
  <2> QED
    BY <1>2, <2>1 DEF Reaches, Closed
<1> HIDE DEF f
<1>3. PICK S \in SUBSET Keys : S # {} /\ \A j \in S : f[j] \in S
  BY <1>1, <1>2, ClosedCircle
<1>4. \A j \in S : Succ(j)' \in S
  BY <1>3 DEF f
<1> QED
  BY <1>3, <1>4 DEF Circle

LEMMA ReachedTaskCircle ==
  ASSUME LockTypeOK, LockTypeOK', NEW k \in Keys, NEW x \in Keys, TaskSucc(k)' = x,
         \A j \in Keys : j # k => TaskSucc(j)' = TaskSucc(j), ReachesByTasks(x, k)
  PROVE  Circle(TaskSucc)'
<1> DEFINE f == [j \in Keys |-> TaskSucc(j)']
<1>1. f \in [Keys -> Keys \cup {NoKey}] /\ f[k] = x
  BY SuccTypes
<1>2. ASSUME NEW C \in SUBSET Keys, x \in C, \A j \in C : f[j] \in C \cup {NoKey}, k \notin C
      PROVE  FALSE
  <2>1. \A j \in C : TaskSucc(j) \in C \cup {NoKey}
    BY <1>2
  <2> QED
    BY <1>2, <2>1 DEF ReachesByTasks, Closed
<1> HIDE DEF f
<1>3. PICK S \in SUBSET Keys : S # {} /\ \A j \in S : f[j] \in S
  BY <1>1, <1>2, ClosedCircle
<1>4. \A j \in S : TaskSucc(j)' \in S
  BY <1>3 DEF f
<1> QED
  BY <1>3, <1>4 DEF Circle

LEMMA NoTaskCircle ==
  ASSUME LockTypeOK, LockTypeOK', Acyclic, NEW k \in Keys,
         \A j \in Keys : j # k => TaskSucc(j)' = TaskSucc(j),
         TaskSucc(k)' = NoKey \/ ~ReachesByTasks(TaskSucc(k)', k)
  PROVE  ~Circle(TaskSucc)'
<1> SUFFICES ASSUME NEW S \in SUBSET Keys, S # {}, \A j \in S : TaskSucc(j)' \in S
             PROVE  FALSE
  BY DEF Circle
<1>1. CASE k \notin S
  <2>1. \A j \in S : TaskSucc(j) \in S /\ TaskSucc(j) # NoKey
    BY <1>1, KeysAssumption
  <2>2. \A j \in S : Succ(j) \in S
    BY <2>1, SuccTypes
  <2> QED
    BY <2>2 DEF Acyclic
<1>2. CASE k \in S
  <2>1. TaskSucc(k)' \in S /\ TaskSucc(k)' # NoKey
    BY <1>2, KeysAssumption
  <2>2. PICK C \in SUBSET Keys :
          TaskSucc(k)' \in C /\ (\A j \in C : TaskSucc(j) \in C \cup {NoKey}) /\ k \notin C
    BY <2>1 DEF ReachesByTasks, Closed
  <2>3. \A j \in S \cap C : TaskSucc(j) \in S \cap C /\ TaskSucc(j) # NoKey
    BY <2>2, KeysAssumption
  <2>4. \A j \in S \cap C : Succ(j) \in S \cap C
    BY <2>3, SuccTypes
  <2> QED
    BY <2>1, <2>2, <2>4 DEF Acyclic
<1> QED
  BY <1>1, <1>2

LEMMA AttemptDiagnosis ==
  ASSUME LockTypeOK, LockTypeOK', FreeDepths, fatal = "none", Acyclic, NEW k \in Keys,
         NEW ids \in SUBSET Locks, NEW mode \in Modes, Attempt(k, ids, mode)
  PROVE  DiagnosisExact'
<1>1. CASE fatal' \in {"none", "SELF_DEADLOCK"}
  BY <1>1 DEF DiagnosisExact
<1>2. CASE fatal' \notin {"none", "SELF_DEADLOCK"}
  <2> DEFINE b == FirstBlocker(k, ids)
  <2>1. Block(k, ids, mode)
    BY <1>2 DEF Attempt, SelfDeadlock, Take
  <2>2. b \in Blockers(k, ids)
    BY <2>1, FirstBlockerIsBlocker DEF Block
  <2>3. /\ edge' = [edge EXCEPT ![k] = LockEdge(b)] /\ owner' = owner
        /\ fatal' = "LOCK_DEADLOCK" /\ Reaches(owner[b], k)
    BY <1>2, <2>1, BlockKeepsTable DEF Block, tableVars
  <2> HIDE DEF b
  <2>4. owner[b] \in Keys
    BY <2>2 DEF Blockers, LockTypeOK
  <2>5. edge'[k] = LockEdge(b) /\ \A j \in Keys : j # k => edge'[j] = edge[j]
    BY <2>3 DEF LockTypeOK
  <2>6. Succ(k)' = owner[b] /\ \A j \in Keys : j # k => Succ(j)' = Succ(j)
    BY <2>3, <2>5, SuccOfEdgeNext DEF Succ
  <2>7. TaskSucc(k)' = NoKey /\ \A j \in Keys : j # k => TaskSucc(j)' = TaskSucc(j)
    BY <2>5 DEF TaskSucc, LockEdge
  <2>8. Circle(Succ)'
    BY <2>3, <2>4, <2>6, ReachedCircle
  <2>9. ~Circle(TaskSucc)'
    BY <2>7, NoTaskCircle
  <2> QED
    BY <2>3, <2>8, <2>9 DEF DiagnosisExact
<1> QED
  BY <1>1, <1>2

LEMMA JoinDiagnosis ==
  ASSUME LockTypeOK, LockTypeOK', Acyclic, NEW k \in Keys, NEW t \in Keys, Join(k, t)
  PROVE  DiagnosisExact'
<1>1. /\ edge' = [edge EXCEPT ![k] = TaskEdge(t)] /\ owner' = owner
      /\ fatal' = IF ~Reaches(t, k) THEN "none"
                  ELSE IF ReachesByTasks(t, k) THEN "TASK_WAIT_CYCLE" ELSE "LOCK_DEADLOCK"
  BY DEF Join, NoteWaitTask, tableVars
<1>2. edge'[k] = TaskEdge(t) /\ \A j \in Keys : j # k => edge'[j] = edge[j]
  BY <1>1 DEF LockTypeOK
<1>3. Succ(k)' = t /\ \A j \in Keys : j # k => Succ(j)' = Succ(j)
  BY <1>1, <1>2, SuccOfEdgeNext DEF Succ
<1>4. TaskSucc(k)' = t /\ \A j \in Keys : j # k => TaskSucc(j)' = TaskSucc(j)
  BY <1>2 DEF TaskSucc, TaskEdge
<1>5. ReachesByTasks(t, k) => Circle(TaskSucc)'
  BY <1>4, ReachedTaskCircle
<1>6. Reaches(t, k) => Circle(Succ)'
  BY <1>3, ReachedCircle
<1>7. ~ReachesByTasks(t, k) => ~Circle(TaskSucc)'
  BY <1>4, NoTaskCircle
<1> QED
  BY <1>1, <1>5, <1>6, <1>7 DEF DiagnosisExact

(* The message the user reads is the right one: TASK_WAIT_CYCLE only when    *)
(* joins alone close the circle, LOCK_DEADLOCK only when a lock is needed.   *)
THEOREM LockDiagnosis == LockSpec => []DiagnosisExact
<1> DEFINE I == TypeInv /\ NoUndetectedDeadlock
           J == I /\ DiagnosisExact
<1>1. LockInit => DiagnosisExact
  BY DEF LockInit, DiagnosisExact
<1>2. J /\ TypeInv' /\ [LockNext]_lockVars => DiagnosisExact'
  <2> SUFFICES ASSUME J, TypeInv', [LockNext]_lockVars PROVE DiagnosisExact'
    OBVIOUS
  <2>1. CASE edge' = edge /\ owner' = owner /\ fatal' = fatal
    BY <2>1 DEF DiagnosisExact, Circle, Succ, TaskSucc
  <2>2. CASE fatal' \in {"none", "SELF_DEADLOCK", "NOT_OWNER"}
    BY <2>2 DEF DiagnosisExact
  <2>3. ASSUME NEW k \in Keys, LockStep(k) PROVE DiagnosisExact'
    <3>1. fatal = "none" /\ Acyclic
      BY <2>3 DEF LockStep, Enter, Wake, LeaveAuto, ReleaseTo, Join, NoteWaitTask, Joined,
                  ClearWait, Finish, Skip, Running, NoUndetectedDeadlock
    <3>2. ASSUME NEW ids \in SUBSET Locks, NEW mode \in Modes, Enter(k, ids, mode)
          PROVE  DiagnosisExact'
      BY <3>1, <3>2, AttemptDiagnosis DEF Enter, TypeInv
    <3>3. CASE Wake(k)
      <4>1. call[k].ids \in SUBSET Locks /\ call[k].mode \in Modes
        BY <3>3 DEF Wake, TypeInv, LockTypeOK, Calls
      <4> QED
        BY <3>1, <3>3, <4>1, AttemptDiagnosis DEF Wake, TypeInv
    <3>4. ASSUME NEW t \in Keys, Join(k, t) PROVE DiagnosisExact'
      BY <3>1, <3>4, JoinDiagnosis DEF TypeInv
    <3>5. CASE LeaveAuto(k) \/ (\E mark \in 0..Len(expl[k]) : ReleaseTo(k, mark))
      <4>1. fatal' \in {"none", "NOT_OWNER"}
        BY <3>1, <3>5 DEF LeaveAuto, ReleaseTo, Release
      <4> QED
        BY <2>2, <4>1
    <3>6. CASE Joined(k) \/ Finish(k) \/ Skip(k)
      <4>1. fatal' = "none"
        BY <3>1, <3>6 DEF Joined, ClearWait, Finish, ReleaseAll, Skip, waitVars
      <4> QED
        BY <2>2, <4>1
    <3> QED
      BY <2>3, <3>2, <3>3, <3>4, <3>5, <3>6 DEF LockStep
  <2>4. CASE Unlock
    BY <2>2, <2>4 DEF Unlock, Running, ReleaseAll
  <2> QED
    BY <2>1, <2>3, <2>4 DEF LockNext, Stopped, MutexNew, waitVars, lockVars, tableVars
<1>3. LockInit => I
  <2> SUFFICES ASSUME LockInit PROVE NoUndetectedDeadlock
    BY InitTypeInv
  <2> QED
    BY InitAcyclic DEF NoUndetectedDeadlock
<1>4. I /\ [LockNext]_lockVars => I'
  BY NextDeadlockInv
<1> QED
  BY <1>1, <1>2, <1>3, <1>4, PTL DEF LockSpec

-----------------------------------------------------------------------------
(* Parts of the theorems above, each under the name of its property.         *)

(* heldCount, which wait_finished reads to decide whether a waiter may help, *)
(* is the number of locks that the task owns.                                *)
THEOREM HeldCountExact == LockSpec => []HeldExact
BY LockTyping, PTL

(* The two depths of a lock count what its owner has open on it.             *)
THEOREM DepthsCounted == LockSpec => []DepthsExact
BY LockSafety, PTL

(* release_locked never meets a lock of another task.                        *)
THEOREM NoForeignRelease == LockSpec => []NoInternalLockError
BY LockSafety, PTL

-----------------------------------------------------------------------------
(* The number of open LOCK blocks.  Keys may be infinite: the blocks are not. *)

EntriesInv == IsFiniteSet(OpenBlocks) /\ EntriesExact

LEMMA OpenBlocksOf ==
  ASSUME NEW k, NEW i
  PROVE  <<k, i>> \in OpenBlocks <=> k \in Keys /\ i \in 1..Len(expl[k])
BY DEF OpenBlocks

LEMMA OpenBlocksPairs ==
  ASSUME NEW b \in OpenBlocks
  PROVE  b = <<b[1], b[2]>> /\ b[1] \in Keys /\ b[2] \in 1..Len(expl[b[1]])
BY DEF OpenBlocks

(* k opens one block. *)
LEMMA BlockOpened ==
  ASSUME TypeInv, EntriesInv, NEW k \in Keys, NEW ids,
         expl' = [expl EXCEPT ![k] = Append(@, ids)], entries' = entries + 1
  PROVE  EntriesInv'
<1> DEFINE n == Len(expl[k]) + 1
           New == <<k, n>>
<1>1. expl[k] \in Seq(SUBSET Locks) /\ expl'[k] = Append(expl[k], ids)
  BY DEF TypeInv, LockTypeOK
<1>2. n \in Nat /\ Len(expl'[k]) = n /\ \A j \in Keys : j # k => expl'[j] = expl[j]
  BY <1>1 DEF TypeInv, LockTypeOK
<1>3. OpenBlocks' = OpenBlocks \cup {New}
  <2>1. ASSUME NEW b \in OpenBlocks' PROVE b \in OpenBlocks \cup {New}
    <3>0. PICK j \in Keys : \E i \in 1..Len(expl'[j]) : b = <<j, i>>
      BY DEF OpenBlocks
    <3>1. PICK i \in 1..Len(expl'[j]) : b = <<j, i>>
      BY <3>0
    <3>2. CASE j # k
      BY <1>2, <3>1, <3>2, OpenBlocksOf
    <3>3. CASE j = k
      <4>1. i \in 1..Len(expl[k]) \/ i = n
        BY <1>1, <1>2, <3>1, <3>3
      <4> QED
        BY <3>1, <3>3, <4>1, OpenBlocksOf
    <3> QED
      BY <3>2, <3>3
  <2>2. ASSUME NEW b \in OpenBlocks PROVE b \in OpenBlocks'
    <3>0. PICK j \in Keys : \E i \in 1..Len(expl[j]) : b = <<j, i>>
      BY DEF OpenBlocks
    <3>1. PICK i \in 1..Len(expl[j]) : b = <<j, i>>
      BY <3>0
    <3>2. i \in 1..Len(expl'[j])
      <4>1. CASE j = k
        BY <1>1, <1>2, <3>1, <4>1
      <4>2. CASE j # k
        BY <1>2, <3>1, <4>2
      <4> QED
        BY <4>1, <4>2
    <3> QED
      BY <3>1, <3>2 DEF OpenBlocks
  <2>3. New \in OpenBlocks'
    BY <1>2 DEF OpenBlocks
  <2> QED
    BY <2>1, <2>2, <2>3
<1>4. New \notin OpenBlocks
  BY <1>1, OpenBlocksOf
<1>5. IsFiniteSet(OpenBlocks') /\ Cardinality(OpenBlocks') = Cardinality(OpenBlocks) + 1
  BY <1>3, <1>4, FS_AddElement DEF EntriesInv
<1> QED
  BY <1>5 DEF EntriesInv, EntriesExact

(* k leaves the blocks above a mark. *)
LEMMA BlocksClosed ==
  ASSUME TypeInv, EntriesInv, NEW k \in Keys, NEW mark \in 0..Len(expl[k]),
         expl' = [expl EXCEPT ![k] = SubSeq(@, 1, mark)], entries' = entries - BlocksAbove(k, mark)
  PROVE  EntriesInv'
<1> DEFINE n == Len(expl[k])
           Above == (mark + 1)..n
           Gone == {k} \X Above
<1>1. expl[k] \in Seq(SUBSET Locks) /\ expl'[k] = SubSeq(expl[k], 1, mark)
  BY DEF TypeInv, LockTypeOK
<1>2. n \in Nat /\ mark \in Nat /\ Len(expl'[k]) = mark /\ \A j \in Keys : j # k => expl'[j] = expl[j]
  BY <1>1 DEF TypeInv, LockTypeOK
<1>3. OpenBlocks' = OpenBlocks \ Gone
  <2>1. ASSUME NEW j \in Keys, NEW i
        PROVE  i \in 1..Len(expl'[j]) <=> i \in 1..Len(expl[j]) /\ ~(j = k /\ i \in Above)
    <3>1. CASE j = k
      BY <1>2, <3>1
    <3>2. CASE j # k
      BY <1>2, <3>2
    <3> QED
      BY <3>1, <3>2
  <2>2. ASSUME NEW b \in OpenBlocks' PROVE b \in OpenBlocks \ Gone
    <3>0. PICK j \in Keys : \E i \in 1..Len(expl'[j]) : b = <<j, i>>
      BY DEF OpenBlocks
    <3>1. PICK i \in 1..Len(expl'[j]) : b = <<j, i>>
      BY <3>0
    <3> QED
      BY <2>1, <3>1, OpenBlocksOf
  <2>3. ASSUME NEW b \in OpenBlocks \ Gone PROVE b \in OpenBlocks'
    <3>0. PICK j \in Keys : \E i \in 1..Len(expl[j]) : b = <<j, i>>
      BY DEF OpenBlocks
    <3>1. PICK i \in 1..Len(expl[j]) : b = <<j, i>>
      BY <3>0
    <3>2. i \in 1..Len(expl'[j])
      BY <2>1, <2>3, <3>1
    <3> QED
      BY <3>1, <3>2 DEF OpenBlocks
  <2> QED
    BY <2>2, <2>3
<1>4. Gone \subseteq OpenBlocks
  BY <1>2, OpenBlocksOf
<1>5. IsFiniteSet(Above) /\ Cardinality(Above) = n - mark
  <2>1. mark + 1 \in Int /\ n \in Int /\ mark <= n
    BY <1>2
  <2>2. /\ IsFiniteSet(Above)
        /\ Cardinality(Above) = IF mark + 1 > n THEN 0 ELSE n - (mark + 1) + 1
    BY <2>1, FS_Interval
  <2> QED
    BY <1>2, <2>1, <2>2
<1>6. Cardinality(Gone) = n - mark
  <2>1. IsFiniteSet({k}) /\ Cardinality({k}) = 1
    BY FS_Singleton
  <2>2. Cardinality(Gone) = 1 * (n - mark)
    BY <1>5, <2>1, FS_Product
  <2> QED
    BY <1>2, <2>2
<1>7. /\ IsFiniteSet(OpenBlocks')
      /\ Cardinality(OpenBlocks') = Cardinality(OpenBlocks) - Cardinality(Gone)
  BY <1>3, <1>4, FS_Difference, CardinalityDifference DEF EntriesInv
<1> QED
  BY <1>6, <1>7 DEF EntriesInv, EntriesExact, BlocksAbove

LEMMA SameBlocks ==
  ASSUME EntriesInv, UNCHANGED <<expl, entries>> PROVE EntriesInv'
BY DEF EntriesInv, EntriesExact, OpenBlocks

LEMMA AllBlocksClosed ==
  ASSUME TypeInv, EntriesInv, NEW k \in Keys, ReleaseAll(k) PROVE EntriesInv'
<1>1. expl[k] \in Seq(SUBSET Locks)
  BY DEF TypeInv, LockTypeOK
<1>2. SubSeq(expl[k], 1, 0) = <<>> /\ 0 \in 0..Len(expl[k])
  BY <1>1
<1>3. expl' = [expl EXCEPT ![k] = SubSeq(@, 1, 0)] /\ entries' = entries - BlocksAbove(k, 0)
  BY <1>2 DEF ReleaseAll
<1> QED
  BY <1>2, <1>3, BlocksClosed

LEMMA AttemptEntries ==
  ASSUME TypeInv, EntriesInv, NEW k \in Keys, NEW ids, NEW mode, Attempt(k, ids, mode)
  PROVE  EntriesInv'
<1>1. CASE SelfDeadlock(k, ids, mode) \/ Block(k, ids, mode)
  BY <1>1, SameBlocks DEF SelfDeadlock, Block, tableVars
<1>2. CASE Take(k, ids, mode) /\ mode = "explicit"
  BY <1>2, BlockOpened DEF Take
<1>3. CASE Take(k, ids, mode) /\ mode # "explicit"
  BY <1>3, SameBlocks DEF Take
<1> QED
  BY <1>1, <1>2, <1>3 DEF Attempt

LEMMA NextEntries ==
  ASSUME TypeInv, EntriesInv, [LockNext]_lockVars PROVE EntriesInv'
<1>1. CASE UNCHANGED lockVars \/ MutexNew \/ Stopped
  BY <1>1, SameBlocks DEF lockVars, tableVars, MutexNew, Stopped
<1>2. CASE Unlock
  BY <1>2, AllBlocksClosed, KeysAssumption DEF Unlock
<1>3. ASSUME NEW k \in Keys, LockStep(k) PROVE EntriesInv'
  <2>1. CASE (\E ids \in SUBSET Locks, mode \in Modes : Enter(k, ids, mode)) \/ Wake(k)
    BY <2>1, AttemptEntries DEF Enter, Wake
  <2>2. CASE LeaveAuto(k)
    BY <2>2, SameBlocks DEF LeaveAuto
  <2>3. CASE \E mark \in 0..Len(expl[k]) : ReleaseTo(k, mark)
    BY <2>3, BlocksClosed DEF ReleaseTo
  <2>4. CASE (\E t \in Keys : Join(k, t)) \/ Joined(k) \/ Skip(k)
    BY <2>4, SameBlocks DEF Join, NoteWaitTask, Joined, ClearWait, Skip, tableVars
  <2>5. CASE Finish(k)
    BY <2>5, AllBlocksClosed DEF Finish
  <2> QED
    BY <1>3, <2>1, <2>2, <2>3, <2>4, <2>5 DEF LockStep
<1> QED
  BY <1>1, <1>2, <1>3 DEF LockNext

(* explicitEntries, which every waiter reads before it helps, is the number  *)
(* of open LOCK blocks of the whole program, whichever way they are left.    *)
THEOREM EntriesCounted == LockSpec => []EntriesExact
<1>1. LockInit => EntriesInv
  <2> SUFFICES ASSUME LockInit PROVE EntriesInv
    OBVIOUS
  <2>1. OpenBlocks = {}
    BY DEF LockInit, OpenBlocks
  <2> QED
    BY <2>1, FS_EmptySet DEF LockInit, EntriesInv, EntriesExact
<1>2. TypeInv /\ EntriesInv /\ [LockNext]_lockVars => EntriesInv'
  BY NextEntries
<1>3. LockInit => TypeInv
  BY InitTypeInv
<1>4. TypeInv /\ [LockNext]_lockVars => TypeInv'
  BY NextTypeInv
<1>5. EntriesInv => EntriesExact
  BY DEF EntriesInv
<1> QED
  BY <1>1, <1>2, <1>3, <1>4, <1>5, PTL DEF LockSpec

-----------------------------------------------------------------------------
(* The loop of cycle_locked.  A walk is a function that is defined by        *)
(* recursion; that it exists, and what it reaches, is proved by induction in *)
(* the form "a set of numbers that is not empty has a least element".        *)

LEMMA LeastNumber ==
  ASSUME NEW T \in SUBSET Nat, T # {}
  PROVE  \E n \in T : \A m \in T : n <= m
<1> DEFINE Below == {p \in Nat \X Nat : p[1] < p[2]}
<1>1. IsWellFoundedOn(Below, Nat)
  BY NatLessThanWellFounded DEF OpToRel
<1> HIDE DEF Below
<1>2. PICK n \in T : \A m \in T : <<m, n>> \notin Below
  BY <1>1, WFMin, Zenon
<1>3. ASSUME NEW m \in T PROVE n <= m
  <2>1. m \in Nat /\ n \in Nat
    OBVIOUS
  <2>2. <<m, n>> \in Below <=> m < n
    BY <2>1 DEF Below
  <2> QED
    BY <1>2, <2>1, <2>2
<1> QED
  BY <1>3

LEMMA CountUp ==
  ASSUME NEW n \in Nat, NEW G, 0 \in G, \A i \in 0..n : i < n /\ i \in G => i + 1 \in G
  PROVE  0..n \subseteq G
<1> DEFINE Left == (0..n) \ G
<1> SUFFICES ASSUME Left # {} PROVE FALSE
  OBVIOUS
<1>1. Left \in SUBSET Nat
  OBVIOUS
<1>2. PICK b \in Left : \A c \in Left : b <= c
  BY <1>1, LeastNumber
<1>3. b \in 0..n /\ b # 0 /\ b \notin G
  BY <1>2
<1>4. b - 1 \in 0..n /\ b - 1 < n /\ b - 1 < b /\ (b - 1) + 1 = b
  BY <1>3
<1>5. b - 1 \in G
  BY <1>1, <1>2, <1>4
<1> QED
  BY <1>3, <1>4, <1>5

After(x) == IF x = NoKey THEN NoKey ELSE Succ(x)

IsWalk(w, from, n) ==
  w = [i \in 0..n |-> IF i = 0 THEN from
                      ELSE IF w[i-1] = NoKey THEN NoKey ELSE Succ(w[i-1])]

LEMMA WalkSteps ==
  ASSUME NEW from, NEW n \in Nat, NEW w, IsWalk(w, from, n)
  PROVE  w[0] = from /\ \A i \in 0..n : i < n => w[i+1] = After(w[i])
<1>1. w = [i \in 0..n |-> IF i = 0 THEN from
                          ELSE IF w[i-1] = NoKey THEN NoKey ELSE Succ(w[i-1])]
  BY DEF IsWalk
<1>2. 0 \in 0..n
  OBVIOUS
<1>3. w[0] = from
  BY <1>1, <1>2
<1>4. ASSUME NEW i \in 0..n, i < n PROVE w[i+1] = After(w[i])
  <2>1. i + 1 \in 0..n /\ i + 1 # 0 /\ (i + 1) - 1 = i
    BY <1>4
  <2> QED
    BY <1>1, <2>1 DEF After
<1> QED
  BY <1>3, <1>4

LEMMA WalkExists ==
  ASSUME NEW from, NEW n \in Nat
  PROVE  \E w : IsWalk(w, from, n)
<1> DEFINE G == {m \in Nat : \E w : IsWalk(w, from, m)}
<1>1. 0 \in G
  <2>1. [i \in 0..0 |-> from] = [i \in 0..0 |-> IF i = 0 THEN from
           ELSE IF [j \in 0..0 |-> from][i-1] = NoKey THEN NoKey ELSE Succ([j \in 0..0 |-> from][i-1])]
    OBVIOUS
  <2> QED
    BY <2>1 DEF IsWalk
<1>2. ASSUME NEW m \in 0..n, m < n, m \in G PROVE m + 1 \in G
  <2>1. PICK w : IsWalk(w, from, m)
    BY <1>2
  <2>2. m \in Nat /\ w[0] = from /\ \A i \in 0..m : i < m => w[i+1] = After(w[i])
    BY <2>1, WalkSteps
  <2> DEFINE v == [i \in 0..(m + 1) |-> IF i = m + 1 THEN After(w[m]) ELSE w[i]]
  <2>3. \A i \in 0..(m + 1) : v[i] = IF i = 0 THEN from ELSE After(v[i-1])
    <3> SUFFICES ASSUME NEW i \in 0..(m + 1)
                 PROVE  v[i] = IF i = 0 THEN from ELSE After(v[i-1])
      OBVIOUS
    <3>1. CASE i = 0
      BY <2>2, <3>1
    <3>2. CASE i # 0
      <4> DEFINE j == i - 1
      <4>1. j \in 0..m /\ i = j + 1 /\ j # m + 1 /\ j \in 0..(m + 1)
        BY <2>2, <3>2
      <4>2. v[j] = w[j]
        BY <4>1
      <4>3. CASE j = m
        BY <2>2, <4>1, <4>2, <4>3
      <4>4. CASE j # m
        <5>1. j < m /\ i # m + 1 /\ w[i] = After(w[j])
          BY <2>2, <4>1, <4>4
        <5> QED
          BY <3>2, <4>2, <5>1
      <4> QED
        BY <4>3, <4>4
    <3> QED
      BY <3>1, <3>2
  <2>4. v = [i \in 0..(m + 1) |-> v[i]]
    OBVIOUS
  <2> HIDE DEF v
  <2>5. v = [i \in 0..(m + 1) |-> IF i = 0 THEN from ELSE After(v[i-1])]
    BY <2>3, <2>4
  <2>6. IsWalk(v, from, m + 1)
    BY <2>5 DEF IsWalk, After
  <2> QED
    BY <2>2, <2>6
<1>3. 0..n \subseteq G
  <2> HIDE DEF G
  <2> QED
    BY <1>1, <1>2, CountUp
<1> QED
  BY <1>3

LEMMA SuccType ==
  ASSUME TypeInv, NEW k \in Keys PROVE Succ(k) \in Keys \cup {NoKey}
<1>1. edge[k] \in Edges
  BY DEF TypeInv, LockTypeOK
<1>2. CASE edge[k] = NoEdge
  BY <1>2 DEF Succ, NoEdge
<1>3. ASSUME NEW l \in Locks, edge[k] = LockEdge(l) PROVE Succ(k) \in Keys \cup {NoKey}
  BY <1>3 DEF Succ, LockEdge, TypeInv, LockTypeOK
<1>4. ASSUME NEW j \in Keys, edge[k] = TaskEdge(j) PROVE Succ(k) \in Keys \cup {NoKey}
  BY <1>4 DEF Succ, TaskEdge
<1> QED
  BY <1>1, <1>2, <1>3, <1>4 DEF Edges

(* A walk stays in every closed set, until it ends. *)
LEMMA WalkInClosed ==
  ASSUME NEW S \in SUBSET Keys, Closed(S, Succ), NEW from \in S, NEW n \in Nat,
         NEW w, IsWalk(w, from, n)
  PROVE  \A i \in 0..n : w[i] \in S \cup {NoKey}
<1> DEFINE G == {i \in 0..n : w[i] \in S \cup {NoKey}}
<1>1. w[0] = from /\ \A i \in 0..n : i < n => w[i+1] = After(w[i])
  BY WalkSteps
<1>2. 0 \in G
  BY <1>1
<1>3. ASSUME NEW i \in 0..n, i < n, i \in G PROVE i + 1 \in G
  <2>1. After(w[i]) \in S \cup {NoKey}
    BY <1>3 DEF After, Closed
  <2> QED
    BY <1>1, <1>3, <2>1
<1>4. 0..n \subseteq G
  <2> HIDE DEF G
  <2> QED
    BY <1>2, <1>3, CountUp
<1> QED
  BY <1>4

(* What a walk meets twice, it meets from then on again and again: the last  *)
(* place of a walk through more places than there are keys was met before.   *)
LEMMA WalkRepeats ==
  ASSUME IsFiniteSet(Keys), NEW from, NEW w, IsWalk(w, from, Cardinality(Keys)),
         \A i \in 0..Cardinality(Keys) : w[i] \in Keys
  PROVE  \E i \in 0..Cardinality(Keys) : i < Cardinality(Keys) /\ w[i] = w[Cardinality(Keys)]
<1> DEFINE n == Cardinality(Keys)
<1>1. n \in Nat
  BY FS_CardinalityType
<1> HIDE DEF n
<1>2. \A i \in 0..n : i < n => w[i+1] = After(w[i])
  <2>1. IsWalk(w, from, n)
    BY DEF n
  <2> QED
    BY <1>1, <2>1, WalkSteps
<1>3. PICK x, y \in 0..n : x # y /\ w[x] = w[y]
  <2>1. IsFiniteSet(0..n) /\ Cardinality(0..n) = n + 1
    BY <1>1, FS_Interval
  <2> DEFINE f == [i \in 0..n |-> w[i]]
  <2>2. f \in [0..n -> Keys]
    BY DEF n
  <2>3. Cardinality(Keys) < Cardinality(0..n)
    BY <1>1, <2>1 DEF n
  <2>4. \E x, y \in 0..n : x # y /\ f[x] = f[y]
    <3> HIDE DEF f
    <3> QED
      BY <2>1, <2>2, <2>3, FS_PigeonHole
  <2> QED
    BY <2>4
<1>4. ASSUME NEW a \in 0..n, NEW b \in 0..n, a < b, w[a] = w[b]
      PROVE  \E i \in 0..n : i < n /\ w[i] = w[n]
  <2> DEFINE m == n - b
             G == {d \in 0..m : w[a + d] = w[b + d]}
  <2>1. m \in Nat
    BY <1>1
  <2>2. 0 \in G
    BY <1>1, <1>4
  <2>3. ASSUME NEW d \in 0..m, d < m, d \in G PROVE d + 1 \in G
    <3>1. a + d \in 0..n /\ a + d < n /\ b + d \in 0..n /\ b + d < n
      BY <1>1, <1>4, <2>3
    <3>2. w[(a + d) + 1] = w[(b + d) + 1]
      BY <1>2, <2>3, <3>1
    <3>3. (a + d) + 1 = a + (d + 1) /\ (b + d) + 1 = b + (d + 1) /\ d + 1 \in 0..m
      BY <1>1, <1>4, <2>3
    <3> QED
      BY <3>2, <3>3
  <2>4. m \in G
    <3>1. 0..m \subseteq G
      <4> HIDE DEF G, m
      <4> QED
        BY <2>1, <2>2, <2>3, CountUp
    <3> QED
      BY <2>1, <3>1
  <2>5. a + m \in 0..n /\ a + m < n /\ b + m = n
    BY <1>1, <1>4
  <2> QED
    BY <2>4, <2>5
<1>5. x < y \/ y < x
  BY <1>1, <1>3
<1>6. \E i \in 0..n : i < n /\ w[i] = w[n]
  BY <1>3, <1>4, <1>5
<1> QED
  BY <1>6 DEF n

(* Once at its end, a walk stays there. *)
LEMMA WalkEnds ==
  ASSUME NEW from, NEW n \in Nat, NEW w, IsWalk(w, from, n), w[n] # NoKey
  PROVE  \A i \in 0..n : w[i] # NoKey
<1> SUFFICES ASSUME NEW j \in 0..n, w[j] = NoKey PROVE FALSE
  OBVIOUS
<1> DEFINE m == n - j
           G == {d \in 0..m : w[j + d] = NoKey}
<1>1. m \in Nat /\ j + m = n
  OBVIOUS
<1>2. \A i \in 0..n : i < n => w[i+1] = After(w[i])
  BY WalkSteps
<1>3. 0 \in G
  OBVIOUS
<1>4. ASSUME NEW d \in 0..m, d < m, d \in G PROVE d + 1 \in G
  <2>1. j + d \in 0..n /\ j + d < n /\ (j + d) + 1 = j + (d + 1) /\ d + 1 \in 0..m
    BY <1>4
  <2>2. w[(j + d) + 1] = After(w[j + d])
    BY <1>2, <2>1
  <2> QED
    BY <1>4, <2>1, <2>2 DEF After
<1>5. 0..m \subseteq G
  <2> HIDE DEF G, m
  <2> QED
    BY <1>1, <1>3, <1>4, CountUp
<1>6. m \in G
  BY <1>1, <1>5
<1> QED
  BY <1>1, <1>6

LEMMA LoopDecides ==
  ASSUME IsFiniteSet(Keys), TypeInv, NEW from \in Keys, NEW me \in Keys
  PROVE  WalkReaches(from, me) <=> Reaches(from, me)
<1> DEFINE n == Cardinality(Keys)
           w == CHOOSE u : IsWalk(u, from, n)
<1>1. n \in Nat
  BY FS_CardinalityType
<1>2. IsWalk(w, from, n)
  <2> HIDE DEF n
  <2> QED
    BY <1>1, WalkExists
<1>3. WalkReaches(from, me) <=> \E i \in 0..n : w[i] = me
  BY DEF WalkReaches, WalkFor, IsWalk
<1> HIDE DEF w
<1>4. w[0] = from /\ \A i \in 0..n : i < n => w[i+1] = After(w[i])
  BY <1>1, <1>2, WalkSteps
<1>5. ASSUME NEW i \in 0..n, w[i] = me PROVE Reaches(from, me)
  <2> SUFFICES ASSUME NEW S \in SUBSET Keys, from \in S, Closed(S, Succ) PROVE me \in S
    BY DEF Reaches
  <2>1. me \in S \cup {NoKey}
    BY <1>1, <1>2, <1>5, WalkInClosed
  <2> QED
    BY <2>1, KeysAssumption
<1>6. ASSUME Reaches(from, me) PROVE \E i \in 0..n : w[i] = me
  <2> DEFINE S == {k \in Keys : \E i \in 0..n : w[i] = k}
  <2>1. from \in S
    BY <1>1, <1>4
  <2>2. ASSUME NEW k \in S PROVE Succ(k) \in S \cup {NoKey}
    <3>1. PICK i \in 0..n : w[i] = k
      OBVIOUS
    <3>2. PICK j \in 0..n : j < n /\ w[j] = k
      <4>1. CASE i < n
        BY <3>1, <4>1
      <4>2. CASE i = n
        <5>1. \A j \in 0..n : w[j] # NoKey
          BY <1>1, <1>2, <3>1, <4>2, WalkEnds, KeysAssumption
        <5>2. \A j \in 0..n : w[j] \in Keys \cup {NoKey}
          <6>1. Closed(Keys, Succ)
            BY SuccType DEF Closed
          <6> QED
            BY <1>1, <1>2, <6>1, WalkInClosed
        <5> QED
          BY <1>2, <3>1, <4>2, <5>1, <5>2, WalkRepeats
      <4> QED
        BY <1>1, <4>1, <4>2
    <3>3. w[j+1] = Succ(k) /\ j + 1 \in 0..n
      BY <1>1, <1>4, <3>2, KeysAssumption DEF After
    <3> QED
      BY <3>3, SuccType
  <2>3. me \in S
    <3>1. Closed(S, Succ)
      BY <2>2 DEF Closed
    <3> QED
      BY <2>1, <3>1, <1>6 DEF Reaches
  <2> QED
    BY <2>3
<1> QED
  BY <1>3, <1>5, <1>6

(* The loop of cycle_locked, with as many steps as there are keys, decides   *)
(* whether the wait graph leads from one task to another.                    *)
THEOREM WalkDecidesReach == ASSUME IsFiniteSet(Keys) PROVE LockSpec => []WalkIsReach
<1>1. TypeInv => WalkIsReach
  BY LoopDecides DEF WalkIsReach
<1>2. LockInit => TypeInv
  BY InitTypeInv
<1>3. TypeInv /\ [LockNext]_lockVars => TypeInv'
  BY NextTypeInv
<1> QED
  BY <1>1, <1>2, <1>3, PTL DEF LockSpec

=============================================================================
