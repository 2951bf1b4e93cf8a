---------------------------- MODULE NativeProofs ----------------------------
(* Theorems about parts of the native run time, for any number of threads:   *)
(* exceptions, the STRING store, the slot table, the file channels and the    *)
(* console.  They share no state; each has an inductive invariant of its own. *)
EXTENDS Exceptions, NativeTexts, SlotTable, NativeFiles, Console,
        SequenceTheorems, WellFoundedInduction, TLAPS

-----------------------------------------------------------------------------
(* Sequences *)

LEMMA LastFront ==
  ASSUME NEW S, NEW s \in Seq(S), s # <<>>
  PROVE  /\ Len(s) \in Nat \ {0} /\ Last(s) = s[Len(s)] /\ Last(s) \in S
         /\ Front(s) \in Seq(S) /\ Len(Front(s)) = Len(s) - 1
         /\ \A i \in 1..(Len(s) - 1) : Front(s)[i] = s[i]
<1> DEFINE n == Len(s) - 1
<1>1. Len(s) = n + 1 /\ n \in Nat /\ Len(s) \in Nat \ {0} /\ \A i \in 1..Len(s) : s[i] \in S
  OBVIOUS
<1>2. Last(s) = s[Len(s)] /\ Front(s) = SubSeq(s, 1, n)
  BY DEF Last, Front
<1> HIDE DEF n
<1>3. \A i \in 1..n : s[i] \in S
  BY <1>1
<1>4. /\ SubSeq(s, 1, n) \in Seq(S) /\ Len(SubSeq(s, 1, n)) = IF 1 <= n THEN n - 1 + 1 ELSE 0
      /\ \A i \in 1..(n - 1 + 1) : SubSeq(s, 1, n)[i] = s[1 + i - 1]
  BY <1>1, <1>3, SubSeqProperties
<1>5. Len(SubSeq(s, 1, n)) = n /\ n = Len(s) - 1
  BY <1>1, <1>4
<1>6. \A i \in 1..n : SubSeq(s, 1, n)[i] = s[i]
  BY <1>1, <1>4
<1> QED
  BY <1>1, <1>2, <1>4, <1>5, <1>6

LEMMA Appended ==
  ASSUME NEW S, NEW s \in Seq(S), NEW e \in S
  PROVE  /\ Append(s, e) \in Seq(S) /\ Append(s, e) # <<>> /\ Len(s) \in Nat
         /\ Len(Append(s, e)) = Len(s) + 1 /\ Append(s, e)[Len(s) + 1] = e
         /\ \A i \in 1..Len(s) : Append(s, e)[i] = s[i]
OBVIOUS

-----------------------------------------------------------------------------
(* Exceptions *)

ExErrors == ExValues \cup {Cleared, NoValue}
ExTryRecords == [kind : TryKinds, at : {"body", "catch", "finally"}, active : BOOLEAN,
                 flying : ExValues \cup {NoValue}]

ExTypes ==
  /\ exActive \in [ExThreads -> BOOLEAN]
  /\ exValue \in [ExThreads -> ExValues \cup {Cleared}]
  /\ exStack \in [ExThreads -> Seq(ExContexts)]
  /\ exTries \in [ExContexts -> Seq(ExTryRecords)]
  /\ exState \in [ExContexts -> [at : {"ready", "running", "done"}, error : ExErrors]]
  /\ exFlying \in [ExContexts -> ExValues \cup {NoValue}]

(* What a FINALLY put aside is as consistent as what the registers hold. *)
SavedTries(tries) == \A i \in 1..Len(tries) : tries[i].active <=> tries[i].flying /= NoValue

(* A context runs on one thread, once, and throws nothing before it runs. *)
ExPlaces ==
  /\ \A th \in ExThreads : \A i \in 1..Len(exStack[th]) : exState[exStack[th][i]].at = "running"
  /\ \A th, u \in ExThreads : \A i \in 1..Len(exStack[th]), j \in 1..Len(exStack[u]) :
       exStack[th][i] = exStack[u][j] => th = u /\ i = j
  /\ \A c \in ExContexts : exState[c].at = "ready" => exFlying[c] = NoValue

ExInv ==
  /\ ExTypes
  /\ \A c \in ExContexts : SavedTries(exTries[c])
  /\ ExPlaces
  /\ ExceptionFlagOwn

LEMMA ExRunning ==
  ASSUME ExInv, NEW th \in ExThreads, ExBusy(th)
  PROVE  /\ exStack[th] \in Seq(ExContexts) /\ Len(exStack[th]) \in Nat \ {0}
         /\ ExCurrent(th) = exStack[th][Len(exStack[th])] /\ ExCurrent(th) \in ExContexts
         /\ exState[ExCurrent(th)].at = "running"
         /\ exTries[ExCurrent(th)] \in Seq(ExTryRecords) /\ SavedTries(exTries[ExCurrent(th)])
         /\ exActive[th] \in BOOLEAN /\ exFlying[ExCurrent(th)] \in ExValues \cup {NoValue}
         /\ exActive[th] <=> exFlying[ExCurrent(th)] /= NoValue
<1>1. exStack[th] \in Seq(ExContexts) /\ exStack[th] /= <<>>
  BY DEF ExInv, ExTypes, ExBusy
<1>2. /\ Len(exStack[th]) \in Nat \ {0} /\ ExCurrent(th) = exStack[th][Len(exStack[th])]
      /\ ExCurrent(th) \in ExContexts
  BY <1>1, LastFront DEF ExCurrent
<1> QED
  BY <1>1, <1>2 DEF ExInv, ExTypes, ExPlaces, ExceptionFlagOwn

(* The running context of th goes on: its flag and what it has thrown change *)
(* together.                                                                 *)
LEMMA ExStep ==
  ASSUME ExInv, NEW th \in ExThreads, ExBusy(th), NEW b \in BOOLEAN, NEW v \in ExValues \cup {NoValue},
         b <=> v /= NoValue, NEW tries \in Seq(ExTryRecords), SavedTries(tries),
         exActive' = [exActive EXCEPT ![th] = b],
         exFlying' = [exFlying EXCEPT ![ExCurrent(th)] = v],
         exTries' = [exTries EXCEPT ![ExCurrent(th)] = tries],
         exValue' \in [ExThreads -> ExValues \cup {Cleared}],
         UNCHANGED <<exStack, exState>>
  PROVE  ExInv'
<1> DEFINE c == ExCurrent(th)
<1>1. /\ Len(exStack[th]) \in Nat \ {0} /\ c = exStack[th][Len(exStack[th])] /\ c \in ExContexts
      /\ exState[c].at = "running"
  BY ExRunning
<1>2. ExTypes'
  BY <1>1 DEF ExInv, ExTypes
<1>3. ASSUME NEW d \in ExContexts PROVE SavedTries(exTries'[d])
  BY <1>1 DEF ExInv, ExTypes
<1>4. /\ exActive'[th] = b /\ exFlying'[c] = v
      /\ \A u \in ExThreads : u /= th => exActive'[u] = exActive[u]
      /\ \A d \in ExContexts : d /= c => exFlying'[d] = exFlying[d]
  BY <1>1 DEF ExInv, ExTypes
<1> HIDE DEF c
<1>5. ASSUME NEW u \in ExThreads, NEW i \in 1..Len(exStack[u])
      PROVE  /\ exStack[u][i] \in ExContexts
             /\ exStack[u][i] = c => u = th /\ i = Len(exStack[th])
  BY <1>1, <1>5 DEF ExInv, ExTypes, ExPlaces
<1>6. ExPlaces'
  BY <1>1, <1>4 DEF ExInv, ExPlaces
<1>7. ASSUME NEW u \in ExThreads
      PROVE  /\ exActive'[u] <=> ExBusy(u)' /\ exFlying'[ExCurrent(u)'] /= NoValue
             /\ \A i \in 1..(Len(exStack'[u]) - 1) : exFlying'[exStack'[u][i]] = NoValue
  <2>1. ExBusy(u)' = ExBusy(u) /\ ExCurrent(u)' = ExCurrent(u) /\ exStack'[u] = exStack[u]
    BY DEF ExBusy, ExCurrent
  <2>2. exActive'[u] <=> ExBusy(u)' /\ exFlying'[ExCurrent(u)'] /= NoValue
    <3>1. CASE u = th
      BY <1>4, <2>1, <3>1 DEF c
    <3>2. CASE u /= th /\ ~ExBusy(u)
      BY <1>4, <2>1, <3>2 DEF ExInv, ExceptionFlagOwn
    <3>3. CASE u /= th /\ ExBusy(u)
      <4>1. ExCurrent(u) \in ExContexts /\ ExCurrent(u) /= c
        BY <1>5, <3>3, ExRunning
      <4> QED
        BY <1>4, <2>1, <3>3, <4>1, ExRunning
    <3> QED
      BY <3>1, <3>2, <3>3
  <2>3. \A i \in 1..(Len(exStack[u]) - 1) : exStack[u][i] \in ExContexts /\ exStack[u][i] /= c
    <3>1. Len(exStack[u]) \in Nat
      BY DEF ExInv, ExTypes
    <3> QED
      BY <1>1, <1>5, <3>1
  <2> QED
    BY <1>4, <2>1, <2>2, <2>3 DEF ExInv, ExceptionFlagOwn
<1>8. ASSUME NEW d \in ExContexts, exState'[d].at = "done"
      PROVE  exState'[d].error /= NoValue <=> exFlying'[d] /= NoValue
  BY <1>1, <1>4, <1>8 DEF ExInv, ExceptionFlagOwn
<1> QED
  BY <1>2, <1>3, <1>6, <1>7, <1>8 DEF ExInv, ExceptionFlagOwn

LEMMA ExTryFacts ==
  ASSUME ExInv, NEW th \in ExThreads, ExBusy(th), exTries[ExCurrent(th)] /= <<>>
  PROVE  /\ ExTry(th) \in ExTryRecords
         /\ ExTry(th).active <=> ExTry(th).flying /= NoValue
         /\ Front(exTries[ExCurrent(th)]) \in Seq(ExTryRecords)
         /\ SavedTries(Front(exTries[ExCurrent(th)]))
         /\ \A r \in ExTryRecords : (r.active <=> r.flying /= NoValue) =>
              /\ Append(Front(exTries[ExCurrent(th)]), r) \in Seq(ExTryRecords)
              /\ SavedTries(Append(Front(exTries[ExCurrent(th)]), r))
<1> DEFINE tries == exTries[ExCurrent(th)]
           left == Front(tries)
<1>1. tries \in Seq(ExTryRecords) /\ tries /= <<>> /\ SavedTries(tries) /\ ExTry(th) = Last(tries)
  BY ExRunning DEF ExTry
<1> HIDE DEF tries
<1>2. /\ Len(tries) \in Nat \ {0} /\ Last(tries) = tries[Len(tries)] /\ Last(tries) \in ExTryRecords
      /\ left \in Seq(ExTryRecords) /\ Len(left) = Len(tries) - 1
      /\ \A i \in 1..(Len(tries) - 1) : left[i] = tries[i]
  BY <1>1, LastFront
<1> HIDE DEF left
<1>3. SavedTries(left)
  BY <1>1, <1>2 DEF SavedTries
<1>4. ExTry(th) \in ExTryRecords /\ (ExTry(th).active <=> ExTry(th).flying /= NoValue)
  BY <1>1, <1>2 DEF SavedTries
<1>5. ASSUME NEW r \in ExTryRecords, r.active <=> r.flying /= NoValue
      PROVE  Append(left, r) \in Seq(ExTryRecords) /\ SavedTries(Append(left, r))
  <2>1. /\ Append(left, r) \in Seq(ExTryRecords) /\ Len(left) \in Nat
        /\ Len(Append(left, r)) = Len(left) + 1 /\ Append(left, r)[Len(left) + 1] = r
        /\ \A i \in 1..Len(left) : Append(left, r)[i] = left[i]
    BY <1>2, Appended
  <2> QED
    BY <1>3, <1>5, <2>1 DEF SavedTries
<1> QED
  BY <1>2, <1>3, <1>4, <1>5 DEF tries, left

LEMMA EnterFinallyInv ==
  ASSUME ExInv, NEW th \in ExThreads, ExBusy(th), exTries[ExCurrent(th)] /= <<>>, EnterFinally(th),
         UNCHANGED <<exValue, exStack, exState>>
  PROVE  ExInv'
<1> DEFINE r == [ExTry(th) EXCEPT !.at = "finally", !.active = exActive[th],
                                  !.flying = exFlying[ExCurrent(th)]]
           tries == Append(Front(exTries[ExCurrent(th)]), r)
<1>1. r \in ExTryRecords /\ (r.active <=> r.flying /= NoValue)
  <2>1. /\ ExTry(th) \in ExTryRecords /\ exActive[th] \in BOOLEAN
        /\ exFlying[ExCurrent(th)] \in ExValues \cup {NoValue}
        /\ exActive[th] <=> exFlying[ExCurrent(th)] /= NoValue
    BY ExTryFacts, ExRunning
  <2>2. r \in ExTryRecords
    BY <2>1 DEF ExTryRecords
  <2>3. r.active = exActive[th] /\ r.flying = exFlying[ExCurrent(th)]
    BY <2>1 DEF ExTryRecords
  <2> QED
    BY <2>1, <2>2, <2>3
<1>2. tries \in Seq(ExTryRecords) /\ SavedTries(tries)
  BY <1>1, ExTryFacts
<1>3. /\ exTries' = [exTries EXCEPT ![ExCurrent(th)] = tries]
      /\ exActive' = [exActive EXCEPT ![th] = FALSE]
      /\ exFlying' = [exFlying EXCEPT ![ExCurrent(th)] = NoValue]
  BY DEF EnterFinally, ExSetTry, FlagInHandler
<1> HIDE DEF r, tries
<1>4. exValue' \in [ExThreads -> ExValues \cup {Cleared}]
  BY DEF ExInv, ExTypes
<1> QED
  BY <1>2, <1>3, <1>4, ExStep

LEMMA EnterTryInv ==
  ASSUME ExInv, NEW th \in ExThreads, NEW kind \in TryKinds, EnterTry(th, kind)
  PROVE  ExInv'
<1> DEFINE r == [kind |-> kind, at |-> "body", active |-> FALSE, flying |-> NoValue]
           old == exTries[ExCurrent(th)]
<1>1. /\ ExBusy(th) /\ exTries' = [exTries EXCEPT ![ExCurrent(th)] = Append(old, r)]
      /\ exActive' = [exActive EXCEPT ![th] = FALSE] /\ exFlying' = exFlying /\ exValue' = exValue
      /\ ~exActive[th] /\ UNCHANGED <<exStack, exState>>
  BY DEF EnterTry, ExRuns
<1>2. r \in ExTryRecords /\ ~r.active /\ r.flying = NoValue
  BY DEF ExTryRecords
<1>3. old \in Seq(ExTryRecords) /\ SavedTries(old) /\ exFlying[ExCurrent(th)] = NoValue
  BY <1>1, ExRunning
<1> HIDE DEF r, old
<1>4. Append(old, r) \in Seq(ExTryRecords) /\ SavedTries(Append(old, r))
  <2>1. /\ Append(old, r) \in Seq(ExTryRecords) /\ Len(old) \in Nat
        /\ Len(Append(old, r)) = Len(old) + 1 /\ Append(old, r)[Len(old) + 1] = r
        /\ \A i \in 1..Len(old) : Append(old, r)[i] = old[i]
    BY <1>2, <1>3, Appended
  <2> QED
    BY <1>2, <1>3, <2>1 DEF SavedTries
<1>5. /\ exFlying' = [exFlying EXCEPT ![ExCurrent(th)] = NoValue]
      /\ exValue' \in [ExThreads -> ExValues \cup {Cleared}]
  BY <1>1, <1>3 DEF ExInv, ExTypes
<1> QED
  BY <1>1, <1>4, <1>5, ExStep

LEMMA ThrowInv ==
  ASSUME ExInv, NEW th \in ExThreads, NEW v \in ExValues, Throw(th, v)
  PROVE  ExInv'
<1>1. /\ ExBusy(th) /\ exActive' = [exActive EXCEPT ![th] = TRUE]
      /\ exFlying' = [exFlying EXCEPT ![ExCurrent(th)] = v]
      /\ exValue' = [exValue EXCEPT ![th] = v] /\ exTries' = exTries
      /\ UNCHANGED <<exStack, exState>>
  BY DEF Throw, ExRuns
<1>2. /\ exTries' = [exTries EXCEPT ![ExCurrent(th)] = exTries[ExCurrent(th)]]
      /\ exValue' \in [ExThreads -> ExValues \cup {Cleared}]
  BY <1>1 DEF ExInv, ExTypes
<1>3. v \in ExValues \cup {NoValue} /\ v /= NoValue
  BY ExAssumption DEF NoValue
<1> QED
  BY <1>1, <1>2, <1>3, ExRunning, ExStep

(* The innermost TRY is left; the flag and the exception are set to b and v. *)
LEMMA LeaveTryInv ==
  ASSUME ExInv, NEW th \in ExThreads, ExBusy(th), exTries[ExCurrent(th)] /= <<>>,
         exTries' = ExLeaveTry(th), NEW b \in BOOLEAN, NEW v \in ExValues \cup {NoValue}, b <=> v /= NoValue,
         exActive' = [exActive EXCEPT ![th] = b], exFlying' = [exFlying EXCEPT ![ExCurrent(th)] = v],
         UNCHANGED <<exValue, exStack, exState>>
  PROVE  ExInv'
<1>1. /\ exTries' = [exTries EXCEPT ![ExCurrent(th)] = Front(exTries[ExCurrent(th)])]
      /\ exValue' \in [ExThreads -> ExValues \cup {Cleared}]
  BY DEF ExLeaveTry, ExInv, ExTypes
<1> QED
  BY <1>1, ExTryFacts, ExStep

LEMMA UnwindInv ==
  ASSUME ExInv, NEW th \in ExThreads, Unwind(th) PROVE ExInv'
<1>1. ExBusy(th) /\ exTries[ExCurrent(th)] /= <<>> /\ UNCHANGED <<exValue, exStack, exState>>
  BY DEF Unwind
<1>2. CASE EnterFinally(th)
  BY <1>1, <1>2, EnterFinallyInv
<1>3. CASE exTries' = ExLeaveTry(th) /\ UNCHANGED <<exActive, exFlying>>
  <2>1. /\ exActive' = [exActive EXCEPT ![th] = exActive[th]]
        /\ exFlying' = [exFlying EXCEPT ![ExCurrent(th)] = exFlying[ExCurrent(th)]]
    BY <1>3 DEF ExInv, ExTypes
  <2> QED
    BY <1>1, <1>3, <2>1, ExRunning, LeaveTryInv
<1>4. CASE /\ exTries' = ExSetTry(th, [ExTry(th) EXCEPT !.at = "catch"])
           /\ exActive' = FlagInHandler(th)
           /\ exFlying' = [exFlying EXCEPT ![ExCurrent(th)] = NoValue]
  <2> DEFINE r == [ExTry(th) EXCEPT !.at = "catch"]
             tries == Append(Front(exTries[ExCurrent(th)]), r)
  <2>1. r \in ExTryRecords /\ (r.active <=> r.flying /= NoValue)
    BY <1>1, ExTryFacts DEF ExTryRecords
  <2>2. tries \in Seq(ExTryRecords) /\ SavedTries(tries)
    BY <1>1, <2>1, ExTryFacts
  <2>3. /\ exTries' = [exTries EXCEPT ![ExCurrent(th)] = tries]
        /\ exActive' = [exActive EXCEPT ![th] = FALSE]
    BY <1>4 DEF ExSetTry, FlagInHandler
  <2> HIDE DEF r, tries
  <2>4. exValue' \in [ExThreads -> ExValues \cup {Cleared}]
    BY <1>1 DEF ExInv, ExTypes
  <2> QED
    BY <1>1, <1>4, <2>2, <2>3, <2>4, ExStep
<1> QED
  BY <1>2, <1>3, <1>4 DEF Unwind

LEMMA EndOfPartInv ==
  ASSUME ExInv, NEW th \in ExThreads, EndOfPart(th) \/ EndOfFinally(th) PROVE ExInv'
<1>1. /\ ExBusy(th) /\ ~exActive[th] /\ exTries[ExCurrent(th)] /= <<>>
      /\ UNCHANGED <<exValue, exStack, exState>>
  BY DEF EndOfPart, EndOfFinally, ExRuns
<1>2. CASE EndOfPart(th) /\ EnterFinally(th)
  BY <1>1, <1>2, EnterFinallyInv
<1>3. CASE exTries' = ExLeaveTry(th) /\ UNCHANGED <<exActive, exFlying>>
  <2>1. /\ exActive' = [exActive EXCEPT ![th] = exActive[th]]
        /\ exFlying' = [exFlying EXCEPT ![ExCurrent(th)] = exFlying[ExCurrent(th)]]
    BY <1>3 DEF ExInv, ExTypes
  <2> QED
    BY <1>1, <1>3, <2>1, ExRunning, LeaveTryInv
<1>4. CASE EndOfFinally(th)
  <2>1. ExTry(th).active \in BOOLEAN /\ ExTry(th).flying \in ExValues \cup {NoValue}
    BY <1>1, ExTryFacts DEF ExTryRecords
  <2> QED
    BY <1>1, <1>4, <2>1, ExTryFacts, LeaveTryInv DEF EndOfFinally
<1> QED
  BY <1>2, <1>3, <1>4 DEF EndOfPart

LEMMA EndOfContextInv ==
  ASSUME ExInv, NEW th \in ExThreads, EndOfContext(th) PROVE ExInv'
<1> DEFINE c == ExCurrent(th)
           n == Len(exStack[th])
           left == Front(exStack[th])
           done == [at |-> "done", error |-> IF exActive[th] THEN exValue[th] ELSE NoValue]
<1>1. /\ ExBusy(th) /\ exState' = [exState EXCEPT ![c] = done]
      /\ exActive' = [exActive EXCEPT ![th] = FALSE] /\ exStack' = [exStack EXCEPT ![th] = left]
      /\ exValue' \in {exValue, [exValue EXCEPT ![th] = Cleared]} /\ UNCHANGED <<exTries, exFlying>>
  BY DEF EndOfContext
<1>2. /\ n \in Nat \ {0} /\ c = exStack[th][n] /\ c \in ExContexts /\ exState[c].at = "running"
      /\ exStack[th] \in Seq(ExContexts) /\ exStack[th] /= <<>>
      /\ exActive[th] <=> exFlying[c] /= NoValue
  BY <1>1, ExRunning DEF ExBusy
<1>3. left \in Seq(ExContexts) /\ Len(left) = n - 1 /\ \A i \in 1..(n - 1) : left[i] = exStack[th][i]
  BY <1>2, LastFront
<1>4. exValue[th] \in ExValues \cup {Cleared} /\ exValue[th] /= NoValue
  BY ExAssumption DEF ExInv, ExTypes, NoValue, Cleared
<1>5. done.error \in ExErrors /\ done.at = "done" /\ (done.error /= NoValue <=> exActive[th])
      /\ done \in [at : {"ready", "running", "done"}, error : ExErrors]
  BY <1>4 DEF ExErrors
<1> HIDE DEF c, n, left, done
<1>6. ExTypes'
  BY <1>1, <1>2, <1>3, <1>5 DEF ExInv, ExTypes
<1>7. /\ exState'[c] = done /\ \A d \in ExContexts : d /= c => exState'[d] = exState[d]
      /\ exStack'[th] = left /\ \A u \in ExThreads : u /= th => exStack'[u] = exStack[u]
      /\ ~exActive'[th] /\ \A u \in ExThreads : u /= th => exActive'[u] = exActive[u]
  BY <1>1, <1>2 DEF ExInv, ExTypes
<1>8. ASSUME NEW u \in ExThreads, NEW i \in 1..Len(exStack'[u])
      PROVE  /\ i \in 1..Len(exStack[u]) /\ exStack'[u][i] = exStack[u][i]
             /\ exStack[u][i] \in ExContexts /\ exStack[u][i] /= c
  <2>1. i \in 1..Len(exStack[u]) /\ exStack'[u][i] = exStack[u][i] /\ (u = th => i < n)
    <3>1. CASE u = th
      BY <1>2, <1>3, <1>7, <1>8, <3>1 DEF n
    <3>2. CASE u /= th
      BY <1>7, <1>8, <3>2
    <3> QED
      BY <3>1, <3>2
  <2>2. exStack[u][i] \in ExContexts
    BY <2>1 DEF ExInv, ExTypes
  <2>3. exStack[u][i] = c => u = th /\ i = n
    BY <1>2, <2>1 DEF ExInv, ExPlaces, n
  <2> QED
    BY <1>2, <2>1, <2>2, <2>3
<1>9. ExPlaces'
  <2>1. ASSUME NEW u \in ExThreads, NEW i \in 1..Len(exStack'[u])
        PROVE  exState'[exStack'[u][i]].at = "running"
    BY <1>7, <1>8 DEF ExInv, ExPlaces
  <2>2. ASSUME NEW t \in ExThreads, NEW u \in ExThreads, NEW i \in 1..Len(exStack'[t]),
               NEW j \in 1..Len(exStack'[u]), exStack'[t][i] = exStack'[u][j]
        PROVE  t = u /\ i = j
    <3>1. i \in 1..Len(exStack[t]) /\ exStack'[t][i] = exStack[t][i]
      BY <1>8
    <3>2. j \in 1..Len(exStack[u]) /\ exStack'[u][j] = exStack[u][j]
      BY <1>8
    <3>3. exStack[t][i] = exStack[u][j]
      BY <2>2, <3>1, <3>2
    <3> QED
      BY <3>1, <3>2, <3>3 DEF ExInv, ExPlaces
  <2>3. ASSUME NEW d \in ExContexts, exState'[d].at = "ready" PROVE exFlying'[d] = NoValue
    BY <1>1, <1>5, <1>7, <2>3 DEF ExInv, ExPlaces
  <2> QED
    BY <2>1, <2>2, <2>3 DEF ExPlaces
<1>10. ASSUME NEW u \in ExThreads
       PROVE  /\ exActive'[u] <=> ExBusy(u)' /\ exFlying'[ExCurrent(u)'] /= NoValue
              /\ \A i \in 1..(Len(exStack'[u]) - 1) : exFlying'[exStack'[u][i]] = NoValue
  <2>1. CASE u /= th
    BY <1>1, <1>7, <2>1 DEF ExInv, ExceptionFlagOwn, ExBusy, ExCurrent
  <2>2. CASE u = th
    <3>1. \A i \in 1..(n - 1) : exFlying[exStack[th][i]] = NoValue
      BY DEF ExInv, ExceptionFlagOwn, n
    <3>2. \A i \in 1..Len(left) : exFlying[left[i]] = NoValue
      BY <1>2, <1>3, <3>1
    <3>3. left /= <<>> => Last(left) = left[Len(left)] /\ Len(left) \in Nat \ {0}
      BY <1>3, LastFront
    <3>4. Len(left) \in Nat
      BY <1>3
    <3> QED
      BY <1>1, <1>7, <2>2, <3>2, <3>3, <3>4 DEF ExBusy, ExCurrent
  <2> QED
    BY <2>1, <2>2
<1>11. ASSUME NEW d \in ExContexts, exState'[d].at = "done"
       PROVE  exState'[d].error /= NoValue <=> exFlying'[d] /= NoValue
  BY <1>1, <1>2, <1>5, <1>7, <1>11 DEF ExInv, ExceptionFlagOwn
<1> QED
  BY <1>1, <1>6, <1>9, <1>10, <1>11 DEF ExInv, ExceptionFlagOwn

LEMMA ExRunTaskInv ==
  ASSUME ExInv, NEW th \in ExThreads, NEW k \in ExTasks, ExRunTask(th, k) PROVE ExInv'
<1> DEFINE n == Len(exStack[th])
           stack == Append(exStack[th], k)
<1>1. /\ exState[k].at = "ready"
      /\ ~ExBusy(th) \/ ~exActive[th]
      /\ exState' = [exState EXCEPT ![k].at = "running"] /\ exStack' = [exStack EXCEPT ![th] = stack]
      /\ UNCHANGED <<exActive, exValue, exTries, exFlying>>
  BY DEF ExRunTask, ExRuns
<1>2. k \in ExContexts /\ exStack[th] \in Seq(ExContexts) /\ exFlying[k] = NoValue
  BY <1>1 DEF ExContexts, ExInv, ExTypes, ExPlaces
<1>3. /\ stack \in Seq(ExContexts) /\ stack /= <<>> /\ n \in Nat /\ Len(stack) = n + 1 /\ stack[n + 1] = k
      /\ \A i \in 1..n : stack[i] = exStack[th][i]
  BY <1>2, Appended
<1>4. Last(stack) = k
  BY <1>3, LastFront
<1> HIDE DEF n, stack
<1>5. ExTypes'
  <2>1. exStack' \in [ExThreads -> Seq(ExContexts)]
    <3>1. exStack \in [ExThreads -> Seq(ExContexts)]
      BY DEF ExInv, ExTypes
    <3> QED
      BY <1>1, <1>3, <3>1
  <2>2. exState' \in [ExContexts -> [at : {"ready", "running", "done"}, error : ExErrors]]
    <3>1. exState \in [ExContexts -> [at : {"ready", "running", "done"}, error : ExErrors]]
      BY DEF ExInv, ExTypes
    <3> QED
      BY <1>1, <1>2, <3>1
  <2> QED
    BY <1>1, <2>1, <2>2 DEF ExInv, ExTypes
<1>6. /\ exState'[k].at = "running" /\ exState'[k].error = exState[k].error
      /\ \A d \in ExContexts : d /= k => exState'[d] = exState[d]
      /\ exStack'[th] = stack /\ \A u \in ExThreads : u /= th => exStack'[u] = exStack[u]
  BY <1>1, <1>2 DEF ExInv, ExTypes
<1>7. ~exActive[th] /\ \A i \in 1..n : exFlying[exStack[th][i]] = NoValue
  <2>1. ~exActive[th]
    BY <1>1 DEF ExInv, ExceptionFlagOwn
  <2>2. CASE ~ExBusy(th)
    BY <2>1, <2>2 DEF ExBusy, n
  <2>3. CASE ExBusy(th)
    <3>1. exFlying[exStack[th][n]] = NoValue
      BY <2>1, <2>3, ExRunning DEF n
    <3>2. \A i \in 1..(n - 1) : exFlying[exStack[th][i]] = NoValue
      BY DEF ExInv, ExceptionFlagOwn, n
    <3> QED
      BY <1>3, <2>1, <3>1, <3>2
  <2> QED
    BY <2>2, <2>3
<1>8. ASSUME NEW u \in ExThreads, NEW i \in 1..Len(exStack'[u])
      PROVE  \/ exStack'[u][i] = k /\ u = th /\ i = n + 1
             \/ /\ i \in 1..Len(exStack[u]) /\ exStack'[u][i] = exStack[u][i]
                /\ exStack[u][i] \in ExContexts /\ exStack[u][i] /= k
  <2>1. \/ exStack'[u][i] = k /\ u = th /\ i = n + 1
        \/ i \in 1..Len(exStack[u]) /\ exStack'[u][i] = exStack[u][i]
    <3>1. CASE u = th
      BY <1>3, <1>6, <1>8, <3>1 DEF n
    <3>2. CASE u /= th
      BY <1>6, <1>8, <3>2
    <3> QED
      BY <3>1, <3>2
  <2>2. i \in 1..Len(exStack[u]) => exStack[u][i] \in ExContexts /\ exStack[u][i] /= k
    BY <1>1 DEF ExInv, ExTypes, ExPlaces
  <2> QED
    BY <2>1, <2>2
<1>9. ExPlaces'
  <2>1. ASSUME NEW u \in ExThreads, NEW i \in 1..Len(exStack'[u])
        PROVE  exState'[exStack'[u][i]].at = "running"
    BY <1>6, <1>8 DEF ExInv, ExPlaces
  <2>2. ASSUME NEW t \in ExThreads, NEW u \in ExThreads, NEW i \in 1..Len(exStack'[t]),
               NEW j \in 1..Len(exStack'[u]), exStack'[t][i] = exStack'[u][j]
        PROVE  t = u /\ i = j
    BY <1>8, <2>2 DEF ExInv, ExPlaces
  <2>3. ASSUME NEW d \in ExContexts, exState'[d].at = "ready" PROVE exFlying'[d] = NoValue
    BY <1>1, <1>6, <2>3 DEF ExInv, ExPlaces
  <2> QED
    BY <2>1, <2>2, <2>3 DEF ExPlaces
<1>10. ASSUME NEW u \in ExThreads
       PROVE  /\ exActive'[u] <=> ExBusy(u)' /\ exFlying'[ExCurrent(u)'] /= NoValue
              /\ \A i \in 1..(Len(exStack'[u]) - 1) : exFlying'[exStack'[u][i]] = NoValue
  <2>1. CASE u /= th
    BY <1>1, <1>6, <2>1 DEF ExInv, ExceptionFlagOwn, ExBusy, ExCurrent
  <2>2. CASE u = th
    BY <1>1, <1>2, <1>3, <1>4, <1>6, <1>7, <2>2 DEF ExBusy, ExCurrent
  <2> QED
    BY <2>1, <2>2
<1>11. ASSUME NEW d \in ExContexts, exState'[d].at = "done"
       PROVE  exState'[d].error /= NoValue <=> exFlying'[d] /= NoValue
  BY <1>1, <1>6, <1>11 DEF ExInv, ExceptionFlagOwn
<1> QED
  BY <1>1, <1>5, <1>9, <1>10, <1>11 DEF ExInv, ExceptionFlagOwn

LEMMA ExInitInv == ExInit => ExInv
<1> SUFFICES ASSUME ExInit PROVE ExInv
  OBVIOUS
<1>1. <<>> \in Seq(ExContexts) /\ <<"main">> \in Seq(ExContexts) /\ <<>> \in Seq(ExTryRecords)
  BY DEF ExContexts
<1>2. ExTypes
  BY <1>1 DEF ExInit, ExTypes, ExErrors
<1>3. \A c \in ExContexts : exTries[c] = <<>> /\ exFlying[c] = NoValue /\ exState[c].error = NoValue
                            /\ exState[c].at = IF c = "main" THEN "running" ELSE "ready"
  BY DEF ExInit
<1>4. /\ exStack[ExMain] = <<"main">> /\ \A th \in ExThreads : th /= ExMain => exStack[th] = <<>>
      /\ "main" \in ExContexts
  BY ExAssumption DEF ExInit, ExContexts
<1>5. ASSUME NEW th \in ExThreads, NEW i \in 1..Len(exStack[th])
      PROVE  th = ExMain /\ i = 1 /\ exStack[th][i] = "main"
  <2>1. CASE th = ExMain
    <3>1. Len(<<"main">>) = 1
      OBVIOUS
    <3>2. i \in 1..Len(<<"main">>)
      BY <1>4, <2>1
    <3>3. i = 1
      BY <3>1, <3>2
    <3> QED
      BY <1>4, <2>1, <3>3
  <2>2. CASE th /= ExMain
    <3>1. i \in 1..0
      BY <1>4, <1>5, <2>2
    <3> QED
      BY <3>1
  <2> QED
    BY <2>1, <2>2
<1>6. ExPlaces
  BY <1>3, <1>4, <1>5 DEF ExPlaces
<1>7. \A c \in ExContexts : SavedTries(exTries[c])
  BY <1>3 DEF SavedTries
<1>8. ExceptionFlagOwn
  <2>1. \A th \in ExThreads : ~exActive[th]
    BY DEF ExInit
  <2>2. ExBusy(ExMain) /\ ExCurrent(ExMain) = "main"
    BY <1>4 DEF ExBusy, ExCurrent, Last
  <2>3. \A th \in ExThreads : th /= ExMain => ~ExBusy(th)
    BY <1>4 DEF ExBusy
  <2>4. \A th \in ExThreads : Len(exStack[th]) = IF th = ExMain THEN 1 ELSE 0
    <3>1. Len(<<"main">>) = 1 /\ Len(<<>>) = 0
      OBVIOUS
    <3> QED
      BY <1>4, <3>1
  <2>5. \A th \in ExThreads : \A i \in 1..(Len(exStack[th]) - 1) : FALSE
    BY <2>4
  <2> QED
    BY <1>3, <1>4, <2>1, <2>2, <2>3, <2>5 DEF ExceptionFlagOwn
<1> QED
  BY <1>2, <1>6, <1>7, <1>8 DEF ExInv

(* The exception flag of a thread is that of the context it runs, though a    *)
(* thread that waits runs tasks with TRY statements of their own in between;  *)
(* and a context ends with an error exactly if an exception left it (S-160,   *)
(* S-689, S-690).                                                            *)
THEOREM ExceptionFlagsOwn == ExSpec => []ExceptionFlagOwn
<1>1. ExInv /\ [ExNext]_exVars => ExInv'
  <2> SUFFICES ASSUME ExInv, [ExNext]_exVars PROVE ExInv'
    OBVIOUS
  <2>1. CASE ExNext
    BY <2>1, EnterTryInv, ThrowInv, UnwindInv, EndOfPartInv, EndOfContextInv, ExRunTaskInv DEF ExNext
  <2>2. CASE UNCHANGED exVars
    BY <2>2 DEF exVars, ExInv, ExTypes, ExPlaces, ExceptionFlagOwn, ExBusy, ExCurrent
  <2> QED
    BY <2>1, <2>2
<1>2. ExInv => ExceptionFlagOwn
  BY DEF ExInv
<1> QED
  BY <1>1, <1>2, ExInitInv, PTL DEF ExSpec

-----------------------------------------------------------------------------
(* The STRING store *)

TxStores == [slot : TxSlots \cup {NoSlot}, from : TxSlots \cup {NoSlot}, text : TxTexts \cup {NoText}]

TxTypes ==
  /\ txOwned \in [1..TxCells -> [owner : TxSlots \cup {NoSlot}, text : TxTexts \cup {NoText}]]
  /\ txSlot \in [TxSlots -> 0..TxCells]
  /\ txCall \in [TxThreads -> TxStores]
  /\ txRoutine \in [TxThreads -> {"out", "in", "back"}]
  /\ txValue \in [TxSlots -> TxTexts \cup {NoText}]

(* A parameter that still shares the bytes of its caller's call text. *)
Borrows(s) ==
  \E th \in TxThreads : /\ s = Param(th) /\ txRoutine[th] = "in"
                        /\ txSlot[s] = txSlot[Arg(th)] /\ OwnedBy(Arg(th), txSlot[s])

(* Every cell has its owner, and every slot its cell or its caller's. *)
CellsOwned ==
  /\ \A c \in 1..TxCells :
       txOwned[c] /= TxFree => txOwned[c].owner \in TxSlots /\ txSlot[txOwned[c].owner] = c
  /\ \A s \in TxSlots : txSlot[s] /= 0 => OwnedBy(s, txSlot[s]) \/ Borrows(s)
  /\ \A th \in TxThreads : txRoutine[th] /= "in" => txSlot[Param(th)] = 0

(* A slot is stored to by one thread at a time, a call text while it is not   *)
(* passed, a parameter while it exists.                                      *)
StoresApart ==
  /\ \A th \in TxThreads :
       txCall[th] /= NoStore => txCall[th].slot \in TxSlots /\ txCall[th].text = txValue[txCall[th].slot]
  /\ \A th, u \in TxThreads :
       /\ txCall[th].slot = Arg(u) => u = th /\ txRoutine[th] = "out"
       /\ txCall[th].slot = Param(u) => u = th /\ txRoutine[th] = "in"
       /\ txCall[th] /= NoStore /\ txCall[th].slot = txCall[u].slot => u = th

TxInv == TxTypes /\ CellsOwned /\ StoresApart /\ TextsKept

LEMMA TxSlotsApart ==
  /\ NoSlot \notin TxSlots /\ TxFree.owner = NoSlot /\ NoStore.slot = NoSlot
  /\ \A th \in TxThreads : Arg(th) \in TxSlots /\ Param(th) \in TxSlots
  /\ \A th, u \in TxThreads :
       /\ Arg(th) /= Param(u)
       /\ Arg(th) = Arg(u) => th = u
       /\ Param(th) = Param(u) => th = u
<1>1. \A th, u \in TxThreads :
        /\ Arg(th) /= Param(u)
        /\ Arg(th) = Arg(u) => th = u
        /\ Param(th) = Param(u) => th = u
  BY DEF Arg, Param
<1>2. \A th \in TxThreads : NoSlot /= Arg(th) /\ NoSlot /= Param(th)
  <2>1. \A th : Len(<<"none">>) = 1 /\ Len(<<"arg", th>>) = 2 /\ Len(<<"param", th>>) = 2
    OBVIOUS
  <2> QED
    BY <2>1 DEF Arg, Param, NoSlot
<1>3. TxFree.owner = NoSlot /\ NoStore.slot = NoSlot
  BY DEF TxFree, NoStore
<1>4. NoSlot \notin TxSlots
  BY <1>2, TxAssumption DEF TxSlots
<1>5. \A th \in TxThreads : Arg(th) \in TxSlots /\ Param(th) \in TxSlots
  BY DEF TxSlots
<1> QED
  BY <1>1, <1>3, <1>4, <1>5

LEMMA TxReadsRight ==
  ASSUME TxInv, NEW th \in TxThreads, txCall[th] = NoStore, NEW src \in TxReads(th)
  PROVE  src \in TxSlots /\ \A u \in TxThreads : txCall[u].slot /= src
<1>1. CASE src \in TxVariables /\ \A u \in TxThreads : src \notin {txCall[u].slot, txCall[u].from}
  BY <1>1 DEF TxSlots
<1>2. CASE src = Param(th)
  <2>1. src \in TxSlots
    BY <1>2, TxSlotsApart
  <2>2. \A u \in TxThreads : txCall[u].slot = Param(th) => u = th
    BY DEF TxInv, StoresApart
  <2>3. txCall[th].slot /= Param(th)
    BY <1>2, <2>1, TxSlotsApart
  <2> QED
    BY <1>2, <2>1, <2>2, <2>3
<1> QED
  BY <1>1, <1>2 DEF TxReads

(* The slots that a thread may store to are nobody's at the moment. *)
LEMMA TxWritesRight ==
  ASSUME TxInv, NEW th \in TxThreads, txCall[th] = NoStore, NEW slot \in TxWrites(th)
  PROVE  /\ slot \in TxSlots /\ \A u \in TxThreads : txCall[u].slot /= slot
         /\ \A u \in TxThreads : /\ slot = Arg(u) => u = th /\ txRoutine[th] = "out"
                                 /\ slot = Param(u) => u = th /\ txRoutine[th] = "in"
<1>1. CASE slot = Arg(th) /\ txRoutine[th] = "out"
  <2>1. slot \in TxSlots
    BY <1>1, TxSlotsApart
  <2>2. \A u \in TxThreads : txCall[u].slot = Arg(th) => u = th
    BY DEF TxInv, StoresApart
  <2>3. txCall[th].slot /= Arg(th)
    BY <1>1, <2>1, TxSlotsApart
  <2> QED
    BY <1>1, <2>1, <2>2, <2>3, TxSlotsApart
<1>2. CASE slot \in TxReads(th)
  <2>1. slot \in TxSlots /\ \A u \in TxThreads : txCall[u].slot /= slot
    BY <1>2, TxReadsRight
  <2>2. slot \in TxVariables \/ (slot = Param(th) /\ txRoutine[th] = "in")
    BY <1>2 DEF TxReads
  <2>3. slot \in TxVariables => (\A u \in TxThreads : slot /= Arg(u) /\ slot /= Param(u))
    BY TxAssumption
  <2> QED
    BY <2>1, <2>2, <2>3, TxSlotsApart
<1> QED
  BY <1>1, <1>2 DEF TxWrites

(* A store begins: the slot cannot be read until it ends. *)
LEMMA StoreBegins ==
  ASSUME TxInv, NEW th \in TxThreads, txCall[th] = NoStore, NEW slot \in TxWrites(th), NEW from \in TxSlots,
         NEW text \in TxTexts \cup {NoText},
         txCall' = [txCall EXCEPT ![th] = [slot |-> slot, from |-> from, text |-> text]],
         txValue' = [txValue EXCEPT ![slot] = text], UNCHANGED <<txOwned, txSlot, txRoutine>>
  PROVE  TxInv'
<1>1. /\ slot \in TxSlots /\ \A u \in TxThreads : txCall[u].slot /= slot
  BY TxWritesRight
<1>2. TxTypes'
  BY <1>1 DEF TxInv, TxTypes, TxStores
<1>3. /\ txCall'[th].slot = slot /\ txCall'[th].text = text /\ txValue'[slot] = text
      /\ \A u \in TxThreads : u /= th => txCall'[u] = txCall[u]
      /\ \A s \in TxSlots : s /= slot => txValue'[s] = txValue[s]
  BY <1>1 DEF TxInv, TxTypes
<1>4. CellsOwned'
  BY DEF TxInv, CellsOwned, OwnedBy, Borrows
<1>5. StoresApart'
  <2>1. ASSUME NEW u \in TxThreads, txCall'[u] /= NoStore
        PROVE  txCall'[u].slot \in TxSlots /\ txCall'[u].text = txValue'[txCall'[u].slot]
    BY <1>1, <1>3, <2>1 DEF TxInv, StoresApart
  <2>2. ASSUME NEW t \in TxThreads, NEW u \in TxThreads
        PROVE  /\ txCall'[t].slot = Arg(u) => u = t /\ txRoutine'[t] = "out"
               /\ txCall'[t].slot = Param(u) => u = t /\ txRoutine'[t] = "in"
    <3>1. CASE t = th
      BY <1>3, <3>1, TxWritesRight
    <3>2. CASE t /= th
      BY <1>3, <3>2 DEF TxInv, StoresApart
    <3> QED
      BY <3>1, <3>2
  <2>3. ASSUME NEW t \in TxThreads, NEW u \in TxThreads, txCall'[t] /= NoStore,
               txCall'[t].slot = txCall'[u].slot
        PROVE  u = t
    BY <1>1, <1>3, <2>3 DEF TxInv, StoresApart
  <2> QED
    BY <2>1, <2>2, <2>3 DEF StoresApart
<1>6. TextsKept'
  <2>1. ASSUME NEW s \in TxReadable' PROVE txOwned'[txSlot'[s]].text = txValue'[s]
    <3>1. s \in TxSlots /\ s /= slot /\ s \in TxReadable
      <4>1. s \in TxSlots /\ txSlot[s] /= 0 /\ \A u \in TxThreads : txCall'[u].slot /= s
        BY <2>1 DEF TxReadable
      <4>2. \A u \in TxThreads : txCall[u].slot /= s
        BY <1>3, <4>1, TxSlotsApart
      <4> QED
        BY <1>3, <4>1, <4>2 DEF TxReadable
    <3> QED
      BY <1>3, <3>1 DEF TxInv, TextsKept
  <2> QED
    BY <2>1 DEF TxInv, TextsKept
<1> QED
  BY <1>2, <1>4, <1>5, <1>6 DEF TxInv

LEMMA StrStoreInv ==
  ASSUME TxInv, NEW th \in TxThreads,
         \/ \E slot \in TxSlots, src \in TxSlots : StrStoreFrom(th, slot, src)
         \/ \E slot \in TxSlots, text \in TxTexts : StrStoreText(th, slot, text)
  PROVE  TxInv'
<1>1. ASSUME NEW slot \in TxSlots, NEW src \in TxSlots, StrStoreFrom(th, slot, src) PROVE TxInv'
  <2> DEFINE text == txOwned[txSlot[src]].text
  <2>1. /\ txCall[th] = NoStore /\ slot \in TxWrites(th) /\ src \in TxReads(th) /\ txSlot[src] /= 0
        /\ txCall' = [txCall EXCEPT ![th] = [slot |-> slot, from |-> src, text |-> text]]
        /\ txValue' = [txValue EXCEPT ![slot] = txValue[src]]
        /\ UNCHANGED <<txOwned, txSlot, txRoutine>>
    BY <1>1 DEF StrStoreFrom
  <2>2. src \in TxReadable
    BY <2>1, TxReadsRight DEF TxReadable
  <2>3. text = txValue[src] /\ text \in TxTexts \cup {NoText}
    BY <2>2 DEF TxInv, TextsKept, TxTypes
  <2> HIDE DEF text
  <2> QED
    BY <2>1, <2>3, StoreBegins
<1>2. ASSUME NEW slot \in TxSlots, NEW text \in TxTexts, StrStoreText(th, slot, text) PROVE TxInv'
  BY <1>2, StoreBegins DEF StrStoreText
<1> QED
  BY <1>1, <1>2

(* Which cells slot s gives up, and what becomes of the others. *)
LEMMA WithoutOwnCells ==
  ASSUME TxInv, NEW s \in TxSlots
  PROVE  /\ WithoutOwn(s) \in [1..TxCells -> [owner : TxSlots \cup {NoSlot}, text : TxTexts \cup {NoText}]]
         /\ \A c \in 1..TxCells : IF txOwned[c].owner = s THEN WithoutOwn(s)[c] = TxFree
                                                          ELSE WithoutOwn(s)[c] = txOwned[c]
<1>1. DOMAIN txOwned = 1..TxCells /\ 0 \notin 1..TxCells
  BY DEF TxInv, TxTypes
<1>2. ASSUME NEW c \in 1..TxCells, txOwned[c].owner = s PROVE c = txSlot[s] /\ OwnedBy(s, c)
  <2>1. txOwned[c] /= TxFree
    BY <1>2, TxSlotsApart
  <2> QED
    BY <1>1, <1>2, <2>1 DEF TxInv, CellsOwned, OwnedBy
<1>3. ASSUME NEW c \in 1..TxCells
      PROVE  IF txOwned[c].owner = s THEN WithoutOwn(s)[c] = TxFree ELSE WithoutOwn(s)[c] = txOwned[c]
  BY <1>1, <1>2 DEF WithoutOwn, OwnedBy
<1>4. TxFree \in [owner : TxSlots \cup {NoSlot}, text : TxTexts \cup {NoText}]
  BY DEF TxFree
<1> QED
  BY <1>1, <1>3, <1>4 DEF WithoutOwn, TxInv, TxTypes

LEMMA StrStoreCopyInv ==
  ASSUME TxInv, NEW th \in TxThreads, StrStoreCopy(th) PROVE TxInv'
<1> DEFINE s0 == txCall[th].slot
           text == txCall[th].text
<1>1. PICK c \in 1..TxCells :
        /\ txOwned[c] = TxFree
        /\ txOwned' = [WithoutOwn(s0) EXCEPT ![c] = [owner |-> s0, text |-> text]]
        /\ txSlot' = [txSlot EXCEPT ![s0] = c]
  BY DEF StrStoreCopy
<1>2. /\ txCall[th] /= NoStore /\ txCall' = [txCall EXCEPT ![th] = NoStore]
      /\ UNCHANGED <<txRoutine, txValue>>
  BY DEF StrStoreCopy
<1>3. /\ s0 \in TxSlots /\ text = txValue[s0] /\ text \in TxTexts \cup {NoText}
      /\ \A u \in TxThreads : u /= th => txCall[u].slot /= s0
      /\ \A u \in TxThreads : /\ s0 = Arg(u) => u = th /\ txRoutine[u] = "out"
                              /\ s0 = Param(u) => u = th /\ txRoutine[u] = "in"
  BY <1>2 DEF TxInv, StoresApart, TxTypes
<1>4. /\ txCall'[th] = NoStore /\ \A u \in TxThreads : u /= th => txCall'[u] = txCall[u]
      /\ txSlot'[s0] = c /\ \A s \in TxSlots : s /= s0 => txSlot'[s] = txSlot[s]
  BY <1>1, <1>2, <1>3 DEF TxInv, TxTypes
<1> HIDE DEF s0, text
<1>5. /\ txOwned'[c] = [owner |-> s0, text |-> text]
      /\ \A d \in 1..TxCells : d /= c /\ txOwned[d].owner = s0 => txOwned'[d] = TxFree
      /\ \A d \in 1..TxCells : d /= c /\ txOwned[d].owner /= s0 => txOwned'[d] = txOwned[d]
  BY <1>1, <1>3, WithoutOwnCells
<1>6. TxTypes'
  <2>1. txOwned' \in [1..TxCells -> [owner : TxSlots \cup {NoSlot}, text : TxTexts \cup {NoText}]]
    BY <1>1, <1>3, WithoutOwnCells
  <2>2. NoStore \in TxStores /\ c \in 0..TxCells
    BY TxAssumption DEF NoStore, TxStores
  <2> QED
    BY <1>1, <1>2, <1>3, <2>1, <2>2 DEF TxInv, TxTypes
<1>7. ASSUME NEW s \in TxSlots, s /= s0, txSlot[s] /= 0
      PROVE  /\ txSlot'[s] = txSlot[s] /\ txSlot[s] \in 1..TxCells /\ txSlot[s] /= c
             /\ txOwned'[txSlot[s]] = txOwned[txSlot[s]]
             /\ OwnedBy(s, txSlot[s])' \/ Borrows(s)'
  <2>1. txSlot'[s] = txSlot[s] /\ txSlot[s] \in 1..TxCells
    BY <1>4, <1>7 DEF TxInv, TxTypes
  <2>2. txOwned[c].owner = NoSlot
    BY <1>1, TxSlotsApart
  <2>3. CASE OwnedBy(s, txSlot[s])
    <3>1. txOwned[txSlot[s]].owner = s /\ txSlot[s] /= c
      BY <1>7, <2>2, <2>3, TxSlotsApart DEF OwnedBy
    <3> QED
      BY <1>5, <1>7, <2>1, <3>1 DEF OwnedBy
  <2>4. CASE Borrows(s)
    <3>1. PICK u \in TxThreads : /\ s = Param(u) /\ txRoutine[u] = "in"
                                 /\ txSlot[s] = txSlot[Arg(u)] /\ OwnedBy(Arg(u), txSlot[s])
      BY <2>4 DEF Borrows
    <3>2. Arg(u) \in TxSlots /\ Arg(u) /= s0 /\ txOwned[txSlot[s]].owner = Arg(u) /\ txSlot[s] /= c
      BY <1>3, <2>2, <3>1, TxSlotsApart DEF OwnedBy
    <3>3. txOwned'[txSlot[s]] = txOwned[txSlot[s]] /\ txSlot'[Arg(u)] = txSlot[Arg(u)]
      BY <1>4, <1>5, <2>1, <3>2
    <3> QED
      BY <1>2, <1>7, <2>1, <3>1, <3>2, <3>3 DEF Borrows, OwnedBy
  <2> QED
    BY <1>7, <2>3, <2>4 DEF TxInv, CellsOwned
<1>8. CellsOwned'
  <2>1. ASSUME NEW d \in 1..TxCells, txOwned'[d] /= TxFree
        PROVE  txOwned'[d].owner \in TxSlots /\ txSlot'[txOwned'[d].owner] = d
    <3>1. CASE d = c
      BY <1>3, <1>4, <1>5, <3>1
    <3>2. CASE d /= c
      <4>1. txOwned'[d] = txOwned[d] /\ txOwned[d].owner /= s0
        BY <1>5, <2>1, <3>2
      <4> QED
        BY <1>4, <2>1, <4>1 DEF TxInv, CellsOwned
    <3> QED
      BY <3>1, <3>2
  <2>2. ASSUME NEW s \in TxSlots, txSlot'[s] /= 0 PROVE OwnedBy(s, txSlot[s])' \/ Borrows(s)'
    <3>1. CASE s = s0
      BY <1>4, <1>5, <2>2, <3>1 DEF OwnedBy
    <3>2. CASE s /= s0
      BY <1>4, <1>7, <2>2, <3>2
    <3> QED
      BY <3>1, <3>2
  <2>3. ASSUME NEW u \in TxThreads, txRoutine'[u] /= "in" PROVE txSlot'[Param(u)] = 0
    <3>1. Param(u) \in TxSlots /\ Param(u) /= s0
      BY <1>2, <1>3, <2>3, TxSlotsApart
    <3> QED
      BY <1>2, <1>4, <2>3, <3>1 DEF TxInv, CellsOwned
  <2> QED
    BY <2>1, <2>2, <2>3 DEF CellsOwned
<1>9. StoresApart'
  <2>1. \A u \in TxThreads : txCall'[u] /= NoStore => u /= th /\ txCall'[u] = txCall[u]
    BY <1>4
  <2>2. \A t, u \in TxThreads : NoStore.slot /= Arg(u) /\ NoStore.slot /= Param(u)
    BY TxSlotsApart
  <2>3. ASSUME NEW t \in TxThreads, NEW u \in TxThreads
        PROVE  /\ txCall'[t].slot = Arg(u) => u = t /\ txRoutine'[t] = "out"
               /\ txCall'[t].slot = Param(u) => u = t /\ txRoutine'[t] = "in"
    <3>1. CASE t = th
      BY <1>4, <2>2, <3>1
    <3>2. CASE t /= th
      BY <1>2, <1>4, <3>2 DEF TxInv, StoresApart
    <3> QED
      BY <3>1, <3>2
  <2>4. ASSUME NEW t \in TxThreads, NEW u \in TxThreads, txCall'[t] /= NoStore,
               txCall'[t].slot = txCall'[u].slot
        PROVE  u = t
    <3>1. txCall'[t] = txCall[t] /\ txCall[t] /= NoStore /\ txCall[t].slot \in TxSlots
      BY <2>1, <2>4 DEF TxInv, StoresApart
    <3>2. u /= th
      BY <1>4, <2>4, <3>1, TxSlotsApart
    <3> QED
      BY <1>4, <2>4, <3>1, <3>2 DEF TxInv, StoresApart
  <2>5. ASSUME NEW t \in TxThreads, txCall'[t] /= NoStore
        PROVE  txCall'[t].slot \in TxSlots /\ txCall'[t].text = txValue'[txCall'[t].slot]
    BY <1>2, <2>1, <2>5 DEF TxInv, StoresApart
  <2> QED
    BY <2>3, <2>4, <2>5 DEF StoresApart
<1>10. TextsKept'
  <2>1. ASSUME NEW s \in TxReadable' PROVE txOwned'[txSlot'[s]].text = txValue'[s]
    <3>1. s \in TxSlots /\ txSlot'[s] /= 0 /\ \A u \in TxThreads : txCall'[u].slot /= s
      BY <2>1 DEF TxReadable
    <3>2. CASE s = s0
      BY <1>2, <1>3, <1>4, <1>5, <3>2
    <3>3. CASE s /= s0
      <4>1. txSlot[s] /= 0 /\ \A u \in TxThreads : txCall[u].slot /= s
        BY <1>4, <3>1, <3>3 DEF s0
      <4>2. s \in TxReadable
        BY <3>1, <4>1 DEF TxReadable
      <4> QED
        BY <1>2, <1>7, <3>1, <3>3, <4>1, <4>2 DEF TxInv, TextsKept
    <3> QED
      BY <3>2, <3>3
  <2> QED
    BY <1>8, <2>1 DEF TextsKept, CellsOwned
<1> QED
  BY <1>6, <1>8, <1>9, <1>10 DEF TxInv

LEMMA EnterRoutineInv ==
  ASSUME TxInv, NEW th \in TxThreads, EnterRoutine(th) PROVE TxInv'
<1> DEFINE a == Arg(th)
           p == Param(th)
<1>1. /\ txCall[th] = NoStore /\ txRoutine[th] = "out" /\ txSlot[a] /= 0
      /\ txSlot' = [txSlot EXCEPT ![p] = txSlot[a]] /\ txValue' = [txValue EXCEPT ![p] = txValue[a]]
      /\ txRoutine' = [txRoutine EXCEPT ![th] = "in"] /\ UNCHANGED <<txOwned, txCall>>
  BY DEF EnterRoutine
<1>2. a \in TxSlots /\ p \in TxSlots /\ a /= p /\ txSlot[p] = 0
  BY <1>1, TxSlotsApart DEF TxInv, CellsOwned
<1>3. \A u \in TxThreads : /\ Param(u) = p => u = th
                           /\ Arg(u) /= p /\ Arg(u) \in TxSlots /\ Param(u) \in TxSlots
  BY TxSlotsApart
<1>4. OwnedBy(a, txSlot[a])
  <2>1. ~Borrows(a)
    BY TxSlotsApart DEF Borrows
  <2> QED
    BY <1>1, <1>2, <2>1 DEF TxInv, CellsOwned
<1>5. a \in TxReadable
  <2>1. \A u \in TxThreads : txCall[u].slot = a => u = th
    BY DEF TxInv, StoresApart
  <2> QED
    BY <1>1, <1>2, <2>1, TxSlotsApart DEF TxReadable
<1>6. \A u \in TxThreads : txRoutine[u] = "in" => u /= th
  BY <1>1
<1>7. TxTypes'
  BY <1>1, <1>2 DEF TxInv, TxTypes
<1>8. /\ txSlot'[p] = txSlot[a] /\ \A s \in TxSlots : s /= p => txSlot'[s] = txSlot[s]
      /\ txValue'[p] = txValue[a] /\ \A s \in TxSlots : s /= p => txValue'[s] = txValue[s]
      /\ txRoutine'[th] = "in" /\ \A u \in TxThreads : u /= th => txRoutine'[u] = txRoutine[u]
  BY <1>1, <1>2 DEF TxInv, TxTypes
<1> HIDE DEF a, p
<1>9. CellsOwned'
  <2>1. ASSUME NEW d \in 1..TxCells, txOwned'[d] /= TxFree
        PROVE  txOwned'[d].owner \in TxSlots /\ txSlot'[txOwned'[d].owner] = d
    <3>1. txOwned[d].owner \in TxSlots /\ txSlot[txOwned[d].owner] = d /\ d /= 0
      BY <1>1, <2>1 DEF TxInv, CellsOwned
    <3>2. txOwned[d].owner /= p
      BY <1>2, <3>1
    <3> QED
      BY <1>1, <1>8, <3>1, <3>2
  <2>2. ASSUME NEW s \in TxSlots, txSlot'[s] /= 0 PROVE OwnedBy(s, txSlot[s])' \/ Borrows(s)'
    <3>1. CASE s = p
      <4>1. txSlot'[p] = txSlot'[a] /\ OwnedBy(a, txSlot[p])'
        BY <1>1, <1>2, <1>4, <1>8 DEF OwnedBy
      <4> QED
        BY <1>8, <3>1, <4>1 DEF Borrows, a, p
    <3>2. CASE s /= p /\ OwnedBy(s, txSlot[s])
      BY <1>1, <1>8, <3>2 DEF OwnedBy
    <3>3. CASE s /= p /\ Borrows(s)
      <4>1. PICK u \in TxThreads : /\ s = Param(u) /\ txRoutine[u] = "in"
                                   /\ txSlot[s] = txSlot[Arg(u)] /\ OwnedBy(Arg(u), txSlot[s])
        BY <3>3 DEF Borrows
      <4>2. txRoutine'[u] = "in" /\ txSlot'[s] = txSlot'[Arg(u)] /\ OwnedBy(Arg(u), txSlot[s])'
        BY <1>1, <1>3, <1>6, <1>8, <3>3, <4>1 DEF OwnedBy
      <4> QED
        BY <4>1, <4>2 DEF Borrows
    <3> QED
      BY <1>8, <2>2, <3>1, <3>2, <3>3 DEF TxInv, CellsOwned
  <2>3. ASSUME NEW u \in TxThreads, txRoutine'[u] /= "in" PROVE txSlot'[Param(u)] = 0
    BY <1>3, <1>8, <2>3 DEF TxInv, CellsOwned
  <2> QED
    BY <2>1, <2>2, <2>3 DEF CellsOwned
<1>10. \A u \in TxThreads : txCall[u].slot = p \/ txCall[u].slot = a => txCall[u] = NoStore
  <2>1. \A u \in TxThreads : txCall[u].slot = p \/ txCall[u].slot = a => u = th
    BY DEF TxInv, StoresApart, a, p
  <2> QED
    BY <1>1, <2>1
<1>11. StoresApart'
  <2>1. ASSUME NEW u \in TxThreads, txCall'[u] /= NoStore
        PROVE  txCall'[u].slot \in TxSlots /\ txCall'[u].text = txValue'[txCall'[u].slot]
    BY <1>1, <1>8, <1>10, <2>1 DEF TxInv, StoresApart
  <2>2. ASSUME NEW t \in TxThreads, NEW u \in TxThreads
        PROVE  /\ txCall'[t].slot = Arg(u) => u = t /\ txRoutine'[t] = "out"
               /\ txCall'[t].slot = Param(u) => u = t /\ txRoutine'[t] = "in"
    <3>1. t = th => txCall[t].slot /= Arg(u)
      BY <1>1, TxSlotsApart
    <3> QED
      BY <1>1, <1>8, <3>1 DEF TxInv, StoresApart
  <2> QED
    BY <1>1, <2>1, <2>2 DEF TxInv, StoresApart
<1>12. TextsKept'
  <2>1. ASSUME NEW s \in TxReadable' PROVE txOwned'[txSlot'[s]].text = txValue'[s]
    <3>1. s = p \/ s \in TxReadable
      BY <1>1, <1>8, <2>1 DEF TxReadable
    <3>2. s \in TxSlots
      BY <2>1 DEF TxReadable
    <3> QED
      BY <1>1, <1>5, <1>8, <3>1, <3>2 DEF TxInv, TextsKept
  <2> QED
    BY <1>9, <2>1 DEF TextsKept, CellsOwned
<1> QED
  BY <1>7, <1>9, <1>11, <1>12 DEF TxInv

(* A routine gives up its parameter, or its caller the call text: no other     *)
(* slot's bytes are freed.                                                   *)
LEMMA StrReleaseInv ==
  ASSUME TxInv, NEW th \in TxThreads, NEW s, NEW place, txCall[th] = NoStore, StrRelease(s),
         \/ s = Param(th) /\ txRoutine[th] = "in" /\ place = "back"
         \/ s = Arg(th) /\ txRoutine[th] = "back" /\ place = "out",
         txRoutine' = [txRoutine EXCEPT ![th] = place], UNCHANGED txCall
  PROVE  TxInv'
<1>1. s \in TxSlots /\ place \in {"out", "in", "back"} /\ place /= "in"
  BY TxSlotsApart
<1>2. \A u \in TxThreads : txCall[u].slot /= s
  <2>1. \A u \in TxThreads : txCall[u].slot = s => u = th
    BY DEF TxInv, StoresApart
  <2> QED
    BY <1>1, <2>1, TxSlotsApart
<1>3. /\ txSlot'[s] = 0 /\ \A r \in TxSlots : r /= s => txSlot'[r] = txSlot[r]
      /\ \A r \in TxSlots : r /= s => txValue'[r] = txValue[r]
      /\ \A u \in TxThreads : u /= th => txRoutine'[u] = txRoutine[u]
      /\ txRoutine'[th] = place
  BY <1>1 DEF StrRelease, TxInv, TxTypes
<1>4. /\ txOwned' = WithoutOwn(s)
      /\ \A d \in 1..TxCells : txOwned[d].owner = s => txOwned'[d] = TxFree
      /\ \A d \in 1..TxCells : txOwned[d].owner /= s => txOwned'[d] = txOwned[d]
  BY <1>1, WithoutOwnCells DEF StrRelease
<1>5. TxTypes'
  <2>1. txOwned' \in [1..TxCells -> [owner : TxSlots \cup {NoSlot}, text : TxTexts \cup {NoText}]]
    BY <1>1, <1>4, WithoutOwnCells
  <2>2. 0 \in 0..TxCells /\ NoText \in TxTexts \cup {NoText}
    BY TxAssumption
  <2>3. txSlot' \in [TxSlots -> 0..TxCells] /\ txValue' \in [TxSlots -> TxTexts \cup {NoText}]
    BY <2>2 DEF StrRelease, TxInv, TxTypes
  <2> QED
    BY <1>1, <2>1, <2>3 DEF TxInv, TxTypes
<1>6. ASSUME NEW r \in TxSlots, r /= s, txSlot[r] /= 0
      PROVE  /\ txSlot[r] \in 1..TxCells /\ txOwned'[txSlot[r]] = txOwned[txSlot[r]]
             /\ OwnedBy(r, txSlot[r])' \/ Borrows(r)'
  <2>1. txSlot'[r] = txSlot[r] /\ txSlot[r] \in 1..TxCells
    BY <1>3, <1>6 DEF TxInv, TxTypes
  <2>2. CASE OwnedBy(r, txSlot[r])
    BY <1>4, <1>6, <2>1, <2>2 DEF OwnedBy
  <2>3. CASE Borrows(r)
    <3>1. PICK u \in TxThreads : /\ r = Param(u) /\ txRoutine[u] = "in"
                                 /\ txSlot[r] = txSlot[Arg(u)] /\ OwnedBy(Arg(u), txSlot[r])
      BY <2>3 DEF Borrows
    <3>2. u /= th /\ Arg(u) \in TxSlots /\ Arg(u) /= s
      BY <1>6, <3>1, TxSlotsApart
    <3>3. txOwned'[txSlot[r]] = txOwned[txSlot[r]] /\ txSlot'[Arg(u)] = txSlot[Arg(u)]
      BY <1>3, <1>4, <2>1, <3>1, <3>2 DEF OwnedBy
    <3> QED
      BY <1>3, <2>1, <3>1, <3>2, <3>3 DEF Borrows, OwnedBy
  <2> QED
    BY <1>6, <2>2, <2>3 DEF TxInv, CellsOwned
<1>7. CellsOwned'
  <2>1. ASSUME NEW d \in 1..TxCells, txOwned'[d] /= TxFree
        PROVE  txOwned'[d].owner \in TxSlots /\ txSlot'[txOwned'[d].owner] = d
    <3>1. txOwned'[d] = txOwned[d] /\ txOwned[d].owner /= s
      BY <1>4, <2>1
    <3> QED
      BY <1>3, <2>1, <3>1 DEF TxInv, CellsOwned
  <2>2. ASSUME NEW r \in TxSlots, txSlot'[r] /= 0 PROVE OwnedBy(r, txSlot[r])' \/ Borrows(r)'
    BY <1>3, <1>6, <2>2
  <2>3. ASSUME NEW u \in TxThreads, txRoutine'[u] /= "in" PROVE txSlot'[Param(u)] = 0
    <3>1. Param(u) \in TxSlots
      BY TxSlotsApart
    <3>2. CASE Param(u) = s
      BY <1>3, <3>2
    <3>3. CASE Param(u) /= s
      <4>1. txRoutine[u] /= "in"
        BY <1>3, <2>3, <3>3
      <4> QED
        BY <1>3, <3>1, <3>3, <4>1 DEF TxInv, CellsOwned
    <3> QED
      BY <3>2, <3>3
  <2> QED
    BY <2>1, <2>2, <2>3 DEF CellsOwned
<1>8. StoresApart'
  <2>1. ASSUME NEW t \in TxThreads, txCall'[t] /= NoStore
        PROVE  txCall'[t].slot \in TxSlots /\ txCall'[t].text = txValue'[txCall'[t].slot]
    BY <1>2, <1>3, <2>1 DEF TxInv, StoresApart
  <2>2. ASSUME NEW t \in TxThreads, NEW u \in TxThreads
        PROVE  /\ txCall'[t].slot = Arg(u) => u = t /\ txRoutine'[t] = "out"
               /\ txCall'[t].slot = Param(u) => u = t /\ txRoutine'[t] = "in"
    <3>1. t = th => txCall[t].slot /= Arg(u) /\ txCall[t].slot /= Param(u)
      BY TxSlotsApart
    <3> QED
      BY <1>3, <3>1 DEF TxInv, StoresApart
  <2> QED
    BY <2>1, <2>2 DEF TxInv, StoresApart
<1>9. TextsKept'
  <2>1. ASSUME NEW r \in TxReadable' PROVE txOwned'[txSlot'[r]].text = txValue'[r]
    <3>1. r \in TxSlots /\ r /= s /\ txSlot[r] /= 0 /\ r \in TxReadable
      BY <1>3, <2>1 DEF TxReadable
    <3> QED
      BY <1>3, <1>6, <3>1 DEF TxInv, TextsKept
  <2> QED
    BY <1>7, <2>1 DEF TextsKept, CellsOwned
<1> QED
  BY <1>5, <1>7, <1>8, <1>9 DEF TxInv

LEMMA TxInitInv == TxInit => TxInv
<1> SUFFICES ASSUME TxInit PROVE TxInv
  OBVIOUS
<1>1. TxTypes
  BY TxAssumption DEF TxInit, TxTypes, TxStores, NoStore, TxFree
<1>2. CellsOwned
  BY TxSlotsApart DEF TxInit, CellsOwned
<1>3. StoresApart
  BY TxSlotsApart DEF TxInit, StoresApart
<1>4. TextsKept
  BY DEF TxInit, TextsKept, TxReadable
<1> QED
  BY <1>1, <1>2, <1>3, <1>4 DEF TxInv

LEMMA TxNextInv == ASSUME TxInv, [TxNext]_txVars PROVE TxInv'
<1>1. CASE UNCHANGED txVars
  BY <1>1 DEF txVars, TxInv, TxTypes, CellsOwned, StoresApart, TextsKept, Borrows, OwnedBy, TxReadable
<1>2. ASSUME NEW th \in TxThreads,
             \/ \E slot \in TxSlots, src \in TxSlots : StrStoreFrom(th, slot, src)
             \/ \E slot \in TxSlots, text \in TxTexts : StrStoreText(th, slot, text)
      PROVE  TxInv'
  BY <1>2, StrStoreInv
<1>3. ASSUME NEW th \in TxThreads, StrStoreCopy(th) PROVE TxInv'
  BY <1>3, StrStoreCopyInv
<1>4. ASSUME NEW th \in TxThreads, EnterRoutine(th) PROVE TxInv'
  BY <1>4, EnterRoutineInv
<1>5. ASSUME NEW th \in TxThreads, LeaveRoutine(th) PROVE TxInv'
  BY <1>5, StrReleaseInv DEF LeaveRoutine
<1>6. ASSUME NEW th \in TxThreads, ReleaseCallText(th) PROVE TxInv'
  BY <1>6, StrReleaseInv DEF ReleaseCallText
<1> QED
  BY <1>1, <1>2, <1>3, <1>4, <1>5, <1>6 DEF TxNext

(* A STRING reads as what was last assigned to it, and no bytes are lost, for  *)
(* any number of threads, variables and pieces of memory: whatever the order   *)
(* in which stores, calls and releases of the threads meet (TextsKept).        *)
THEOREM TextsAlwaysKept == TxSpec => []TextsKept
<1>1. TxInv => TextsKept
  BY DEF TxInv
<1> QED
  BY <1>1, TxInitInv, TxNextInv, PTL DEF TxSpec

-----------------------------------------------------------------------------
(* The slot table *)

SlTaskRecords ==
  [defined : BOOLEAN, active : BOOLEAN, type : SlTypes \cup {0},
   callback : SUBSET SlCallbacks, data : SUBSET SlData]
SlFrameRecords ==
  [at : {"copied", "running"}, slot : Slots, task : SlTaskRecords, expected : ExpectedTypes]

(* A slot that is on has been registered, and the history knows its record.   *)
TableOn ==
  /\ slTasks \in [Slots -> SlTaskRecords]
  /\ slTriggerable \in [Slots -> SUBSET SlTaskRecords]
  /\ \A s \in Slots : slTasks[s].active =>
       /\ slTasks[s].defined
       /\ slTasks[s].callback # NoCallback => slTasks[s] \in slTriggerable[s]

(* A copy was made of a slot that was on, for as long as the trigger lasts. *)
FrameOn(frame) ==
  /\ frame.task \in slTriggerable[frame.slot]
  /\ frame.task.defined
  /\ frame.at = "running" => (frame.expected # 0 => frame.task.type = frame.expected)

FramesOn ==
  /\ slFrames \in [SlThreads -> Seq(SlFrameRecords)]
  /\ \A th \in SlThreads : \A i \in 1..Len(slFrames[th]) : FrameOn(slFrames[th][i])

SlInv == TableOn /\ FramesOn

(* A call that writes the table, and one that leaves it, keep the frames: the  *)
(* history only grows.                                                       *)
LEMMA WriteInv ==
  ASSUME SlInv, NEW tasks \in [Slots -> SlTaskRecords],
         \A s \in Slots : tasks[s].active => tasks[s].defined,
         Write(tasks), UNCHANGED slFrames
  PROVE  SlInv'
<1>1. /\ slTasks' = tasks /\ slTriggerable' \in [Slots -> SUBSET SlTaskRecords]
      /\ \A s \in Slots : slTriggerable[s] \subseteq slTriggerable'[s]
      /\ \A s \in Slots : tasks[s].active /\ tasks[s].callback # NoCallback => tasks[s] \in slTriggerable'[s]
  BY DEF Write, SlInv, TableOn
<1>2. TableOn'
  BY <1>1 DEF TableOn
<1>3. ASSUME NEW th \in SlThreads, NEW i \in 1..Len(slFrames[th]) PROVE FrameOn(slFrames[th][i])'
  <2>1. slFrames[th][i] \in SlFrameRecords /\ FrameOn(slFrames[th][i])
    BY DEF SlInv, FramesOn
  <2>2. slFrames[th][i].slot \in Slots
    BY <2>1 DEF SlFrameRecords
  <2> QED
    BY <1>1, <2>1, <2>2 DEF FrameOn
<1>4. UNCHANGED slFrames
  OBVIOUS
<1> QED
  BY <1>2, <1>3, <1>4 DEF SlInv, FramesOn

LEMMA TableCallInv ==
  ASSUME SlInv, NEW th \in SlThreads,
         \/ InitRuntime(th) \/ ShutdownRuntime(th)
         \/ \E slot \in SlSlots :
              \/ \E type \in SlTypes, memory \in BOOLEAN : RegisterTask(th, slot, type, memory)
              \/ \E callback \in {NoCallback} \cup {{c} : c \in SlCallbacks}, d \in SlData :
                   SetCallback(th, slot, callback, {d})
              \/ \E active \in BOOLEAN : ControlSlot(th, slot, active)
  PROVE  SlInv'
<1>1. CASE InitRuntime(th) \/ ShutdownRuntime(th)
  <2> DEFINE tasks == [s \in Slots |-> EmptyTask]
  <2>1. tasks \in [Slots -> SlTaskRecords] /\ \A s \in Slots : tasks[s].active => tasks[s].defined
    BY DEF EmptyTask, SlTaskRecords, NoCallback
  <2>2. Write(tasks) /\ UNCHANGED slFrames
    BY <1>1 DEF InitRuntime, ShutdownRuntime
  <2> HIDE DEF tasks
  <2> QED
    BY <2>1, <2>2, WriteInv
<1>2. CASE UNCHANGED <<slTasks, slTriggerable, slFrames>>
  BY <1>2 DEF SlInv, TableOn, FramesOn, FrameOn
<1>3. ASSUME NEW slot \in SlSlots, NEW type \in SlTypes, NEW memory \in BOOLEAN,
             RegisterTask(th, slot, type, memory)
      PROVE  SlInv'
  <2>1. CASE UNCHANGED <<slTasks, slTriggerable>>
    BY <1>2, <1>3, <2>1 DEF RegisterTask
  <2> DEFINE tasks == [slTasks EXCEPT ![slot].defined = TRUE, ![slot].active = TRUE, ![slot].type = type]
  <2>2. CASE ValidSlot(slot) /\ Write(tasks)
    <3>1. slot \in Slots
      BY <2>2 DEF Slots
    <3>2. tasks \in [Slots -> SlTaskRecords]
      <4>1. [slTasks[slot] EXCEPT !.defined = TRUE, !.active = TRUE, !.type = type] \in SlTaskRecords
        BY <3>1 DEF SlInv, TableOn, SlTaskRecords
      <4>2. tasks = [slTasks EXCEPT ![slot] = [slTasks[slot] EXCEPT !.defined = TRUE, !.active = TRUE, !.type = type]]
        BY <3>1 DEF SlInv, TableOn
      <4> QED
        BY <3>1, <4>1, <4>2 DEF SlInv, TableOn
    <3>4. \A s \in Slots : tasks[s].active => tasks[s].defined
      BY <3>1 DEF SlInv, TableOn, SlTaskRecords
    <3>3. UNCHANGED slFrames
      BY <1>3 DEF RegisterTask
    <3> HIDE DEF tasks
    <3> QED
      BY <2>2, <3>2, <3>3, <3>4, WriteInv
  <2> QED
    BY <1>3, <2>1, <2>2 DEF RegisterTask
<1>4. ASSUME NEW slot \in SlSlots, NEW callback \in {NoCallback} \cup {{c} : c \in SlCallbacks},
             NEW d \in SlData, SetCallback(th, slot, callback, {d})
      PROVE  SlInv'
  <2>1. CASE UNCHANGED <<slTasks, slTriggerable>>
    BY <1>2, <1>4, <2>1 DEF SetCallback
  <2> DEFINE tasks == [slTasks EXCEPT ![slot].callback = callback, ![slot].data = {d}]
  <2>2. CASE ValidSlot(slot) /\ Write(tasks)
    <3>1. slot \in Slots /\ callback \in SUBSET SlCallbacks /\ {d} \in SUBSET SlData
      BY <2>2 DEF Slots, NoCallback
    <3>2. tasks \in [Slots -> SlTaskRecords]
      <4>1. [slTasks[slot] EXCEPT !.callback = callback, !.data = {d}] \in SlTaskRecords
        BY <3>1 DEF SlInv, TableOn, SlTaskRecords
      <4>2. tasks = [slTasks EXCEPT ![slot] = [slTasks[slot] EXCEPT !.callback = callback, !.data = {d}]]
        BY <3>1 DEF SlInv, TableOn
      <4> QED
        BY <3>1, <4>1, <4>2 DEF SlInv, TableOn
    <3>4. \A s \in Slots : tasks[s].active => tasks[s].defined
      BY <3>1 DEF SlInv, TableOn, SlTaskRecords
    <3>3. UNCHANGED slFrames
      BY <1>4 DEF SetCallback
    <3> HIDE DEF tasks
    <3> QED
      BY <2>2, <3>2, <3>3, <3>4, WriteInv
  <2> QED
    BY <1>4, <2>1, <2>2 DEF SetCallback, OfRegistered
<1>5. ASSUME NEW slot \in SlSlots, NEW active \in BOOLEAN, ControlSlot(th, slot, active)
      PROVE  SlInv'
  <2>1. CASE UNCHANGED <<slTasks, slTriggerable>>
    BY <1>2, <1>5, <2>1 DEF ControlSlot
  <2> DEFINE tasks == [slTasks EXCEPT ![slot].active = active]
  <2>2. CASE OfRegistered(slot) = "" /\ Write(tasks)
    <3>1. slot \in Slots /\ slTasks[slot].defined
      BY <2>2 DEF Slots, OfRegistered
    <3>2. tasks \in [Slots -> SlTaskRecords]
      <4>1. [slTasks[slot] EXCEPT !.active = active] \in SlTaskRecords
        BY <3>1 DEF SlInv, TableOn, SlTaskRecords
      <4>2. tasks = [slTasks EXCEPT ![slot] = [slTasks[slot] EXCEPT !.active = active]]
        BY <3>1 DEF SlInv, TableOn
      <4> QED
        BY <3>1, <4>1, <4>2 DEF SlInv, TableOn
    <3>4. \A s \in Slots : tasks[s].active => tasks[s].defined
      BY <3>1 DEF SlInv, TableOn, SlTaskRecords
    <3>3. UNCHANGED slFrames
      BY <1>5 DEF ControlSlot
    <3> HIDE DEF tasks
    <3> QED
      BY <2>2, <3>2, <3>3, <3>4, WriteInv
  <2> QED
    BY <1>5, <2>1, <2>2 DEF ControlSlot
<1> QED
  BY <1>1, <1>3, <1>4, <1>5

(* The innermost trigger of th ends, for a type it does not have or because    *)
(* its callback is over.                                                     *)
LEMMA TriggerEnds ==
  ASSUME SlInv, NEW th \in SlThreads, slFrames[th] # <<>>,
         slFrames' = [slFrames EXCEPT ![th] = Front(@)], UNCHANGED <<slTasks, slTriggerable>>
  PROVE  SlInv'
<1>1. slFrames[th] \in Seq(SlFrameRecords)
  BY DEF SlInv, FramesOn
<1>2. /\ Front(slFrames[th]) \in Seq(SlFrameRecords) /\ Len(slFrames[th]) \in Nat \ {0}
      /\ Len(Front(slFrames[th])) = Len(slFrames[th]) - 1
      /\ \A i \in 1..(Len(slFrames[th]) - 1) : Front(slFrames[th])[i] = slFrames[th][i]
  BY <1>1, LastFront
<1>3. \A i \in 1..Len(Front(slFrames[th])) : FrameOn(Front(slFrames[th])[i])
  BY <1>2 DEF SlInv, FramesOn
<1>4. /\ slFrames'[th] = Front(slFrames[th])
      /\ \A u \in SlThreads : u # th => slFrames'[u] = slFrames[u]
  BY DEF SlInv, FramesOn
<1>5. slFrames' \in [SlThreads -> Seq(SlFrameRecords)]
  BY <1>2 DEF SlInv, FramesOn
<1>6. \A u \in SlThreads : \A i \in 1..Len(slFrames'[u]) : FrameOn(slFrames'[u][i])
  BY <1>3, <1>4 DEF SlInv, FramesOn
<1> QED
  BY <1>5, <1>6 DEF SlInv, FramesOn, TableOn, FrameOn

LEMMA SnapshotTaskInv ==
  ASSUME SlInv, NEW th \in SlThreads, NEW slot \in SlSlots, NEW expected \in ExpectedTypes,
         SnapshotTask(th, slot, expected)
  PROVE  SlInv'
<1>1. CASE RefusalOf(slot) # ""
  BY <1>1 DEF SnapshotTask, SlInv, TableOn, FramesOn, FrameOn
<1>2. CASE RefusalOf(slot) = ""
  <2> DEFINE copy == [at |-> "copied", slot |-> slot, task |-> slTasks[slot], expected |-> expected]
             frames == Append(slFrames[th], copy)
  <2>1. /\ slFrames' = [slFrames EXCEPT ![th] = frames]
        /\ UNCHANGED <<slTasks, slTriggerable>>
    BY <1>2 DEF SnapshotTask
  <2>2. /\ slot \in Slots /\ slTasks[slot].defined /\ slTasks[slot].active
        /\ slTasks[slot].callback # NoCallback
    BY <1>2 DEF RefusalOf, Slots
  <2>3. copy \in SlFrameRecords /\ FrameOn(copy)
    BY <2>2 DEF SlFrameRecords, FrameOn, SlInv, TableOn
  <2> HIDE DEF copy
  <2>4. slFrames[th] \in Seq(SlFrameRecords)
    BY DEF SlInv, FramesOn
  <2>5. /\ frames \in Seq(SlFrameRecords) /\ Len(slFrames[th]) \in Nat
        /\ Len(frames) = Len(slFrames[th]) + 1 /\ frames[Len(slFrames[th]) + 1] = copy
        /\ \A i \in 1..Len(slFrames[th]) : frames[i] = slFrames[th][i]
    <3>1. PICK fs \in Seq(SlFrameRecords) : fs = slFrames[th]
      BY <2>4
    <3>2. /\ Append(fs, copy) \in Seq(SlFrameRecords) /\ Len(fs) \in Nat
          /\ Len(Append(fs, copy)) = Len(fs) + 1 /\ Append(fs, copy)[Len(fs) + 1] = copy
          /\ \A i \in 1..Len(fs) : Append(fs, copy)[i] = fs[i]
      BY <2>3, Appended
    <3> QED
      BY <3>1, <3>2
  <2> HIDE DEF frames
  <2>6. \A i \in 1..Len(frames) : FrameOn(frames[i])
    BY <2>3, <2>5 DEF SlInv, FramesOn
  <2>7. slFrames'[th] = frames /\ \A u \in SlThreads : u # th => slFrames'[u] = slFrames[u]
    BY <2>1 DEF SlInv, FramesOn
  <2>8. slFrames' \in [SlThreads -> Seq(SlFrameRecords)]
    BY <2>1, <2>5 DEF SlInv, FramesOn
  <2>9. \A u \in SlThreads : \A i \in 1..Len(slFrames'[u]) : FrameOn(slFrames'[u][i])
    BY <2>6, <2>7 DEF SlInv, FramesOn
  <2> QED
    BY <2>1, <2>8, <2>9 DEF SlInv, FramesOn, TableOn, FrameOn
<1> QED
  BY <1>1, <1>2

LEMMA TriggerInv ==
  ASSUME SlInv, NEW th \in SlThreads, Trigger(th) PROVE SlInv'
<1> DEFINE n == Len(slFrames[th])
           frame == Last(slFrames[th])
           run == [frame EXCEPT !.at = "running", !.task = Used(frame)]
<1>1. slFrames[th] \in Seq(SlFrameRecords) /\ slFrames[th] # <<>>
  BY DEF SlInv, FramesOn, Trigger
<1>2. n \in Nat \ {0} /\ frame = slFrames[th][n] /\ frame \in SlFrameRecords
  BY <1>1, LastFront
<1>3. /\ frame.expected # 0 => Used(frame).type = frame.expected
      /\ slFrames' = [slFrames EXCEPT ![th][n] = run]
      /\ UNCHANGED <<slTasks, slTriggerable>>
  BY DEF Trigger
<1>4. FrameOn(frame)
  BY <1>2 DEF SlInv, FramesOn
<1> HIDE DEF frame
<1>5. run \in SlFrameRecords /\ FrameOn(run)
  BY <1>2, <1>3, <1>4 DEF SlFrameRecords, FrameOn, Used
<1> HIDE DEF run, n
<1>6. PICK frames : frames = [slFrames[th] EXCEPT ![n] = run]
  OBVIOUS
<1>7. /\ frames \in Seq(SlFrameRecords) /\ Len(frames) = Len(slFrames[th])
      /\ \A i \in 1..Len(slFrames[th]) : frames[i] = IF i = n THEN run ELSE slFrames[th][i]
  <2>1. /\ DOMAIN frames = 1..Len(slFrames[th]) /\ Len(slFrames[th]) \in Nat
        /\ \A i \in 1..Len(slFrames[th]) : frames[i] = IF i = n THEN run ELSE slFrames[th][i]
    BY <1>1, <1>6
  <2>2. \A i \in 1..Len(slFrames[th]) : frames[i] \in SlFrameRecords
    BY <1>1, <1>5, <2>1
  <2>3. frames = [i \in 1..Len(slFrames[th]) |-> frames[i]]
    BY <1>6, <2>1
  <2>4. frames \in [1..Len(slFrames[th]) -> SlFrameRecords]
    BY <2>2, <2>3
  <2> QED
    BY <2>1, <2>4
<1>8. \A i \in 1..Len(frames) : FrameOn(frames[i])
  BY <1>5, <1>7 DEF SlInv, FramesOn
<1>9. slFrames' = [slFrames EXCEPT ![th] = frames]
  BY <1>3, <1>6 DEF SlInv, FramesOn
<1>10. slFrames'[th] = frames /\ \A u \in SlThreads : u # th => slFrames'[u] = slFrames[u]
  BY <1>9 DEF SlInv, FramesOn
<1>11. slFrames' \in [SlThreads -> Seq(SlFrameRecords)]
  BY <1>7, <1>9 DEF SlInv, FramesOn
<1>12. \A u \in SlThreads : \A i \in 1..Len(slFrames'[u]) : FrameOn(slFrames'[u][i])
  BY <1>8, <1>10 DEF SlInv, FramesOn
<1> QED
  BY <1>3, <1>11, <1>12 DEF SlInv, FramesOn, TableOn, FrameOn

LEMMA SlInitInv == SlInit => SlInv
<1> SUFFICES ASSUME SlInit PROVE SlInv
  OBVIOUS
<1>1. TableOn
  BY DEF SlInit, TableOn, EmptyTask, SlTaskRecords, NoCallback
<1>2. FramesOn
  <2>1. <<>> \in Seq(SlFrameRecords)
    OBVIOUS
  <2>3. slFrames = [th \in SlThreads |-> <<>>]
    BY DEF SlInit
  <2>2. Len(<<>>) = 0
    OBVIOUS
  <2> QED
    BY <2>1, <2>2, <2>3 DEF FramesOn
<1> QED
  BY <1>1, <1>2 DEF SlInv

LEMMA SlNextInv == ASSUME SlInv, [SlNext]_slVars PROVE SlInv'
<1>1. CASE UNCHANGED slVars
  BY <1>1 DEF slVars, SlInv, TableOn, FramesOn, FrameOn
<1>2. ASSUME NEW th \in SlThreads, Mismatch(th) \/ (\E thrown \in BOOLEAN : Return(th, thrown))
      PROVE  SlInv'
  BY <1>2, TriggerEnds DEF Mismatch, Return
<1>3. ASSUME NEW th \in SlThreads, Trigger(th) PROVE SlInv'
  BY <1>3, TriggerInv
<1>4. ASSUME NEW th \in SlThreads, NEW slot \in SlSlots, NEW expected \in ExpectedTypes,
             SnapshotTask(th, slot, expected)
      PROVE  SlInv'
  BY <1>4, SnapshotTaskInv
<1> QED
  BY <1>1, <1>2, <1>3, <1>4, TableCallInv DEF SlNext

(* What a trigger runs is a task as its slot held it when it was on, with the  *)
(* callback and the pointer of one moment and the type the caller asked for,   *)
(* for any number of threads and slots, callbacks nested to any depth, and     *)
(* whatever the callbacks themselves do to the table (SlotTasksConsistent).    *)
THEOREM SlotTasksHeld == SlSpec => []SlotTasksConsistent
<1>1. SlInv => SlotTasksConsistent
  BY DEF SlInv, FramesOn, FrameOn, SlotTasksConsistent
<1> QED
  BY <1>1, SlInitInv, SlNextInv, PTL DEF SlSpec

-----------------------------------------------------------------------------
(* The file channels *)

ChannelsInv == nfChannel \in [NfChannels -> 0..NfFiles] /\ ChannelsAccounted

(* The channel ch gives up its file; its new one, if there is one, is nobody's. *)
LEMMA ChannelMoves ==
  ASSUME ChannelsInv, NEW ch \in NfChannels, NEW f \in 0..NfFiles, f \notin nfOpen \ {nfChannel[ch]},
         nfChannel' = [nfChannel EXCEPT ![ch] = f],
         nfOpen' = (nfOpen \ {nfChannel[ch]}) \cup ({f} \ {0})
  PROVE  ChannelsInv'
<1>1. /\ nfChannel' \in [NfChannels -> 0..NfFiles] /\ nfChannel'[ch] = f
      /\ \A c \in NfChannels : c /= ch => nfChannel'[c] = nfChannel[c]
  BY DEF ChannelsInv
<1>2. /\ nfOpen = {nfChannel[c] : c \in NfChannels} \ {0}
      /\ \A c, d \in NfChannels : nfChannel[c] = nfChannel[d] /\ nfChannel[c] /= 0 => c = d
  BY DEF ChannelsInv, ChannelsAccounted
<1>3. ASSUME NEW c \in NfChannels, c /= ch, nfChannel[c] /= 0
      PROVE  nfChannel[c] /= f /\ nfChannel[c] \in nfOpen \ {nfChannel[ch]}
  BY <1>2, <1>3
<1>4. \A g : g \in nfOpen' => g /= 0 /\ \E c \in NfChannels : nfChannel'[c] = g
  <2> SUFFICES ASSUME NEW g, g \in nfOpen' PROVE g /= 0 /\ \E c \in NfChannels : nfChannel'[c] = g
    OBVIOUS
  <2>1. CASE g = f
    BY <1>1, <1>2, <2>1
  <2>2. CASE g \in nfOpen /\ g /= nfChannel[ch]
    <3>1. PICK c \in NfChannels : nfChannel[c] = g
      BY <1>2, <2>2
    <3> QED
      BY <1>1, <1>2, <2>2, <3>1
  <2> QED
    BY <2>1, <2>2
<1>5. ASSUME NEW c \in NfChannels, nfChannel'[c] /= 0 PROVE nfChannel'[c] \in nfOpen'
  BY <1>1, <1>3, <1>5
<1>6. ASSUME NEW c \in NfChannels, NEW d \in NfChannels, nfChannel'[c] = nfChannel'[d], nfChannel'[c] /= 0
      PROVE  c = d
  BY <1>1, <1>2, <1>3, <1>6
<1>7. nfOpen' = {nfChannel'[c] : c \in NfChannels} \ {0}
  BY <1>4, <1>5
<1> QED
  BY <1>1, <1>6, <1>7 DEF ChannelsInv, ChannelsAccounted

LEMMA ChannelsNextInv == ASSUME ChannelsInv, [NfNext]_nfVars PROVE ChannelsInv'
<1>1. CASE UNCHANGED <<nfChannel, nfOpen>>
  BY <1>1 DEF ChannelsInv, ChannelsAccounted
<1>2. ASSUME NEW ch \in NfChannels, FileOpen(ch) PROVE ChannelsInv'
  <2>1. CASE \E f \in 1..NfFiles \ (nfOpen \ {nfChannel[ch]}) :
               /\ nfChannel' = [nfChannel EXCEPT ![ch] = f]
               /\ nfOpen' = (nfOpen \ {nfChannel[ch]}) \cup {f}
    <3>1. PICK f \in 1..NfFiles : /\ f \notin nfOpen \ {nfChannel[ch]}
                                  /\ nfChannel' = [nfChannel EXCEPT ![ch] = f]
                                  /\ nfOpen' = (nfOpen \ {nfChannel[ch]}) \cup {f}
      BY <2>1
    <3>2. f \in 0..NfFiles /\ {f} \ {0} = {f}
      BY <3>1, NfAssumption
    <3> QED
      BY <3>1, <3>2, ChannelMoves
  <2>2. CASE nfChannel' = NotOpened(ch) /\ nfOpen' = nfOpen \ {nfChannel[ch]}
    <3>1. 0 \in 0..NfFiles /\ 0 \notin nfOpen /\ {0} \ {0} = {}
      BY NfAssumption DEF ChannelsInv, ChannelsAccounted
    <3> QED
      BY <2>2, <3>1, ChannelMoves DEF NotOpened
  <2> QED
    BY <1>2, <2>1, <2>2 DEF FileOpen
<1>3. ASSUME NEW ch \in NfChannels, FileClose(ch) PROVE ChannelsInv'
  <2>1. 0 \in 0..NfFiles /\ 0 \notin nfOpen /\ {0} \ {0} = {}
    BY NfAssumption DEF ChannelsInv, ChannelsAccounted
  <2> QED
    BY <1>3, <2>1, ChannelMoves DEF FileClose
<1>4. ASSUME NEW th \in NfThreads,
             (\E ch \in NfChannels : FilePrintBegin(th, ch)) \/ FilePrintText(th) \/ FilePrintEnd(th)
      PROVE  UNCHANGED <<nfChannel, nfOpen>>
  BY <1>4 DEF FilePrintBegin, FilePrintText, FilePrintEnd
<1> QED
  BY <1>1, <1>2, <1>3, <1>4 DEF NfNext, nfVars

LEMMA ChannelsInitInv == NfInit => ChannelsInv
  BY NfAssumption DEF NfInit, ChannelsInv, ChannelsAccounted

(* No FILE is lost, shared by two channels or closed behind a channel's back,  *)
(* whatever OPENs fail and however PRINT # statements nest (ChannelsAccounted). *)
THEOREM ChannelsAlwaysAccounted == NfSpec => []ChannelsAccounted
<1>1. ChannelsInv => ChannelsAccounted
  BY DEF ChannelsInv
<1> QED
  BY <1>1, ChannelsInitInv, ChannelsNextInv, PTL DEF NfSpec

NfNames == NfThreads \X Nat \X Nat
NfLines == [channel : {NoChannel} \cup {<<ch>> : ch \in NfChannels}, items : Seq(NfNames)]

(* Where PRINT # statements do not nest, the statement a thread is in and its  *)
(* buffer are the same line.                                                 *)
LinesInv ==
  /\ nfPrint \in [NfThreads -> Seq(NfLines)]
  /\ nfBuffer \in [NfThreads -> NfLines]
  /\ DOMAIN nfWritten = NfThreads
  /\ \A th \in NfThreads : nfPrint[th] = <<>> \/ nfPrint[th] = <<nfBuffer[th]>>
  /\ FileLinesWhole

(* Thread th goes on with its line. *)
LEMMA LineStep ==
  ASSUME LinesInv, NEW th \in NfThreads, NEW line \in NfLines,
         nfPrint' = [nfPrint EXCEPT ![th] = <<line>>], nfBuffer' = [nfBuffer EXCEPT ![th] = line],
         UNCHANGED nfWritten
  PROVE  LinesInv'
<1>1. <<line>> \in Seq(NfLines)
  OBVIOUS
<1>2. /\ nfPrint' \in [NfThreads -> Seq(NfLines)] /\ nfBuffer' \in [NfThreads -> NfLines]
      /\ nfPrint'[th] = <<line>> /\ nfBuffer'[th] = line
      /\ \A u \in NfThreads : u /= th => nfPrint'[u] = nfPrint[u] /\ nfBuffer'[u] = nfBuffer[u]
  BY <1>1 DEF LinesInv
<1>3. ASSUME NEW u \in NfThreads PROVE nfPrint'[u] = <<>> \/ nfPrint'[u] = <<nfBuffer'[u]>>
  BY <1>2 DEF LinesInv
<1> QED
  BY <1>2, <1>3 DEF LinesInv, FileLinesWhole

LEMMA FilePrintBeginInv ==
  ASSUME NfNesting = 1, LinesInv, NEW th \in NfThreads, NEW ch \in NfChannels, FilePrintBegin(th, ch)
  PROVE  LinesInv'
<1> DEFINE line == [channel |-> <<ch>>, items |-> <<>>]
<1>1. line \in NfLines
  BY DEF NfLines
<1>2. nfPrint[th] = <<>>
  <2>1. Len(nfPrint[th]) < 1 /\ nfPrint[th] \in Seq(NfLines)
    BY DEF FilePrintBegin, LinesInv
  <2> QED
    BY <2>1
<1>3. /\ nfPrint' = [nfPrint EXCEPT ![th] = Append(<<>>, line)]
      /\ nfBuffer' = [nfBuffer EXCEPT ![th] = line] /\ UNCHANGED nfWritten
  BY <1>2 DEF FilePrintBegin
<1> HIDE DEF line
<1>4. Append(<<>>, line) = <<line>>
  OBVIOUS
<1> QED
  BY <1>1, <1>3, <1>4, LineStep

LEMMA FilePrintTextInv ==
  ASSUME LinesInv, NEW th \in NfThreads, FilePrintText(th)
  PROVE  LinesInv'
<1> DEFINE old == nfBuffer[th]
           item == <<th, 1, Len(old.items)>>
           line == [old EXCEPT !.items = Append(old.items, item)]
<1>1. nfPrint[th] = <<old>> /\ old \in NfLines
  BY DEF FilePrintText, LinesInv
<1>2. Len(nfPrint[th]) = 1 /\ nfPrint[th][1] = old
  BY <1>1
<1>3. /\ nfPrint' = [nfPrint EXCEPT ![th][1].items = Append(@, item)]
      /\ nfBuffer' = [nfBuffer EXCEPT ![th].items = Append(@, item)] /\ UNCHANGED nfWritten
  BY <1>2 DEF FilePrintText
<1>4. nfBuffer' = [nfBuffer EXCEPT ![th] = line]
  BY <1>3 DEF LinesInv
<1>5. line \in NfLines
  <2>1. old.items \in Seq(NfNames) /\ Len(old.items) \in Nat
    BY <1>1 DEF NfLines
  <2>2. item \in NfNames
    BY <2>1 DEF NfNames
  <2> HIDE DEF item
  <2>3. Append(old.items, item) \in Seq(NfNames)
    BY <2>1, <2>2
  <2> QED
    BY <1>1, <2>3 DEF NfLines
<1>6. nfPrint' = [nfPrint EXCEPT ![th] = <<line>>]
  <2>1. nfPrint' = [nfPrint EXCEPT ![th] = [nfPrint[th] EXCEPT ![1] = [nfPrint[th][1] EXCEPT !.items = Append(@, item)]]]
    BY <1>3 DEF LinesInv
  <2>2. [nfPrint[th] EXCEPT ![1] = line] = <<line>>
    <3> HIDE DEF line, old
    <3> QED
      BY <1>1
  <2> QED
    BY <1>2, <2>1, <2>2
<1> HIDE DEF line
<1> QED
  BY <1>3, <1>4, <1>5, <1>6, LineStep

LEMMA FilePrintEndInv ==
  ASSUME LinesInv, NEW th \in NfThreads, FilePrintEnd(th)
  PROVE  LinesInv'
<1> DEFINE line == nfBuffer[th]
           open == ChannelFile(line.channel) /= 0
           left == [channel |-> NoChannel, items |-> IF open THEN <<>> ELSE line.items]
           written == [given |-> line.items, wrote |-> IF open THEN line.items ELSE <<>>, open |-> open]
<1>1. nfPrint[th] = <<line>> /\ line \in NfLines
  BY DEF FilePrintEnd, LinesInv
<1>2. Last(nfPrint[th]) = line /\ Front(nfPrint[th]) = <<>>
  <2> HIDE DEF line
  <2>1. nfPrint[th] \in Seq(NfLines) /\ nfPrint[th] /= <<>> /\ Len(nfPrint[th]) = 1
    BY <1>1
  <2>2. /\ Last(nfPrint[th]) = nfPrint[th][Len(nfPrint[th])] /\ Front(nfPrint[th]) \in Seq(NfLines)
        /\ Len(Front(nfPrint[th])) = Len(nfPrint[th]) - 1
    BY <2>1, LastFront
  <2>3. Last(nfPrint[th]) = nfPrint[th][1] /\ Len(Front(nfPrint[th])) = 0
    BY <2>1, <2>2
  <2>4. \A front \in Seq(NfLines) : Len(front) = 0 => front = <<>>
    OBVIOUS
  <2> QED
    BY <1>1, <2>2, <2>3, <2>4
<1>3. /\ nfWritten' = [nfWritten EXCEPT ![th] = written]
      /\ nfBuffer' = [nfBuffer EXCEPT ![th] = left]
      /\ nfPrint' = [nfPrint EXCEPT ![th] = <<>>]
  BY <1>2 DEF FilePrintEnd, LinesInv
<1>4. left \in NfLines
  BY <1>1 DEF NfLines
<1>5. written.open => written.wrote = written.given
  OBVIOUS
<1> HIDE DEF written, left
<1>6. <<>> \in Seq(NfLines)
  OBVIOUS
<1>7. /\ nfPrint' \in [NfThreads -> Seq(NfLines)] /\ nfBuffer' \in [NfThreads -> NfLines]
      /\ nfPrint'[th] = <<>> /\ DOMAIN nfWritten' = NfThreads /\ nfWritten'[th] = written
      /\ \A u \in NfThreads : u /= th => nfPrint'[u] = nfPrint[u] /\ nfBuffer'[u] = nfBuffer[u]
                                         /\ nfWritten'[u] = nfWritten[u]
  BY <1>3, <1>4, <1>6 DEF LinesInv
<1>8. FileLinesWhole'
  BY <1>5, <1>7 DEF LinesInv, FileLinesWhole
<1>9. ASSUME NEW u \in NfThreads PROVE nfPrint'[u] = <<>> \/ nfPrint'[u] = <<nfBuffer'[u]>>
  BY <1>7 DEF LinesInv
<1> QED
  BY <1>7, <1>8, <1>9 DEF LinesInv

LEMMA LinesInitInv == NfInit => LinesInv
<1> SUFFICES ASSUME NfInit PROVE LinesInv
  OBVIOUS
<1>1. [channel |-> NoChannel, items |-> <<>>] \in NfLines /\ <<>> \in Seq(NfLines)
  BY DEF NfLines
<1>2. /\ nfPrint = [th \in NfThreads |-> <<>>]
      /\ nfBuffer = [th \in NfThreads |-> [channel |-> NoChannel, items |-> <<>>]]
      /\ nfWritten = [th \in NfThreads |-> NoneWritten]
  BY DEF NfInit
<1> QED
  BY <1>1, <1>2 DEF LinesInv, FileLinesWhole, NoneWritten

LEMMA LinesNextInv == ASSUME NfNesting = 1, LinesInv, [NfNext]_nfVars PROVE LinesInv'
<1>1. CASE UNCHANGED <<nfPrint, nfBuffer, nfWritten>>
  BY <1>1 DEF LinesInv, FileLinesWhole
<1>2. ASSUME NEW ch \in NfChannels, FileOpen(ch) \/ FileClose(ch)
      PROVE  UNCHANGED <<nfPrint, nfBuffer, nfWritten>>
  BY <1>2 DEF FileOpen, FileClose
<1> QED
  BY <1>1, <1>2, FilePrintBeginInv, FilePrintTextInv, FilePrintEndInv DEF NfNext, nfVars

(* On threads whose PRINT # statements do not nest, every line is written to   *)
(* an open channel whole, of its own items, whatever the other threads print,  *)
(* open and close meanwhile, and no FILE is lost (FilesExact).  Where they     *)
(* nest it is not so, which the run file_print shows.                         *)
THEOREM UnnestedLinesWhole == ASSUME NfNesting = 1 PROVE NfSpec => []FilesExact
<1>1. LinesInv => FileLinesWhole
  BY DEF LinesInv
<1>2. NfSpec => []FileLinesWhole
  BY <1>1, LinesInitInv, LinesNextInv, PTL DEF NfSpec
<1>3. FilesExact <=> ChannelsAccounted /\ FileLinesWhole
  BY DEF FilesExact
<1> QED
  BY <1>2, <1>3, ChannelsAlwaysAccounted, PTL

-----------------------------------------------------------------------------
(* The console: sequences of characters and of texts *)

LEMMA LeastNumber ==
  ASSUME NEW T \in SUBSET Nat, T # {}
  PROVE  \E n \in T : \A m \in T : n <= m
<1> DEFINE Below == {p \in Nat \X Nat : p[1] < p[2]}
<1>1. IsWellFoundedOn(Below, Nat)
  BY NatLessThanWellFounded DEF OpToRel
<1> HIDE DEF Below
<1>2. PICK n \in T : \A m \in T : <<m, n>> \notin Below
  BY <1>1, WFMin, Zenon
<1>3. ASSUME NEW m \in T PROVE n <= m
  <2>1. m \in Nat /\ n \in Nat
    OBVIOUS
  <2>2. <<m, n>> \in Below <=> m < n
    BY <2>1 DEF Below
  <2> QED
    BY <1>2, <2>1, <2>2
<1> QED
  BY <1>3

LEMMA CountUp ==
  ASSUME NEW n \in Nat, NEW G, 0 \in G, \A i \in 0..n : i < n /\ i \in G => i + 1 \in G
  PROVE  n \in G
<1> DEFINE Left == (0..n) \ G
<1> SUFFICES ASSUME Left # {} PROVE FALSE
  OBVIOUS
<1>1. Left \in SUBSET Nat
  OBVIOUS
<1>2. PICK b \in Left : \A c \in Left : b <= c
  BY <1>1, LeastNumber
<1>3. b \in 0..n /\ b # 0 /\ b \notin G
  BY <1>2
<1>4. b - 1 \in 0..n /\ b - 1 < n /\ b - 1 < b /\ (b - 1) + 1 = b
  BY <1>3
<1>5. b - 1 \in G
  BY <1>1, <1>2, <1>4
<1> QED
  BY <1>3, <1>4, <1>5

LEMMA PrefixGrows ==
  ASSUME NEW S, NEW t \in Seq(S), NEW n \in 0..Len(t), n < Len(t)
  PROVE  /\ SubSeq(t, 1, n) \in Seq(S) /\ t[n + 1] \in S
         /\ SubSeq(t, 1, n + 1) = Append(SubSeq(t, 1, n), t[n + 1])
<1>1. Len(t) \in Nat /\ n + 1 \in 1..Len(t) /\ 1 \in 1..Len(t) /\ n + 1 \in 1..Len(t) /\ (n + 1) - 1 = n
  OBVIOUS
<1>2. t[n + 1] \in S
  BY <1>1, ElementOfSeq
<1>3. \A i \in 1..n : t[i] \in S
  BY <1>1, ElementOfSeq
<1>4. SubSeq(t, 1, n) \in Seq(S)
  BY <1>3, SubSeqProperties
<1>5. SubSeq(t, 1, n + 1) = SubSeq(t, 1, (n + 1) - 1) \o <<t[n + 1]>>
  BY <1>1, SubSeqRecursiveSecond
<1>6. Append(SubSeq(t, 1, n), t[n + 1]) = SubSeq(t, 1, n) \o <<t[n + 1]>>
  BY <1>2, <1>4, AppendIsConcat
<1> QED
  BY <1>1, <1>2, <1>4, <1>5, <1>6

LEMMA PrefixEnds ==
  ASSUME NEW S, NEW t \in Seq(S)
  PROVE  SubSeq(t, 1, 0) = <<>> /\ SubSeq(t, 1, Len(t)) = t /\ Len(t) \in Nat
<1>1. SubSeq(t, 1, 0) = <<>>
  BY SubSeqEmpty
<1>2. SubSeq(t, 1, Len(t)) = t
  BY SubSeqFull
<1> QED
  BY <1>1, <1>2

LEMMA ConcatAppend ==
  ASSUME NEW S, NEW s \in Seq(S), NEW t \in Seq(S), NEW e \in S
  PROVE  s \o Append(t, e) = Append(s \o t, e)
<1>1. <<e>> \in Seq(S) /\ s \o t \in Seq(S)
  BY ConcatProperties
<1>2. Append(t, e) = t \o <<e>> /\ Append(s \o t, e) = (s \o t) \o <<e>>
  BY <1>1, AppendIsConcat
<1> QED
  BY <1>1, <1>2, ConcatAssociative

OneMore(t, k, s, e) ==
  /\ t = Append(s, e) /\ k = Len(s) /\ Len(t) = k + 1 /\ t[k + 1] = e
  /\ \A i \in 1..k : t[i] = s[i]

LEMMA OneCharacter ==
  ASSUME NEW S, NEW s \in Seq(S), NEW e \in S
  PROVE  \E t \in Seq(S), k \in Nat : OneMore(t, k, s, e)
<1> DEFINE t == Append(s, e)
<1>1. /\ t \in Seq(S) /\ Len(s) \in Nat /\ Len(t) = Len(s) + 1 /\ t[Len(s) + 1] = e
      /\ \A i \in 1..Len(s) : t[i] = s[i]
  BY Appended
<1> HIDE DEF t
<1>2. t = Append(s, e)
  BY DEF t
<1> QED
  BY <1>1, <1>2 DEF OneMore

(* What CnOf keeps of the first n characters, for every n. *)
IsOf(f, ctx, text) ==
  f = [n \in 0..Len(text) |->
        IF n = 0 THEN <<>> ELSE IF text[n][1] = ctx THEN Append(f[n - 1], text[n]) ELSE f[n - 1]]

LEMMA OfSteps ==
  ASSUME NEW S, NEW text \in Seq(S), NEW ctx, NEW f, IsOf(f, ctx, text)
  PROVE  /\ f[0] = <<>>
         /\ \A n \in 0..Len(text) : n < Len(text) =>
              f[n + 1] = IF text[n + 1][1] = ctx THEN Append(f[n], text[n + 1]) ELSE f[n]
<1>1. f = [n \in 0..Len(text) |->
        IF n = 0 THEN <<>> ELSE IF text[n][1] = ctx THEN Append(f[n - 1], text[n]) ELSE f[n - 1]]
  BY DEF IsOf
<1>2. Len(text) \in Nat /\ 0 \in 0..Len(text)
  OBVIOUS
<1>3. ASSUME NEW n \in 0..Len(text), n < Len(text)
      PROVE  f[n + 1] = IF text[n + 1][1] = ctx THEN Append(f[n], text[n + 1]) ELSE f[n]
  <2>1. n + 1 \in 0..Len(text) /\ n + 1 # 0 /\ (n + 1) - 1 = n
    BY <1>2, <1>3
  <2>2. PICK m : m = n + 1
    OBVIOUS
  <2>3. f[m] = IF text[m][1] = ctx THEN Append(f[m - 1], text[m]) ELSE f[m - 1]
    BY <1>1, <2>1, <2>2
  <2> QED
    BY <2>1, <2>2, <2>3
<1> QED
  BY <1>1, <1>2, <1>3

Begins(a, b) == Len(a) <= Len(b) /\ \A i \in 1..Len(a) : a[i] = b[i]

(* Any two computations of CnOf agree as far as their texts do. *)
LEMMA OfSame ==
  ASSUME NEW S, NEW a \in Seq(S), NEW b \in Seq(S), NEW ctx, NEW f, NEW g,
         IsOf(f, ctx, a), IsOf(g, ctx, b), Begins(a, b)
  PROVE  \A n \in 0..Len(a) : f[n] = g[n]
<1>1. Len(a) \in Nat /\ Len(b) \in Nat /\ Len(a) <= Len(b) /\ \A i \in 1..Len(a) : a[i] = b[i]
  BY DEF Begins
<1>2. /\ f[0] = <<>>
      /\ \A n \in 0..Len(a) : n < Len(a) =>
           f[n + 1] = IF a[n + 1][1] = ctx THEN Append(f[n], a[n + 1]) ELSE f[n]
  BY OfSteps
<1>3. /\ g[0] = <<>>
      /\ \A n \in 0..Len(b) : n < Len(b) =>
           g[n + 1] = IF b[n + 1][1] = ctx THEN Append(g[n], b[n + 1]) ELSE g[n]
  BY OfSteps
<1> SUFFICES ASSUME NEW m \in 0..Len(a) PROVE f[m] = g[m]
  OBVIOUS
<1> DEFINE G == {n \in 0..m : f[n] = g[n]}
<1>4. 0 \in G
  BY <1>1, <1>2, <1>3
<1>5. ASSUME NEW n \in 0..m, n < m, n \in G PROVE n + 1 \in G
  <2>1. n \in 0..Len(a) /\ n < Len(a) /\ n \in 0..Len(b) /\ n < Len(b) /\ n + 1 \in 1..Len(a) /\ n + 1 \in 0..m
    BY <1>1, <1>5
  <2>2. a[n + 1] = b[n + 1] /\ f[n] = g[n]
    BY <1>1, <1>5, <2>1
  <2>3. f[n + 1] = g[n + 1]
    BY <1>2, <1>3, <2>1, <2>2
  <2> QED
    BY <2>1, <2>3
<1>6. m \in G
  <2> HIDE DEF G
  <2>1. m \in Nat
    OBVIOUS
  <2> QED
    BY <1>4, <1>5, <2>1, CountUp
<1> QED
  BY <1>6

LEMMA OfExists ==
  ASSUME NEW S, NEW text \in Seq(S), NEW ctx
  PROVE  \E f : IsOf(f, ctx, text)
<1>1. Len(text) \in Nat
  OBVIOUS
<1> DEFINE Upto(m) == SubSeq(text, 1, m)
           G == {m \in 0..Len(text) : \E f : IsOf(f, ctx, Upto(m))}
<1>2. 0 \in G
  <2>1. Upto(0) = <<>>
    BY PrefixEnds
  <2>2. Len(<<>>) = 0
    OBVIOUS
  <2>3. [n \in 0..Len(<<>>) |-> <<>>] = [n \in 0..Len(<<>>) |->
          IF n = 0 THEN <<>> ELSE IF <<>>[n][1] = ctx
          THEN Append([k \in 0..Len(<<>>) |-> <<>>][n - 1], <<>>[n]) ELSE [k \in 0..Len(<<>>) |-> <<>>][n - 1]]
    BY <2>2
  <2>4. IsOf([n \in 0..Len(<<>>) |-> <<>>], ctx, <<>>)
    BY <2>3 DEF IsOf
  <2>5. \E f : IsOf(f, ctx, Upto(0))
    BY <2>1, <2>4
  <2>6. 0 \in 0..Len(text)
    BY <1>1
  <2> HIDE DEF Upto
  <2> QED
    BY <2>5, <2>6
<1>3. ASSUME NEW m \in 0..Len(text), m < Len(text), m \in G PROVE m + 1 \in G
  <2>1. PICK s \in Seq(S), e \in S : s = Upto(m) /\ e = text[m + 1] /\ Upto(m + 1) = Append(s, e)
    BY <1>3, PrefixGrows
  <2>2. PICK f : IsOf(f, ctx, s)
    BY <1>3, <2>1
  <2>10. PICK t \in Seq(S), k \in Nat : OneMore(t, k, s, e)
    BY OneCharacter
  <2>3. t = Append(s, e) /\ k = Len(s) /\ Len(t) = k + 1 /\ t[k + 1] = e /\ \A i \in 1..k : t[i] = s[i]
    BY <2>10 DEF OneMore
  <2>4. /\ f[0] = <<>>
        /\ \A n \in 0..k : n < k =>
             f[n + 1] = IF s[n + 1][1] = ctx THEN Append(f[n], s[n + 1]) ELSE f[n]
    BY <2>2, <2>3, OfSteps
  <2> DEFINE g == [n \in 0..(k + 1) |->
                    IF n = k + 1 THEN IF e[1] = ctx THEN Append(f[k], e) ELSE f[k] ELSE f[n]]
  <2>5. ASSUME NEW n \in 0..(k + 1)
        PROVE  g[n] = IF n = 0 THEN <<>> ELSE IF t[n][1] = ctx THEN Append(g[n - 1], t[n]) ELSE g[n - 1]
    <3>1. CASE n = 0
      BY <2>4, <3>1
    <3>2. CASE n = k + 1
      <4>1. n - 1 = k /\ k \in 0..(k + 1) /\ k # k + 1 /\ n # 0
        BY <3>2
      <4>2. g[k] = f[k] /\ t[n] = e
        BY <2>3, <3>2, <4>1
      <4>3. g[n] = IF e[1] = ctx THEN Append(f[k], e) ELSE f[k]
        BY <3>2
      <4> QED
        BY <4>1, <4>2, <4>3
    <3>3. CASE n # 0 /\ n # k + 1
      <4>1. PICK p \in 0..k : p = n - 1 /\ p < k /\ p + 1 = n
        BY <3>3
      <4>2. g[n] = f[n] /\ g[p] = f[p]
        BY <3>3, <4>1
      <4>3. n \in 1..k
        BY <3>3
      <4>4. t[n] = s[n]
        BY <2>3, <4>3
      <4>5. f[n] = IF s[n][1] = ctx THEN Append(f[p], s[n]) ELSE f[p]
        BY <2>4, <4>1
      <4> QED
        BY <3>3, <4>1, <4>2, <4>4, <4>5
    <3> QED
      BY <3>1, <3>2, <3>3
  <2>6. g = [n \in 0..(k + 1) |-> g[n]]
    OBVIOUS
  <2> HIDE DEF g
  <2>7. g = [n \in 0..(k + 1) |->
          IF n = 0 THEN <<>> ELSE IF t[n][1] = ctx THEN Append(g[n - 1], t[n]) ELSE g[n - 1]]
    BY <2>5, <2>6
  <2>8. IsOf(g, ctx, t)
    BY <2>3, <2>7 DEF IsOf
  <2>9. m + 1 \in 0..Len(text)
    BY <1>1, <1>3
  <2> QED
    BY <2>1, <2>3, <2>8, <2>9
<1>4. Len(text) \in G
  <2> HIDE DEF G
  <2> QED
    BY <1>1, <1>2, <1>3, CountUp
<1>5. Upto(Len(text)) = text
  BY PrefixEnds
<1> QED
  BY <1>4, <1>5

LEMMA OfIs ==
  ASSUME NEW S, NEW text \in Seq(S), NEW ctx
  PROVE  \E f : IsOf(f, ctx, text) /\ CnOf(ctx, text) = f[Len(text)]
<1> DEFINE f == CHOOSE g : IsOf(g, ctx, text)
<1>1. IsOf(f, ctx, text)
  BY OfExists
<1>2. CnOf(ctx, text) = f[Len(text)]
  BY DEF CnOf, IsOf
<1> QED
  BY <1>1, <1>2

LEMMA OfAppend ==
  ASSUME NEW S, NEW text \in Seq(S), NEW e \in S, NEW ctx
  PROVE  CnOf(ctx, Append(text, e)) = IF e[1] = ctx THEN Append(CnOf(ctx, text), e) ELSE CnOf(ctx, text)
<1>8. PICK t \in Seq(S), k \in Nat : OneMore(t, k, text, e)
  BY OneCharacter
<1>1. /\ t = Append(text, e) /\ k = Len(text) /\ Len(t) = k + 1 /\ t[k + 1] = e
      /\ \A i \in 1..k : t[i] = text[i]
  BY <1>8 DEF OneMore
<1>2. PICK f : IsOf(f, ctx, text) /\ CnOf(ctx, text) = f[k]
  BY <1>1, OfIs
<1>3. PICK g : IsOf(g, ctx, t) /\ CnOf(ctx, t) = g[k + 1]
  BY <1>1, OfIs
<1>4. Len(text) <= Len(t)
  BY <1>1
<1>5. \A n \in 0..Len(text) : f[n] = g[n]
  <2>1. IsOf(f, ctx, text) /\ IsOf(g, ctx, t)
    BY <1>2, <1>3
  <2>2. Begins(text, t)
    BY <1>1, <1>4 DEF Begins
  <2> QED
    BY <2>1, <2>2, OfSame
<1>6. f[k] = g[k] /\ k \in 0..Len(t) /\ k < Len(t)
  BY <1>1, <1>5
<1>7. g[k + 1] = IF t[k + 1][1] = ctx THEN Append(g[k], t[k + 1]) ELSE g[k]
  BY <1>3, <1>6, OfSteps
<1> QED
  BY <1>1, <1>2, <1>3, <1>6, <1>7

LEMMA OfEmpty == ASSUME NEW ctx PROVE CnOf(ctx, <<>>) = <<>>
<1>1. <<>> \in Seq({}) /\ Len(<<>>) = 0
  OBVIOUS
<1>2. PICK f : IsOf(f, ctx, <<>>) /\ CnOf(ctx, <<>>) = f[0]
  BY <1>1, OfIs
<1> QED
  BY <1>1, <1>2, OfSteps

(* One write after another: a text of the context adds to it, another's adds nothing. *)
LEMMA OfConcat ==
  ASSUME NEW S, NEW s \in Seq(S), NEW t \in Seq(S), NEW ctx
  PROVE  /\ CnOf(ctx, s) \in Seq(S)
         /\ (\A i \in 1..Len(t) : t[i][1] = ctx) => CnOf(ctx, s \o t) = CnOf(ctx, s) \o t
         /\ (\A i \in 1..Len(t) : t[i][1] # ctx) => CnOf(ctx, s \o t) = CnOf(ctx, s)
<1>1. Len(t) \in Nat /\ Len(s) \in Nat
  OBVIOUS
<1>2. ASSUME NEW r \in Seq(S) PROVE CnOf(ctx, r) \in Seq(S)
  <2>1. PICK f : IsOf(f, ctx, r) /\ CnOf(ctx, r) = f[Len(r)]
    BY OfIs
  <2>2. /\ f[0] = <<>>
        /\ \A n \in 0..Len(r) : n < Len(r) =>
             f[n + 1] = IF r[n + 1][1] = ctx THEN Append(f[n], r[n + 1]) ELSE f[n]
    BY <2>1, OfSteps
  <2> DEFINE G == {n \in 0..Len(r) : f[n] \in Seq(S)}
  <2>3. Len(r) \in Nat
    OBVIOUS
  <2>4. 0 \in G
    <3>1. <<>> \in Seq(S) /\ 0 \in 0..Len(r)
      BY <2>3
    <3> QED
      BY <2>2, <3>1
  <2>5. ASSUME NEW n \in 0..Len(r), n < Len(r), n \in G PROVE n + 1 \in G
    <3>1. n + 1 \in 1..Len(r) /\ n + 1 \in 0..Len(r)
      BY <2>3, <2>5
    <3>2. PICK e \in S : e = r[n + 1]
      BY <3>1, ElementOfSeq
    <3>3. PICK q \in Seq(S) : q = f[n]
      BY <2>5
    <3>4. Append(q, e) \in Seq(S)
      BY AppendProperties
    <3>5. f[n + 1] = IF e[1] = ctx THEN Append(q, e) ELSE q
      BY <2>2, <2>5, <3>2, <3>3
    <3> QED
      BY <3>1, <3>4, <3>5
  <2>6. Len(r) \in G
    <3> HIDE DEF G
    <3> QED
      BY <2>3, <2>4, <2>5, CountUp
  <2> QED
    BY <2>1, <2>6
<1> DEFINE Upto(n) == SubSeq(t, 1, n)
<1>3. Upto(0) = <<>> /\ Upto(Len(t)) = t
  BY PrefixEnds
<1>4. ASSUME NEW n \in 0..Len(t), n < Len(t)
      PROVE  /\ Upto(n) \in Seq(S) /\ t[n + 1] \in S /\ Upto(n + 1) = Append(Upto(n), t[n + 1])
             /\ CnOf(ctx, s \o Upto(n + 1)) = IF t[n + 1][1] = ctx THEN Append(CnOf(ctx, s \o Upto(n)), t[n + 1])
                                              ELSE CnOf(ctx, s \o Upto(n))
  <2>1. PICK q \in Seq(S), e \in S : q = Upto(n) /\ e = t[n + 1] /\ Upto(n + 1) = Append(q, e)
    BY <1>4, PrefixGrows
  <2>2. s \o Append(q, e) = Append(s \o q, e) /\ s \o q \in Seq(S)
    BY ConcatAppend, ConcatProperties
  <2>3. CnOf(ctx, Append(s \o q, e)) = IF e[1] = ctx THEN Append(CnOf(ctx, s \o q), e) ELSE CnOf(ctx, s \o q)
    BY <2>2, OfAppend
  <2> QED
    BY <2>1, <2>2, <2>3
<1> HIDE DEF Upto
<1>5. s \o <<>> = s /\ CnOf(ctx, s) \o <<>> = CnOf(ctx, s) /\ 0 \in 0..Len(t)
  BY <1>1, <1>2, ConcatEmptySeq
<1>8. /\ CnOf(ctx, s \o Upto(0)) = CnOf(ctx, s) \o Upto(0)
      /\ CnOf(ctx, s \o Upto(0)) = CnOf(ctx, s)
  BY <1>3, <1>5
<1>6. ASSUME \A i \in 1..Len(t) : t[i][1] = ctx PROVE CnOf(ctx, s \o t) = CnOf(ctx, s) \o t
  <2> DEFINE G == {n \in 0..Len(t) : CnOf(ctx, s \o Upto(n)) = CnOf(ctx, s) \o Upto(n)}
  <2>1. 0 \in G
    BY <1>5, <1>8
  <2>2. ASSUME NEW n \in 0..Len(t), n < Len(t), n \in G PROVE n + 1 \in G
    <3>1. n + 1 \in 1..Len(t) /\ n + 1 \in 0..Len(t)
      BY <1>1, <2>2
    <3>2. PICK q \in Seq(S), e \in S, o \in Seq(S) : q = Upto(n) /\ e = t[n + 1] /\ o = CnOf(ctx, s)
      BY <1>2, <1>4, <2>2
    <3>3. CnOf(ctx, s \o Upto(n + 1)) = Append(CnOf(ctx, s \o q), e) /\ Upto(n + 1) = Append(q, e)
      BY <1>4, <1>6, <2>2, <3>1, <3>2
    <3>4. CnOf(ctx, s \o q) = o \o q
      BY <2>2, <3>2
    <3>5. o \o Append(q, e) = Append(o \o q, e)
      BY ConcatAppend
    <3> QED
      BY <3>1, <3>2, <3>3, <3>4, <3>5
  <2>3. Len(t) \in G
    <3> HIDE DEF G
    <3> QED
      BY <1>1, <2>1, <2>2, CountUp
  <2> QED
    BY <1>3, <2>3
<1>7. ASSUME \A i \in 1..Len(t) : t[i][1] # ctx PROVE CnOf(ctx, s \o t) = CnOf(ctx, s)
  <2> DEFINE G == {n \in 0..Len(t) : CnOf(ctx, s \o Upto(n)) = CnOf(ctx, s)}
  <2>1. 0 \in G
    BY <1>5, <1>8
  <2>2. ASSUME NEW n \in 0..Len(t), n < Len(t), n \in G PROVE n + 1 \in G
    <3>1. n + 1 \in 1..Len(t) /\ n + 1 \in 0..Len(t)
      BY <1>1, <2>2
    <3>2. CnOf(ctx, s \o Upto(n + 1)) = CnOf(ctx, s \o Upto(n))
      BY <1>4, <1>7, <2>2, <3>1
    <3> QED
      BY <2>2, <3>1, <3>2
  <2>3. Len(t) \in G
    <3> HIDE DEF G
    <3> QED
      BY <1>1, <2>1, <2>2, CountUp
  <2> QED
    BY <1>3, <2>3
<1> QED
  BY <1>2, <1>6, <1>7

(* What FlattenSeq makes of the first n texts, for every n. *)
IsFlat(f, seqs) == f = [i \in 1..Len(seqs) |-> IF i = 1 THEN seqs[i] ELSE f[i - 1] \o seqs[i]]

LEMMA FlatSteps ==
  ASSUME NEW T, NEW seqs \in Seq(T), NEW f, IsFlat(f, seqs)
  PROVE  /\ seqs # <<>> => f[1] = seqs[1]
         /\ \A n \in 1..Len(seqs) : n < Len(seqs) => f[n + 1] = f[n] \o seqs[n + 1]
<1>1. f = [i \in 1..Len(seqs) |-> IF i = 1 THEN seqs[i] ELSE f[i - 1] \o seqs[i]]
  BY DEF IsFlat
<1>2. Len(seqs) \in Nat
  OBVIOUS
<1>3. ASSUME seqs # <<>> PROVE f[1] = seqs[1]
  <2>1. 1 \in 1..Len(seqs)
    BY <1>3, EmptySeq
  <2> QED
    BY <1>1, <2>1
<1>4. ASSUME NEW n \in 1..Len(seqs), n < Len(seqs) PROVE f[n + 1] = f[n] \o seqs[n + 1]
  <2>1. PICK m \in 1..Len(seqs) : m = n + 1 /\ m # 1 /\ m - 1 = n
    BY <1>2, <1>4
  <2>2. f[m] = f[m - 1] \o seqs[m]
    BY <1>1, <2>1
  <2> QED
    BY <2>1, <2>2
<1> QED
  BY <1>3, <1>4

LEMMA FlatSame ==
  ASSUME NEW T, NEW a \in Seq(T), NEW b \in Seq(T), NEW f, NEW g,
         IsFlat(f, a), IsFlat(g, b), Begins(a, b)
  PROVE  \A n \in 1..Len(a) : f[n] = g[n]
<1>1. Len(a) \in Nat /\ Len(b) \in Nat /\ Len(a) <= Len(b) /\ \A i \in 1..Len(a) : a[i] = b[i]
  BY DEF Begins
<1> SUFFICES ASSUME NEW m \in 1..Len(a) PROVE f[m] = g[m]
  OBVIOUS
<1>2. a # <<>> /\ b # <<>> /\ 1 \in 1..Len(a)
  BY <1>1, EmptySeq
<1>4. /\ a # <<>> => f[1] = a[1]
      /\ \A n \in 1..Len(a) : n < Len(a) => f[n + 1] = f[n] \o a[n + 1]
  BY FlatSteps
<1>5. /\ b # <<>> => g[1] = b[1]
      /\ \A n \in 1..Len(b) : n < Len(b) => g[n + 1] = g[n] \o b[n + 1]
  BY FlatSteps
<1>3. f[1] = g[1]
  BY <1>1, <1>2, <1>4, <1>5
<1> DEFINE G == {n \in 0..m : n # 0 => f[n] = g[n]}
<1>6. 0 \in G
  BY <1>1
<1>7. ASSUME NEW n \in 0..m, n < m, n \in G PROVE n + 1 \in G
  <2>1. n + 1 \in 0..m
    BY <1>1, <1>7
  <2>2. CASE n = 0
    <3>1. n + 1 = 1
      BY <2>2
    <3> QED
      BY <1>3, <2>1, <3>1
  <2>3. CASE n # 0
    <3>1. n \in 1..Len(a) /\ n < Len(a) /\ n \in 1..Len(b) /\ n < Len(b) /\ n + 1 \in 1..Len(a)
      BY <1>1, <1>7, <2>3
    <3>2. f[n] = g[n] /\ a[n + 1] = b[n + 1]
      BY <1>1, <1>7, <2>3, <3>1
    <3>3. f[n + 1] = g[n + 1]
      BY <1>4, <1>5, <3>1, <3>2
    <3> QED
      BY <2>1, <3>3
  <2> QED
    BY <2>2, <2>3
<1>8. m \in G /\ m # 0
  <2> HIDE DEF G
  <2>1. m \in Nat /\ m # 0
    OBVIOUS
  <2> QED
    BY <1>6, <1>7, <2>1, CountUp
<1> QED
  BY <1>8

LEMMA FlatExists ==
  ASSUME NEW T, NEW seqs \in Seq(T)
  PROVE  \E f : IsFlat(f, seqs)
<1>1. Len(seqs) \in Nat
  OBVIOUS
<1> DEFINE Upto(m) == SubSeq(seqs, 1, m)
           G == {m \in 0..Len(seqs) : \E f : IsFlat(f, Upto(m))}
<1>2. 0 \in G
  <2>1. Upto(0) = <<>>
    BY PrefixEnds
  <2>2. Len(<<>>) = 0 /\ 1..0 = {}
    OBVIOUS
  <2> DEFINE e == [i \in {} |-> i]
  <2>3. e = [i \in {} |-> IF i = 1 THEN <<>>[i] ELSE e[i - 1] \o <<>>[i]]
    OBVIOUS
  <2> HIDE DEF e
  <2>4. IsFlat(e, <<>>)
    BY <2>2, <2>3 DEF IsFlat
  <2>5. \E f : IsFlat(f, Upto(0))
    BY <2>1, <2>4
  <2>6. 0 \in 0..Len(seqs)
    BY <1>1
  <2> HIDE DEF Upto
  <2> QED
    BY <2>5, <2>6
<1>3. ASSUME NEW m \in 0..Len(seqs), m < Len(seqs), m \in G PROVE m + 1 \in G
  <2>1. PICK s \in Seq(T), x \in T : s = Upto(m) /\ x = seqs[m + 1] /\ Upto(m + 1) = Append(s, x)
    BY <1>3, PrefixGrows
  <2>2. PICK f : IsFlat(f, s)
    BY <1>3, <2>1
  <2>3. PICK t \in Seq(T), k \in Nat : OneMore(t, k, s, x)
    BY OneCharacter
  <2>4. t = Append(s, x) /\ k = Len(s) /\ Len(t) = k + 1 /\ t[k + 1] = x /\ \A i \in 1..k : t[i] = s[i]
    BY <2>3 DEF OneMore
  <2>5. (k # 0 => f[1] = s[1]) /\ \A n \in 1..k : n < k => f[n + 1] = f[n] \o s[n + 1]
    <3>1. k # 0 => s # <<>>
      BY <2>4
    <3>2. /\ s # <<>> => f[1] = s[1]
          /\ \A n \in 1..Len(s) : n < Len(s) => f[n + 1] = f[n] \o s[n + 1]
      BY <2>2, FlatSteps
    <3> QED
      BY <2>4, <3>1, <3>2
  <2> DEFINE g == [n \in 1..(k + 1) |-> IF n = k + 1 THEN IF k = 0 THEN x ELSE f[k] \o x ELSE f[n]]
  <2>6. ASSUME NEW n \in 1..(k + 1)
        PROVE  g[n] = IF n = 1 THEN t[n] ELSE g[n - 1] \o t[n]
    <3>1. CASE n = k + 1
      <4>1. t[n] = x /\ g[n] = IF k = 0 THEN x ELSE f[k] \o x
        BY <2>4, <3>1
      <4>2. CASE k = 0
        BY <3>1, <4>1, <4>2
      <4>3. CASE k # 0
        <5>1. n # 1 /\ n - 1 = k /\ k \in 1..(k + 1) /\ k # k + 1
          BY <3>1, <4>3
        <5>2. g[k] = f[k]
          BY <5>1
        <5> QED
          BY <4>1, <4>3, <5>1, <5>2
      <4> QED
        BY <4>2, <4>3
    <3>2. CASE n # k + 1
      <4>1. n \in 1..k /\ k # 0 /\ g[n] = f[n]
        BY <3>2
      <4>2. t[n] = s[n]
        BY <2>4, <4>1
      <4>3. CASE n = 1
        BY <2>5, <4>1, <4>2, <4>3
      <4>4. CASE n # 1
        <5>1. PICK p \in 1..k : p = n - 1 /\ p < k /\ p + 1 = n /\ p \in 1..(k + 1) /\ p # k + 1
          BY <4>1, <4>4
        <5>2. g[p] = f[p] /\ f[n] = f[p] \o s[n]
          BY <2>5, <5>1
        <5> QED
          BY <4>1, <4>2, <4>4, <5>1, <5>2
      <4> QED
        BY <4>3, <4>4
    <3> QED
      BY <3>1, <3>2
  <2>7. g = [n \in 1..(k + 1) |-> g[n]]
    OBVIOUS
  <2> HIDE DEF g
  <2>8. g = [n \in 1..(k + 1) |-> IF n = 1 THEN t[n] ELSE g[n - 1] \o t[n]]
    BY <2>6, <2>7
  <2>9. IsFlat(g, t)
    BY <2>4, <2>8 DEF IsFlat
  <2>10. m + 1 \in 0..Len(seqs)
    BY <1>1, <1>3
  <2> QED
    BY <2>1, <2>4, <2>9, <2>10
<1>4. Len(seqs) \in G
  <2> HIDE DEF G
  <2> QED
    BY <1>1, <1>2, <1>3, CountUp
<1>5. Upto(Len(seqs)) = seqs
  BY PrefixEnds
<1> QED
  BY <1>4, <1>5

LEMMA FlatIs ==
  ASSUME NEW T, NEW seqs \in Seq(T), seqs # <<>>
  PROVE  \E f : IsFlat(f, seqs) /\ FlattenSeq(seqs) = f[Len(seqs)]
<1> DEFINE f == CHOOSE g : IsFlat(g, seqs)
<1>1. IsFlat(f, seqs)
  BY FlatExists
<1>2. Len(seqs) # 0
  BY EmptySeq
<1>3. FlattenSeq(seqs) = f[Len(seqs)]
  BY <1>2 DEF FlattenSeq, IsFlat
<1> QED
  BY <1>1, <1>3

LEMMA FlatEmpty == FlattenSeq(<<>>) = <<>>
<1>1. Len(<<>>) = 0
  OBVIOUS
<1> QED
  BY <1>1 DEF FlattenSeq

LEMMA FlatAppend ==
  ASSUME NEW S, NEW seqs \in Seq(Seq(S)), NEW x \in Seq(S)
  PROVE  FlattenSeq(Append(seqs, x)) = FlattenSeq(seqs) \o x
<1>1. PICK T : T = Seq(S)
  OBVIOUS
<1>2. seqs \in Seq(T) /\ x \in T
  BY <1>1
<1>3. PICK t \in Seq(T), k \in Nat : OneMore(t, k, seqs, x)
  BY <1>2, OneCharacter
<1>4. t = Append(seqs, x) /\ k = Len(seqs) /\ Len(t) = k + 1 /\ t[k + 1] = x /\ \A i \in 1..k : seqs[i] = t[i]
  BY <1>3 DEF OneMore
<1>5. t # <<>>
  BY <1>4, EmptySeq
<1>6. PICK g : IsFlat(g, t) /\ FlattenSeq(t) = g[k + 1]
  BY <1>4, <1>5, FlatIs
<1>7. /\ g[1] = t[1]
      /\ \A n \in 1..Len(t) : n < Len(t) => g[n + 1] = g[n] \o t[n + 1]
  BY <1>5, <1>6, FlatSteps
<1>8. CASE seqs = <<>>
  <2>1. k = 0
    BY <1>4, <1>8
  <2>2. FlattenSeq(t) = x
    BY <1>4, <1>6, <1>7, <2>1
  <2>3. FlattenSeq(seqs) \o x = x
    BY <1>8, FlatEmpty, ConcatEmptySeq
  <2> QED
    BY <1>4, <2>2, <2>3
<1>9. CASE seqs # <<>>
  <2>1. PICK f : IsFlat(f, seqs) /\ FlattenSeq(seqs) = f[k]
    BY <1>2, <1>4, <1>9, FlatIs
  <2>2. k # 0 /\ k \in 1..Len(seqs) /\ k \in 1..Len(t) /\ k < Len(t)
    BY <1>2, <1>4, <1>9, EmptySeq
  <2>3. f[k] = g[k]
    <3>1. IsFlat(f, seqs) /\ IsFlat(g, t)
      BY <1>6, <2>1
    <3>2. Begins(seqs, t)
      BY <1>4 DEF Begins
    <3>3. \A n \in 1..Len(seqs) : f[n] = g[n]
      BY <1>2, <3>1, <3>2, FlatSame
    <3> QED
      BY <2>2, <3>3
  <2>4. g[k + 1] = g[k] \o x
    BY <1>4, <1>7, <2>2
  <2> QED
    BY <1>4, <1>6, <2>1, <2>3, <2>4
<1> QED
  BY <1>8, <1>9

LEMMA FlatType ==
  ASSUME NEW S, NEW seqs \in Seq(Seq(S))
  PROVE  FlattenSeq(seqs) \in Seq(S)
<1>1. PICK T : T = Seq(S)
  OBVIOUS
<1>2. seqs \in Seq(T) /\ Len(seqs) \in Nat
  BY <1>1
<1> DEFINE Upto(m) == SubSeq(seqs, 1, m)
           G == {m \in 0..Len(seqs) : FlattenSeq(Upto(m)) \in Seq(S)}
<1>3. Upto(0) = <<>> /\ Upto(Len(seqs)) = seqs
  BY <1>2, PrefixEnds
<1>4. 0 \in G
  <2>1. <<>> \in Seq(S) /\ 0 \in 0..Len(seqs)
    BY <1>2
  <2> QED
    BY <1>3, <2>1, FlatEmpty
<1>5. ASSUME NEW m \in 0..Len(seqs), m < Len(seqs), m \in G PROVE m + 1 \in G
  <2>1. PICK s \in Seq(T), x \in T : s = Upto(m) /\ x = seqs[m + 1] /\ Upto(m + 1) = Append(s, x)
    BY <1>2, <1>5, PrefixGrows
  <2>2. FlattenSeq(Append(s, x)) = FlattenSeq(s) \o x
    BY <1>1, FlatAppend
  <2>3. FlattenSeq(s) \in Seq(S) /\ x \in Seq(S)
    BY <1>1, <1>5, <2>1
  <2>4. FlattenSeq(s) \o x \in Seq(S)
    BY <2>3, ConcatProperties
  <2>5. m + 1 \in 0..Len(seqs)
    BY <1>2, <1>5
  <2> QED
    BY <2>1, <2>2, <2>4, <2>5
<1>6. Len(seqs) \in G
  <2> HIDE DEF G
  <2> QED
    BY <1>2, <1>4, <1>5, CountUp
<1> QED
  BY <1>3, <1>6

(* The line up to its last newline, and the rest, are the line. *)
LEMMA WholeSplits ==
  ASSUME NEW S, NEW line \in Seq(S)
  PROVE  /\ CnWhole(line) \in 0..Len(line)
         /\ SubSeq(line, 1, CnWhole(line)) \in Seq(S)
         /\ SubSeq(line, CnWhole(line) + 1, Len(line)) \in Seq(S)
         /\ SubSeq(line, 1, CnWhole(line)) \o SubSeq(line, CnWhole(line) + 1, Len(line)) = line
<1>1. Len(line) \in Nat /\ DOMAIN line = 1..Len(line) /\ \A i \in 1..Len(line) : line[i] \in S
  OBVIOUS
<1> DEFINE ends == {i \in DOMAIN line : CnNewline(line[i])}
<1>2. CnWhole(line) = IF ends = {} THEN 0 ELSE CHOOSE i \in ends : \A j \in ends : j <= i
  BY DEF CnWhole
<1>3. ends \subseteq 1..Len(line)
  BY <1>1
<1> HIDE DEF ends
<1>4. CnWhole(line) \in 0..Len(line)
  <2>1. CASE ends = {}
    BY <1>1, <1>2, <2>1
  <2>2. CASE ends # {}
    <3> DEFINE left == {Len(line) - i : i \in ends}
    <3>6. \A i \in ends : Len(line) - i \in Nat
      BY <1>1, <1>3
    <3>1. left \in SUBSET Nat /\ left # {}
      BY <2>2, <3>6
    <3>2. PICK n \in left : \A m \in left : n <= m
      BY <3>1, LeastNumber
    <3>3. PICK i \in ends : n = Len(line) - i
      BY <3>2
    <3>4. ASSUME NEW j \in ends PROVE j <= i
      <4>1. Len(line) - i <= Len(line) - j
        BY <3>2, <3>3
      <4>2. i \in Nat /\ j \in Nat
        BY <1>1, <1>3
      <4> QED
        BY <1>1, <4>1, <4>2
    <3>7. \E e \in ends : \A j \in ends : j <= e
      BY <3>4
    <3>8. (CHOOSE e \in ends : \A j \in ends : j <= e) \in ends
      BY <3>7
    <3>5. CnWhole(line) \in ends
      BY <1>2, <2>2, <3>8
    <3>9. CnWhole(line) \in 1..Len(line)
      BY <1>3, <3>5
    <3> HIDE DEF left
    <3> QED
      BY <1>1, <3>9
  <2> QED
    BY <2>1, <2>2
<1>5. PICK w \in 0..Len(line) : w = CnWhole(line)
  BY <1>4
<1>6. /\ 1 \in 1..(Len(line) + 1) /\ w \in (1 - 1)..Len(line) /\ Len(line) \in w..Len(line)
      /\ 1 \in Int /\ w \in Int /\ w + 1 \in Int /\ Len(line) \in Int
  BY <1>1
<1>7. SubSeq(line, 1, w) \o SubSeq(line, w + 1, Len(line)) = SubSeq(line, 1, Len(line))
  BY <1>6, ConcatAdjacentSubSeq
<1>8. SubSeq(line, 1, w) \in Seq(S)
  <2>1. \A i \in 1..w : line[i] \in S
    BY <1>1
  <2> QED
    BY <1>6, <2>1, SubSeqProperties
<1>9. SubSeq(line, w + 1, Len(line)) \in Seq(S)
  <2>1. \A i \in (w + 1)..Len(line) : line[i] \in S
    BY <1>1
  <2> QED
    BY <1>6, <2>1, SubSeqProperties
<1>10. SubSeq(line, 1, Len(line)) = line
  BY SubSeqFull
<1> QED
  BY <1>5, <1>7, <1>8, <1>9, <1>10

-----------------------------------------------------------------------------
(* The console: who runs, whose lines wait, and what the screen shows *)

CnChars == CnContexts \X CnCharacters
OfContext(text, ctx) == \A i \in 1..Len(text) : text[i][1] = ctx

Runs(stack, th, ctx) == \E i \in 1..Len(stack[th]) : stack[th][i] = ctx

(* A context runs in one place of one stack; the main program on its thread. *)
CnStacksOK(stack, task) ==
  /\ stack \in [CnThreads -> Seq(CnContexts)]
  /\ task \in [CnTasks -> {"new", "ready", "running", "done"}]
  /\ \A th \in CnThreads : \A i \in 1..Len(stack[th]) :
       /\ stack[th][i] \in CnTasks => task[stack[th][i]] = "running"
       /\ stack[th][i] = "main" => th = CnMain
  /\ \A th, u \in CnThreads : \A i \in 1..Len(stack[th]) : \A j \in 1..Len(stack[u]) :
       stack[th][i] = stack[u][j] => th = u /\ i = j

CnLineType == [CnThreads -> [CnContexts -> Seq(CnChars)]]

(* A thread keeps unfinished lines only of the contexts on its stack. *)
CnLinesOK(stack, line) ==
  /\ line \in CnLineType
  /\ \A th \in CnThreads : \A ctx \in CnContexts :
       /\ OfContext(line[th][ctx], ctx)
       /\ line[th][ctx] # <<>> => Runs(stack, th, ctx)

KeptBy(line, th, ctx) == \A u \in CnThreads : u # th => line[u][ctx] = <<>>

CnScreenTypes(screen, said) ==
  /\ screen \in Seq(Seq(CnChars)) /\ said \in [CnContexts -> Seq(Seq(CnChars))]
  /\ \A i \in 1..Len(screen) : screen[i] # <<>> /\ \E ctx \in CnContexts : OfContext(screen[i], ctx)

(* What a context printed is what the screen shows of it, then its line. *)
CnScreenOK(screen, said, line) ==
  /\ CnScreenTypes(screen, said)
  /\ \A th \in CnThreads : \A ctx \in CnContexts : KeptBy(line, th, ctx) =>
       CnOf(ctx, FlattenSeq(screen)) \o line[th][ctx] = FlattenSeq(said[ctx])

CnLinesEmpty(line) == \A th \in CnThreads : \A ctx \in CnContexts : line[th][ctx] = <<>>

CnInv ==
  /\ CnStacksOK(cnStack, cnTask)
  /\ CnLinesOK(cnStack, cnLine)
  /\ CnScreenOK(cnScreen, cnSaid, cnLine)
  /\ cnExit = "normal" => CnLinesEmpty(cnLine)

LEMMA RunsOnce ==
  ASSUME NEW stack, NEW task, CnStacksOK(stack, task), NEW th \in CnThreads, NEW u \in CnThreads,
         NEW ctx, Runs(stack, th, ctx), Runs(stack, u, ctx)
  PROVE  th = u
<1>1. PICK i \in 1..Len(stack[th]) : stack[th][i] = ctx
  BY DEF Runs
<1>2. PICK j \in 1..Len(stack[u]) : stack[u][j] = ctx
  BY DEF Runs
<1> QED
  BY <1>1, <1>2 DEF CnStacksOK

LEMMA KeptWhereRun ==
  ASSUME NEW stack, NEW task, NEW line, CnStacksOK(stack, task), CnLinesOK(stack, line),
         NEW th \in CnThreads, NEW ctx \in CnContexts, Runs(stack, th, ctx)
  PROVE  KeptBy(line, th, ctx)
<1> SUFFICES ASSUME NEW u \in CnThreads, u # th, line[u][ctx] # <<>> PROVE FALSE
  BY DEF KeptBy
<1>1. Runs(stack, u, ctx)
  BY DEF CnLinesOK
<1> QED
  BY <1>1, RunsOnce

LineSet(line2, line, th, ctx, rest) ==
  /\ line2 \in CnLineType /\ line2[th][ctx] = rest
  /\ \A u \in CnThreads : \A c \in CnContexts : u # th \/ c # ctx => line2[u][c] = line[u][c]

LEMMA LineSetIs ==
  ASSUME NEW line \in CnLineType, NEW th \in CnThreads, NEW ctx \in CnContexts, NEW rest \in Seq(CnChars)
  PROVE  LineSet([line EXCEPT ![th][ctx] = rest], line, th, ctx, rest)
BY DEF LineSet, CnLineType

LEMMA LineSame ==
  ASSUME NEW line \in CnLineType, NEW th, NEW ctx, line[th][ctx] = <<>>
  PROVE  LineSet(line, line, th, ctx, <<>>)
BY DEF LineSet

LineEmptied(line2, line, th, ctx) == line2 = [line EXCEPT ![th][ctx] = <<>>]
StackPushed(stack2, stack, th, k) == stack2 = [stack EXCEPT ![th] = Append(@, k)]
StackPopped(stack2, stack, th) == stack2 = [stack EXCEPT ![th] = Front(@)]
TaskRuns(task2, task, k) == task2 = [task EXCEPT ![k] = "running"]
TasksButOne(task2, task, ctx) ==
  /\ task2 \in [CnTasks -> {"new", "ready", "running", "done"}]
  /\ \A k \in CnTasks : k # ctx => task2[k] = task[k]

ScreenAdd(screen2, screen, out) == screen2 = IF out = <<>> THEN screen ELSE Append(screen, out)
SaidAdd(said2, said, ctx, add) ==
  /\ said2 \in [CnContexts -> Seq(Seq(CnChars))]
  /\ FlattenSeq(said2[ctx]) = FlattenSeq(said[ctx]) \o add
  /\ \A c \in CnContexts : c # ctx => said2[c] = said[c]

LEMMA ContextOfParts ==
  ASSUME NEW a \in Seq(CnChars), NEW b \in Seq(CnChars), NEW ctx
  PROVE  OfContext(a \o b, ctx) <=> OfContext(a, ctx) /\ OfContext(b, ctx)
<1>1. /\ Len(a) \in Nat /\ Len(b) \in Nat /\ Len(a \o b) = Len(a) + Len(b)
      /\ \A i \in 1..(Len(a) + Len(b)) : (a \o b)[i] = IF i <= Len(a) THEN a[i] ELSE b[i - Len(a)]
  BY ConcatProperties
<1>2. ASSUME OfContext(a \o b, ctx) PROVE OfContext(a, ctx)
  <2> SUFFICES ASSUME NEW i \in 1..Len(a) PROVE a[i][1] = ctx
    BY DEF OfContext
  <2>1. i \in 1..(Len(a) + Len(b)) /\ i <= Len(a)
    BY <1>1
  <2>2. (a \o b)[i] = a[i]
    BY <1>1, <2>1
  <2> QED
    BY <1>1, <1>2, <2>1, <2>2 DEF OfContext
<1>3. ASSUME OfContext(a \o b, ctx) PROVE OfContext(b, ctx)
  <2> SUFFICES ASSUME NEW i \in 1..Len(b) PROVE b[i][1] = ctx
    BY DEF OfContext
  <2>1. PICK j \in 1..(Len(a) + Len(b)) : j = i + Len(a) /\ ~(j <= Len(a)) /\ j - Len(a) = i
    BY <1>1
  <2>2. (a \o b)[j] = b[i]
    BY <1>1, <2>1
  <2> QED
    BY <1>1, <1>3, <2>1, <2>2 DEF OfContext
<1>4. ASSUME OfContext(a, ctx), OfContext(b, ctx) PROVE OfContext(a \o b, ctx)
  <2> SUFFICES ASSUME NEW i \in 1..(Len(a) + Len(b)) PROVE (a \o b)[i][1] = ctx
    BY <1>1 DEF OfContext
  <2>1. CASE i <= Len(a)
    <3>1. i \in 1..Len(a)
      BY <1>1, <2>1
    <3> QED
      BY <1>1, <1>4, <2>1, <3>1 DEF OfContext
  <2>2. CASE ~(i <= Len(a))
    <3>1. i - Len(a) \in 1..Len(b)
      BY <1>1, <2>2
    <3> QED
      BY <1>1, <1>4, <2>2, <3>1 DEF OfContext
  <2> QED
    BY <2>1, <2>2
<1> QED
  BY <1>2, <1>3, <1>4

LEMMA ScreenAdded ==
  ASSUME NEW screen \in Seq(Seq(CnChars)), NEW out \in Seq(CnChars), NEW screen2, ScreenAdd(screen2, screen, out)
  PROVE  /\ screen2 \in Seq(Seq(CnChars))
         /\ FlattenSeq(screen2) = FlattenSeq(screen) \o out
<1>1. CASE out = <<>>
  <2>1. FlattenSeq(screen) \in Seq(CnChars)
    BY FlatType
  <2>2. FlattenSeq(screen) \o <<>> = FlattenSeq(screen)
    BY <2>1, ConcatEmptySeq
  <2> QED
    BY <1>1, <2>2 DEF ScreenAdd
<1>2. CASE out # <<>>
  <2>1. screen2 = Append(screen, out)
    BY <1>2 DEF ScreenAdd
  <2>2. Append(screen, out) \in Seq(Seq(CnChars))
    BY AppendProperties
  <2>3. FlattenSeq(Append(screen, out)) = FlattenSeq(screen) \o out
    BY FlatAppend
  <2> QED
    BY <2>1, <2>2, <2>3
<1> QED
  BY <1>1, <1>2

TextSplit(line, add, out, rest) == line \o add = out \o rest

TextJoined(o, line, add, out, rest) == (o \o out) \o rest = (o \o line) \o add

LEMMA TextRegrouped ==
  ASSUME NEW o \in Seq(CnChars), NEW line \in Seq(CnChars), NEW add \in Seq(CnChars),
         NEW out \in Seq(CnChars), NEW rest \in Seq(CnChars), TextSplit(line, add, out, rest)
  PROVE  TextJoined(o, line, add, out, rest)
<1>1. (o \o out) \o rest = o \o (out \o rest)
  BY ConcatAssociative, SMTT(60)
<1>2. (o \o line) \o add = o \o (line \o add)
  BY ConcatAssociative, SMTT(60)
<1> QED
  BY <1>1, <1>2 DEF TextSplit, TextJoined

(* A context's text: part of it goes to the screen, the rest stays its line. *)
LEMMA TextWritten ==
  ASSUME NEW stack, NEW task, NEW line, NEW screen, NEW said,
         CnStacksOK(stack, task), CnLinesOK(stack, line), CnScreenOK(screen, said, line),
         NEW th \in CnThreads, NEW ctx \in CnContexts, Runs(stack, th, ctx),
         NEW add \in Seq(CnChars), NEW out \in Seq(CnChars), NEW rest \in Seq(CnChars),
         OfContext(add, ctx), TextSplit(line[th][ctx], add, out, rest),
         NEW line2, NEW screen2, NEW said2, LineSet(line2, line, th, ctx, rest),
         ScreenAdd(screen2, screen, out), SaidAdd(said2, said, ctx, add)
  PROVE  CnLinesOK(stack, line2) /\ CnScreenOK(screen2, said2, line2)
<1>1. PICK l \in Seq(CnChars) : l = line[th][ctx]
  BY DEF CnLinesOK, CnLineType
<1>2. OfContext(l, ctx)
  BY <1>1 DEF CnLinesOK
<1>3. OfContext(out, ctx) /\ OfContext(rest, ctx)
  <2>1. OfContext(l \o add, ctx)
    BY <1>2, ContextOfParts
  <2>2. OfContext(out \o rest, ctx)
    BY <1>1, <2>1 DEF TextSplit
  <2> QED
    BY <2>2, ContextOfParts
<1>4. CnLinesOK(stack, line2)
  <2>1. line2 \in CnLineType
    BY DEF LineSet
  <2>2. ASSUME NEW u \in CnThreads, NEW c \in CnContexts
        PROVE  OfContext(line2[u][c], c) /\ (line2[u][c] # <<>> => Runs(stack, u, c))
    <3>1. CASE u = th /\ c = ctx
      BY <1>3, <3>1 DEF LineSet
    <3>2. CASE ~(u = th /\ c = ctx)
      BY <3>2 DEF LineSet, CnLinesOK
    <3> QED
      BY <3>1, <3>2
  <2> QED
    BY <2>1, <2>2 DEF CnLinesOK
<1>5. screen \in Seq(Seq(CnChars)) /\ said \in [CnContexts -> Seq(Seq(CnChars))]
  BY DEF CnScreenOK, CnScreenTypes
<1>6. screen2 \in Seq(Seq(CnChars)) /\ FlattenSeq(screen2) = FlattenSeq(screen) \o out
  BY <1>5, ScreenAdded
<1>7. PICK all \in Seq(CnChars) : all = FlattenSeq(screen)
  BY <1>5, FlatType
<1>8. CnScreenTypes(screen2, said2)
  <2>1. said2 \in [CnContexts -> Seq(Seq(CnChars))]
    BY DEF SaidAdd
  <2>2. \A i \in 1..Len(screen) : screen[i] # <<>> /\ \E c \in CnContexts : OfContext(screen[i], c)
    BY DEF CnScreenOK, CnScreenTypes
  <2>3. \A i \in 1..Len(screen2) : screen2[i] # <<>> /\ \E c \in CnContexts : OfContext(screen2[i], c)
    <3>1. CASE out = <<>>
      BY <2>2, <3>1 DEF ScreenAdd
    <3>2. CASE out # <<>>
      <4>1. screen2 = Append(screen, out)
        BY <3>2 DEF ScreenAdd
      <4>2. PICK T : T = Seq(CnChars)
        OBVIOUS
      <4>3. screen \in Seq(T) /\ out \in T
        BY <1>5, <4>2
      <4>4. PICK t \in Seq(T), k \in Nat : OneMore(t, k, screen, out)
        BY <4>3, OneCharacter
      <4>5. /\ t = screen2 /\ k = Len(screen) /\ Len(t) = k + 1 /\ t[k + 1] = out
            /\ \A i \in 1..k : t[i] = screen[i]
        BY <4>1, <4>4 DEF OneMore
      <4>6. ASSUME NEW i \in 1..(k + 1)
            PROVE  t[i] # <<>> /\ \E c \in CnContexts : OfContext(t[i], c)
        <5>1. CASE i = k + 1
          BY <1>3, <3>2, <4>5, <5>1
        <5>2. CASE i # k + 1
          <6>1. i \in 1..k
            BY <5>2
          <6> QED
            BY <2>2, <4>5, <6>1
        <5> QED
          BY <5>1, <5>2
      <4> QED
        BY <4>5, <4>6
    <3> QED
      BY <3>1, <3>2
  <2> QED
    BY <1>6, <2>1, <2>3 DEF CnScreenTypes
<1>9. CnOf(ctx, all \o out) \o rest = FlattenSeq(said2[ctx])
  <2>1. CnOf(ctx, all \o out) = CnOf(ctx, all) \o out
    BY <1>3, OfConcat DEF OfContext
  <2>2. PICK o \in Seq(CnChars) : o = CnOf(ctx, all)
    BY OfConcat
  <2>3. KeptBy(line, th, ctx)
    BY KeptWhereRun
  <2>4. o \o l = FlattenSeq(said[ctx])
    BY <1>1, <1>7, <2>2, <2>3 DEF CnScreenOK
  <2>5. TextSplit(l, add, out, rest)
    BY <1>1
  <2>6. TextJoined(o, l, add, out, rest)
    BY <2>5, TextRegrouped
  <2>7. FlattenSeq(said2[ctx]) = FlattenSeq(said[ctx]) \o add
    BY DEF SaidAdd
  <2> QED
    BY <2>1, <2>2, <2>4, <2>6, <2>7 DEF TextJoined
<1>10. ASSUME NEW u \in CnThreads, NEW c \in CnContexts, KeptBy(line2, u, c)
       PROVE  CnOf(c, FlattenSeq(screen2)) \o line2[u][c] = FlattenSeq(said2[c])
  <2>1. CASE c = ctx
    <3>1. line2[u][c] = rest
      <4>1. CASE u = th
        BY <2>1, <4>1 DEF LineSet
      <4>2. CASE u # th
        <5>1. rest = <<>>
          BY <1>10, <2>1, <4>2 DEF KeptBy, LineSet
        <5>2. line2[u][c] = line[u][c]
          BY <4>2 DEF LineSet
        <5>3. line[u][c] = <<>>
          BY <2>1, <4>2, KeptWhereRun DEF KeptBy
        <5> QED
          BY <5>1, <5>2, <5>3
      <4> QED
        BY <4>1, <4>2
    <3> QED
      BY <1>6, <1>7, <1>9, <2>1, <3>1
  <2>2. CASE c # ctx
    <3>1. line2[u][c] = line[u][c] /\ said2[c] = said[c]
      BY <2>2 DEF LineSet, SaidAdd
    <3>2. KeptBy(line, u, c)
      BY <1>10, <2>2 DEF KeptBy, LineSet
    <3>3. CnOf(c, all) \o line[u][c] = FlattenSeq(said[c])
      BY <1>7, <3>2 DEF CnScreenOK
    <3>4. CnOf(c, all \o out) = CnOf(c, all)
      <4>1. \A i \in 1..Len(out) : out[i][1] # c
        BY <1>3, <2>2 DEF OfContext
      <4> QED
        BY <4>1, OfConcat
    <3> QED
      BY <1>6, <1>7, <3>1, <3>3, <3>4
  <2> QED
    BY <2>1, <2>2
<1> QED
  BY <1>4, <1>8, <1>10 DEF CnScreenOK

LEMMA LinesFollow ==
  ASSUME NEW stack, NEW stack2, NEW line, CnLinesOK(stack, line),
         \A u \in CnThreads : \A c \in CnContexts :
           Runs(stack, u, c) /\ line[u][c] # <<>> => Runs(stack2, u, c)
  PROVE  CnLinesOK(stack2, line)
BY DEF CnLinesOK

LEMMA CurrentRuns ==
  ASSUME NEW stack, NEW task, CnStacksOK(stack, task), NEW th \in CnThreads, stack[th] # <<>>
  PROVE  Last(stack[th]) \in CnContexts /\ Runs(stack, th, Last(stack[th]))
<1>1. PICK s \in Seq(CnContexts) : s = stack[th] /\ s # <<>>
  BY DEF CnStacksOK
<1>2. Len(s) \in Nat \ {0} /\ Last(s) = s[Len(s)] /\ Last(s) \in CnContexts
  BY <1>1, LastFront
<1>3. Len(s) \in 1..Len(s)
  BY <1>2
<1> QED
  BY <1>1, <1>2, <1>3 DEF Runs

(* run_task: a task that was ready runs on top of what the thread did. *)
LEMMA TaskStarts ==
  ASSUME NEW stack, NEW task, CnStacksOK(stack, task), NEW th \in CnThreads, NEW k \in CnTasks,
         task[k] = "ready", NEW stack2, NEW task2,
         StackPushed(stack2, stack, th, k), TaskRuns(task2, task, k)
  PROVE  /\ CnStacksOK(stack2, task2)
         /\ \A u \in CnThreads : \A c : Runs(stack, u, c) => Runs(stack2, u, c)
<1> USE CnAssumption
<1>1. PICK s \in Seq(CnContexts) : s = stack[th]
  BY DEF CnStacksOK
<1>2. k \in CnContexts /\ k # "main"
  BY DEF CnContexts
<1>3. PICK t \in Seq(CnContexts), n \in Nat : OneMore(t, n, s, k)
  BY <1>2, OneCharacter
<1>4. t = Append(s, k) /\ n = Len(s) /\ Len(t) = n + 1 /\ t[n + 1] = k /\ \A i \in 1..n : t[i] = s[i]
  BY <1>3 DEF OneMore
<1>5. /\ stack \in [CnThreads -> Seq(CnContexts)]
      /\ task \in [CnTasks -> {"new", "ready", "running", "done"}]
      /\ \A u \in CnThreads : \A i \in 1..Len(stack[u]) :
           /\ stack[u][i] \in CnTasks => task[stack[u][i]] = "running"
           /\ stack[u][i] = "main" => u = CnMain
      /\ \A u, v \in CnThreads : \A i \in 1..Len(stack[u]) : \A j \in 1..Len(stack[v]) :
           stack[u][i] = stack[v][j] => u = v /\ i = j
  BY DEF CnStacksOK
<1>6. /\ stack2 \in [CnThreads -> Seq(CnContexts)] /\ stack2[th] = t
      /\ \A u \in CnThreads : u # th => stack2[u] = stack[u]
  BY <1>1, <1>4, <1>5 DEF StackPushed
<1>7. /\ task2 \in [CnTasks -> {"new", "ready", "running", "done"}] /\ task2[k] = "running"
      /\ \A l \in CnTasks : l # k => task2[l] = task[l]
  BY <1>5 DEF TaskRuns
<1>8. ASSUME NEW u \in CnThreads, NEW i \in 1..Len(stack[u]) PROVE stack[u][i] # k
  BY <1>5, <1>8
<1>9. ASSUME NEW u \in CnThreads, NEW i \in 1..Len(stack2[u])
      PROVE  \/ i \in 1..Len(stack[u]) /\ stack2[u][i] = stack[u][i]
             \/ u = th /\ i = n + 1 /\ stack2[u][i] = k
  <2>1. CASE u = th
    <3>1. i \in 1..(n + 1) /\ stack2[u][i] = t[i]
      BY <1>4, <1>6, <1>9, <2>1
    <3>2. CASE i = n + 1
      BY <1>4, <2>1, <3>1, <3>2
    <3>3. CASE i # n + 1
      <4>1. i \in 1..n
        BY <3>1, <3>3
      <4> QED
        BY <1>1, <1>4, <2>1, <3>1, <4>1
    <3> QED
      BY <3>2, <3>3
  <2>2. CASE u # th
    BY <1>6, <1>9, <2>2
  <2> QED
    BY <2>1, <2>2
<1>10. ASSUME NEW u \in CnThreads, NEW i \in 1..Len(stack2[u])
       PROVE  /\ stack2[u][i] \in CnTasks => task2[stack2[u][i]] = "running"
              /\ stack2[u][i] = "main" => u = CnMain
  <2>1. CASE i \in 1..Len(stack[u]) /\ stack2[u][i] = stack[u][i]
    BY <1>5, <1>7, <2>1
  <2>2. CASE u = th /\ i = n + 1 /\ stack2[u][i] = k
    BY <1>2, <1>7, <2>2
  <2> QED
    BY <1>9, <2>1, <2>2
<1>11. ASSUME NEW u \in CnThreads, NEW v \in CnThreads,
              NEW i \in 1..Len(stack2[u]), NEW j \in 1..Len(stack2[v]), stack2[u][i] = stack2[v][j]
       PROVE  u = v /\ i = j
  <2>1. \/ i \in 1..Len(stack[u]) /\ stack2[u][i] = stack[u][i] /\ stack2[u][i] # k
        \/ u = th /\ i = n + 1 /\ stack2[u][i] = k
    BY <1>8, <1>9
  <2>2. \/ j \in 1..Len(stack[v]) /\ stack2[v][j] = stack[v][j] /\ stack2[v][j] # k
        \/ v = th /\ j = n + 1 /\ stack2[v][j] = k
    BY <1>8, <1>9
  <2>3. CASE u = th /\ i = n + 1 /\ stack2[u][i] = k
    BY <1>11, <2>2, <2>3
  <2>4. CASE i \in 1..Len(stack[u]) /\ stack2[u][i] = stack[u][i] /\ stack2[u][i] # k
    BY <1>5, <1>11, <2>2, <2>4
  <2> QED
    BY <2>1, <2>3, <2>4
<1>12. CnStacksOK(stack2, task2)
  BY <1>6, <1>7, <1>10, <1>11 DEF CnStacksOK
<1>13. ASSUME NEW u \in CnThreads, NEW c, Runs(stack, u, c) PROVE Runs(stack2, u, c)
  <2>1. PICK i \in 1..Len(stack[u]) : stack[u][i] = c
    BY <1>13 DEF Runs
  <2>2. CASE u = th
    <3>1. i \in 1..Len(t) /\ t[i] = c
      <4>1. i \in 1..n /\ i \in 1..(n + 1)
        BY <1>1, <1>4, <2>1, <2>2
      <4> QED
        BY <1>1, <1>4, <2>1, <2>2, <4>1
    <3> QED
      BY <1>6, <2>2, <3>1 DEF Runs
  <2>3. CASE u # th
    BY <1>6, <2>1, <2>3 DEF Runs
  <2> QED
    BY <2>2, <2>3
<1> QED
  BY <1>12, <1>13

(* The current context of a thread is through; it runs nowhere after that. *)
LEMMA ContextEnds ==
  ASSUME NEW stack, NEW task, CnStacksOK(stack, task), NEW th \in CnThreads, stack[th] # <<>>,
         NEW ctx, ctx = Last(stack[th]), NEW stack2, NEW task2,
         StackPopped(stack2, stack, th), TasksButOne(task2, task, ctx)
  PROVE  /\ CnStacksOK(stack2, task2)
         /\ \A u \in CnThreads : \A c : Runs(stack, u, c) /\ (u = th => c # ctx) => Runs(stack2, u, c)
<1>1. PICK s \in Seq(CnContexts) : s = stack[th] /\ s # <<>>
  BY DEF CnStacksOK
<1>2. /\ Len(s) \in Nat \ {0} /\ ctx = s[Len(s)] /\ ctx \in CnContexts
      /\ Front(s) \in Seq(CnContexts) /\ Len(Front(s)) = Len(s) - 1
      /\ \A i \in 1..(Len(s) - 1) : Front(s)[i] = s[i]
  BY <1>1, LastFront
<1>3. PICK f \in Seq(CnContexts), n \in Nat :
        /\ f = Front(s) /\ n = Len(f)
        /\ Len(s) = n + 1 /\ ctx = s[n + 1] /\ \A i \in 1..n : f[i] = s[i]
  <2>1. Len(Front(s)) \in Nat /\ Len(s) = Len(Front(s)) + 1
    BY <1>2
  <2>2. \A i \in 1..Len(Front(s)) : Front(s)[i] = s[i]
    BY <1>2
  <2> QED
    BY <1>2, <2>1, <2>2
<1>4. /\ stack \in [CnThreads -> Seq(CnContexts)]
      /\ \A u \in CnThreads : \A i \in 1..Len(stack[u]) :
           /\ stack[u][i] \in CnTasks => task[stack[u][i]] = "running"
           /\ stack[u][i] = "main" => u = CnMain
      /\ \A u, v \in CnThreads : \A i \in 1..Len(stack[u]) : \A j \in 1..Len(stack[v]) :
           stack[u][i] = stack[v][j] => u = v /\ i = j
  BY DEF CnStacksOK
<1>5. /\ stack2 \in [CnThreads -> Seq(CnContexts)] /\ stack2[th] = f
      /\ \A u \in CnThreads : u # th => stack2[u] = stack[u]
  BY <1>1, <1>3, <1>4 DEF StackPopped
<1>6. ASSUME NEW u \in CnThreads, NEW i \in 1..Len(stack2[u])
      PROVE  i \in 1..Len(stack[u]) /\ stack2[u][i] = stack[u][i] /\ stack[u][i] # ctx
  <2>1. n + 1 \in 1..Len(stack[th]) /\ stack[th][n + 1] = ctx
    BY <1>1, <1>3
  <2>2. i \in 1..Len(stack[u]) /\ stack2[u][i] = stack[u][i] /\ (u = th => i # n + 1)
    <3>1. CASE u = th
      <4>1. i \in 1..n
        BY <1>3, <1>5, <1>6, <3>1
      <4>2. i \in 1..(n + 1) /\ i # n + 1
        BY <4>1
      <4> QED
        BY <1>1, <1>3, <1>5, <3>1, <4>1, <4>2
    <3>2. CASE u # th
      BY <1>5, <1>6, <3>2
    <3> QED
      BY <3>1, <3>2
  <2> QED
    BY <1>4, <2>1, <2>2
<1>7. CnStacksOK(stack2, task2)
  <2>1. ASSUME NEW u \in CnThreads, NEW i \in 1..Len(stack2[u])
        PROVE  /\ stack2[u][i] \in CnTasks => task2[stack2[u][i]] = "running"
               /\ stack2[u][i] = "main" => u = CnMain
    <3>1. PICK k : k = stack2[u][i]
      OBVIOUS
    <3>2. /\ k \in CnTasks => task[k] = "running"
          /\ k = "main" => u = CnMain
          /\ k # ctx
      <4>1. i \in 1..Len(stack[u]) /\ k = stack[u][i] /\ k # ctx
        BY <1>6, <3>1
      <4> QED
        BY <1>4, <4>1
    <3>3. k \in CnTasks => task2[k] = task[k]
      BY <3>2 DEF TasksButOne
    <3> QED
      BY <3>1, <3>2, <3>3
  <2>2. ASSUME NEW u \in CnThreads, NEW v \in CnThreads,
               NEW i \in 1..Len(stack2[u]), NEW j \in 1..Len(stack2[v]), stack2[u][i] = stack2[v][j]
        PROVE  u = v /\ i = j
    BY <1>4, <1>6, <2>2
  <2> QED
    BY <1>5, <2>1, <2>2 DEF CnStacksOK, TasksButOne
<1>8. ASSUME NEW u \in CnThreads, NEW c, Runs(stack, u, c), u = th => c # ctx PROVE Runs(stack2, u, c)
  <2>1. PICK i \in 1..Len(stack[u]) : stack[u][i] = c
    BY <1>8 DEF Runs
  <2>2. CASE u = th
    <3>1. i \in 1..(n + 1) /\ i # n + 1
      BY <1>1, <1>3, <1>8, <2>1, <2>2
    <3>2. i \in 1..n
      BY <3>1
    <3>3. i \in 1..Len(f) /\ f[i] = c
      BY <1>1, <1>3, <2>1, <2>2, <3>2
    <3> QED
      BY <1>5, <2>2, <3>3 DEF Runs
  <2>3. CASE u # th
    BY <1>5, <2>1, <2>3 DEF Runs
  <2> QED
    BY <2>2, <2>3
<1> QED
  BY <1>7, <1>8

LEMMA FlushedLine ==
  ASSUME NEW stack, NEW task, NEW line, NEW screen, NEW said,
         CnStacksOK(stack, task), CnLinesOK(stack, line), CnScreenOK(screen, said, line),
         NEW th \in CnThreads, NEW ctx \in CnContexts, Runs(stack, th, ctx),
         NEW line2, NEW screen2, ScreenAdd(screen2, screen, line[th][ctx]), LineEmptied(line2, line, th, ctx)
  PROVE  CnLinesOK(stack, line2) /\ CnScreenOK(screen2, said, line2) /\ line2[th][ctx] = <<>>
<1>1. PICK l \in Seq(CnChars) : l = line[th][ctx]
  BY DEF CnLinesOK, CnLineType
<1>2. PICK e \in Seq(CnChars) : e = <<>>
  BY EmptySeq
<1>3. LineSet(line2, line, th, ctx, e)
  <2>1. line \in CnLineType
    BY DEF CnLinesOK
  <2> QED
    BY <1>2, <2>1, LineSetIs DEF LineEmptied
<1>4. said \in [CnContexts -> Seq(Seq(CnChars))]
  BY DEF CnScreenOK, CnScreenTypes
<1>5. SaidAdd(said, said, ctx, e)
  <2>1. FlattenSeq(said[ctx]) \in Seq(CnChars)
    BY <1>4, FlatType
  <2>2. FlattenSeq(said[ctx]) \o <<>> = FlattenSeq(said[ctx])
    BY <2>1, ConcatEmptySeq
  <2> QED
    BY <1>2, <1>4, <2>2 DEF SaidAdd
<1>6. OfContext(e, ctx)
  <2>1. Len(<<>>) = 0
    OBVIOUS
  <2> QED
    BY <1>2, <2>1 DEF OfContext
<1>7. TextSplit(line[th][ctx], e, l, e)
  BY <1>1 DEF TextSplit
<1>8. ScreenAdd(screen2, screen, l)
  BY <1>1
<1>9. CnLinesOK(stack, line2) /\ CnScreenOK(screen2, said, line2)
  BY <1>1, <1>2, <1>3, <1>5, <1>6, <1>7, <1>8, TextWritten
<1> QED
  BY <1>2, <1>3, <1>9 DEF LineSet

LEMMA SaidMore ==
  ASSUME NEW said \in [CnContexts -> Seq(Seq(CnChars))], NEW ctx \in CnContexts, NEW add \in Seq(CnChars),
         NEW said2, said2 = [said EXCEPT ![ctx] = Append(@, add)]
  PROVE  SaidAdd(said2, said, ctx, add)
<1>1. Append(said[ctx], add) \in Seq(Seq(CnChars))
  BY AppendProperties
<1>2. said2 \in [CnContexts -> Seq(Seq(CnChars))] /\ said2[ctx] = Append(said[ctx], add)
  BY <1>1
<1>3. FlattenSeq(Append(said[ctx], add)) = FlattenSeq(said[ctx]) \o add
  BY FlatAppend
<1> QED
  BY <1>2, <1>3 DEF SaidAdd

(* What a PRINT item writes is of the context that runs it. *)
LEMMA SaidText ==
  ASSUME NEW ctx \in CnContexts, NEW text \in CnTexts
  PROVE  /\ [i \in DOMAIN text |-> <<ctx, text[i]>>] \in Seq(CnChars)
         /\ OfContext([i \in DOMAIN text |-> <<ctx, text[i]>>], ctx)
<1>1. text \in Seq(CnCharacters)
  BY CnAssumption
<1>2. PICK n \in Nat : n = Len(text) /\ DOMAIN text = 1..n /\ \A i \in 1..n : text[i] \in CnCharacters
  BY <1>1
<1> DEFINE t == [i \in 1..n |-> <<ctx, text[i]>>]
<1>3. \A i \in 1..n : <<ctx, text[i]>> \in CnChars
  BY <1>2 DEF CnChars
<1>4. t \in Seq(CnChars) /\ Len(t) = n
  <2>1. t \in [1..n -> CnChars]
    BY <1>3
  <2> HIDE DEF t
  <2>2. t \in Seq(CnChars)
    BY <2>1, SeqDef
  <2>3. DOMAIN t = 1..n
    BY <2>1
  <2> QED
    BY <2>2, <2>3
<1>5. \A i \in 1..n : t[i][1] = ctx
  OBVIOUS
<1> HIDE DEF t
<1>6. OfContext(t, ctx)
  BY <1>4, <1>5 DEF OfContext
<1>7. [i \in DOMAIN text |-> <<ctx, text[i]>>] = t
  BY <1>2 DEF t
<1> QED
  BY <1>4, <1>6, <1>7

-----------------------------------------------------------------------------
(* The console: the steps *)

LEMMA CnInvParts ==
  ASSUME CnInv, NEW th \in CnThreads, CnRunning(th)
  PROVE  /\ CnStacksOK(cnStack, cnTask) /\ CnLinesOK(cnStack, cnLine)
         /\ CnScreenOK(cnScreen, cnSaid, cnLine)
         /\ CnCurrent(th) \in CnContexts /\ Runs(cnStack, th, CnCurrent(th))
<1>1. cnStack[th] # <<>>
  BY DEF CnRunning
<1> QED
  BY <1>1, CurrentRuns DEF CnInv, CnCurrent

LEMMA WriteStep ==
  ASSUME CnInv, NEW th \in CnThreads, NEW text \in CnTexts, ConsoleWrite(th, text)
  PROVE  CnInv'
<1>1. CnRunning(th)
  BY DEF ConsoleWrite
<1>2. PICK ctx : ctx = CnCurrent(th)
  OBVIOUS
<1>3. /\ CnStacksOK(cnStack, cnTask) /\ CnLinesOK(cnStack, cnLine) /\ CnScreenOK(cnScreen, cnSaid, cnLine)
      /\ ctx \in CnContexts /\ Runs(cnStack, th, ctx)
  BY <1>1, <1>2, CnInvParts
<1>4. PICK add \in Seq(CnChars) : add = [i \in DOMAIN text |-> <<ctx, text[i]>>] /\ OfContext(add, ctx)
  BY <1>3, SaidText
<1>5. PICK l \in Seq(CnChars) : l = cnLine[th][ctx]
  BY <1>3 DEF CnLinesOK, CnLineType
<1>6. PICK screen, said, line : screen = cnScreen /\ said = cnSaid /\ line = cnLine
  OBVIOUS
<1>7. PICK screen2, said2, line2 : screen2 = cnScreen' /\ said2 = cnSaid' /\ line2 = cnLine'
  OBVIOUS
<1>8. /\ said2 = [said EXCEPT ![ctx] = Append(@, add)]
      /\ UNCHANGED <<cnStack, cnTask, cnPool, cnLock, cnExit>>
  BY <1>2, <1>4, <1>6, <1>7 DEF ConsoleWrite
<1>9. \/ l = <<>> /\ ScreenAdd(screen2, screen, add) /\ line2 = line
      \/ /\ ScreenAdd(screen2, screen, SubSeq(l \o add, 1, CnWhole(l \o add)))
         /\ line2 = [line EXCEPT ![th][ctx] = SubSeq(l \o add, CnWhole(l \o add) + 1, Len(l \o add))]
  BY <1>2, <1>4, <1>5, <1>6, <1>7 DEF ConsoleWrite, CurrentConsole, CnShow, ScreenAdd
<1>10. SaidAdd(said2, said, ctx, add)
  <2>1. said \in [CnContexts -> Seq(Seq(CnChars))]
    BY <1>3, <1>6 DEF CnScreenOK, CnScreenTypes
  <2> QED
    BY <1>3, <1>4, <1>8, <2>1, SaidMore
<1>11. CnStacksOK(cnStack, cnTask) /\ CnLinesOK(cnStack, line) /\ CnScreenOK(screen, said, line)
  BY <1>3, <1>6
<1>12. line \in CnLineType /\ line[th][ctx] = l
  BY <1>5, <1>6, <1>11 DEF CnLinesOK
<1>13. CnLinesOK(cnStack, line2) /\ CnScreenOK(screen2, said2, line2)
  <2>1. CASE l = <<>> /\ ScreenAdd(screen2, screen, add) /\ line2 = line
    <3>1. PICK e \in Seq(CnChars) : e = <<>>
      BY EmptySeq
    <3>2. LineSet(line2, line, th, ctx, e)
      BY <1>12, <2>1, <3>1, LineSame
    <3>3. l \o add = add \o e
      BY <1>4, <2>1, <3>1, ConcatEmptySeq
    <3>4. TextSplit(line[th][ctx], add, add, e)
      BY <1>12, <3>3 DEF TextSplit
    <3> QED
      BY <1>3, <1>4, <1>10, <1>11, <2>1, <3>1, <3>2, <3>4, TextWritten
  <2>2. CASE /\ ScreenAdd(screen2, screen, SubSeq(l \o add, 1, CnWhole(l \o add)))
             /\ line2 = [line EXCEPT ![th][ctx] = SubSeq(l \o add, CnWhole(l \o add) + 1, Len(l \o add))]
    <3>1. PICK whole \in Seq(CnChars) : whole = l \o add
      BY <1>4, <1>5, ConcatProperties
    <3>2. PICK out \in Seq(CnChars), rest \in Seq(CnChars) :
            /\ out = SubSeq(whole, 1, CnWhole(whole))
            /\ rest = SubSeq(whole, CnWhole(whole) + 1, Len(whole))
            /\ out \o rest = whole
      BY WholeSplits
    <3>3. ScreenAdd(screen2, screen, out) /\ line2 = [line EXCEPT ![th][ctx] = rest]
      BY <2>2, <3>1, <3>2
    <3>4. LineSet(line2, line, th, ctx, rest)
      BY <1>3, <1>12, <3>3, LineSetIs
    <3>5. TextSplit(line[th][ctx], add, out, rest)
      BY <1>12, <3>1, <3>2 DEF TextSplit
    <3> QED
      BY <1>3, <1>4, <1>10, <1>11, <3>3, <3>4, <3>5, TextWritten
  <2> QED
    BY <1>9, <2>1, <2>2
<1>14. cnExit' # "normal"
  BY <1>1, <1>8 DEF CnRunning
<1> QED
  BY <1>3, <1>7, <1>8, <1>13, <1>14 DEF CnInv

(* A flush, and what it leaves to say of the rest of the step. *)
LEMMA FlushStep ==
  ASSUME CnInv, NEW th \in CnThreads, CnRunning(th), FlushCurrent(th)
  PROVE  /\ CnLinesOK(cnStack, cnLine') /\ CnScreenOK(cnScreen', cnSaid, cnLine')
         /\ cnLine'[th][CnCurrent(th)] = <<>>
<1>1. PICK ctx : ctx = CnCurrent(th)
  OBVIOUS
<1>2. /\ CnStacksOK(cnStack, cnTask) /\ CnLinesOK(cnStack, cnLine) /\ CnScreenOK(cnScreen, cnSaid, cnLine)
      /\ ctx \in CnContexts /\ Runs(cnStack, th, ctx)
  BY <1>1, CnInvParts
<1>3. PICK screen2, line2 : screen2 = cnScreen' /\ line2 = cnLine'
  OBVIOUS
<1>4. ScreenAdd(screen2, cnScreen, cnLine[th][ctx]) /\ LineEmptied(line2, cnLine, th, ctx)
  BY <1>1, <1>3 DEF FlushCurrent, CurrentConsole, CnShow, ScreenAdd, LineEmptied
<1>5. CnLinesOK(cnStack, line2) /\ CnScreenOK(screen2, cnSaid, line2) /\ line2[th][ctx] = <<>>
  BY <1>2, <1>4, FlushedLine
<1> QED
  BY <1>1, <1>3, <1>5

LEMMA RunStep ==
  ASSUME CnInv, NEW th \in CnThreads, NEW k \in CnTasks, CnRun(th, k)
  PROVE  CnInv'
<1>1. PICK stack, task : stack = cnStack /\ task = cnTask
  OBVIOUS
<1>2. PICK stack2, task2 : stack2 = cnStack' /\ task2 = cnTask'
  OBVIOUS
<1>3. /\ CnStacksOK(stack, task) /\ task[k] = "ready"
      /\ StackPushed(stack2, stack, th, k) /\ TaskRuns(task2, task, k)
      /\ UNCHANGED <<cnPool, cnLine, cnLock, cnScreen, cnSaid, cnExit>> /\ cnExit = "no"
  BY <1>1, <1>2 DEF CnRun, CnInv, StackPushed, TaskRuns
<1>4. CnStacksOK(stack2, task2) /\ \A u \in CnThreads : \A c : Runs(stack, u, c) => Runs(stack2, u, c)
  BY <1>3, TaskStarts
<1>5. CnLinesOK(stack2, cnLine)
  <2>1. CnLinesOK(stack, cnLine)
    BY <1>1 DEF CnInv
  <2> QED
    BY <1>4, <2>1, LinesFollow
<1>6. CnScreenOK(cnScreen, cnSaid, cnLine)
  BY DEF CnInv
<1> QED
  BY <1>2, <1>3, <1>4, <1>5, <1>6 DEF CnInv

(* The line of the context that ends was shown; the stack below it is as it was. *)
LEMMA EndStep ==
  ASSUME CnInv, NEW th \in CnThreads, CnRunning(th), FlushCurrent(th),
         NEW stack2, NEW task2, StackPopped(stack2, cnStack, th), TasksButOne(task2, cnTask, CnCurrent(th))
  PROVE  CnStacksOK(stack2, task2) /\ CnLinesOK(stack2, cnLine') /\ CnScreenOK(cnScreen', cnSaid, cnLine')
<1>1. PICK ctx : ctx = CnCurrent(th) /\ ctx = Last(cnStack[th])
  BY DEF CnCurrent
<1>2. CnStacksOK(cnStack, cnTask) /\ cnStack[th] # <<>>
  BY DEF CnInv, CnRunning
<1>3. PICK line2, screen2 : line2 = cnLine' /\ screen2 = cnScreen'
  OBVIOUS
<1>4. CnLinesOK(cnStack, line2) /\ CnScreenOK(screen2, cnSaid, line2) /\ line2[th][ctx] = <<>>
  BY <1>1, <1>3, FlushStep
<1>5. /\ CnStacksOK(stack2, task2)
      /\ \A u \in CnThreads : \A c : Runs(cnStack, u, c) /\ (u = th => c # ctx) => Runs(stack2, u, c)
  BY <1>1, <1>2, ContextEnds
<1>6. CnLinesOK(stack2, line2)
  <2>1. \A u \in CnThreads : \A c \in CnContexts :
          Runs(cnStack, u, c) /\ line2[u][c] # <<>> => Runs(stack2, u, c)
    BY <1>4, <1>5
  <2> QED
    BY <1>4, <2>1, LinesFollow
<1> QED
  BY <1>3, <1>4, <1>5, <1>6

LEMMA FinishStep ==
  ASSUME CnInv, NEW th \in CnThreads, CnFinish(th)
  PROVE  CnInv'
<1>1. CnRunning(th) /\ FlushCurrent(th) /\ CnCurrent(th) \in CnTasks
  BY DEF CnFinish
<1>2. PICK stack2, task2 : stack2 = cnStack' /\ task2 = cnTask'
  OBVIOUS
<1>3. StackPopped(stack2, cnStack, th) /\ task2 = [cnTask EXCEPT ![CnCurrent(th)] = "done"]
  BY <1>2 DEF CnFinish, StackPopped
<1>4. cnTask \in [CnTasks -> {"new", "ready", "running", "done"}]
  BY DEF CnInv, CnStacksOK
<1>5. TasksButOne(task2, cnTask, CnCurrent(th))
  BY <1>3, <1>4 DEF TasksButOne
<1>6. CnStacksOK(stack2, task2) /\ CnLinesOK(stack2, cnLine') /\ CnScreenOK(cnScreen', cnSaid, cnLine')
  BY <1>1, <1>3, <1>5, EndStep
<1>7. cnSaid' = cnSaid /\ cnExit' # "normal"
  BY <1>1 DEF CnFinish, CnRunning
<1> QED
  BY <1>2, <1>6, <1>7 DEF CnInv

LEMMA ShutdownStep == CnInv /\ CnShutdown => CnInv'
<1> SUFFICES ASSUME CnInv, CnShutdown PROVE CnInv'
  OBVIOUS
<1>1. CnMain \in CnThreads /\ CnRunning(CnMain) /\ FlushCurrent(CnMain) /\ CnCurrent(CnMain) = "main"
  BY CnAssumption DEF CnShutdown
<1>2. PICK stack2, task2 : stack2 = cnStack' /\ task2 = cnTask'
  OBVIOUS
<1>3. Front(<<"main">>) = <<>>
  <2>4. PICK T : T = {"main"}
    OBVIOUS
  <2>1. PICK s \in Seq(T) : s = <<"main">> /\ s # <<>> /\ Len(s) = 1
    <3>1. <<"main">> \in Seq({"main"}) /\ <<"main">> # <<>> /\ Len(<<"main">>) = 1
      OBVIOUS
    <3> QED
      BY <2>4, <3>1
  <2>2. Front(s) \in Seq(T) /\ Len(Front(s)) = Len(s) - 1
    BY <2>1, LastFront
  <2>3. Len(Front(s)) = 0
    BY <2>1, <2>2
  <2> QED
    BY <2>1, <2>2, <2>3, EmptySeq
<1>4. cnStack[CnMain] = <<"main">> /\ stack2 = [cnStack EXCEPT ![CnMain] = <<>>] /\ task2 = cnTask
  BY <1>2 DEF CnShutdown
<1>5. StackPopped(stack2, cnStack, CnMain)
  BY <1>3, <1>4 DEF StackPopped
<1>6. TasksButOne(task2, cnTask, CnCurrent(CnMain))
  BY <1>4 DEF CnInv, CnStacksOK, TasksButOne
<1>7. CnStacksOK(stack2, task2) /\ CnLinesOK(stack2, cnLine') /\ CnScreenOK(cnScreen', cnSaid, cnLine')
  BY <1>1, <1>4, <1>5, <1>6, EndStep
<1>8. cnSaid' = cnSaid /\ cnExit' # "normal"
  BY <1>1 DEF CnShutdown, CnRunning
<1> QED
  BY <1>2, <1>7, <1>8 DEF CnInv

(* No task runs and the main program does not: no thread keeps a line. *)
LEMMA NormalEnd == CnInv /\ CnExitNormal => CnLinesEmpty(cnLine)
<1> SUFFICES ASSUME CnInv, CnExitNormal, NEW th \in CnThreads, NEW ctx \in CnContexts, cnLine[th][ctx] # <<>>
             PROVE  FALSE
  BY DEF CnLinesEmpty
<1>1. Runs(cnStack, th, ctx)
  BY DEF CnInv, CnLinesOK
<1>2. PICK i \in 1..Len(cnStack[th]) : cnStack[th][i] = ctx
  BY <1>1 DEF Runs
<1>3. CASE ctx \in CnTasks
  <2>1. cnTask[ctx] = "running"
    BY <1>2, <1>3 DEF CnInv, CnStacksOK
  <2> QED
    BY <1>3, <2>1 DEF CnExitNormal
<1>4. CASE ctx = "main"
  <2>1. th = CnMain
    BY <1>2, <1>4 DEF CnInv, CnStacksOK
  <2>2. cnStack[CnMain] \in Seq(CnContexts)
    BY <2>1 DEF CnInv, CnStacksOK
  <2>3. i \in DOMAIN cnStack[CnMain]
    BY <1>2, <2>1, <2>2
  <2>4. "main" \in Range(cnStack[CnMain])
    BY <1>2, <1>4, <2>1, <2>3 DEF Range
  <2> QED
    BY <2>4 DEF CnExitNormal
<1> QED
  BY <1>3, <1>4 DEF CnContexts

LEMMA CnStep == CnInv /\ [CnNext]_cnVars => CnInv'
<1> SUFFICES ASSUME CnInv, [CnNext]_cnVars PROVE CnInv'
  OBVIOUS
<1>1. ASSUME NEW th \in CnThreads, NEW text \in CnTexts, ConsoleWrite(th, text) PROVE CnInv'
  BY <1>1, WriteStep
<1>2. ASSUME NEW th \in CnThreads, ConsoleCommand(th) PROVE CnInv'
  <2>1. CnRunning(th) /\ FlushCurrent(th)
    BY <1>2 DEF ConsoleCommand
  <2>2. CnLinesOK(cnStack, cnLine') /\ CnScreenOK(cnScreen', cnSaid, cnLine')
    BY <2>1, FlushStep
  <2>3. cnStack' = cnStack /\ cnTask' = cnTask /\ cnSaid' = cnSaid /\ cnExit' # "normal"
    BY <1>2, <2>1 DEF ConsoleCommand, CnRunning
  <2> QED
    BY <2>2, <2>3 DEF CnInv
<1>3. ASSUME NEW th \in CnThreads, LockConsole(th) \/ UnlockConsole(th) PROVE CnInv'
  BY <1>3 DEF LockConsole, UnlockConsole, CnInv
<1>4. ASSUME NEW th \in CnThreads, NEW k \in CnTasks, CnSpawn(th, k) PROVE CnInv'
  <2>1. PICK task, task2 : task = cnTask /\ task2 = cnTask'
    OBVIOUS
  <2>2. task2 = [task EXCEPT ![k] = "ready"] /\ task[k] = "new" /\ CnStacksOK(cnStack, task)
    BY <1>4, <2>1 DEF CnSpawn, CnInv
  <2>3. CnStacksOK(cnStack, task2)
    BY <2>2 DEF CnStacksOK
  <2>4. UNCHANGED <<cnStack, cnLine, cnLock, cnScreen, cnSaid, cnExit>>
    BY <1>4 DEF CnSpawn
  <2> QED
    BY <2>1, <2>3, <2>4 DEF CnInv
<1>5. ASSUME NEW th \in CnThreads, NEW k \in CnTasks, CnRun(th, k) PROVE CnInv'
  BY <1>5, RunStep
<1>6. ASSUME NEW th \in CnThreads, CnFinish(th) PROVE CnInv'
  BY <1>6, FinishStep
<1>7. ASSUME NEW th \in CnThreads, CnExitFatal(th) PROVE CnInv'
  <2>1. CnRunning(th) /\ FlushCurrent(th)
    BY <1>7 DEF CnExitFatal
  <2>2. CnLinesOK(cnStack, cnLine') /\ CnScreenOK(cnScreen', cnSaid, cnLine')
    BY <2>1, FlushStep
  <2>3. cnStack' = cnStack /\ cnTask' = cnTask /\ cnSaid' = cnSaid /\ cnExit' # "normal"
    BY <1>7 DEF CnExitFatal
  <2> QED
    BY <2>2, <2>3 DEF CnInv
<1>8. CASE CnShutdown
  BY <1>8, ShutdownStep
<1>9. CASE CnExitNormal
  <2>1. CnLinesEmpty(cnLine)
    BY <1>9, NormalEnd
  <2> QED
    BY <1>9, <2>1 DEF CnExitNormal, CnInv
<1>10. CASE UNCHANGED cnVars
  BY <1>10 DEF cnVars, CnInv
<1> QED
  BY <1>1, <1>2, <1>3, <1>4, <1>5, <1>6, <1>7, <1>8, <1>9, <1>10 DEF CnNext

LEMMA CnStarts == CnInit => CnInv
<1> SUFFICES ASSUME CnInit PROVE CnInv
  OBVIOUS
<1> USE CnAssumption
<1>1. Len(<<>>) = 0 /\ "main" \in CnContexts /\ <<"main">> \in Seq(CnContexts) /\ Len(<<"main">>) = 1
  BY DEF CnContexts
<1>2. cnStack = [th \in CnThreads |-> IF th = CnMain THEN <<"main">> ELSE <<>>]
  BY DEF CnInit
<1>3. CnStacksOK(cnStack, cnTask)
  <2>1. cnStack \in [CnThreads -> Seq(CnContexts)]
    BY <1>1, <1>2
  <2>2. cnTask \in [CnTasks -> {"new", "ready", "running", "done"}]
    BY DEF CnInit
  <2>3. \A th \in CnThreads : \A i \in 1..Len(cnStack[th]) :
          th = CnMain /\ i = 1 /\ cnStack[th][i] = "main"
    BY <1>1, <1>2
  <2> QED
    BY <2>1, <2>2, <2>3 DEF CnStacksOK
<1>4. \A th \in CnThreads : \A ctx \in CnContexts : cnLine[th][ctx] = <<>>
  BY DEF CnInit
<1>5. CnLinesOK(cnStack, cnLine)
  <2>1. <<>> \in Seq(CnChars)
    BY EmptySeq
  <2>2. cnLine \in CnLineType
    BY <2>1 DEF CnInit, CnLineType
  <2> QED
    BY <1>1, <1>4, <2>2 DEF CnLinesOK, OfContext
<1>6. CnScreenOK(cnScreen, cnSaid, cnLine)
  <2>1. <<>> \in Seq(Seq(CnChars)) /\ <<>> \in Seq(CnChars)
    BY EmptySeq
  <2>2. cnScreen = <<>> /\ cnSaid = [ctx \in CnContexts |-> <<>>]
    BY DEF CnInit
  <2>3. CnScreenTypes(cnScreen, cnSaid)
    BY <1>1, <2>1, <2>2 DEF CnScreenTypes
  <2>4. ASSUME NEW th \in CnThreads, NEW ctx \in CnContexts
        PROVE  CnOf(ctx, FlattenSeq(cnScreen)) \o cnLine[th][ctx] = FlattenSeq(cnSaid[ctx])
    <3>1. <<>> \o <<>> = <<>>
      BY <2>1, ConcatEmptySeq
    <3> QED
      BY <1>4, <2>2, <3>1, FlatEmpty, OfEmpty
  <2> QED
    BY <2>3, <2>4 DEF CnScreenOK
<1> QED
  BY <1>3, <1>5, <1>6 DEF CnInv, CnInit

LEMMA CnMeans == CnInv => ConsoleFaithful
<1> SUFFICES ASSUME CnInv PROVE ConsoleFaithful
  OBVIOUS
<1>1. CnStacksOK(cnStack, cnTask) /\ CnLinesOK(cnStack, cnLine) /\ CnScreenOK(cnScreen, cnSaid, cnLine)
  BY DEF CnInv
<1>2. ASSUME NEW i \in DOMAIN cnScreen, NEW c \in Range(cnScreen[i]) PROVE c[1] = cnScreen[i][1][1]
  <2>1. PICK T : T = Seq(CnChars)
    OBVIOUS
  <2>2. cnScreen \in Seq(T)
    BY <1>1, <2>1 DEF CnScreenOK, CnScreenTypes
  <2>3. i \in 1..Len(cnScreen) /\ cnScreen[i] \in T
    BY <2>2
  <2>4. PICK text \in Seq(CnChars) : text = cnScreen[i]
    BY <2>1, <2>3
  <2>5. PICK ctx \in CnContexts : text # <<>> /\ OfContext(text, ctx)
    BY <1>1, <2>3, <2>4 DEF CnScreenOK, CnScreenTypes
  <2>6. PICK j \in 1..Len(text) : c = text[j]
    BY <2>4 DEF Range
  <2>7. 1 \in 1..Len(text)
    BY <2>5, EmptySeq
  <2> QED
    BY <2>4, <2>5, <2>6, <2>7 DEF OfContext
<1>3. ASSUME NEW ctx \in CnContexts
      PROVE  \E th \in CnThreads : KeptBy(cnLine, th, ctx) /\ CnUnfinished(ctx) = cnLine[th][ctx]
  <2>1. CASE \E th \in CnThreads : cnLine[th][ctx] # <<>>
    <3>1. PICK th \in CnThreads :
            th = (CHOOSE u \in CnThreads : cnLine[u][ctx] # <<>>) /\ cnLine[th][ctx] # <<>>
      BY <2>1
    <3>2. CnUnfinished(ctx) = cnLine[th][ctx]
      BY <2>1, <3>1 DEF CnUnfinished
    <3>3. Runs(cnStack, th, ctx)
      BY <1>1, <3>1 DEF CnLinesOK
    <3>4. KeptBy(cnLine, th, ctx)
      BY <1>1, <3>3, KeptWhereRun
    <3> QED
      BY <3>2, <3>4
  <2>2. CASE ~ \E th \in CnThreads : cnLine[th][ctx] # <<>>
    <3>1. CnUnfinished(ctx) = <<>> /\ cnLine[CnMain][ctx] = <<>> /\ CnMain \in CnThreads
      BY <2>2, CnAssumption DEF CnUnfinished
    <3>2. KeptBy(cnLine, CnMain, ctx)
      BY <2>2 DEF KeptBy
    <3> QED
      BY <3>1, <3>2
  <2> QED
    BY <2>1, <2>2
<1>4. ASSUME NEW ctx \in CnContexts
      PROVE  CnOf(ctx, FlattenSeq(cnScreen)) \o CnUnfinished(ctx) = FlattenSeq(cnSaid[ctx])
  BY <1>1, <1>3 DEF CnScreenOK
<1>5. ASSUME NEW ctx \in CnContexts, cnExit = "normal" \/ (ctx \in CnTasks /\ cnTask[ctx] = "done")
      PROVE  CnUnfinished(ctx) = <<>>
  <2>1. PICK th \in CnThreads : CnUnfinished(ctx) = cnLine[th][ctx]
    BY <1>3
  <2>2. CASE cnExit = "normal"
    BY <2>1, <2>2 DEF CnInv, CnLinesEmpty
  <2>3. CASE ctx \in CnTasks /\ cnTask[ctx] = "done"
    <3> SUFFICES ASSUME cnLine[th][ctx] # <<>> PROVE FALSE
      BY <2>1
    <3>1. Runs(cnStack, th, ctx)
      BY <1>1 DEF CnLinesOK
    <3>2. cnTask[ctx] = "running"
      BY <1>1, <2>3, <3>1 DEF Runs, CnStacksOK
    <3> QED
      BY <2>3, <3>2
  <2> QED
    BY <1>5, <2>2, <2>3
<1> QED
  BY <1>2, <1>4, <1>5 DEF ConsoleFaithful

(* However threads nest the tasks they run, one write to the screen shows    *)
(* the text of one context, and what a context printed is on the screen in    *)
(* order or in its unfinished line; a finished task and a normal end leave    *)
(* nothing unfinished (uxb_runtime_mir.cpp, print.h:2-6).                     *)
THEOREM ConsoleAlwaysFaithful == CnSpec => []ConsoleFaithful
<1>1. CnInit => CnInv
  BY CnStarts
<1>2. CnInv /\ [CnNext]_cnVars => CnInv'
  BY CnStep
<1>3. CnInv => ConsoleFaithful
  BY CnMeans
<1> QED
  BY <1>1, <1>2, <1>3, PTL DEF CnSpec

=============================================================================
