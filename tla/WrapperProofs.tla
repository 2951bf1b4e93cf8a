---------------------------- MODULE WrapperProofs ----------------------------
(***************************************************************************)
(* Theorems about the media adapters: what the SDL3 adapter opened and the  *)
(* events it has folded into what a program polls, and the objects behind   *)
(* the handles of the Raylib adapter.                                      *)
(***************************************************************************)
EXTENDS UxSdl3, UxRaylib, FiniteSetTheorems, WellFoundedInduction, TLAPS

-----------------------------------------------------------------------------
(* Folding a queue.  The fold is a function defined by recursion; that it     *)
(* exists, and what it does, is shown by counting up to the queue's length.  *)

LEMMA SdlLeast ==
  ASSUME NEW T \in SUBSET Nat, T # {}
  PROVE  \E n \in T : \A m \in T : n <= m
<1> DEFINE Below == {p \in Nat \X Nat : p[1] < p[2]}
<1>1. IsWellFoundedOn(Below, Nat)
  BY NatLessThanWellFounded DEF OpToRel
<1> HIDE DEF Below
<1>2. PICK n \in T : \A m \in T : <<m, n>> \notin Below
  BY <1>1, WFMin, Zenon
<1>3. ASSUME NEW m \in T PROVE n <= m
  <2>1. m \in Nat /\ n \in Nat
    OBVIOUS
  <2>2. <<m, n>> \in Below <=> m < n
    BY <2>1 DEF Below
  <2> QED
    BY <1>2, <2>1, <2>2
<1> QED
  BY <1>3

LEMMA SdlCountUp ==
  ASSUME NEW n \in Nat, NEW G, 0 \in G, \A i \in 0..n : i < n /\ i \in G => i + 1 \in G
  PROVE  n \in G
<1> DEFINE Left == (0..n) \ G
<1> SUFFICES ASSUME Left # {} PROVE FALSE
  OBVIOUS
<1>1. Left \in SUBSET Nat
  OBVIOUS
<1>2. PICK b \in Left : \A c \in Left : b <= c
  BY <1>1, SdlLeast
<1>3. b \in 0..n /\ b # 0 /\ b \notin G
  BY <1>2
<1>4. b - 1 \in 0..n /\ b - 1 < n /\ b - 1 < b /\ (b - 1) + 1 = b
  BY <1>3
<1>5. b - 1 \in G
  BY <1>1, <1>2, <1>4
<1> QED
  BY <1>3, <1>4, <1>5

IsFold(f, keys, queue, n) ==
  f = [i \in 0..n |-> IF i = 0 THEN keys ELSE FoldKey(f[i - 1], queue[i])]

LEMMA FoldSteps ==
  ASSUME NEW keys, NEW queue, NEW n \in Nat, NEW f, IsFold(f, keys, queue, n)
  PROVE  f[0] = keys /\ \A i \in 0..n : i < n => f[i + 1] = FoldKey(f[i], queue[i + 1])
<1>1. f = [i \in 0..n |-> IF i = 0 THEN keys ELSE FoldKey(f[i - 1], queue[i])]
  BY DEF IsFold
<1>2. 0 \in 0..n
  OBVIOUS
<1>3. f[0] = keys
  BY <1>1, <1>2
<1>4. ASSUME NEW i \in 0..n, i < n PROVE f[i + 1] = FoldKey(f[i], queue[i + 1])
  <2>1. i + 1 \in 0..n /\ i + 1 # 0 /\ (i + 1) - 1 = i
    BY <1>4
  <2>2. f[i + 1] = FoldKey(f[(i + 1) - 1], queue[i + 1])
    BY <1>1, <2>1
  <2> QED
    BY <2>1, <2>2
<1> QED
  BY <1>3, <1>4

LEMMA FoldExists ==
  ASSUME NEW keys, NEW queue, NEW n \in Nat
  PROVE  \E f : IsFold(f, keys, queue, n)
<1> DEFINE G == {m \in Nat : \E f : IsFold(f, keys, queue, m)}
<1>1. 0 \in G
  <2>1. [i \in 0..0 |-> keys] = [i \in 0..0 |-> IF i = 0 THEN keys
                                  ELSE FoldKey([j \in 0..0 |-> keys][i - 1], queue[i])]
    OBVIOUS
  <2> QED
    BY <2>1 DEF IsFold
<1>2. ASSUME NEW m \in 0..n, m < n, m \in G PROVE m + 1 \in G
  <2>1. PICK f : IsFold(f, keys, queue, m)
    BY <1>2
  <2>2. m \in Nat /\ m + 1 \in Nat
    OBVIOUS
  <2>3. f[0] = keys /\ \A i \in 0..m : i < m => f[i + 1] = FoldKey(f[i], queue[i + 1])
    BY <2>1, <2>2, FoldSteps
  <2> DEFINE g == [i \in 0..(m + 1) |-> IF i = m + 1 THEN FoldKey(f[m], queue[m + 1]) ELSE f[i]]
  <2>4. ASSUME NEW i \in 0..(m + 1)
        PROVE  g[i] = IF i = 0 THEN keys ELSE FoldKey(g[i - 1], queue[i])
    <3>1. CASE i = 0
      BY <2>2, <2>3, <3>1
    <3>2. CASE i = m + 1
      <4>1. i - 1 = m /\ m \in 0..(m + 1) /\ m # m + 1 /\ i # 0
        BY <2>2, <3>2
      <4>2. g[m] = f[m] /\ g[i] = FoldKey(f[m], queue[m + 1])
        BY <3>2, <4>1
      <4> QED
        BY <3>2, <4>1, <4>2
    <3>3. CASE i # 0 /\ i # m + 1
      <4>1. i - 1 \in 0..m /\ i - 1 < m /\ (i - 1) + 1 = i /\ i - 1 \in 0..(m + 1) /\ i - 1 # m + 1
        BY <2>2, <3>3
      <4>2. g[i] = f[i] /\ g[i - 1] = f[i - 1]
        BY <3>3, <4>1
      <4>3. f[i] = FoldKey(f[i - 1], queue[i])
        BY <2>3, <4>1
      <4> QED
        BY <3>3, <4>2, <4>3
    <3> QED
      BY <3>1, <3>2, <3>3
  <2>5. DOMAIN g = 0..(m + 1) /\ g = [i \in 0..(m + 1) |-> g[i]]
    OBVIOUS
  <2> HIDE DEF g
  <2>6. g = [i \in 0..(m + 1) |-> IF i = 0 THEN keys ELSE FoldKey(g[i - 1], queue[i])]
    BY <2>4, <2>5
  <2>7. IsFold(g, keys, queue, m + 1)
    BY <2>6 DEF IsFold
  <2> QED
    BY <2>2, <2>7
<1>3. n \in G
  <2> HIDE DEF G
  <2> QED
    BY <1>1, <1>2, SdlCountUp
<1> QED
  BY <1>3

(* The fold as a function whose last value it is. *)
Folds(f, keys, queue, n) ==
  /\ Folded(keys, queue) = f[n] /\ f[0] = keys
  /\ \A i \in 0..n : i < n => f[i + 1] = FoldKey(f[i], queue[i + 1])

LEMMA FoldedIs ==
  ASSUME NEW keys, NEW queue, NEW n \in Nat, n = Len(queue)
  PROVE  \E f : Folds(f, keys, queue, n)
<1> DEFINE f == CHOOSE g : IsFold(g, keys, queue, n)
<1>1. IsFold(f, keys, queue, n)
  BY FoldExists
<1>2. Folded(keys, queue) = f[n]
  BY DEF Folded, IsFold
<1> HIDE DEF f
<1>3. f = [i \in 0..n |-> IF i = 0 THEN keys ELSE FoldKey(f[i - 1], queue[i])]
  BY <1>1 DEF IsFold
<1>4. f[0] = keys
  <2>1. 0 \in 0..n
    OBVIOUS
  <2> QED
    BY <1>3, <2>1
<1>5. ASSUME NEW i \in 0..n, i < n PROVE f[i + 1] = FoldKey(f[i], queue[i + 1])
  <2>1. i + 1 \in 0..n /\ i + 1 # 0 /\ (i + 1) - 1 = i
    BY <1>5
  <2>2. f[i + 1] = FoldKey(f[(i + 1) - 1], queue[i + 1])
    BY <1>3, <2>1
  <2> QED
    BY <2>1, <2>2
<1> QED
  BY <1>2, <1>4, <1>5 DEF Folds

-----------------------------------------------------------------------------
(* The input of SDL *)

SdlEventRecords == [kind : SdlEvents \cup {"down", "up", "repeat"}, code : SdlCodes \cup {"none"}]
SdlKeyRecords == [held : SUBSET SdlCodes, pressed : SUBSET SdlCodes, released : SUBSET SdlCodes]

(* Only the events of the keys and the buttons carry a code.                  *)
SdlEventOK(ev) == ev.kind \in {"down", "up", "repeat"} <=> ev.code \in SdlCodes

SdlInputInv ==
  /\ sdlQueue \in Seq(SdlEventRecords) /\ \A i \in 1..Len(sdlQueue) : SdlEventOK(sdlQueue[i])
  /\ sdlKeys \in SdlKeyRecords /\ sdlDown \in SUBSET SdlCodes
  /\ SdlInputFollowed

LEMMA FoldKeyHeld ==
  ASSUME NEW keys \in SdlKeyRecords, NEW ev \in SdlEventRecords, SdlEventOK(ev)
  PROVE  /\ FoldKey(keys, ev) \in SdlKeyRecords
         /\ FoldKey(keys, ev).held = CASE ev.kind \in {"down", "repeat"} -> keys.held \cup {ev.code}
                                       [] ev.kind = "up" -> keys.held \ {ev.code}
                                       [] OTHER -> keys.held
<1>1. CASE ev.kind = "down"
  BY <1>1 DEF FoldKey, SdlKeyRecords, SdlEventOK
<1>2. CASE ev.kind = "repeat"
  BY <1>2 DEF FoldKey, SdlKeyRecords, SdlEventOK
<1>3. CASE ev.kind = "up"
  BY <1>3 DEF FoldKey, SdlKeyRecords, SdlEventOK
<1>4. CASE ev.kind \notin {"down", "up", "repeat"}
  BY <1>4 DEF FoldKey, SdlKeyRecords
<1> QED
  BY <1>1, <1>2, <1>3, <1>4

LEMMA FoldedEmpty == ASSUME NEW keys PROVE Folded(keys, <<>>) = keys
<1>1. Len(<<>>) = 0 /\ 0 \in Nat
  OBVIOUS
<1>2. 0 \in Nat /\ 0 = Len(<<>>)
  BY <1>1
<1>3. \E f : Folds(f, keys, <<>>, 0)
  BY <1>2, FoldedIs
<1> QED
  BY <1>3 DEF Folds

(* One more event at the end of the queue is folded in last. *)
LEMMA FoldedAppend ==
  ASSUME NEW keys, NEW queue \in Seq(SdlEventRecords), NEW ev \in SdlEventRecords
  PROVE  Folded(keys, Append(queue, ev)) = FoldKey(Folded(keys, queue), ev)
<1> DEFINE more == Append(queue, ev)
<1>0. PICK n \in Nat : n = Len(queue)
  OBVIOUS
<1>1. n \in Nat /\ Len(more) = n + 1 /\ n + 1 \in Nat /\ more[n + 1] = ev
  BY <1>0
<1>2. \A i \in 1..n : more[i] = queue[i]
  BY <1>0
<1> HIDE DEF more
<1>3. PICK f : Folds(f, keys, queue, n)
  BY <1>0, FoldedIs
<1>4. PICK g : Folds(g, keys, more, n + 1)
  <2>1. n + 1 \in Nat /\ n + 1 = Len(more)
    BY <1>1
  <2> QED
    BY <2>1, FoldedIs
<1> DEFINE G == {m \in 0..n : f[m] = g[m]}
<1>7. 0 \in G
  BY <1>1, <1>3, <1>4 DEF Folds
<1>8. ASSUME NEW m \in 0..n, m < n, m \in G PROVE m + 1 \in G
  <2>1. m + 1 \in 0..n /\ m + 1 \in 1..n /\ m \in 0..(n + 1) /\ m < n + 1
    BY <1>1, <1>8
  <2>2. f[m + 1] = FoldKey(f[m], queue[m + 1]) /\ g[m + 1] = FoldKey(g[m], more[m + 1])
    BY <1>3, <1>4, <1>8, <2>1 DEF Folds
  <2> QED
    BY <1>2, <1>8, <2>1, <2>2
<1>9. n \in G
  <2> HIDE DEF G
  <2> QED
    BY <1>1, <1>7, <1>8, SdlCountUp
<1>10. n \in 0..(n + 1) /\ n < n + 1
  BY <1>1
<1>11. g[n + 1] = FoldKey(g[n], ev)
  BY <1>1, <1>4, <1>10 DEF Folds
<1> QED
  BY <1>3, <1>4, <1>9, <1>11 DEF more, Folds

(* What is held after a fold is what was held before, or what an event of the  *)
(* code has made of it; it depends on nothing else of the keys.               *)
LEMMA FoldedHeld ==
  ASSUME NEW keys \in SdlKeyRecords, NEW other \in SdlKeyRecords,
         NEW queue \in Seq(SdlEventRecords), \A i \in 1..Len(queue) : SdlEventOK(queue[i])
  PROVE  /\ Folded(keys, queue) \in SdlKeyRecords
         /\ keys.held = other.held => Folded(keys, queue).held = Folded(other, queue).held
         /\ \A code \in SdlCodes : (\A i \in 1..Len(queue) : queue[i].code # code) =>
              (code \in Folded(keys, queue).held <=> code \in keys.held)
<1>1. PICK n \in Nat : n = Len(queue)
  OBVIOUS
<1>2. PICK f : Folds(f, keys, queue, n)
  BY <1>1, FoldedIs
<1>3. PICK g : Folds(g, other, queue, n)
  BY <1>1, FoldedIs
<1>4. \A i \in 1..n : queue[i] \in SdlEventRecords /\ SdlEventOK(queue[i])
  BY <1>1
<1> DEFINE Same(m) == keys.held = other.held => f[m].held = g[m].held
           Unseen(m) == \A code \in SdlCodes : (\A i \in 1..n : queue[i].code # code) =>
                          (code \in f[m].held <=> code \in keys.held)
           G == {m \in 0..n : f[m] \in SdlKeyRecords /\ g[m] \in SdlKeyRecords /\ Same(m) /\ Unseen(m)}
<1>7. 0 \in G
  BY <1>1, <1>2, <1>3 DEF Folds
<1>8. ASSUME NEW m \in 0..n, m < n, m \in G PROVE m + 1 \in G
  <2>1. m + 1 \in 0..n /\ m + 1 \in 1..n
    BY <1>1, <1>8
  <2>2. PICK ev \in SdlEventRecords : ev = queue[m + 1] /\ SdlEventOK(ev)
    BY <1>4, <2>1
  <2>3. f[m + 1] = FoldKey(f[m], ev) /\ g[m + 1] = FoldKey(g[m], ev)
    BY <1>2, <1>3, <1>8, <2>2 DEF Folds
  <2>4. f[m] \in SdlKeyRecords /\ g[m] \in SdlKeyRecords /\ Same(m) /\ Unseen(m)
    BY <1>8
  <2>5. f[m + 1] \in SdlKeyRecords /\ g[m + 1] \in SdlKeyRecords
    BY <2>2, <2>3, <2>4, FoldKeyHeld
  <2>6. f[m + 1].held = CASE ev.kind \in {"down", "repeat"} -> f[m].held \cup {ev.code}
                          [] ev.kind = "up" -> f[m].held \ {ev.code}
                          [] OTHER -> f[m].held
    <3>1. PICK k \in SdlKeyRecords : k = f[m]
      BY <2>4
    <3>2. FoldKey(k, ev).held = CASE ev.kind \in {"down", "repeat"} -> k.held \cup {ev.code}
                                  [] ev.kind = "up" -> k.held \ {ev.code}
                                  [] OTHER -> k.held
      BY <2>2, FoldKeyHeld
    <3> QED
      BY <2>3, <3>1, <3>2
  <2>7. g[m + 1].held = CASE ev.kind \in {"down", "repeat"} -> g[m].held \cup {ev.code}
                          [] ev.kind = "up" -> g[m].held \ {ev.code}
                          [] OTHER -> g[m].held
    <3>1. PICK k \in SdlKeyRecords : k = g[m]
      BY <2>4
    <3>2. FoldKey(k, ev).held = CASE ev.kind \in {"down", "repeat"} -> k.held \cup {ev.code}
                                  [] ev.kind = "up" -> k.held \ {ev.code}
                                  [] OTHER -> k.held
      BY <2>2, FoldKeyHeld
    <3> QED
      BY <2>3, <3>1, <3>2
  <2>8. Same(m + 1)
    BY <2>4, <2>6, <2>7
  <2>9. Unseen(m + 1)
    <3> SUFFICES ASSUME NEW code \in SdlCodes, \A i \in 1..n : queue[i].code # code
                 PROVE  code \in f[m + 1].held <=> code \in keys.held
      OBVIOUS
    <3>1. code \in f[m].held <=> code \in keys.held
      BY <2>4
    <3>2. code # ev.code
      BY <2>1, <2>2
    <3> QED
      BY <2>6, <3>1, <3>2
  <2> QED
    BY <2>1, <2>5, <2>8, <2>9
<1>9. n \in G
  <2> HIDE DEF G
  <2> QED
    BY <1>1, <1>7, <1>8, SdlCountUp
<1> QED
  BY <1>1, <1>2, <1>3, <1>9 DEF Folds

(* A key is taken from the devices to the queue, and from there to the keys    *)
(* that a program polls.                                                     *)
LEMMA PushEventInv ==
  ASSUME SdlAssumption, SdlInputInv, NEW kind, NEW code, PushEvent(kind, code),
         \/ kind \in {"down", "up", "repeat"} /\ code \in SdlCodes
         \/ kind \in SdlEvents /\ code = "none"
  PROVE  SdlInputInv'
<1> DEFINE ev == [kind |-> kind, code |-> code]
<1>1. ev \in SdlEventRecords /\ ev.kind = kind /\ ev.code = code
  BY DEF SdlEventRecords
<1>2. SdlEventOK(ev)
  BY <1>1 DEF SdlEventOK, SdlCodes
<1>3. sdlQueue' = Append(sdlQueue, ev) /\ sdlQueue \in Seq(SdlEventRecords)
  BY DEF PushEvent, SdlInputInv
<1> HIDE DEF ev
<1>4. sdlQueue' \in Seq(SdlEventRecords) /\ \A i \in 1..Len(sdlQueue') : SdlEventOK(sdlQueue'[i])
  <2>1. sdlQueue' \in Seq(SdlEventRecords) /\ Len(sdlQueue') = Len(sdlQueue) + 1
    BY <1>1, <1>3
  <2>2. ASSUME NEW i \in 1..Len(sdlQueue') PROVE SdlEventOK(sdlQueue'[i])
    <3>1. CASE i \in 1..Len(sdlQueue)
      <4>1. sdlQueue'[i] = sdlQueue[i]
        BY <1>1, <1>3, <3>1
      <4> QED
        BY <3>1, <4>1 DEF SdlInputInv
    <3>2. CASE i = Len(sdlQueue) + 1
      BY <1>1, <1>2, <1>3, <3>2
    <3>3. i \in 1..Len(sdlQueue) \/ i = Len(sdlQueue) + 1
      BY <1>3, <2>1
    <3> QED
      BY <3>1, <3>2, <3>3
  <2> QED
    BY <2>1, <2>2
<1>5. sdlKeys' = sdlKeys /\ sdlKeys \in SdlKeyRecords /\ sdlDown' \in SUBSET SdlCodes
  BY DEF PushEvent, SdlInputInv
<1>6. Folded(sdlKeys', sdlQueue') = FoldKey(Folded(sdlKeys, sdlQueue), ev)
  BY <1>1, <1>3, <1>5, FoldedAppend
<1>7. Folded(sdlKeys, sdlQueue) \in SdlKeyRecords
  BY <1>3, <1>5, FoldedHeld DEF SdlInputInv
<1> DEFINE before == Folded(sdlKeys, sdlQueue).held
           after == Folded(sdlKeys', sdlQueue').held
<1>8. after = CASE kind \in {"down", "repeat"} -> before \cup {code}
                [] kind = "up" -> before \ {code}
                [] OTHER -> before
  <2>1. PICK k \in SdlKeyRecords : k = Folded(sdlKeys, sdlQueue)
    BY <1>7
  <2>2. FoldKey(k, ev).held = CASE kind \in {"down", "repeat"} -> k.held \cup {code}
                                [] kind = "up" -> k.held \ {code}
                                [] OTHER -> k.held
    BY <1>1, <1>2, FoldKeyHeld
  <2> QED
    BY <1>6, <2>1, <2>2
<1>9. \A c \in SdlCodes \ sdlLost : c \in before <=> c \in sdlDown
  BY DEF SdlInputInv, SdlInputFollowed
<1> HIDE DEF before, after
<1>10. ASSUME NEW c \in SdlCodes, c \notin sdlLost' PROVE c \in after <=> c \in sdlDown'
  <2>1. CASE c = code
    <3>1. kind \in {"down", "up", "repeat"}
      BY <2>1, SdlAssumption DEF SdlCodes
    <3> QED
      BY <1>8, <2>1, <3>1 DEF PushEvent
  <2>2. CASE c # code
    <3>1. c \in before <=> c \in sdlDown
      BY <1>9, <1>10, <2>2 DEF PushEvent
    <3>2. c \in after <=> c \in before
      BY <1>8, <2>2
    <3>3. c \in sdlDown' <=> c \in sdlDown
      BY <2>2 DEF PushEvent
    <3> QED
      BY <3>1, <3>2, <3>3
  <2> QED
    BY <2>1, <2>2
<1> QED
  BY <1>4, <1>5, <1>10 DEF SdlInputInv, SdlInputFollowed, after

LEMMA FlushEventsInv == ASSUME SdlInputInv, FlushEvents PROVE SdlInputInv'
<1>1. sdlQueue' = <<>> /\ sdlKeys' = sdlKeys /\ sdlDown' = sdlDown
  BY DEF FlushEvents
<1>2. ASSUME NEW code \in SdlCodes, code \notin sdlLost'
      PROVE  code \in Folded(sdlKeys', sdlQueue').held <=> code \in sdlDown'
  <2>1. code \notin sdlLost /\ \A i \in 1..Len(sdlQueue) : sdlQueue[i].code # code
    <3>1. DOMAIN sdlQueue = 1..Len(sdlQueue)
      BY DEF SdlInputInv
    <3> QED
      BY <1>2, <3>1 DEF FlushEvents
  <2>2. code \in Folded(sdlKeys, sdlQueue).held <=> code \in sdlDown
    BY <2>1 DEF SdlInputInv, SdlInputFollowed
  <2>3. code \in Folded(sdlKeys, sdlQueue).held <=> code \in sdlKeys.held
    BY <2>1, FoldedHeld DEF SdlInputInv
  <2>4. Folded(sdlKeys', sdlQueue') = sdlKeys
    BY <1>1, FoldedEmpty
  <2> QED
    BY <1>1, <2>2, <2>3, <2>4
<1> QED
  BY <1>1, <1>2 DEF SdlInputInv, SdlInputFollowed

LEMMA PumpEventsInv == ASSUME SdlInputInv, PumpEvents PROVE SdlInputInv'
<1> DEFINE cleared == [sdlKeys EXCEPT !.pressed = {}, !.released = {}]
<1>1. /\ sdlQueue' = <<>> /\ sdlKeys' = Folded(cleared, sdlQueue)
      /\ sdlDown' = sdlDown /\ sdlLost' = sdlLost
  BY DEF PumpEvents
<1>2. cleared \in SdlKeyRecords /\ cleared.held = sdlKeys.held
  <2>1. \A keys \in SdlKeyRecords :
          /\ [keys EXCEPT !.pressed = {}, !.released = {}] \in SdlKeyRecords
          /\ [keys EXCEPT !.pressed = {}, !.released = {}].held = keys.held
    BY DEF SdlKeyRecords
  <2> QED
    BY <2>1 DEF SdlInputInv
<1> HIDE DEF cleared
<1>3. /\ Folded(cleared, sdlQueue) \in SdlKeyRecords
      /\ Folded(cleared, sdlQueue).held = Folded(sdlKeys, sdlQueue).held
  BY <1>2, FoldedHeld DEF SdlInputInv
<1>4. Folded(sdlKeys', sdlQueue') = sdlKeys'
  BY <1>1, FoldedEmpty
<1>5. SdlInputFollowed'
  BY <1>1, <1>3, <1>4 DEF SdlInputInv, SdlInputFollowed
<1> QED
  BY <1>1, <1>3, <1>5 DEF SdlInputInv

LEMMA SdlInputInitInv == SdlInit => SdlInputInv
<1> SUFFICES ASSUME SdlInit PROVE SdlInputInv
  OBVIOUS
<1>1. sdlQueue = <<>> /\ sdlKeys \in SdlKeyRecords /\ sdlKeys.held = {} /\ sdlDown = {}
  BY DEF SdlInit, NoKeys, SdlKeyRecords
<1>2. Folded(sdlKeys, sdlQueue) = sdlKeys
  BY <1>1, FoldedEmpty
<1> QED
  BY <1>1, <1>2 DEF SdlInputInv, SdlInputFollowed

LEMMA SdlInputNextInv == ASSUME SdlInputInv, [SdlNext]_sdlVars PROVE SdlInputInv'
<1>1. CASE UNCHANGED <<sdlQueue, sdlDown, sdlLost, sdlKeys>>
  BY <1>1 DEF SdlInputInv, SdlInputFollowed
<1>2. CASE SdlInputNext
  <2>1. ASSUME NEW kind \in {"down", "up", "repeat"}, NEW code \in SdlCodes, PushEvent(kind, code)
        PROVE  SdlInputInv'
    BY <2>1, PushEventInv, SdlAssumption
  <2>2. ASSUME NEW kind \in SdlEvents, PushEvent(kind, "none") PROVE SdlInputInv'
    BY <2>2, PushEventInv, SdlAssumption
  <2>3. CASE ClearQuit \/ (\E f \in SdlReadFlags : TakeFlag(f)) \/ TakeDrop \/ PushDrop
             \/ TakeTextInput \/ PushTextInput
    BY <1>1, <2>3 DEF ClearQuit, TakeFlag, TakeDrop, PushDrop, TakeTextInput, PushTextInput
  <2> QED
    BY <1>2, <2>1, <2>2, <2>3, FlushEventsInv, PumpEventsInv DEF SdlInputNext
<1>3. CASE Quit
  <2>1. sdlQueue' = <<>> /\ sdlKeys' \in SdlKeyRecords /\ sdlDown' = sdlDown /\ sdlLost' = SdlCodes
    BY <1>3 DEF Quit, NoKeys, SdlKeyRecords
  <2> QED
    BY <2>1 DEF SdlInputInv, SdlInputFollowed
<1>4. CASE InitSdl
  BY <1>1, <1>4 DEF InitSdl, sdlInput
<1>5. CASE SdlDevicesNext
  BY <1>1, <1>5 DEF SdlDevicesNext, SoundLoad, SoundCreateTone, SetMasterVolume, SoundSetVolume, SoundUnload,
     JoystickClose, GamepadClose, JoystickOpen, GamepadOpen, PadOpen, PadClose, sdlInput
<1>6. CASE SdlCachesNext
  BY <1>1, <1>6 DEF SdlCachesNext, SetSystemCursor, GetClipboardText, CacheString, ListDirectory,
     LocaleCount, GamepadMapping, CacheReplace, sdlInput
<1>7. CASE UNCHANGED sdlVars
  BY <1>1, <1>7 DEF sdlVars, sdlInput
<1> QED
  BY <1>2, <1>3, <1>4, <1>5, <1>6, <1>7 DEF SdlNext

-----------------------------------------------------------------------------
(* What the adapter opened *)

SdlSoundRecords == [used : BOOLEAN, gain : Nat, set : Nat]
SdlUsedSounds == {i \in 1..SdlSlots : sdlSounds[i].used}

SdlObjectTypes ==
  /\ sdlSounds \in [1..SdlSlots -> SdlSoundRecords] /\ sdlMaster \in Nat
  /\ sdlPads \in [SdlPadKinds -> SUBSET (1..SdlPadSlots)]
  /\ IsFiniteSet(sdlCursors) /\ sdlCaches \subseteq SdlCacheIds
  /\ sdlAlive \in [SdlKinds -> Int]

(* SDL's objects of each kind are those in the table of the kind. *)
SdlCounted ==
  /\ sdlAlive["stream"] = Cardinality(SdlUsedSounds)
  /\ sdlAlive["buffer"] = Cardinality(SdlUsedSounds)
  /\ sdlAlive["cursor"] = Cardinality(sdlCursors)
  /\ \A k \in SdlPadKinds : sdlAlive[k] = Cardinality(sdlPads[k])
  /\ \A c \in SdlCacheIds : sdlAlive[c] = IF c \in sdlCaches THEN 1 ELSE 0

SdlGains == \A i \in 1..SdlSlots : sdlSounds[i].used => sdlSounds[i].set = sdlSounds[i].gain * sdlMaster

SdlObjectInv == SdlObjectTypes /\ SdlCounted /\ SdlGains

LEMMA SdlFinite ==
  /\ \A S \in SUBSET (1..SdlSlots) : IsFiniteSet(S) /\ Cardinality(S) \in Nat
  /\ \A S \in SUBSET (1..SdlPadSlots) : IsFiniteSet(S) /\ Cardinality(S) \in Nat
<1>1. SdlSlots \in Nat /\ SdlPadSlots \in Nat
  BY SdlAssumption
<1>2. ASSUME NEW n \in Nat, NEW S \in SUBSET (1..n) PROVE IsFiniteSet(S) /\ Cardinality(S) \in Nat
  <2>1. IsFiniteSet(1..n)
    BY FS_Interval
  <2>2. IsFiniteSet(S)
    BY <2>1, FS_Subset
  <2> QED
    BY <2>2, FS_CardinalityType
<1> QED
  BY <1>1, <1>2

LEMMA SdlKindsAre ==
  /\ {"stream", "buffer", "cursor"} \subseteq SdlKinds /\ SdlPadKinds \subseteq SdlKinds
  /\ SdlCacheIds \subseteq SdlKinds
  /\ \A k \in SdlPadKinds \cup SdlCacheIds : k \notin {"stream", "buffer", "cursor"}
  /\ SdlPadKinds \cap SdlCacheIds = {} /\ SdlKinds \subseteq {"stream", "buffer", "cursor"} \cup SdlPadKinds \cup SdlCacheIds
BY DEF SdlKinds, SdlPadKinds, SdlCacheIds

(* What SDL gives or takes is counted for its kinds and no other. *)
LEMMA SdlGiveTake ==
  ASSUME sdlAlive \in [SdlKinds -> Int], NEW kinds
  PROVE  /\ SdlGive(kinds) => /\ sdlAlive' \in [SdlKinds -> Int]
                              /\ \A k \in SdlKinds : k \in kinds => sdlAlive'[k] = sdlAlive[k] + 1
                              /\ \A k \in SdlKinds : k \notin kinds => sdlAlive'[k] = sdlAlive[k]
         /\ SdlTake(kinds) => /\ sdlAlive' \in [SdlKinds -> Int]
                              /\ \A k \in SdlKinds : k \in kinds => sdlAlive'[k] = sdlAlive[k] - 1
                              /\ \A k \in SdlKinds : k \notin kinds => sdlAlive'[k] = sdlAlive[k]
<1>1. ASSUME SdlGive(kinds)
      PROVE  /\ sdlAlive' \in [SdlKinds -> Int]
             /\ \A k \in SdlKinds : k \in kinds => sdlAlive'[k] = sdlAlive[k] + 1
             /\ \A k \in SdlKinds : k \notin kinds => sdlAlive'[k] = sdlAlive[k]
  <2>1. sdlAlive' = [k \in SdlKinds |-> sdlAlive[k] + (IF k \in kinds THEN 1 ELSE 0)]
    BY <1>1 DEF SdlGive
  <2>2. \A k \in SdlKinds : sdlAlive[k] \in Int
    OBVIOUS
  <2>3. \A n \in Int : n + 0 = n /\ n + 1 \in Int
    OBVIOUS
  <2>4. \A k \in SdlKinds : /\ k \in kinds => sdlAlive'[k] = sdlAlive[k] + 1
                            /\ k \notin kinds => sdlAlive'[k] = sdlAlive[k]
    BY <2>1, <2>2, <2>3
  <2>5. \A k \in SdlKinds : sdlAlive'[k] \in Int
    BY <2>2, <2>3, <2>4
  <2>6. DOMAIN sdlAlive' = SdlKinds /\ sdlAlive' = [k \in DOMAIN sdlAlive' |-> sdlAlive'[k]]
    BY <2>1
  <2> QED
    BY <2>4, <2>5, <2>6
<1>2. ASSUME SdlTake(kinds)
      PROVE  /\ sdlAlive' \in [SdlKinds -> Int]
             /\ \A k \in SdlKinds : k \in kinds => sdlAlive'[k] = sdlAlive[k] - 1
             /\ \A k \in SdlKinds : k \notin kinds => sdlAlive'[k] = sdlAlive[k]
  <2>1. sdlAlive' = [k \in SdlKinds |-> sdlAlive[k] - (IF k \in kinds THEN 1 ELSE 0)]
    BY <1>2 DEF SdlTake
  <2>2. \A k \in SdlKinds : sdlAlive[k] \in Int
    OBVIOUS
  <2>3. \A n \in Int : n - 0 = n /\ n - 1 \in Int
    OBVIOUS
  <2>4. \A k \in SdlKinds : /\ k \in kinds => sdlAlive'[k] = sdlAlive[k] - 1
                            /\ k \notin kinds => sdlAlive'[k] = sdlAlive[k]
    BY <2>1, <2>2, <2>3
  <2>5. \A k \in SdlKinds : sdlAlive'[k] \in Int
    BY <2>2, <2>3, <2>4
  <2>6. DOMAIN sdlAlive' = SdlKinds /\ sdlAlive' = [k \in DOMAIN sdlAlive' |-> sdlAlive'[k]]
    BY <2>1
  <2> QED
    BY <2>4, <2>5, <2>6
<1> QED
  BY <1>1, <1>2

LEMMA SoundLoadInv == ASSUME SdlObjectInv, SoundLoad PROVE SdlObjectInv'
<1>1. CASE UNCHANGED <<sdlSounds, sdlAlive>>
  BY <1>1 DEF SoundLoad, SdlObjectInv, SdlObjectTypes, SdlCounted, SdlGains, SdlUsedSounds
<1>2. ASSUME NEW i \in 1..SdlSlots, SoundAdd(i), SdlGive({"buffer", "stream"}) PROVE SdlObjectInv'
  <2> DEFINE r == [used |-> TRUE, gain |-> 1, set |-> sdlMaster]
  <2>1. r \in SdlSoundRecords /\ r.used /\ r.gain = 1 /\ r.set = sdlMaster
    <3>1. TRUE \in BOOLEAN /\ 1 \in Nat /\ sdlMaster \in Nat
      BY DEF SdlObjectInv, SdlObjectTypes
    <3> QED
      BY <3>1 DEF SdlSoundRecords
  <2>2. sdlSounds' = [sdlSounds EXCEPT ![i] = r] /\ ~sdlSounds[i].used
    BY <1>2 DEF SoundAdd
  <2> HIDE DEF r
  <2>3. /\ sdlSounds' \in [1..SdlSlots -> SdlSoundRecords] /\ sdlSounds'[i] = r
        /\ \A j \in 1..SdlSlots : j # i => sdlSounds'[j] = sdlSounds[j]
    BY <2>1, <2>2 DEF SdlObjectInv, SdlObjectTypes
  <2>4. UNCHANGED <<sdlMaster, sdlPads, sdlCursors, sdlCaches>>
    BY DEF SoundLoad
  <2>5. SdlUsedSounds' = SdlUsedSounds \cup {i} /\ i \notin SdlUsedSounds
    BY <2>1, <2>2, <2>3 DEF SdlUsedSounds
  <2>6. IsFiniteSet(SdlUsedSounds)
    BY SdlFinite DEF SdlUsedSounds
  <2>7. Cardinality(SdlUsedSounds') = Cardinality(SdlUsedSounds) + 1
    BY <2>5, <2>6, FS_AddElement
  <2>8. /\ sdlAlive' \in [SdlKinds -> Int]
        /\ sdlAlive'["stream"] = sdlAlive["stream"] + 1 /\ sdlAlive'["buffer"] = sdlAlive["buffer"] + 1
        /\ sdlAlive'["cursor"] = sdlAlive["cursor"]
        /\ \A k \in SdlPadKinds \cup SdlCacheIds : sdlAlive'[k] = sdlAlive[k]
    BY <1>2, SdlGiveTake, SdlKindsAre DEF SdlObjectInv, SdlObjectTypes
  <2>9. SdlCounted'
    BY <2>4, <2>7, <2>8 DEF SdlObjectInv, SdlCounted
  <2>10. SdlGains'
    <3>1. sdlMaster \in Nat /\ \A n \in Nat : n = 1 * n
      BY DEF SdlObjectInv, SdlObjectTypes
    <3>2. sdlSounds'[i].set = sdlSounds'[i].gain * sdlMaster'
      BY <2>1, <2>3, <2>4, <3>1
    <3> QED
      BY <2>3, <2>4, <3>2 DEF SdlObjectInv, SdlGains
  <2> QED
    BY <2>3, <2>4, <2>8, <2>9, <2>10 DEF SdlObjectInv, SdlObjectTypes
<1> QED
  BY <1>1, <1>2 DEF SoundLoad

LEMMA SoundUnloadInv ==
  ASSUME SdlObjectInv, NEW i \in 1..SdlSlots, SoundUnload(i) PROVE SdlObjectInv'
<1> DEFINE r == [sdlSounds[i] EXCEPT !.used = FALSE]
<1>1. r \in SdlSoundRecords /\ ~r.used
  <2>1. sdlSounds[i] \in SdlSoundRecords
    BY DEF SdlObjectInv, SdlObjectTypes
  <2> QED
    BY <2>1 DEF SdlSoundRecords
<1>2. sdlSounds' = [sdlSounds EXCEPT ![i] = r] /\ sdlSounds[i].used
  BY DEF SoundUnload, SdlObjectInv, SdlObjectTypes
<1> HIDE DEF r
<1>3. /\ sdlSounds' \in [1..SdlSlots -> SdlSoundRecords] /\ sdlSounds'[i] = r
      /\ \A j \in 1..SdlSlots : j # i => sdlSounds'[j] = sdlSounds[j]
  BY <1>1, <1>2 DEF SdlObjectInv, SdlObjectTypes
<1>4. UNCHANGED <<sdlMaster, sdlPads, sdlCursors, sdlCaches>>
  BY DEF SoundUnload
<1>5. SdlUsedSounds' = SdlUsedSounds \ {i} /\ i \in SdlUsedSounds
  BY <1>1, <1>2, <1>3 DEF SdlUsedSounds
<1>6. IsFiniteSet(SdlUsedSounds)
  BY SdlFinite DEF SdlUsedSounds
<1>7. Cardinality(SdlUsedSounds') = Cardinality(SdlUsedSounds) - 1
  BY <1>5, <1>6, FS_RemoveElement
<1>8. /\ sdlAlive' \in [SdlKinds -> Int]
      /\ sdlAlive'["stream"] = sdlAlive["stream"] - 1 /\ sdlAlive'["buffer"] = sdlAlive["buffer"] - 1
      /\ sdlAlive'["cursor"] = sdlAlive["cursor"]
      /\ \A k \in SdlPadKinds \cup SdlCacheIds : sdlAlive'[k] = sdlAlive[k]
  <2>1. SdlTake({"buffer", "stream"})
    BY DEF SoundUnload
  <2>2. sdlAlive \in [SdlKinds -> Int]
    BY DEF SdlObjectInv, SdlObjectTypes
  <2> QED
    BY <2>1, <2>2, SdlGiveTake, SdlKindsAre
<1>9. SdlCounted'
  BY <1>4, <1>7, <1>8 DEF SdlObjectInv, SdlCounted
<1>10. SdlGains'
  BY <1>1, <1>3, <1>4 DEF SdlObjectInv, SdlGains
<1> QED
  BY <1>3, <1>4, <1>8, <1>9, <1>10 DEF SdlObjectInv, SdlObjectTypes

(* The volumes change what the streams are set to, and the sounds stay. *)
LEMMA VolumesInv ==
  ASSUME SdlObjectInv, sdlMaster' \in Nat, UNCHANGED <<sdlPads, sdlCursors, sdlCaches, sdlAlive>>,
         sdlSounds' \in [1..SdlSlots -> SdlSoundRecords], SdlGains',
         \A i \in 1..SdlSlots : sdlSounds'[i].used = sdlSounds[i].used
  PROVE  SdlObjectInv'
<1>1. SdlUsedSounds' = SdlUsedSounds
  BY DEF SdlUsedSounds
<1> QED
  BY <1>1 DEF SdlObjectInv, SdlObjectTypes, SdlCounted

LEMMA SoundSetVolumeInv ==
  ASSUME SdlObjectInv, NEW i \in 1..SdlSlots, NEW v \in SdlVolumes, SoundSetVolume(i, v) PROVE SdlObjectInv'
<1>1. v \in Nat /\ sdlMaster \in Nat /\ sdlSounds \in [1..SdlSlots -> SdlSoundRecords]
  BY SdlAssumption DEF SdlObjectInv, SdlObjectTypes
<1>2. PICK p \in Nat : p = v * sdlMaster
  BY <1>1
<1> DEFINE r == [sdlSounds[i] EXCEPT !.gain = v, !.set = p]
<1>3. r \in SdlSoundRecords /\ r.used = sdlSounds[i].used /\ r.gain = v /\ r.set = p
  <2>1. sdlSounds[i] \in SdlSoundRecords
    BY <1>1
  <2> QED
    BY <1>1, <2>1 DEF SdlSoundRecords
<1>4. sdlSounds' = [sdlSounds EXCEPT ![i] = r] /\ sdlMaster' = sdlMaster
  BY <1>1, <1>2 DEF SoundSetVolume
<1> HIDE DEF r
<1>5. /\ sdlSounds' \in [1..SdlSlots -> SdlSoundRecords] /\ sdlSounds'[i] = r
      /\ \A j \in 1..SdlSlots : j # i => sdlSounds'[j] = sdlSounds[j]
  BY <1>1, <1>3, <1>4
<1>6. \A j \in 1..SdlSlots : sdlSounds'[j].used = sdlSounds[j].used
  BY <1>3, <1>5
<1>7. sdlSounds'[i].set = sdlSounds'[i].gain * sdlMaster'
  BY <1>2, <1>3, <1>4, <1>5
<1>8. SdlGains'
  BY <1>4, <1>5, <1>7 DEF SdlObjectInv, SdlGains
<1> QED
  BY <1>1, <1>4, <1>5, <1>6, <1>8, VolumesInv DEF SoundSetVolume

LEMMA SetMasterVolumeInv ==
  ASSUME SdlObjectInv, NEW v \in SdlVolumes, SetMasterVolume(v) PROVE SdlObjectInv'
<1>1. v \in Nat /\ sdlSounds \in [1..SdlSlots -> SdlSoundRecords] /\ sdlMaster' = v
  BY SdlAssumption DEF SetMasterVolume, SdlObjectInv, SdlObjectTypes
<1>2. ASSUME NEW i \in 1..SdlSlots
      PROVE  /\ sdlSounds'[i] \in SdlSoundRecords /\ sdlSounds'[i].used = sdlSounds[i].used
             /\ sdlSounds'[i].used => sdlSounds'[i].set = sdlSounds'[i].gain * v
  <2>1. sdlSounds[i] \in SdlSoundRecords
    BY <1>1
  <2>2. PICK p \in Nat : p = sdlSounds[i].gain * v
    BY <1>1, <2>1 DEF SdlSoundRecords
  <2>3. CASE sdlSounds[i].used
    <3>1. sdlSounds'[i] = [sdlSounds[i] EXCEPT !.set = p]
      BY <1>1, <2>2, <2>3 DEF SetMasterVolume
    <3>2. /\ sdlSounds'[i] \in SdlSoundRecords /\ sdlSounds'[i].used = sdlSounds[i].used
          /\ sdlSounds'[i].set = p /\ sdlSounds'[i].gain = sdlSounds[i].gain
      BY <2>1, <3>1 DEF SdlSoundRecords
    <3> QED
      BY <2>2, <3>2
  <2>4. CASE ~sdlSounds[i].used
    <3>1. sdlSounds'[i] = sdlSounds[i]
      BY <2>4 DEF SetMasterVolume
    <3> QED
      BY <2>1, <2>4, <3>1
  <2> QED
    BY <2>3, <2>4
<1>3. DOMAIN sdlSounds' = 1..SdlSlots /\ sdlSounds' = [i \in DOMAIN sdlSounds' |-> sdlSounds'[i]]
  BY DEF SetMasterVolume
<1>4. sdlSounds' \in [1..SdlSlots -> SdlSoundRecords]
  BY <1>2, <1>3
<1>5. SdlGains'
  BY <1>1, <1>2 DEF SdlGains
<1> QED
  BY <1>1, <1>2, <1>4, <1>5, VolumesInv DEF SetMasterVolume

(* A step that leaves the objects alone. *)
LEMMA SdlObjectsKept == ASSUME SdlObjectInv, UNCHANGED sdlObjects PROVE SdlObjectInv'
<1>1. UNCHANGED <<sdlSounds, sdlMaster, sdlPads, sdlCursors, sdlCaches, sdlAlive>>
  BY DEF sdlObjects
<1> QED
  BY <1>1 DEF SdlObjectInv, SdlObjectTypes, SdlCounted, SdlGains, SdlUsedSounds

(* A step on the tables of pads, cursors and caches that keeps the sounds. *)
LEMMA SdlSoundsKept ==
  ASSUME SdlObjectInv, UNCHANGED <<sdlSounds, sdlMaster>>,
         sdlPads' \in [SdlPadKinds -> SUBSET (1..SdlPadSlots)], IsFiniteSet(sdlCursors'),
         sdlCaches' \subseteq SdlCacheIds, sdlAlive' \in [SdlKinds -> Int],
         sdlAlive'["stream"] = sdlAlive["stream"], sdlAlive'["buffer"] = sdlAlive["buffer"],
         sdlAlive'["cursor"] = Cardinality(sdlCursors'),
         \A k \in SdlPadKinds : sdlAlive'[k] = Cardinality(sdlPads'[k]),
         \A c \in SdlCacheIds : sdlAlive'[c] = IF c \in sdlCaches' THEN 1 ELSE 0
  PROVE  SdlObjectInv'
<1>1. SdlUsedSounds' = SdlUsedSounds
  BY DEF SdlUsedSounds
<1> QED
  BY <1>1 DEF SdlObjectInv, SdlObjectTypes, SdlCounted, SdlGains

LEMMA PadOpenInv == ASSUME SdlObjectInv, NEW kind \in SdlPadKinds, PadOpen(kind) PROVE SdlObjectInv'
<1>1. CASE UNCHANGED <<sdlPads, sdlAlive>>
  BY <1>1, SdlObjectsKept DEF PadOpen, sdlObjects
<1>2. ASSUME NEW i \in 1..SdlPadSlots, i \notin sdlPads[kind],
             sdlPads' = [sdlPads EXCEPT ![kind] = @ \cup {i}], SdlGive({kind})
      PROVE  SdlObjectInv'
  <2>1. sdlPads \in [SdlPadKinds -> SUBSET (1..SdlPadSlots)]
    BY DEF SdlObjectInv, SdlObjectTypes
  <2>2. /\ sdlPads' \in [SdlPadKinds -> SUBSET (1..SdlPadSlots)] /\ sdlPads'[kind] = sdlPads[kind] \cup {i}
        /\ \A k \in SdlPadKinds : k # kind => sdlPads'[k] = sdlPads[k]
    BY <1>2, <2>1
  <2>3. IsFiniteSet(sdlPads[kind])
    BY <2>1, SdlFinite
  <2>4. Cardinality(sdlPads'[kind]) = Cardinality(sdlPads[kind]) + 1
    BY <1>2, <2>2, <2>3, FS_AddElement
  <2>5. UNCHANGED <<sdlSounds, sdlMaster, sdlCursors, sdlCaches>>
    BY DEF PadOpen
  <2>6. /\ sdlAlive' \in [SdlKinds -> Int] /\ sdlAlive'[kind] = sdlAlive[kind] + 1
        /\ \A k \in SdlKinds : k # kind => sdlAlive'[k] = sdlAlive[k]
    BY <1>2, SdlGiveTake, SdlKindsAre DEF SdlObjectInv, SdlObjectTypes
  <2>7. \A k \in SdlPadKinds : sdlAlive'[k] = Cardinality(sdlPads'[k])
    BY <2>2, <2>4, <2>6, SdlKindsAre DEF SdlObjectInv, SdlCounted
  <2>8. /\ sdlAlive'["stream"] = sdlAlive["stream"] /\ sdlAlive'["buffer"] = sdlAlive["buffer"]
        /\ sdlAlive'["cursor"] = sdlAlive["cursor"]
        /\ \A c \in SdlCacheIds : sdlAlive'[c] = sdlAlive[c]
    BY <2>6, SdlKindsAre
  <2> QED
    BY <2>2, <2>5, <2>6, <2>7, <2>8, SdlSoundsKept DEF SdlObjectInv, SdlObjectTypes, SdlCounted
<1> QED
  BY <1>1, <1>2 DEF PadOpen

LEMMA PadCloseInv ==
  ASSUME SdlObjectInv, NEW kind \in SdlPadKinds, NEW i \in 1..SdlPadSlots, PadClose(kind, i)
  PROVE  SdlObjectInv'
<1>1. sdlPads \in [SdlPadKinds -> SUBSET (1..SdlPadSlots)]
  BY DEF SdlObjectInv, SdlObjectTypes
<1>2. /\ sdlPads' \in [SdlPadKinds -> SUBSET (1..SdlPadSlots)] /\ sdlPads'[kind] = sdlPads[kind] \ {i}
      /\ \A k \in SdlPadKinds : k # kind => sdlPads'[k] = sdlPads[k]
  BY <1>1 DEF PadClose
<1>3. IsFiniteSet(sdlPads[kind]) /\ i \in sdlPads[kind]
  BY <1>1, SdlFinite DEF PadClose
<1>4. Cardinality(sdlPads'[kind]) = Cardinality(sdlPads[kind]) - 1
  BY <1>2, <1>3, FS_RemoveElement
<1>5. UNCHANGED <<sdlSounds, sdlMaster, sdlCursors, sdlCaches>>
  BY DEF PadClose
<1>6. /\ sdlAlive' \in [SdlKinds -> Int] /\ sdlAlive'[kind] = sdlAlive[kind] - 1
      /\ \A k \in SdlKinds : k # kind => sdlAlive'[k] = sdlAlive[k]
  BY SdlGiveTake, SdlKindsAre DEF PadClose, SdlObjectInv, SdlObjectTypes
<1>7. \A k \in SdlPadKinds : sdlAlive'[k] = Cardinality(sdlPads'[k])
  BY <1>2, <1>4, <1>6, SdlKindsAre DEF SdlObjectInv, SdlCounted
<1>8. /\ sdlAlive'["stream"] = sdlAlive["stream"] /\ sdlAlive'["buffer"] = sdlAlive["buffer"]
      /\ sdlAlive'["cursor"] = sdlAlive["cursor"]
      /\ \A c \in SdlCacheIds : sdlAlive'[c] = sdlAlive[c]
  BY <1>6, SdlKindsAre
<1> QED
  BY <1>2, <1>5, <1>6, <1>7, <1>8, SdlSoundsKept DEF SdlObjectInv, SdlObjectTypes, SdlCounted

LEMMA SetSystemCursorInv == ASSUME SdlObjectInv, NEW id, SetSystemCursor(id) PROVE SdlObjectInv'
<1>1. CASE UNCHANGED <<sdlCursors, sdlAlive>>
  BY <1>1, SdlObjectsKept DEF SetSystemCursor, sdlObjects
<1>2. CASE id \notin sdlCursors /\ sdlCursors' = sdlCursors \cup {id} /\ SdlGive({"cursor"})
  <2>1. IsFiniteSet(sdlCursors)
    BY DEF SdlObjectInv, SdlObjectTypes
  <2>2. IsFiniteSet(sdlCursors') /\ Cardinality(sdlCursors') = Cardinality(sdlCursors) + 1
    BY <1>2, <2>1, FS_AddElement
  <2>3. UNCHANGED <<sdlSounds, sdlMaster, sdlPads, sdlCaches>>
    BY DEF SetSystemCursor
  <2>4. /\ sdlAlive' \in [SdlKinds -> Int] /\ sdlAlive'["cursor"] = sdlAlive["cursor"] + 1
        /\ \A k \in SdlKinds : k # "cursor" => sdlAlive'[k] = sdlAlive[k]
    BY <1>2, SdlGiveTake, SdlKindsAre DEF SdlObjectInv, SdlObjectTypes
  <2>5. /\ sdlAlive'["stream"] = sdlAlive["stream"] /\ sdlAlive'["buffer"] = sdlAlive["buffer"]
        /\ \A k \in SdlPadKinds \cup SdlCacheIds : sdlAlive'[k] = sdlAlive[k]
    BY <2>4, SdlKindsAre
  <2> QED
    BY <2>2, <2>3, <2>4, <2>5, SdlSoundsKept DEF SdlObjectInv, SdlObjectTypes, SdlCounted
<1> QED
  BY <1>1, <1>2 DEF SetSystemCursor

LEMMA CacheReplaceInv == ASSUME SdlObjectInv, NEW c \in SdlCacheIds, CacheReplace(c) PROVE SdlObjectInv'
<1>1. PICK before \in Int : before = IF c \in sdlCaches THEN 1 ELSE 0
  OBVIOUS
<1>2. PICK after \in Int : after = IF c \in sdlCaches' THEN 1 ELSE 0
  OBVIOUS
<1>3. sdlAlive' = [sdlAlive EXCEPT ![c] = (@ - before) + after]
  BY <1>1, <1>2 DEF CacheReplace
<1>4. sdlAlive \in [SdlKinds -> Int] /\ c \in SdlKinds /\ sdlAlive[c] = before
  BY <1>1, SdlKindsAre DEF SdlObjectInv, SdlObjectTypes, SdlCounted
<1>5. (sdlAlive[c] - before) + after = after
  BY <1>1, <1>2, <1>4
<1>6. /\ sdlAlive' \in [SdlKinds -> Int] /\ sdlAlive'[c] = after
      /\ \A k \in SdlKinds : k # c => sdlAlive'[k] = sdlAlive[k]
  BY <1>2, <1>3, <1>4, <1>5
<1>7. UNCHANGED <<sdlSounds, sdlMaster, sdlPads, sdlCursors>>
  BY DEF CacheReplace
<1>8. /\ \A d \in SdlCacheIds : d # c => (d \in sdlCaches' <=> d \in sdlCaches)
      /\ sdlCaches' \subseteq SdlCacheIds
  BY DEF CacheReplace, SdlObjectInv, SdlObjectTypes
<1>9. \A d \in SdlCacheIds : sdlAlive'[d] = IF d \in sdlCaches' THEN 1 ELSE 0
  BY <1>2, <1>6, <1>8, SdlKindsAre DEF SdlObjectInv, SdlCounted
<1>10. /\ sdlAlive'["stream"] = sdlAlive["stream"] /\ sdlAlive'["buffer"] = sdlAlive["buffer"]
       /\ sdlAlive'["cursor"] = sdlAlive["cursor"]
       /\ \A k \in SdlPadKinds : sdlAlive'[k] = sdlAlive[k]
  BY <1>6, SdlKindsAre
<1> QED
  BY <1>6, <1>7, <1>8, <1>9, <1>10, SdlSoundsKept DEF SdlObjectInv, SdlObjectTypes, SdlCounted

(* uxsdl3_quit gives every object back: what is left of each kind is nothing. *)
LEMMA QuitInv == ASSUME SdlObjectInv, Quit PROVE SdlObjectInv'
<1>1. /\ sdlSounds \in [1..SdlSlots -> SdlSoundRecords] /\ sdlAlive \in [SdlKinds -> Int]
      /\ sdlPads \in [SdlPadKinds -> SUBSET (1..SdlPadSlots)]
  BY DEF SdlObjectInv, SdlObjectTypes
<1>2. /\ sdlPads' = [k \in SdlPadKinds |-> {}] /\ sdlCursors' = {} /\ sdlCaches' = {} /\ sdlMaster' = 1
      /\ sdlSounds' = [i \in 1..SdlSlots |-> [sdlSounds[i] EXCEPT !.used = FALSE]]
  BY DEF Quit
<1>3. ASSUME NEW i \in 1..SdlSlots PROVE sdlSounds'[i] \in SdlSoundRecords /\ ~sdlSounds'[i].used
  <2>1. sdlSounds[i] \in SdlSoundRecords
    BY <1>1
  <2> QED
    BY <1>2, <2>1 DEF SdlSoundRecords
<1>4. sdlSounds' \in [1..SdlSlots -> SdlSoundRecords]
  <2>1. DOMAIN sdlSounds' = 1..SdlSlots /\ sdlSounds' = [i \in DOMAIN sdlSounds' |-> sdlSounds'[i]]
    BY <1>2
  <2> QED
    BY <1>3, <2>1
<1>5. SdlUsedSounds' = {} /\ SdlGains'
  BY <1>3 DEF SdlUsedSounds, SdlGains
<1>6. Cardinality({}) = 0 /\ IsFiniteSet({})
  BY FS_EmptySet
<1> DEFINE freed(k) == CASE k \in {"stream", "buffer"} -> Cardinality(SdlUsedSounds)
                         [] k = "cursor" -> Cardinality(sdlCursors)
                         [] k \in sdlCaches -> 1
                         [] OTHER -> 0
           left(k) == IF k \in SdlPadKinds THEN (sdlAlive[k] - freed(k)) - Cardinality(sdlPads[k])
                                           ELSE sdlAlive[k] - freed(k)
<1>7. sdlAlive' = [k \in SdlKinds |-> left(k)]
  <2>1. sdlAlive' = ReleasedPads([k \in SdlKinds |-> sdlAlive[k] - freed(k)])
    BY DEF Quit, SdlUsedSounds
  <2> HIDE DEF freed
  <2> QED
    BY <2>1 DEF ReleasedPads
<1>8. ASSUME NEW k \in SdlKinds PROVE left(k) = 0
  <2>1. PICK n \in Int : n = sdlAlive[k]
    BY <1>1
  <2>2. CASE k \in {"stream", "buffer"}
    <3>1. k \notin SdlPadKinds /\ k # "cursor" /\ k \notin sdlCaches
      BY <2>2, SdlKindsAre DEF SdlObjectInv, SdlObjectTypes
    <3>2. n = Cardinality(SdlUsedSounds)
      BY <2>1, <2>2 DEF SdlObjectInv, SdlCounted
    <3>3. freed(k) = Cardinality(SdlUsedSounds)
      BY <2>2, <3>1
    <3> QED
      BY <2>1, <3>1, <3>2, <3>3
  <2>3. CASE k = "cursor"
    <3>1. k \notin SdlPadKinds /\ k \notin {"stream", "buffer"} /\ k \notin sdlCaches
      BY <2>3, SdlKindsAre DEF SdlObjectInv, SdlObjectTypes
    <3>2. n = Cardinality(sdlCursors)
      BY <2>1, <2>3 DEF SdlObjectInv, SdlCounted
    <3>3. freed(k) = Cardinality(sdlCursors)
      BY <2>3, <3>1
    <3> QED
      BY <2>1, <3>1, <3>2, <3>3
  <2>4. CASE k \in SdlCacheIds
    <3>1. k \notin SdlPadKinds /\ k # "cursor" /\ k \notin {"stream", "buffer"}
      BY <2>4, SdlKindsAre
    <3>2. freed(k) = n
      BY <2>1, <2>4, <3>1 DEF SdlObjectInv, SdlCounted
    <3> QED
      BY <2>1, <3>1, <3>2
  <2>5. CASE k \in SdlPadKinds
    <3>1. k \notin {"stream", "buffer"} /\ k # "cursor" /\ Cardinality(sdlPads[k]) = n
      BY <2>1, <2>5, SdlKindsAre DEF SdlObjectInv, SdlCounted
    <3>2. k \notin sdlCaches
      BY <2>5, SdlKindsAre DEF SdlObjectInv, SdlObjectTypes
    <3>3. freed(k) = 0
      BY <3>1, <3>2
    <3> QED
      BY <2>1, <2>5, <3>1, <3>3
  <2> QED
    BY <2>2, <2>3, <2>4, <2>5, SdlKindsAre
<1> HIDE DEF freed, left
<1>9. sdlAlive' = [k \in SdlKinds |-> 0]
  BY <1>7, <1>8
<1>10. sdlAlive' \in [SdlKinds -> Int] /\ \A k \in SdlKinds : sdlAlive'[k] = 0
  BY <1>9
<1>11. SdlObjectTypes'
  BY <1>2, <1>4, <1>6, <1>10 DEF SdlObjectTypes
<1>12. SdlCounted'
  BY <1>2, <1>5, <1>6, <1>10, SdlKindsAre DEF SdlCounted
<1> QED
  BY <1>5, <1>11, <1>12 DEF SdlObjectInv

LEMMA SdlObjectInitInv == SdlInit => SdlObjectInv
<1> SUFFICES ASSUME SdlInit PROVE SdlObjectInv
  OBVIOUS
<1>1. Cardinality({}) = 0 /\ IsFiniteSet({})
  BY FS_EmptySet
<1>2. NoSound \in SdlSoundRecords /\ ~NoSound.used
  <2>1. FALSE \in BOOLEAN /\ 1 \in Nat
    OBVIOUS
  <2> QED
    BY <2>1 DEF NoSound, SdlSoundRecords
<1>3. sdlSounds \in [1..SdlSlots -> SdlSoundRecords] /\ \A i \in 1..SdlSlots : ~sdlSounds[i].used
  BY <1>2 DEF SdlInit
<1>4. SdlUsedSounds = {} /\ SdlGains
  BY <1>3 DEF SdlUsedSounds, SdlGains
<1>5. SdlObjectTypes
  BY <1>1, <1>3 DEF SdlInit, SdlObjectTypes
<1>6. SdlCounted
  BY <1>1, <1>4, SdlKindsAre DEF SdlInit, SdlCounted
<1> QED
  BY <1>4, <1>5, <1>6 DEF SdlObjectInv

LEMMA SdlObjectNextInv == ASSUME SdlObjectInv, [SdlNext]_sdlVars PROVE SdlObjectInv'
<1>1. CASE UNCHANGED sdlObjects
  BY <1>1, SdlObjectsKept
<1>2. CASE InitSdl \/ UNCHANGED sdlVars
  BY <1>1, <1>2 DEF InitSdl, sdlVars
<1>3. CASE SdlInputNext
  BY <1>1, <1>3 DEF SdlInputNext, PushEvent, FlushEvents, PumpEvents, ClearQuit, TakeFlag, TakeDrop, PushDrop,
     TakeTextInput, PushTextInput
<1>4. CASE SdlDevicesNext
  <2>1. "joystick" \in SdlPadKinds /\ "gamepad" \in SdlPadKinds
    BY DEF SdlPadKinds
  <2> QED
    BY <1>4, <2>1, SoundLoadInv, SoundUnloadInv, SoundSetVolumeInv, SetMasterVolumeInv, PadOpenInv, PadCloseInv
    DEF SdlDevicesNext, SoundCreateTone, JoystickOpen, JoystickClose, GamepadOpen, GamepadClose
<1>5. CASE SdlCachesNext
  BY <1>5, SetSystemCursorInv, CacheReplaceInv
  DEF SdlCachesNext, GetClipboardText, CacheString, ListDirectory, LocaleCount, GamepadMapping, SdlCacheIds
<1> QED
  BY <1>2, <1>3, <1>4, <1>5, QuitInv DEF SdlNext

LEMMA SdlObjectsHold == ASSUME SdlObjectInv PROVE SdlObjectsAccounted
<1> DEFINE held(k) == CASE k \in {"stream", "buffer"} -> Cardinality(SdlUsedSounds)
                        [] k = "cursor" -> Cardinality(sdlCursors)
                        [] k \in SdlPadKinds -> Cardinality(sdlPads[k])
                        [] k \in SdlCacheIds -> IF k \in sdlCaches THEN 1 ELSE 0
<1>1. ASSUME NEW k \in SdlKinds PROVE sdlAlive[k] = held(k)
  <2>1. CASE k \in {"stream", "buffer"} \/ k = "cursor"
    BY <2>1 DEF SdlObjectInv, SdlCounted
  <2>2. CASE k \in SdlPadKinds
    <3>1. k \notin {"stream", "buffer"} /\ k # "cursor" /\ k \notin SdlCacheIds
      BY <2>2, SdlKindsAre
    <3> QED
      BY <2>2, <3>1 DEF SdlObjectInv, SdlCounted
  <2>3. CASE k \in SdlCacheIds
    <3>1. k \notin {"stream", "buffer"} /\ k # "cursor" /\ k \notin SdlPadKinds
      BY <2>3, SdlKindsAre
    <3> QED
      BY <2>3, <3>1 DEF SdlObjectInv, SdlCounted
  <2> QED
    BY <2>1, <2>2, <2>3, SdlKindsAre
<1>2. \A i \in SdlUsedSounds : sdlSounds[i].set = sdlSounds[i].gain * sdlMaster
  BY DEF SdlUsedSounds, SdlObjectInv, SdlGains
<1> QED
  BY <1>1, <1>2 DEF SdlObjectsAccounted, SdlUsedSounds

-----------------------------------------------------------------------------
(* uxsdl3_adapter.c, for every number of slots and every length of the queue: *)
(* what SDL gave out is what the tables hold (through failed loads, full      *)
(* tables, replaced caches and uxsdl3_quit), every used sound plays at its    *)
(* gain times the master gain, and the waiting events, folded in, leave held  *)
(* exactly the codes that are down, those flushed excepted.                   *)
THEOREM SdlFaithfulAlways == SdlSpec => []SdlFaithful
<1>1. SdlInit => SdlInputInv /\ SdlObjectInv
  BY SdlInputInitInv, SdlObjectInitInv
<1>2. SdlInputInv /\ SdlObjectInv /\ [SdlNext]_sdlVars => SdlInputInv' /\ SdlObjectInv'
  BY SdlInputNextInv, SdlObjectNextInv
<1>3. SdlInputInv /\ SdlObjectInv => SdlFaithful
  BY SdlObjectsHold DEF SdlFaithful, SdlInputInv
<1> QED
  BY <1>1, <1>2, <1>3, PTL DEF SdlSpec

-----------------------------------------------------------------------------
(* The handles of the Raylib adapter *)

RlAll == RlKinds \cup {"image"}

(* A table of a kind, and the names that the device or the memory has. *)
RlTableOK(kind, table, names) ==
  /\ table \in [Places(kind) -> Nat]
  /\ names = {table[h] : h \in {g \in Places(kind) : table[g] # 0}}
  /\ \A g, h \in Places(kind) : table[g] = table[h] /\ table[g] # 0 => g = h

RlInv ==
  /\ DOMAIN rlTables = RlAll /\ DOMAIN rlObjects = RlAll
  /\ \A kind \in RlAll \ rlLeft :
       RlTableOK(kind, rlTables[kind], rlObjects[kind]) /\ kind \notin rlMissed

LEMMA RlPlaces ==
  ASSUME NEW kind \in RlAll
  PROVE  Places(kind) \subseteq Nat \ {0} /\ IsFiniteSet(Places(kind))
<1>1. PICK n \in Nat : n = RlLimit[kind] - 1
  BY RlAssumption DEF RlAll
<1>2. Places(kind) = 1..n
  BY <1>1 DEF Places
<1>3. IsFiniteSet(1..n)
  BY FS_Interval
<1>4. 1..n \subseteq Nat \ {0}
  OBVIOUS
<1> QED
  BY <1>2, <1>3, <1>4

(* The places that are used and the names are equally many. *)
LEMMA RlCounts ==
  ASSUME NEW kind \in RlAll, NEW table, NEW names, RlTableOK(kind, table, names)
  PROVE  /\ IsFiniteSet(names) /\ names \subseteq Nat \ {0}
         /\ Cardinality({g \in Places(kind) : table[g] # 0}) = Cardinality(names)
<1>1. PICK used : used = {g \in Places(kind) : table[g] # 0}
  OBVIOUS
<1>2. IsFiniteSet(used)
  <2>1. used \in SUBSET Places(kind)
    BY <1>1
  <2> QED
    BY <2>1, RlPlaces, FS_Subset
<1>3. PICK f : f = [h \in used |-> table[h]]
  OBVIOUS
<1>4. names = {table[h] : h \in used}
  BY <1>1 DEF RlTableOK
<1>5. f \in [used -> names]
  BY <1>3, <1>4
<1>6. f \in Surjection(used, names)
  BY <1>3, <1>4, <1>5 DEF Surjection
<1>7. f \in Injection(used, names)
  BY <1>1, <1>3, <1>5 DEF Injection, IsInjective, RlTableOK
<1>8. IsFiniteSet(names) /\ Cardinality(names) = Cardinality(used)
  BY <1>2, <1>6, <1>7, FS_Surjection
<1>9. names \subseteq Nat \ {0}
  BY <1>1, <1>4 DEF RlTableOK
<1> QED
  BY <1>1, <1>8, <1>9

(* A name that is given is no other object's. *)
LEMMA RlNewName ==
  ASSUME NEW names, IsFiniteSet(names)
  PROVE  NewName(names) \in Nat \ {0} /\ NewName(names) \notin names
<1>1. PICK c \in Nat : c = Cardinality(names)
  BY FS_CardinalityType
<1>2. PICK row : row = 1..(c + 1)
  OBVIOUS
<1>3. IsFiniteSet(row) /\ Cardinality(row) = c + 1
  <2>1. 1 \in Int /\ c + 1 \in Int
    OBVIOUS
  <2>2. IsFiniteSet(row) /\ Cardinality(row) = IF 1 > c + 1 THEN 0 ELSE ((c + 1) - 1) + 1
    BY <1>2, <2>1, FS_Interval
  <2> QED
    BY <2>2
<1>4. ~(row \subseteq names)
  <2>1. SUFFICES ASSUME row \in SUBSET names PROVE FALSE
    OBVIOUS
  <2>2. Cardinality(row) <= Cardinality(names)
    BY <2>1, FS_Subset
  <2> QED
    BY <1>1, <1>3, <2>2
<1>5. PICK n \in row \ names : \A m \in row \ names : n <= m
  <2>1. row \ names \in SUBSET Nat /\ row \ names # {}
    BY <1>2, <1>4
  <2> QED
    BY <2>1, SdlLeast
<1>6. n \notin names /\ \A m \in 1..(n - 1) : m \in names
  <2>1. ASSUME NEW m \in 1..(n - 1) PROVE m \in names
    <3>1. m \in row /\ ~(n <= m)
      BY <1>2, <1>5
    <3> QED
      BY <1>5, <3>1
  <2> QED
    BY <1>5, <2>1
<1>7. NewName(names) \in row /\ NewName(names) \notin names
  <2>1. NewName(names) = CHOOSE x \in row : x \notin names /\ \A m \in 1..(x - 1) : m \in names
    BY <1>1, <1>2 DEF NewName
  <2> QED
    BY <1>5, <1>6, <2>1
<1>8. row \subseteq Nat \ {0}
  BY <1>2
<1> QED
  BY <1>7, <1>8

(* An object more, and an object less. *)
LEMMA RlOneMore ==
  ASSUME NEW kind \in RlAll, NEW table, NEW names, RlTableOK(kind, table, names),
         NEW h \in Places(kind), table[h] = 0, NEW name \in Nat \ {0}, name \notin names
  PROVE  RlTableOK(kind, [table EXCEPT ![h] = name], names \cup {name})
<1>1. PICK t : t = [table EXCEPT ![h] = name]
  OBVIOUS
<1>2. table \in [Places(kind) -> Nat]
  BY DEF RlTableOK
<1>3. t \in [Places(kind) -> Nat] /\ t[h] = name /\ \A g \in Places(kind) : g # h => t[g] = table[g]
  BY <1>1, <1>2
<1>4. \A g \in Places(kind) : table[g] # 0 => table[g] \in names
  BY DEF RlTableOK
<1>5. \A x : x \in names <=> \E g \in Places(kind) : table[g] # 0 /\ x = table[g]
  BY DEF RlTableOK
<1>6. names \cup {name} = {t[g] : g \in {e \in Places(kind) : t[e] # 0}}
  <2>1. ASSUME NEW x \in names \cup {name} PROVE \E g \in Places(kind) : t[g] # 0 /\ x = t[g]
    BY <1>3, <1>5
  <2>2. ASSUME NEW g \in Places(kind), t[g] # 0 PROVE t[g] \in names \cup {name}
    BY <1>3, <1>4, <2>2
  <2> QED
    BY <2>1, <2>2
<1>7. ASSUME NEW g \in Places(kind), NEW e \in Places(kind), t[g] = t[e], t[g] # 0 PROVE g = e
  BY <1>3, <1>4, <1>7 DEF RlTableOK
<1> QED
  BY <1>1, <1>3, <1>6, <1>7 DEF RlTableOK

LEMMA RlOneLess ==
  ASSUME NEW kind \in RlAll, NEW table, NEW names, RlTableOK(kind, table, names),
         NEW h \in Places(kind), table[h] # 0
  PROVE  RlTableOK(kind, [table EXCEPT ![h] = 0], names \ {table[h]})
<1>1. PICK t : t = [table EXCEPT ![h] = 0]
  OBVIOUS
<1>2. table \in [Places(kind) -> Nat]
  BY DEF RlTableOK
<1>3. t \in [Places(kind) -> Nat] /\ t[h] = 0 /\ \A g \in Places(kind) : g # h => t[g] = table[g]
  BY <1>1, <1>2
<1>4. \A g, e \in Places(kind) : table[g] = table[e] /\ table[g] # 0 => g = e
  BY DEF RlTableOK
<1>5. \A x : x \in names <=> \E g \in Places(kind) : table[g] # 0 /\ x = table[g]
  BY DEF RlTableOK
<1>6. names \ {table[h]} = {t[g] : g \in {e \in Places(kind) : t[e] # 0}}
  <2>1. ASSUME NEW x \in names \ {table[h]} PROVE \E g \in Places(kind) : t[g] # 0 /\ x = t[g]
    BY <1>3, <1>5
  <2>2. ASSUME NEW g \in Places(kind), t[g] # 0 PROVE t[g] \in names \ {table[h]}
    BY <1>3, <1>4, <1>5, <2>2
  <2> QED
    BY <2>1, <2>2
<1>7. ASSUME NEW g \in Places(kind), NEW e \in Places(kind), t[g] = t[e], t[g] # 0 PROVE g = e
  BY <1>3, <1>4, <1>7
<1> QED
  BY <1>1, <1>3, <1>6, <1>7 DEF RlTableOK

(* A step that touches one kind, or none of those that are still whole. *)
LEMMA RlKindStep ==
  ASSUME RlInv, NEW kind \in RlAll, NEW table, NEW names,
         rlTables' = [rlTables EXCEPT ![kind] = table], rlObjects' = [rlObjects EXCEPT ![kind] = names],
         UNCHANGED <<rlLeft, rlMissed>>,
         kind \notin rlLeft => RlTableOK(kind, table, names)
  PROVE  RlInv'
<1>1. /\ DOMAIN rlTables' = RlAll /\ DOMAIN rlObjects' = RlAll
      /\ rlTables'[kind] = table /\ rlObjects'[kind] = names
      /\ \A k \in RlAll : k # kind => rlTables'[k] = rlTables[k] /\ rlObjects'[k] = rlObjects[k]
  BY DEF RlInv
<1>2. ASSUME NEW k \in RlAll, k \notin rlLeft
      PROVE  RlTableOK(k, rlTables'[k], rlObjects'[k]) /\ k \notin rlMissed
  <2>1. CASE k = kind
    BY <1>1, <1>2, <2>1 DEF RlInv
  <2>2. CASE k # kind
    BY <1>1, <1>2, <2>2 DEF RlInv
  <2> QED
    BY <2>1, <2>2
<1>3. ASSUME NEW k \in RlAll \ rlLeft' PROVE RlTableOK(k, rlTables'[k], rlObjects'[k]) /\ k \notin rlMissed'
  BY <1>2
<1> QED
  BY <1>1, <1>3 DEF RlInv

LEMMA RlStoreInv == ASSUME RlInv, NEW kind \in RlAll, StoreObject(kind) PROVE RlInv'
<1>1. PICK handle \in 0..(RlLimit[kind] - 1) : Stores(kind, handle)
  BY DEF StoreObject
<1>2. UNCHANGED <<rlLeft, rlMissed>>
  BY DEF StoreObject
<1>3. CASE Unstored(kind) = {}
  <2>1. UNCHANGED <<rlTables, rlObjects>>
    BY <1>1, <1>3 DEF Stores
  <2> QED
    BY <1>2, <2>1 DEF RlInv
<1>4. CASE Unstored(kind) # {}
  <2>1. PICK name : name = NewName(rlObjects[kind])
    OBVIOUS
  <2>2. PICK table, names : table = [rlTables[kind] EXCEPT ![handle] = name] /\ names = rlObjects[kind] \cup {name}
    OBVIOUS
  <2>3. handle = Min(Unstored(kind))
    BY <1>1, <1>4 DEF Stores
  <2>4. rlTables' = [rlTables EXCEPT ![kind] = table] /\ rlObjects' = [rlObjects EXCEPT ![kind] = names]
    BY <1>1, <1>4, <2>1, <2>2 DEF Stores
  <2>5. ASSUME kind \notin rlLeft PROVE RlTableOK(kind, table, names)
    <3>1. RlTableOK(kind, rlTables[kind], rlObjects[kind])
      BY <2>5 DEF RlInv
    <3>2. handle \in Unstored(kind)
      <4>1. Unstored(kind) \in SUBSET Nat
        BY RlPlaces DEF Unstored
      <4>2. \E x \in Unstored(kind) : \A y \in Unstored(kind) : x <= y
        BY <1>4, <4>1, SdlLeast
      <4> QED
        BY <2>3, <4>2 DEF Min
    <3>3. handle \in Places(kind) /\ rlTables[kind][handle] = 0
      BY <3>2 DEF Unstored, UsedPlaces
    <3>4. IsFiniteSet(rlObjects[kind])
      BY <3>1, RlCounts
    <3>5. name \in Nat \ {0} /\ name \notin rlObjects[kind]
      BY <2>1, <3>4, RlNewName
    <3> QED
      BY <2>2, <3>1, <3>3, <3>5, RlOneMore
  <2> QED
    BY <1>2, <2>4, <2>5, RlKindStep
<1> QED
  BY <1>3, <1>4

LEMMA RlUnloadInv == ASSUME RlInv, NEW kind \in RlAll, NEW h, Unload(kind, h) PROVE RlInv'
<1>1. UNCHANGED <<rlLeft, rlMissed>> /\ h \in Places(kind) /\ rlTables[kind][h] # 0
  BY DEF Unload, Handle, UsedPlaces
<1>2. PICK table, names : table = [rlTables[kind] EXCEPT ![h] = 0] /\ names = rlObjects[kind] \ {rlTables[kind][h]}
  OBVIOUS
<1>3. rlTables' = [rlTables EXCEPT ![kind] = table] /\ rlObjects' = [rlObjects EXCEPT ![kind] = names]
  BY <1>2 DEF Unload
<1>4. ASSUME kind \notin rlLeft PROVE RlTableOK(kind, table, names)
  <2>1. RlTableOK(kind, rlTables[kind], rlObjects[kind])
    BY <1>4 DEF RlInv
  <2> QED
    BY <1>1, <1>2, <2>1, RlOneLess
<1> QED
  BY <1>1, <1>3, <1>4, RlKindStep

LEMMA RlRemakeInv == ASSUME RlInv, NEW h, ImageRemake(h) PROVE RlInv'
<1>1. UNCHANGED <<rlLeft, rlMissed>> /\ h \in Places("image") /\ rlTables["image"][h] # 0 /\ "image" \in RlAll
  BY DEF ImageRemake, Handle, UsedPlaces, RlAll
<1>2. PICK name, old : name = NewName(rlObjects["image"]) /\ old = rlTables["image"][h]
  OBVIOUS
<1>3. PICK table, names : table = [rlTables["image"] EXCEPT ![h] = name] /\ names = (rlObjects["image"] \ {old}) \cup {name}
  OBVIOUS
<1>4. rlTables' = [rlTables EXCEPT !["image"] = table] /\ rlObjects' = [rlObjects EXCEPT !["image"] = names]
  BY <1>2, <1>3 DEF ImageRemake
<1>5. ASSUME "image" \notin rlLeft PROVE RlTableOK("image", table, names)
  <2>1. RlTableOK("image", rlTables["image"], rlObjects["image"])
    BY <1>1, <1>5 DEF RlInv
  <2>2. PICK less : less = [rlTables["image"] EXCEPT ![h] = 0]
    OBVIOUS
  <2>3. RlTableOK("image", less, rlObjects["image"] \ {old})
    BY <1>1, <1>2, <2>1, <2>2, RlOneLess
  <2>4. IsFiniteSet(rlObjects["image"])
    BY <1>1, <2>1, RlCounts
  <2>5. name \in Nat \ {0} /\ name \notin rlObjects["image"] \ {old}
    BY <1>2, <2>4, RlNewName
  <2>6. less[h] = 0 /\ [less EXCEPT ![h] = name] = table
    BY <1>1, <1>3, <2>1, <2>2 DEF RlTableOK
  <2>7. RlTableOK("image", [less EXCEPT ![h] = name], names)
    BY <1>1, <1>3, <2>3, <2>5, <2>6, RlOneMore
  <2> QED
    BY <2>6, <2>7
<1> QED
  BY <1>1, <1>4, <1>5, RlKindStep

LEMMA RlUseInv == ASSUME RlInv, NEW kind \in RlAll, NEW h, Use(kind, h) PROVE RlInv'
<1>1. UNCHANGED <<rlTables, rlObjects, rlLeft>> /\ h \in Places(kind) /\ rlTables[kind][h] # 0
  BY DEF Use, Handle, UsedPlaces
<1>2. ASSUME NEW k \in RlAll \ rlLeft PROVE k \notin rlMissed'
  <2>1. k \notin rlMissed /\ RlTableOK(k, rlTables[k], rlObjects[k])
    BY DEF RlInv
  <2>2. k = kind => rlTables[kind][h] \in rlObjects[kind]
    BY <1>1, <2>1 DEF RlTableOK
  <2> QED
    BY <2>1, <2>2 DEF Use
<1> QED
  BY <1>1, <1>2 DEF RlInv

(* A device that is closed takes its objects along: a kind of it of which no  *)
(* handle was left has none, and its table is empty.                         *)
LEMMA RlCloseInv == ASSUME RlInv, NEW device, CloseDevice(device) PROVE RlInv'
<1>1. /\ UNCHANGED <<rlTables, rlMissed>> /\ DOMAIN rlObjects' = RlAll
      /\ \A k \in RlAll : rlObjects'[k] = IF k \in RlKinds /\ DeviceOf(k) = device THEN {} ELSE rlObjects[k]
      /\ rlLeft' = rlLeft \cup {k \in RlKinds : DeviceOf(k) = device /\ UsedPlaces(k) # {}}
  BY DEF CloseDevice, RlInv
<1>2. ASSUME NEW k \in RlAll \ rlLeft' PROVE RlTableOK(k, rlTables[k], rlObjects'[k]) /\ k \notin rlMissed
  <2>1. RlTableOK(k, rlTables[k], rlObjects[k]) /\ k \notin rlMissed
    BY <1>1 DEF RlInv
  <2>2. CASE k \in RlKinds /\ DeviceOf(k) = device
    <3>1. UsedPlaces(k) = {}
      BY <1>1, <1>2, <2>2
    <3>2. rlObjects[k] = {}
      BY <2>1, <3>1 DEF RlTableOK, UsedPlaces
    <3> QED
      BY <1>1, <2>1, <2>2, <3>2
  <2>3. CASE ~(k \in RlKinds /\ DeviceOf(k) = device)
    BY <1>1, <2>1, <2>3
  <2> QED
    BY <2>2, <2>3
<1> QED
  BY <1>1, <1>2 DEF RlInv

LEMMA RlInitInv == ASSUME RlInit PROVE RlInv
<1>1. DOMAIN rlTables = RlAll /\ DOMAIN rlObjects = RlAll /\ rlMissed = {}
  BY DEF RlInit, RlAll
<1>2. ASSUME NEW k \in RlAll PROVE RlTableOK(k, rlTables[k], rlObjects[k])
  <2>1. rlTables[k] = [h \in Places(k) |-> 0] /\ rlObjects[k] = {}
    BY DEF RlInit, RlAll
  <2>2. rlTables[k] \in [Places(k) -> Nat] /\ \A h \in Places(k) : rlTables[k][h] = 0
    BY <2>1
  <2> QED
    BY <2>1, <2>2 DEF RlTableOK
<1> QED
  BY <1>1, <1>2 DEF RlInv

LEMMA RlNextInv == ASSUME RlInv, [RlNext]_rlVars PROVE RlInv'
<1>1. CASE UNCHANGED rlVars
  BY <1>1 DEF rlVars, RlInv
<1>2. {"texture", "font", "render texture", "sound", "music", "image"} \subseteq RlAll
  BY DEF RlAll, RlKinds, InWindow, InAudio
<1>3. CASE InitWindow \/ InitAudio
  BY <1>3 DEF InitWindow, InitAudio, OpenDevice, RlInv
<1>4. CASE CloseWindow \/ CloseAudio
  BY <1>4, RlCloseInv DEF CloseWindow, CloseAudio
<1>5. CASE TextureLoad \/ FontLoad \/ RenderTextureLoad \/ RlSoundLoad \/ RlMusicLoad \/ ImageMake
  BY <1>2, <1>5, RlStoreInv DEF TextureLoad, FontLoad, RenderTextureLoad, RlSoundLoad, RlMusicLoad, ImageMake, Load
<1>6. ASSUME NEW h, TextureUse(h) \/ TextureSetting(h) \/ FontDraw(h) \/ RenderTextureUse(h)
                      \/ RlSoundUse(h) \/ RlMusicUse(h) \/ ImageUse(h)
      PROVE  RlInv'
  BY <1>2, <1>6, RlUseInv DEF TextureUse, TextureSetting, FontDraw, RenderTextureUse, RlSoundUse, RlMusicUse, ImageUse
<1>7. ASSUME NEW h, TextureUnload(h) \/ FontUnload(h) \/ RenderTextureUnload(h)
                      \/ RlSoundUnload(h) \/ RlMusicUnload(h) \/ ImageUnload(h)
      PROVE  RlInv'
  BY <1>2, <1>7, RlUnloadInv
     DEF TextureUnload, FontUnload, RenderTextureUnload, RlSoundUnload, RlMusicUnload, ImageUnload
<1>8. ASSUME NEW h, ImageCopy(h) \/ ImageRemake(h) PROVE RlInv'
  BY <1>2, <1>8, RlStoreInv, RlRemakeInv DEF ImageCopy
<1> QED
  BY <1>1, <1>3, <1>4, <1>5, <1>6, <1>7, <1>8 DEF RlNext

LEMMA RlInvOwned == ASSUME RlInv PROVE RaylibObjectsOwned
<1>1. ASSUME NEW kind \in RlAll \ rlLeft
      PROVE  /\ {rlTables[kind][h] : h \in UsedPlaces(kind)} = rlObjects[kind]
             /\ Cardinality(UsedPlaces(kind)) = Cardinality(rlObjects[kind])
             /\ kind \notin rlMissed
  <2>1. RlTableOK(kind, rlTables[kind], rlObjects[kind]) /\ kind \notin rlMissed
    BY DEF RlInv
  <2>2. UsedPlaces(kind) = {g \in Places(kind) : rlTables[kind][g] # 0}
    BY DEF UsedPlaces
  <2> QED
    BY <2>1, <2>2, RlCounts DEF RlTableOK
<1> QED
  BY <1>1 DEF RaylibObjectsOwned, RlAll

(* Kinds of which no handle was left when their device was closed: the devices *)
(* and the memory hold exactly what the tables name, each object under one     *)
(* handle, and no use of a handle misses it.                                 *)
THEOREM RaylibAlwaysOwned == RlSpec => []RaylibObjectsOwned
<1>1. RlInit => RlInv
  BY RlInitInv
<1>2. RlInv /\ [RlNext]_rlVars => RlInv'
  BY RlNextInv
<1>3. RlInv => RaylibObjectsOwned
  BY RlInvOwned
<1> QED
  BY <1>1, <1>2, <1>3, PTL DEF RlSpec

=============================================================================
