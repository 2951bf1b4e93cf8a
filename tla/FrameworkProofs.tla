--------------------------- MODULE FrameworkProofs ---------------------------
(***************************************************************************)
(* Theorems about the wrappers of whole libraries: data frames, inference,  *)
(* Lua and Prolog, databases with patterns and documents; and, with the     *)
(* Raylib adapter, about a program that uses them all.                     *)
(***************************************************************************)
EXTENDS Frameworks, WrapperProofs

-----------------------------------------------------------------------------
(* The data frames of DuckDB *)

DdContextRecords == [refs : Int, database : BOOLEAN, connection : BOOLEAN]
DdFrameRecords == [context : Nat, table : Nat]
DdPlaces == {"none", "made", "framed", "load", "queried", "return", "sized", "filling"}
DdCallRecords == [at : DdPlaces, context : Nat, frame : Nat, uses : SUBSET Nat, table : Nat]

DdTypes ==
  /\ ddContexts \in Seq(DdContextRecords) /\ ddFrames \in Seq(DdFrameRecords)
  /\ ddCalls \in [DdThreads -> DdCallRecords]
  /\ ddTables \in Nat /\ ddMatrices \in Int /\ ddBlocks \in Int

(* What a call works with is there, and a frame that it makes is of its context. *)
DdCallOK(th) ==
  LET call == ddCalls[th]
  IN  /\ call.uses \subseteq Live
      /\ call.frame # 0 => call.frame \in Live
      /\ call.at \in {"made", "framed", "load"} => call.context \in DOMAIN ddContexts
      /\ call.at \in {"made", "queried"} => call.frame = 0
      /\ call.at \in {"framed", "load"} /\ call.frame # 0 => ddFrames[call.frame].context = call.context
      /\ call.at = "queried" => \E f \in call.uses : ddFrames[f].context = call.context

(* A frame that one call makes no other call has. *)
DdApart ==
  \A th, o \in DdThreads : th # o /\ ddCalls[th].frame # 0 =>
    ddCalls[th].frame \notin ddCalls[o].uses /\ ddCalls[th].frame # ddCalls[o].frame

(* The table of a frame, and the one that a call has named, are of one of them. *)
DdPending(th) == ddCalls[th].at \in {"made", "queried"}
DdTablesOK ==
  /\ \A f \in Live : ddFrames[f].context \in DOMAIN ddContexts /\ ddFrames[f].table \in 1..ddTables
  /\ \A f, g \in Live : ddFrames[f].table = ddFrames[g].table => f = g
  /\ \A th \in DdThreads : DdPending(th) =>
       /\ ddCalls[th].table \in 1..ddTables
       /\ \A f \in Live : ddFrames[f].table # ddCalls[th].table
       /\ \A o \in DdThreads : DdPending(o) /\ ddCalls[o].table = ddCalls[th].table => o = th

(* A context counts the calls that make it and its frames. *)
DdMaking(c) == {th \in DdThreads : ddCalls[th].at \in {"made", "framed"} /\ ddCalls[th].context = c}
DdFramesOf(c) == {f \in Live : ddFrames[f].context = c}
DdExact(rec, making, frames) ==
  /\ rec.refs = Cardinality(making) + Cardinality(frames)
  /\ rec.connection = (making \cup frames # {})
  /\ rec.database = rec.connection
DdCounted == \A c \in DOMAIN ddContexts : DdExact(ddContexts[c], DdMaking(c), DdFramesOf(c))

DdFilling == {th \in DdThreads : ddCalls[th].at = "filling"}
DdBlocksOK == ddBlocks = 2 * ddMatrices + 2 * Cardinality(DdFilling)

DdInv ==
  /\ DdTypes /\ \A th \in DdThreads : DdCallOK(th)
  /\ DdApart /\ DdTablesOK /\ DdCounted /\ DdBlocksOK

-----------------------------------------------------------------------------
(* One reference more, or one less, of a set that has it. *)
LEMMA DdOneFrameMore ==
  ASSUME NEW rec \in DdContextRecords, NEW making, NEW frames, IsFiniteSet(making), IsFiniteSet(frames),
         DdExact(rec, making, frames), rec.connection, NEW f, f \notin frames
  PROVE  /\ [rec EXCEPT !.refs = @ + 1] \in DdContextRecords
         /\ DdExact([rec EXCEPT !.refs = @ + 1], making, frames \cup {f})
<1>1. Cardinality(making) \in Nat /\ Cardinality(frames) \in Nat
  BY FS_CardinalityType
<1>2. Cardinality(frames \cup {f}) = Cardinality(frames) + 1
  BY FS_AddElement
<1>3. PICK n \in Int : n = rec.refs + 1
  BY DEF DdContextRecords
<1>4. PICK more : more = [rec EXCEPT !.refs = n]
  OBVIOUS
<1>5. [rec EXCEPT !.refs = @ + 1] = more
  BY <1>3, <1>4
<1>6. /\ more \in DdContextRecords /\ more.refs = n
      /\ more.connection = rec.connection /\ more.database = rec.database
  BY <1>4 DEF DdContextRecords
<1>7. rec.refs = Cardinality(making) + Cardinality(frames) /\ rec.database = rec.connection
  BY DEF DdExact
<1>8. more.refs = Cardinality(making) + Cardinality(frames \cup {f})
  BY <1>1, <1>2, <1>3, <1>6, <1>7
<1>9. more.connection = TRUE /\ more.database = TRUE
  BY <1>6, <1>7 DEF DdContextRecords
<1>10. (making \cup (frames \cup {f}) # {}) = TRUE
  OBVIOUS
<1> QED
  BY <1>5, <1>6, <1>8, <1>9, <1>10 DEF DdExact

LEMMA DdOneLess ==
  ASSUME NEW rec \in DdContextRecords, NEW making, NEW frames, IsFiniteSet(making), IsFiniteSet(frames),
         DdExact(rec, making, frames), NEW making2, NEW frames2, IsFiniteSet(making2), IsFiniteSet(frames2),
         Cardinality(making2) + Cardinality(frames2) = (Cardinality(making) + Cardinality(frames)) - 1
  PROVE  Unreferred(rec) \in DdContextRecords /\ DdExact(Unreferred(rec), making2, frames2)
<1>1. /\ Cardinality(making) \in Nat /\ Cardinality(frames) \in Nat
      /\ Cardinality(making2) \in Nat /\ Cardinality(frames2) \in Nat
  BY FS_CardinalityType
<1>2. /\ Cardinality(making2) = 0 <=> making2 = {}
      /\ Cardinality(frames2) = 0 <=> frames2 = {}
      /\ Cardinality(making) = 0 <=> making = {}
      /\ Cardinality(frames) = 0 <=> frames = {}
  BY FS_EmptySet
<1>3. PICK n \in Int : n = rec.refs /\ n = Cardinality(making) + Cardinality(frames)
  BY DEF DdExact, DdContextRecords
<1>4. CASE n = 1
  <2>1. Unreferred(rec) = [refs |-> 0, database |-> FALSE, connection |-> FALSE]
    BY <1>3, <1>4 DEF Unreferred
  <2>2. 0 \in Int /\ FALSE \in BOOLEAN
    OBVIOUS
  <2>3. /\ Unreferred(rec) \in DdContextRecords /\ Unreferred(rec).refs = 0
        /\ Unreferred(rec).database = FALSE /\ Unreferred(rec).connection = FALSE
    BY <2>1, <2>2 DEF DdContextRecords
  <2>4. Cardinality(making2) = 0 /\ Cardinality(frames2) = 0
    BY <1>1, <1>3, <1>4
  <2> QED
    <3>1. (making2 \cup frames2 # {}) = FALSE
      BY <1>2, <2>4
    <3>2. Unreferred(rec).refs = Cardinality(making2) + Cardinality(frames2)
      BY <2>3, <2>4
    <3> QED
      BY <2>3, <3>1, <3>2 DEF DdExact
<1>5. CASE n # 1
  <2>1. Unreferred(rec) = [rec EXCEPT !.refs = @ - 1]
    BY <1>3, <1>5 DEF Unreferred
  <2>2. /\ Unreferred(rec) \in DdContextRecords /\ Unreferred(rec).refs = rec.refs - 1
        /\ Unreferred(rec).database = rec.database /\ Unreferred(rec).connection = rec.connection
    BY <2>1 DEF DdContextRecords
  <2>3. Cardinality(making2) # 0 \/ Cardinality(frames2) # 0
    BY <1>1, <1>3, <1>5
  <2>4. Cardinality(making) # 0 \/ Cardinality(frames) # 0
    BY <1>1, <1>3, <2>3
  <2>5. making2 \cup frames2 # {} /\ making \cup frames # {}
    BY <1>2, <2>3, <2>4
  <2>6. rec.connection = TRUE /\ rec.database = rec.connection
    BY <2>5 DEF DdExact
  <2>7. Unreferred(rec).refs = Cardinality(making2) + Cardinality(frames2)
    BY <1>1, <1>3, <2>2
  <2> QED
    BY <2>2, <2>5, <2>6, <2>7 DEF DdExact
<1> QED
  BY <1>4, <1>5

LEMMA DdNone ==
  /\ \A th : DdExact([refs |-> 1, database |-> TRUE, connection |-> TRUE], {th}, {})
  /\ DdExact([refs |-> 0, database |-> FALSE, connection |-> FALSE], {}, {})
<1>1. Cardinality({}) = 0 /\ \A th : Cardinality({th}) = 1
  BY FS_EmptySet, FS_Singleton
<1>2. 0 + 0 = 0 /\ 1 + 0 = 1
  OBVIOUS
<1>3. ASSUME NEW th PROVE DdExact([refs |-> 1, database |-> TRUE, connection |-> TRUE], {th}, {})
  <2>1. ({th} \cup {} # {}) = TRUE
    OBVIOUS
  <2> QED
    BY <1>1, <1>2, <2>1 DEF DdExact
<1>4. DdExact([refs |-> 0, database |-> FALSE, connection |-> FALSE], {}, {})
  <2>1. ({} \cup {} # {}) = FALSE
    OBVIOUS
  <2> QED
    BY <1>1, <1>2, <2>1 DEF DdExact
<1> QED
  BY <1>3, <1>4

LEMMA DdFinite ==
  ASSUME DdAssumption, DdTypes
  PROVE  /\ Live \subseteq 1..Len(ddFrames) /\ Len(ddFrames) \in Nat /\ DOMAIN ddFrames = 1..Len(ddFrames)
         /\ \A c : IsFiniteSet(DdMaking(c)) /\ IsFiniteSet(DdFramesOf(c))
         /\ IsFiniteSet(DdFilling)
<1>1. Len(ddFrames) \in Nat /\ DOMAIN ddFrames = 1..Len(ddFrames)
  BY DEF DdTypes
<1>2. Live \subseteq 1..Len(ddFrames)
  BY <1>1 DEF Live
<1>3. IsFiniteSet(1..Len(ddFrames)) /\ IsFiniteSet(DdThreads)
  BY <1>1, FS_Interval DEF DdAssumption
<1>4. ASSUME NEW c PROVE IsFiniteSet(DdMaking(c)) /\ IsFiniteSet(DdFramesOf(c))
  <2>1. DdMaking(c) \subseteq DdThreads /\ DdFramesOf(c) \subseteq 1..Len(ddFrames)
    BY <1>2 DEF DdMaking, DdFramesOf
  <2> QED
    BY <1>3, <2>1, FS_Subset
<1>5. IsFiniteSet(DdFilling)
  <2>1. DdFilling \subseteq DdThreads
    BY DEF DdFilling
  <2> QED
    BY <1>3, <2>1, FS_Subset
<1> QED
  BY <1>1, <1>2, <1>4, <1>5

-----------------------------------------------------------------------------
(* A call whose frames stay as they are. *)
LEMMA DdCallKept ==
  ASSUME NEW o, DdCallOK(o), ddCalls'[o] = ddCalls[o], DOMAIN ddContexts \subseteq DOMAIN ddContexts',
         \A f \in Live : f \in ddCalls[o].uses \/ f = ddCalls[o].frame => f \in Live' /\ ddFrames'[f] = ddFrames[f]
  PROVE  DdCallOK(o)'
<1>1. ddCalls'[o].uses \subseteq Live' /\ (ddCalls'[o].frame # 0 => ddCalls'[o].frame \in Live')
  BY DEF DdCallOK
<1>2. ddCalls'[o].at \in {"framed", "load"} /\ ddCalls'[o].frame # 0 =>
        ddFrames'[ddCalls'[o].frame].context = ddCalls'[o].context
  BY DEF DdCallOK
<1>3. ddCalls'[o].at = "queried" => \E f \in ddCalls'[o].uses : ddFrames'[f].context = ddCalls'[o].context
  BY DEF DdCallOK
<1>4. /\ ddCalls'[o].at \in {"made", "framed", "load"} => ddCalls'[o].context \in DOMAIN ddContexts'
      /\ ddCalls'[o].at \in {"made", "queried"} => ddCalls'[o].frame = 0
  BY DEF DdCallOK
<1> QED
  BY <1>1, <1>2, <1>3, <1>4 DEF DdCallOK

(* A thread goes to another place; contexts and frames stay. *)
LEMMA DdGoes ==
  ASSUME DdAssumption, DdInv, NEW th \in DdThreads, NEW call \in DdCallRecords,
         ddCalls' = [ddCalls EXCEPT ![th] = call], UNCHANGED <<ddContexts, ddFrames>>,
         ddTables' \in Nat, ddTables <= ddTables', ddMatrices' \in Int, ddBlocks' \in Int, DdBlocksOK',
         ddCalls[th].at \notin {"made", "framed"}, call.at \notin {"made", "framed", "load"},
         call.frame \in {0, ddCalls[th].frame}, call.uses \subseteq Known \cup ddCalls[th].uses,
         call.at = "queried" => /\ call.frame = 0 /\ call.table = ddTables + 1 /\ ddTables' = ddTables + 1
                                /\ \E f \in call.uses : ddFrames[f].context = call.context
  PROVE  DdInv'
<1>1. /\ ddCalls' \in [DdThreads -> DdCallRecords] /\ ddCalls'[th] = call
      /\ \A o \in DdThreads : o # th => ddCalls'[o] = ddCalls[o]
      /\ \A o \in DdThreads : ddCalls[o] \in DdCallRecords
  BY DEF DdInv, DdTypes
<1>2. Live' = Live
  BY DEF Live
<1>3. DdTypes'
  BY <1>1 DEF DdInv, DdTypes
<1>4. call.uses \subseteq Live
  BY DEF DdInv, DdCallOK, Known
<1>5. ASSUME NEW o \in DdThreads PROVE DdCallOK(o)'
  <2>1. CASE o = th
    BY <1>1, <1>2, <1>4, <2>1 DEF DdInv, DdCallOK
  <2>2. CASE o # th
    BY <1>1, <1>2, <2>2, DdCallKept DEF DdInv
  <2> QED
    BY <2>1, <2>2
<1>6. DdApart'
  <2> SUFFICES ASSUME NEW p \in DdThreads, NEW o \in DdThreads, p # o, ddCalls'[p].frame # 0
               PROVE  ddCalls'[p].frame \notin ddCalls'[o].uses /\ ddCalls'[p].frame # ddCalls'[o].frame
    BY DEF DdApart
  <2>1. ddCalls'[p].frame = ddCalls[p].frame
    BY <1>1
  <2>2. ddCalls[p].frame \notin ddCalls[o].uses /\ ddCalls[p].frame # ddCalls[o].frame
    BY <2>1 DEF DdInv, DdApart
  <2>3. ddCalls[p].frame \notin Known
    BY DEF Known
  <2>4. CASE o = th
    BY <1>1, <2>1, <2>2, <2>3, <2>4
  <2>5. CASE o # th
    BY <1>1, <2>1, <2>2, <2>5
  <2> QED
    BY <2>4, <2>5
<1>7. DdTablesOK'
  <2>1. \A f \in Live : ddFrames[f].context \in DOMAIN ddContexts /\ ddFrames[f].table \in 1..ddTables'
    <3>1. \A f \in Live : ddFrames[f].context \in DOMAIN ddContexts /\ ddFrames[f].table \in 1..ddTables
      BY DEF DdInv, DdTablesOK
    <3>2. ddTables \in Nat /\ \A n \in 1..ddTables : n \in 1..ddTables'
      BY DEF DdInv, DdTypes
    <3> QED
      BY <3>1, <3>2
  <2>2. \A f, g \in Live : ddFrames[f].table = ddFrames[g].table => f = g
    BY DEF DdInv, DdTablesOK
  <2>3. ASSUME NEW p \in DdThreads, DdPending(p)'
        PROVE  /\ ddCalls'[p].table \in 1..ddTables'
               /\ \A f \in Live : ddFrames[f].table # ddCalls'[p].table
               /\ \A o \in DdThreads : DdPending(o)' /\ ddCalls'[o].table = ddCalls'[p].table => o = p
    <3>1. ddTables \in Nat /\ \A n \in 1..ddTables : n \in 1..ddTables' /\ n # ddTables + 1
      BY DEF DdInv, DdTypes
    <3>2. \A o \in DdThreads : o # th /\ DdPending(o)' =>
            /\ DdPending(o) /\ ddCalls[o].table \in 1..ddTables
            /\ \A f \in Live : ddFrames[f].table # ddCalls[o].table
            /\ \A q \in DdThreads : DdPending(q) /\ ddCalls[q].table = ddCalls[o].table => q = o
      BY <1>1 DEF DdInv, DdTablesOK, DdPending
    <3>3. CASE p = th
      <4>1. call.table = ddTables + 1 /\ ddTables' = ddTables + 1
        BY <1>1, <2>3, <3>3 DEF DdPending
      <4>2. \A f \in Live : ddFrames[f].table \in 1..ddTables
        BY DEF DdInv, DdTablesOK
      <4>3. ddTables + 1 \in 1..(ddTables + 1)
        BY <3>1
      <4> QED
        BY <1>1, <3>1, <3>2, <3>3, <4>1, <4>2, <4>3
    <3>4. CASE p # th
      <4>1. DdPending(th)' => ddCalls'[th].table = ddTables + 1
        BY <1>1 DEF DdPending
      <4>2. ddCalls'[p].table \in 1..ddTables
        BY <1>1, <2>3, <3>2, <3>4
      <4>3. \A o \in DdThreads : DdPending(o)' /\ ddCalls'[o].table = ddCalls'[p].table => o # th
        BY <3>1, <4>1, <4>2
      <4> QED
        BY <1>1, <2>3, <3>1, <3>2, <3>4, <4>2, <4>3
    <3> QED
      BY <3>3, <3>4
  <2> QED
    BY <1>2, <2>1, <2>2, <2>3 DEF DdTablesOK
<1>8. DdCounted'
  <2>1. ASSUME NEW c PROVE DdMaking(c)' = DdMaking(c) /\ DdFramesOf(c)' = DdFramesOf(c)
    BY <1>1, <1>2 DEF DdMaking, DdFramesOf
  <2> QED
    BY <2>1 DEF DdInv, DdCounted
<1> QED
  BY <1>3, <1>5, <1>6, <1>7, <1>8 DEF DdInv

(* df_new: the frame that a call has named becomes one of its context. *)
LEMMA DdMakesFrame ==
  ASSUME DdAssumption, DdInv, NEW th \in DdThreads, NEW call \in DdCallRecords, NEW n, n = Len(ddFrames) + 1,
         DdPending(th), NEW ctx, ctx = ddCalls[th].context, NEW frame, frame = [context |-> ctx, table |-> ddCalls[th].table],
         ddFrames' = Append(ddFrames, frame), ddContexts' = [ddContexts EXCEPT ![ctx] = Referred(ctx)],
         ddCalls' = [ddCalls EXCEPT ![th] = call], UNCHANGED <<ddTables, matrixVars>>,
         call.frame = n, call.uses \subseteq ddCalls[th].uses, ~(call.at \in {"made", "queried", "load", "filling"}),
         call.at = "framed" => call.context = ctx, call.at = "framed" <=> ddCalls[th].at = "made"
  PROVE  DdInv'
<1>1. /\ ddCalls' \in [DdThreads -> DdCallRecords] /\ ddCalls'[th] = call
      /\ \A o \in DdThreads : o # th => ddCalls'[o] = ddCalls[o]
      /\ \A o \in DdThreads : ddCalls[o] \in DdCallRecords
  BY DEF DdInv, DdTypes
<1>2. /\ Live \subseteq 1..Len(ddFrames) /\ Len(ddFrames) \in Nat /\ DOMAIN ddFrames = 1..Len(ddFrames)
      /\ \A c : IsFiniteSet(DdMaking(c)) /\ IsFiniteSet(DdFramesOf(c))
  BY DdFinite DEF DdInv
<1>3. DdCallOK(th) /\ DdTablesOK
  BY DEF DdInv
<1>4. ctx \in DOMAIN ddContexts
  BY <1>3 DEF DdCallOK, DdTablesOK, DdPending
<1>5. ddContexts \in Seq(DdContextRecords) /\ ddContexts[ctx] \in DdContextRecords
  BY <1>4 DEF DdInv, DdTypes
<1>6. frame \in DdFrameRecords /\ frame.context = ctx /\ frame.table = ddCalls[th].table /\ frame.table \in 1..ddTables
  <2>1. ddCalls[th].table \in 1..ddTables
    BY <1>3 DEF DdTablesOK
  <2>2. ddCalls[th].table \in Nat /\ ctx \in Nat
    BY <1>1 DEF DdCallRecords
  <2> QED
    BY <2>1, <2>2 DEF DdFrameRecords
<1>7. n \in Nat \ {0} /\ n \notin Live /\ n \notin 1..Len(ddFrames)
  BY <1>2
<1>8. /\ ddFrames \in Seq(DdFrameRecords) /\ ddFrames' \in Seq(DdFrameRecords) /\ DOMAIN ddFrames' = 1..n
      /\ ddFrames'[n] = frame /\ \A f \in 1..Len(ddFrames) : ddFrames'[f] = ddFrames[f]
  BY <1>2, <1>6 DEF DdInv, DdTypes
<1>9. Live' = Live \cup {n}
  <2>1. frame # Gone
    <3>1. frame.table # 0 /\ Gone.table = 0
      BY <1>6 DEF Gone, DdInv, DdTypes
    <3> QED
      BY <3>1
  <2>2. 1..n = 1..Len(ddFrames) \cup {n}
    BY <1>2
  <2> QED
    BY <1>2, <1>7, <1>8, <2>1, <2>2 DEF Live
<1>10. Referred(ctx) = [ddContexts[ctx] EXCEPT !.refs = @ + 1]
  BY DEF Referred
<1>11. ddContexts[ctx].connection /\ DdExact(ddContexts[ctx], DdMaking(ctx), DdFramesOf(ctx))
  <2>1. DdExact(ddContexts[ctx], DdMaking(ctx), DdFramesOf(ctx))
    BY <1>4 DEF DdInv, DdCounted
  <2>2. CASE ddCalls[th].at = "made"
    <3>1. th \in DdMaking(ctx)
      BY <2>2 DEF DdMaking
    <3> QED
      BY <2>1, <3>1 DEF DdExact
  <2>3. CASE ddCalls[th].at = "queried"
    <3>1. PICK f \in ddCalls[th].uses : ddFrames[f].context = ctx
      BY <1>3, <2>3 DEF DdCallOK
    <3>2. f \in DdFramesOf(ctx)
      BY <1>3, <3>1 DEF DdCallOK, DdFramesOf
    <3> QED
      BY <2>1, <3>2 DEF DdExact
  <2> QED
    BY <2>2, <2>3 DEF DdPending
<1>12. /\ Referred(ctx) \in DdContextRecords
       /\ DdExact(Referred(ctx), DdMaking(ctx), DdFramesOf(ctx) \cup {n})
  <2>1. n \notin DdFramesOf(ctx)
    BY <1>7 DEF DdFramesOf
  <2> QED
    <3>1. PICK rec \in DdContextRecords : rec = ddContexts[ctx]
      BY <1>5
    <3>2. rec.connection /\ DdExact(rec, DdMaking(ctx), DdFramesOf(ctx))
      BY <1>11, <3>1
    <3>3. /\ [rec EXCEPT !.refs = @ + 1] \in DdContextRecords
          /\ DdExact([rec EXCEPT !.refs = @ + 1], DdMaking(ctx), DdFramesOf(ctx) \cup {n})
      BY <1>2, <2>1, <3>2, DdOneFrameMore
    <3> QED
      BY <1>10, <3>1, <3>3
<1>13. /\ ddContexts' \in Seq(DdContextRecords) /\ DOMAIN ddContexts' = DOMAIN ddContexts
       /\ ddContexts'[ctx] = Referred(ctx) /\ \A c \in DOMAIN ddContexts : c # ctx => ddContexts'[c] = ddContexts[c]
  <2> HIDE DEF Referred
  <2> QED
    BY <1>4, <1>5, <1>12
<1>14. DdTypes'
  BY <1>1, <1>8, <1>13 DEF DdInv, DdTypes, matrixVars
<1>15. ASSUME NEW o \in DdThreads PROVE DdCallOK(o)'
  <2>1. CASE o = th
    <3>1. call.uses \subseteq Live'
      BY <1>3, <1>9 DEF DdCallOK
    <3> QED
      BY <1>1, <1>4, <1>6, <1>8, <1>9, <1>13, <2>1, <3>1 DEF DdCallOK
  <2>2. CASE o # th
    <3>1. \A f \in Live : f \in Live' /\ ddFrames'[f] = ddFrames[f]
      BY <1>2, <1>8, <1>9
    <3> QED
      BY <1>1, <1>13, <2>2, <3>1, DdCallKept DEF DdInv
  <2> QED
    BY <2>1, <2>2
<1>16. DdApart'
  <2> SUFFICES ASSUME NEW p \in DdThreads, NEW o \in DdThreads, p # o, ddCalls'[p].frame # 0
               PROVE  ddCalls'[p].frame \notin ddCalls'[o].uses /\ ddCalls'[p].frame # ddCalls'[o].frame
    BY DEF DdApart
  <2>1. \A q \in DdThreads : ddCalls[q].uses \subseteq Live /\ (ddCalls[q].frame = 0 \/ ddCalls[q].frame \in Live)
    BY DEF DdInv, DdCallOK
  <2>2. CASE p = th
    BY <1>1, <1>7, <2>1, <2>2
  <2>3. CASE o = th
    BY <1>1, <1>7, <2>1, <2>3 DEF DdInv, DdApart
  <2>4. CASE p # th /\ o # th
    BY <1>1, <2>4 DEF DdInv, DdApart
  <2> QED
    BY <2>2, <2>3, <2>4
<1>17. DdTablesOK'
  <2>1. \A f \in Live : ddFrames'[f] = ddFrames[f]
    BY <1>2, <1>8
  <2>2. \A f \in Live : ddFrames[f].table # frame.table
    BY <1>3, <1>6 DEF DdTablesOK
  <2>3. \A f \in Live' : ddFrames'[f].context \in DOMAIN ddContexts' /\ ddFrames'[f].table \in 1..ddTables'
    <3>1. ASSUME NEW f \in Live
          PROVE  ddFrames'[f].context \in DOMAIN ddContexts' /\ ddFrames'[f].table \in 1..ddTables'
      BY <1>3, <1>13, <2>1, <3>1 DEF DdTablesOK
    <3>2. ddFrames'[n].context \in DOMAIN ddContexts' /\ ddFrames'[n].table \in 1..ddTables'
      BY <1>4, <1>6, <1>8, <1>13
    <3> QED
      BY <1>9, <3>1, <3>2
  <2>4. \A f, g \in Live' : ddFrames'[f].table = ddFrames'[g].table => f = g
    <3> SUFFICES ASSUME NEW f \in Live', NEW g \in Live', ddFrames'[f].table = ddFrames'[g].table PROVE f = g
      OBVIOUS
    <3>1. ddFrames'[n].table = frame.table
      BY <1>8
    <3>2. CASE f \in Live /\ g \in Live
      <4>1. \A x, y \in Live : ddFrames[x].table = ddFrames[y].table => x = y
        BY <1>3 DEF DdTablesOK
      <4>2. ddFrames[f].table = ddFrames[g].table
        BY <2>1, <3>2
      <4> QED
        BY <3>2, <4>1, <4>2
    <3>3. CASE f = n \/ g = n
      BY <1>9, <2>1, <2>2, <3>1, <3>3
    <3> QED
      BY <1>9, <3>2, <3>3
  <2>5. \A p \in DdThreads : DdPending(p)' => p # th /\ DdPending(p) /\ ddCalls'[p] = ddCalls[p]
    BY <1>1 DEF DdPending
  <2>6. ASSUME NEW p \in DdThreads, DdPending(p)'
        PROVE  /\ ddCalls'[p].table \in 1..ddTables'
               /\ \A f \in Live' : ddFrames'[f].table # ddCalls'[p].table
               /\ \A o \in DdThreads : DdPending(o)' /\ ddCalls'[o].table = ddCalls'[p].table => o = p
    <3>1. ddCalls[p].table # frame.table
      BY <1>3, <1>6, <2>5, <2>6 DEF DdTablesOK
    <3> QED
      <4>1. ddCalls'[p].table \in 1..ddTables' /\ \A f \in Live : ddFrames'[f].table # ddCalls'[p].table
        <5>1. ddCalls[p].table \in 1..ddTables /\ \A f \in Live : ddFrames[f].table # ddCalls[p].table
          BY <1>3, <2>5, <2>6 DEF DdTablesOK
        <5> QED
          BY <2>1, <2>5, <2>6, <5>1
      <4>2. ddFrames'[n].table # ddCalls'[p].table
        BY <1>8, <2>5, <2>6, <3>1
      <4>3. \A o \in DdThreads : DdPending(o)' /\ ddCalls'[o].table = ddCalls'[p].table => o = p
        BY <1>3, <2>5, <2>6 DEF DdTablesOK
      <4> QED
        BY <1>9, <4>1, <4>2, <4>3
  <2> QED
    BY <2>3, <2>4, <2>6 DEF DdTablesOK
<1>18. DdCounted'
  <2>1. \A c : DdMaking(c)' = DdMaking(c)
    <3>1. ASSUME NEW c PROVE DdMaking(c)' = DdMaking(c)
      <4>1. th \in DdMaking(c)' <=> th \in DdMaking(c)
        BY <1>1 DEF DdMaking, DdPending
      <4>2. \A o \in DdThreads : o # th => (o \in DdMaking(c)' <=> o \in DdMaking(c))
        BY <1>1 DEF DdMaking
      <4>3. DdMaking(c)' \subseteq DdThreads /\ DdMaking(c) \subseteq DdThreads
        BY DEF DdMaking
      <4>4. \A o : o \in DdMaking(c)' <=> o \in DdMaking(c)
        BY <4>1, <4>2, <4>3
      <4> QED
        BY <4>4, Zenon
    <3> QED
      BY <3>1
  <2>2. /\ DdFramesOf(ctx)' = DdFramesOf(ctx) \cup {n}
        /\ \A c : c # ctx => DdFramesOf(c)' = DdFramesOf(c)
    <3>1. \A f \in Live : ddFrames'[f] = ddFrames[f]
      BY <1>2, <1>8
    <3>2. ddFrames'[n].context = ctx
      BY <1>6, <1>8
    <3>3. ASSUME NEW c
          PROVE  DdFramesOf(c)' = DdFramesOf(c) \cup IF c = ctx THEN {n} ELSE {}
      <4>1. \A f : f \in DdFramesOf(c)' <=> f \in DdFramesOf(c) \cup IF c = ctx THEN {n} ELSE {}
        BY <1>9, <3>1, <3>2 DEF DdFramesOf
      <4> QED
        BY <4>1, Zenon
    <3> QED
      BY <3>3
  <2>3. ASSUME NEW c \in DOMAIN ddContexts PROVE DdExact(ddContexts'[c], DdMaking(c)', DdFramesOf(c)')
    <3>1. CASE c = ctx
      BY <1>12, <1>13, <2>1, <2>2, <3>1
    <3>2. CASE c # ctx
      <4>1. DdExact(ddContexts[c], DdMaking(c), DdFramesOf(c))
        BY DEF DdInv, DdCounted
      <4> QED
        BY <1>13, <2>1, <2>2, <3>2, <4>1
    <3> QED
      BY <3>1, <3>2
  <2> QED
    BY <1>13, <2>3 DEF DdCounted
<1>19. DdBlocksOK'
  <2>1. DdFilling' = DdFilling
    <3>1. th \in DdFilling' <=> th \in DdFilling
      BY <1>1 DEF DdFilling, DdPending
    <3>2. \A o \in DdThreads : o # th => (o \in DdFilling' <=> o \in DdFilling)
      BY <1>1 DEF DdFilling
    <3>3. DdFilling' \subseteq DdThreads /\ DdFilling \subseteq DdThreads
      BY DEF DdFilling
    <3>4. \A o : o \in DdFilling' <=> o \in DdFilling
      BY <3>1, <3>2, <3>3
    <3> QED
      BY <3>4, Zenon
  <2> QED
    BY <2>1 DEF DdInv, DdBlocksOK, matrixVars
<1> QED
  BY <1>14, <1>15, <1>16, <1>17, <1>18, <1>19 DEF DdInv

(* uxdf_free, and a load that fails: the frame goes, and no call has it. *)
LEMMA DdLosesFrame ==
  ASSUME DdAssumption, DdInv, NEW f \in Live, NEW ctx, ctx = ddFrames[f].context, Unref(ctx),
         ddFrames' = [ddFrames EXCEPT ![f] = Gone], UNCHANGED <<ddTables, matrixVars>>,
         ddCalls' \in [DdThreads -> DdCallRecords],
         \A o \in DdThreads :
           \/ ddCalls'[o] = NoCall /\ ddCalls[o].at \notin {"made", "framed", "filling"}
           \/ ddCalls'[o] = ddCalls[o] /\ f \notin ddCalls[o].uses /\ f # ddCalls[o].frame
  PROVE  DdInv'
<1>1. /\ Live \subseteq 1..Len(ddFrames) /\ Len(ddFrames) \in Nat /\ DOMAIN ddFrames = 1..Len(ddFrames)
      /\ \A c : IsFiniteSet(DdMaking(c)) /\ IsFiniteSet(DdFramesOf(c))
  BY DdFinite DEF DdInv
<1>2. NoCall.at = "none" /\ NoCall.uses = {} /\ NoCall.frame = 0
  BY DEF NoCall
<1>3. Gone \in DdFrameRecords
  BY DEF Gone, DdFrameRecords
<1>4. /\ ddFrames' \in Seq(DdFrameRecords) /\ DOMAIN ddFrames' = DOMAIN ddFrames /\ ddFrames'[f] = Gone
      /\ \A g \in DOMAIN ddFrames : g # f => ddFrames'[g] = ddFrames[g]
  <2> HIDE DEF Gone
  <2> QED
    BY <1>1, <1>3 DEF DdInv, DdTypes
<1>5. Live' = Live \ {f}
  BY <1>1, <1>4 DEF Live
<1>6. \A g \in Live' : g \in Live /\ g # f /\ ddFrames'[g] = ddFrames[g]
  BY <1>1, <1>4, <1>5
<1>7. ctx \in DOMAIN ddContexts /\ DdExact(ddContexts[ctx], DdMaking(ctx), DdFramesOf(ctx))
  BY DEF DdInv, DdTablesOK, DdCounted
<1>8. \A c : DdMaking(c)' = DdMaking(c)
  <2>1. ASSUME NEW c PROVE DdMaking(c)' = DdMaking(c)
    <3>1. \A o : o \in DdMaking(c)' <=> o \in DdMaking(c)
      BY <1>2 DEF DdMaking
    <3> QED
      BY <3>1, Zenon
  <2> QED
    BY <2>1
<1>9. DdFramesOf(ctx)' = DdFramesOf(ctx) \ {f} /\ f \in DdFramesOf(ctx)
  BY <1>5, <1>6 DEF DdFramesOf
<1>10. \A c : c # ctx => DdFramesOf(c)' = DdFramesOf(c)
  BY <1>5, <1>6 DEF DdFramesOf
<1>11. Unreferred(ddContexts[ctx]) \in DdContextRecords
       /\ DdExact(Unreferred(ddContexts[ctx]), DdMaking(ctx), DdFramesOf(ctx) \ {f})
  <2>1. PICK rec \in DdContextRecords : rec = ddContexts[ctx]
    BY <1>7 DEF DdInv, DdTypes
  <2>2. IsFiniteSet(DdFramesOf(ctx) \ {f}) /\ IsFiniteSet(DdMaking(ctx)) /\ IsFiniteSet(DdFramesOf(ctx))
    BY <1>1, FS_RemoveElement
  <2>3. Cardinality(DdFramesOf(ctx) \ {f}) = Cardinality(DdFramesOf(ctx)) - 1
    BY <1>9, <2>2, FS_RemoveElement
  <2>4. Cardinality(DdMaking(ctx)) \in Nat /\ Cardinality(DdFramesOf(ctx)) \in Nat
    BY <2>2, FS_CardinalityType
  <2>5. Cardinality(DdMaking(ctx)) + Cardinality(DdFramesOf(ctx) \ {f})
          = (Cardinality(DdMaking(ctx)) + Cardinality(DdFramesOf(ctx))) - 1
    BY <2>3, <2>4
  <2>6. DdExact(rec, DdMaking(ctx), DdFramesOf(ctx))
    BY <1>7, <2>1
  <2>7. Unreferred(rec) \in DdContextRecords /\ DdExact(Unreferred(rec), DdMaking(ctx), DdFramesOf(ctx) \ {f})
    BY <2>2, <2>5, <2>6, DdOneLess
  <2> QED
    BY <2>1, <2>7
<1>12. /\ ddContexts' \in Seq(DdContextRecords) /\ DOMAIN ddContexts' = DOMAIN ddContexts
       /\ ddContexts'[ctx] = Unreferred(ddContexts[ctx])
       /\ \A c \in DOMAIN ddContexts : c # ctx => ddContexts'[c] = ddContexts[c]
  <2>1. ddContexts' = [ddContexts EXCEPT ![ctx] = Unreferred(ddContexts[ctx])]
    BY DEF Unref
  <2> QED
    BY <1>7, <1>11, <2>1 DEF DdInv, DdTypes
<1>13. DdTypes'
  BY <1>4, <1>12 DEF DdInv, DdTypes, matrixVars
<1>14. ASSUME NEW o \in DdThreads PROVE DdCallOK(o)'
  <2>1. CASE ddCalls'[o] = NoCall
    BY <1>2, <2>1 DEF DdCallOK
  <2>2. CASE ddCalls'[o] = ddCalls[o] /\ f \notin ddCalls[o].uses /\ f # ddCalls[o].frame
    <3>1. \A g \in Live : g # f => g \in Live' /\ ddFrames'[g] = ddFrames[g]
      BY <1>5, <1>6
    <3> QED
      BY <1>12, <2>2, <3>1, DdCallKept DEF DdInv
  <2> QED
    BY <2>1, <2>2
<1>15. DdApart'
  BY <1>2 DEF DdInv, DdApart
<1>16. DdTablesOK'
  <2>1. \A p \in DdThreads : DdPending(p)' => DdPending(p) /\ ddCalls'[p] = ddCalls[p]
    BY <1>2 DEF DdPending
  <2>2. \A g \in Live' : ddFrames'[g].context \in DOMAIN ddContexts' /\ ddFrames'[g].table \in 1..ddTables'
    BY <1>6, <1>12 DEF DdInv, DdTablesOK
  <2>3. \A g, h \in Live' : ddFrames'[g].table = ddFrames'[h].table => g = h
    <3>1. \A x, y \in Live : ddFrames[x].table = ddFrames[y].table => x = y
      BY DEF DdInv, DdTablesOK
    <3> QED
      BY <1>6, <3>1
  <2>4. ASSUME NEW p \in DdThreads, DdPending(p)'
        PROVE  /\ ddCalls'[p].table \in 1..ddTables'
               /\ \A g \in Live' : ddFrames'[g].table # ddCalls'[p].table
               /\ \A o \in DdThreads : DdPending(o)' /\ ddCalls'[o].table = ddCalls'[p].table => o = p
    <3>1. /\ ddCalls[p].table \in 1..ddTables
          /\ \A g \in Live : ddFrames[g].table # ddCalls[p].table
          /\ \A o \in DdThreads : DdPending(o) /\ ddCalls[o].table = ddCalls[p].table => o = p
      BY <2>1, <2>4 DEF DdInv, DdTablesOK
    <3> QED
      BY <1>6, <2>1, <2>4, <3>1
  <2> QED
    BY <2>2, <2>3, <2>4 DEF DdTablesOK
<1>17. DdCounted'
  <2>1. ASSUME NEW c \in DOMAIN ddContexts PROVE DdExact(ddContexts'[c], DdMaking(c)', DdFramesOf(c)')
    <3>1. CASE c = ctx
      BY <1>8, <1>9, <1>11, <1>12, <3>1
    <3>2. CASE c # ctx
      <4>1. DdExact(ddContexts[c], DdMaking(c), DdFramesOf(c))
        BY DEF DdInv, DdCounted
      <4> QED
        BY <1>8, <1>10, <1>12, <3>2, <4>1
    <3> QED
      BY <3>1, <3>2
  <2> QED
    BY <1>12, <2>1 DEF DdCounted
<1>18. DdBlocksOK'
  <2>1. \A o : o \in DdFilling' <=> o \in DdFilling
    BY <1>2 DEF DdFilling
  <2>2. DdFilling' = DdFilling
    BY <2>1, Zenon
  <2> QED
    BY <2>2 DEF DdInv, DdBlocksOK, matrixVars
<1> QED
  BY <1>13, <1>14, <1>15, <1>16, <1>17, <1>18 DEF DdInv

(* The call that made a context gives its reference up, or has no frame to give it to. *)
LEMMA DdDropsOwn ==
  ASSUME DdAssumption, DdInv, NEW th \in DdThreads, ddCalls[th].at = "framed", NEW call \in DdCallRecords,
         NEW ctx, ctx = ddCalls[th].context, Unref(ctx), ddCalls' = [ddCalls EXCEPT ![th] = call],
         UNCHANGED <<ddFrames, ddTables, matrixVars>>,
         \/ call = NoCall
         \/ call.at = "load" /\ call.context = ctx /\ call.frame = ddCalls[th].frame
            /\ call.uses = {ddCalls[th].frame} \ {0}
  PROVE  DdInv'
<1>1. /\ ddCalls' \in [DdThreads -> DdCallRecords] /\ ddCalls'[th] = call
      /\ \A o \in DdThreads : o # th => ddCalls'[o] = ddCalls[o]
      /\ \A o \in DdThreads : ddCalls[o] \in DdCallRecords
  BY DEF DdInv, DdTypes
<1>2. \A c : IsFiniteSet(DdMaking(c)) /\ IsFiniteSet(DdFramesOf(c))
  BY DdFinite DEF DdInv
<1>3. NoCall.at = "none" /\ NoCall.uses = {} /\ NoCall.frame = 0
  BY DEF NoCall
<1>4. Live' = Live /\ \A c : DdFramesOf(c)' = DdFramesOf(c)
  BY DEF Live, DdFramesOf
<1>5. DdCallOK(th)
  BY DEF DdInv
<1>6. ctx \in DOMAIN ddContexts /\ DdExact(ddContexts[ctx], DdMaking(ctx), DdFramesOf(ctx))
  BY <1>5 DEF DdCallOK, DdInv, DdCounted
<1>7. call.at \in {"none", "load"}
  BY <1>3
<1>8. ASSUME NEW c PROVE DdMaking(c)' = DdMaking(c) \ {th}
  <2>1. \A o : o \in DdMaking(c)' <=> o \in DdMaking(c) \ {th}
    BY <1>1, <1>7 DEF DdMaking
  <2> QED
    BY <2>1, Zenon
<1>9. th \in DdMaking(ctx) /\ \A c : c # ctx => th \notin DdMaking(c)
  BY DEF DdMaking
<1>10. /\ Unreferred(ddContexts[ctx]) \in DdContextRecords
       /\ DdExact(Unreferred(ddContexts[ctx]), DdMaking(ctx) \ {th}, DdFramesOf(ctx))
  <2>1. PICK rec \in DdContextRecords : rec = ddContexts[ctx]
    BY <1>6 DEF DdInv, DdTypes
  <2>2. IsFiniteSet(DdMaking(ctx) \ {th}) /\ IsFiniteSet(DdMaking(ctx)) /\ IsFiniteSet(DdFramesOf(ctx))
    BY <1>2, FS_RemoveElement
  <2>3. Cardinality(DdMaking(ctx) \ {th}) = Cardinality(DdMaking(ctx)) - 1
    BY <1>9, <2>2, FS_RemoveElement
  <2>4. Cardinality(DdMaking(ctx)) \in Nat /\ Cardinality(DdFramesOf(ctx)) \in Nat
    BY <2>2, FS_CardinalityType
  <2>5. Cardinality(DdMaking(ctx) \ {th}) + Cardinality(DdFramesOf(ctx))
          = (Cardinality(DdMaking(ctx)) + Cardinality(DdFramesOf(ctx))) - 1
    BY <2>3, <2>4
  <2>6. DdExact(rec, DdMaking(ctx), DdFramesOf(ctx))
    BY <1>6, <2>1
  <2>7. Unreferred(rec) \in DdContextRecords /\ DdExact(Unreferred(rec), DdMaking(ctx) \ {th}, DdFramesOf(ctx))
    BY <2>2, <2>5, <2>6, DdOneLess
  <2> QED
    BY <2>1, <2>7
<1>11. /\ ddContexts' \in Seq(DdContextRecords) /\ DOMAIN ddContexts' = DOMAIN ddContexts
       /\ ddContexts'[ctx] = Unreferred(ddContexts[ctx])
       /\ \A c \in DOMAIN ddContexts : c # ctx => ddContexts'[c] = ddContexts[c]
  <2>1. ddContexts' = [ddContexts EXCEPT ![ctx] = Unreferred(ddContexts[ctx])]
    BY DEF Unref
  <2> QED
    BY <1>6, <1>10, <2>1 DEF DdInv, DdTypes
<1>12. DdTypes'
  BY <1>1, <1>11 DEF DdInv, DdTypes, matrixVars
<1>13. ASSUME NEW o \in DdThreads PROVE DdCallOK(o)'
  <2>1. CASE o = th /\ call = NoCall
    BY <1>1, <1>3, <2>1 DEF DdCallOK
  <2>2. CASE o = th /\ call # NoCall
    <3>1. call.uses \subseteq Live
      BY <1>5, <2>2 DEF DdCallOK
    <3> QED
      BY <1>1, <1>4, <1>5, <1>6, <1>11, <2>2, <3>1 DEF DdCallOK
  <2>3. CASE o # th
    BY <1>1, <1>4, <1>11, <2>3, DdCallKept DEF DdInv
  <2> QED
    BY <2>1, <2>2, <2>3
<1>14. DdApart'
  <2> SUFFICES ASSUME NEW p \in DdThreads, NEW o \in DdThreads, p # o, ddCalls'[p].frame # 0
               PROVE  ddCalls'[p].frame \notin ddCalls'[o].uses /\ ddCalls'[p].frame # ddCalls'[o].frame
    BY DEF DdApart
  <2>1. ddCalls'[p].frame = ddCalls[p].frame
    BY <1>1, <1>3
  <2>2. ddCalls[p].frame \notin ddCalls[o].uses /\ ddCalls[p].frame # ddCalls[o].frame
    BY <2>1 DEF DdInv, DdApart
  <2>3. CASE o = th
    BY <1>1, <1>3, <2>1, <2>2, <2>3
  <2>4. CASE o # th
    BY <1>1, <2>1, <2>2, <2>4
  <2> QED
    BY <2>3, <2>4
<1>15. DdTablesOK'
  <2>1. \A p \in DdThreads : DdPending(p)' => DdPending(p) /\ ddCalls'[p] = ddCalls[p]
    BY <1>1, <1>7 DEF DdPending
  <2>2. \A g \in Live' : ddFrames'[g].context \in DOMAIN ddContexts' /\ ddFrames'[g].table \in 1..ddTables'
    BY <1>4, <1>11 DEF DdInv, DdTablesOK
  <2>3. \A g, h \in Live' : ddFrames'[g].table = ddFrames'[h].table => g = h
    BY <1>4 DEF DdInv, DdTablesOK
  <2>4. ASSUME NEW p \in DdThreads, DdPending(p)'
        PROVE  /\ ddCalls'[p].table \in 1..ddTables'
               /\ \A g \in Live' : ddFrames'[g].table # ddCalls'[p].table
               /\ \A o \in DdThreads : DdPending(o)' /\ ddCalls'[o].table = ddCalls'[p].table => o = p
    <3>1. /\ ddCalls[p].table \in 1..ddTables
          /\ \A g \in Live : ddFrames[g].table # ddCalls[p].table
          /\ \A o \in DdThreads : DdPending(o) /\ ddCalls[o].table = ddCalls[p].table => o = p
      BY <2>1, <2>4 DEF DdInv, DdTablesOK
    <3> QED
      BY <1>4, <2>1, <2>4, <3>1
  <2> QED
    BY <2>2, <2>3, <2>4 DEF DdTablesOK
<1>16. DdCounted'
  <2>1. ASSUME NEW c \in DOMAIN ddContexts PROVE DdExact(ddContexts'[c], DdMaking(c)', DdFramesOf(c)')
    <3>1. CASE c = ctx
      BY <1>4, <1>8, <1>10, <1>11, <3>1
    <3>2. CASE c # ctx
      <4>1. DdExact(ddContexts[c], DdMaking(c), DdFramesOf(c))
        BY DEF DdInv, DdCounted
      <4>2. DdMaking(c)' = DdMaking(c)
        BY <1>8, <1>9, <3>2
      <4> QED
        BY <1>4, <1>11, <3>2, <4>1, <4>2
    <3> QED
      BY <3>1, <3>2
  <2> QED
    BY <1>11, <2>1 DEF DdCounted
<1>17. DdBlocksOK'
  <2>1. \A o : o \in DdFilling' <=> o \in DdFilling
    BY <1>1, <1>7 DEF DdFilling
  <2>2. DdFilling' = DdFilling
    BY <2>1, Zenon
  <2> QED
    BY <2>2 DEF DdInv, DdBlocksOK, matrixVars
<1> QED
  BY <1>12, <1>13, <1>14, <1>15, <1>16, <1>17 DEF DdInv

(* A context is made for the call that makes it, or was closed again at once. *)
LEMMA DdMakesContext ==
  ASSUME DdAssumption, DdInv, NEW th \in DdThreads, Idle(th), NEW rec \in DdContextRecords,
         ddContexts' = Append(ddContexts, rec), UNCHANGED <<ddFrames, matrixVars>>,
         \/ /\ rec = [refs |-> 1, database |-> TRUE, connection |-> TRUE] /\ ddTables' = ddTables + 1
            /\ \E call \in DdCallRecords :
                 /\ call.at = "made" /\ call.context = Len(ddContexts) + 1 /\ call.table = ddTables + 1
                 /\ call.frame = 0 /\ call.uses = {} /\ ddCalls' = [ddCalls EXCEPT ![th] = call]
         \/ rec = [refs |-> 0, database |-> FALSE, connection |-> FALSE] /\ UNCHANGED <<ddCalls, ddTables>>
  PROVE  DdInv'
<1>1. PICK n : n = Len(ddContexts) + 1
  OBVIOUS
<1>2. /\ ddContexts \in Seq(DdContextRecords) /\ Len(ddContexts) \in Nat /\ DOMAIN ddContexts = 1..Len(ddContexts)
      /\ ddContexts' \in Seq(DdContextRecords) /\ DOMAIN ddContexts' = DOMAIN ddContexts \cup {n}
      /\ ddContexts'[n] = rec /\ n \notin DOMAIN ddContexts /\ n \in Nat
      /\ \A c \in DOMAIN ddContexts : ddContexts'[c] = ddContexts[c]
  BY <1>1 DEF DdInv, DdTypes
<1>3. ddCalls[th].at = "none" /\ ddCalls[th].frame = 0 /\ ddCalls[th].uses = {}
  BY DEF Idle, NoCall
<1>4. /\ ddCalls' \in [DdThreads -> DdCallRecords]
      /\ \A o \in DdThreads : o # th => ddCalls'[o] = ddCalls[o]
      /\ ddCalls'[th].frame = 0 /\ ddCalls'[th].uses = {} /\ ddCalls'[th].at \in {"none", "made"}
      /\ ddCalls'[th].at = "made" => ddCalls'[th].context = n /\ ddCalls'[th].table = ddTables + 1
                                      /\ ddTables' = ddTables + 1
      /\ ddTables' \in {ddTables, ddTables + 1}
      /\ IF ddCalls'[th].at = "made" THEN rec = [refs |-> 1, database |-> TRUE, connection |-> TRUE]
                                      ELSE rec = [refs |-> 0, database |-> FALSE, connection |-> FALSE]
  <2>1. ddCalls \in [DdThreads -> DdCallRecords]
    BY DEF DdInv, DdTypes
  <2>2. CASE \E call \in DdCallRecords :
               /\ call.at = "made" /\ call.context = n /\ call.table = ddTables + 1
               /\ call.frame = 0 /\ call.uses = {} /\ ddCalls' = [ddCalls EXCEPT ![th] = call]
               /\ ddTables' = ddTables + 1 /\ rec = [refs |-> 1, database |-> TRUE, connection |-> TRUE]
    BY <2>1, <2>2
  <2>3. CASE rec = [refs |-> 0, database |-> FALSE, connection |-> FALSE] /\ UNCHANGED <<ddCalls, ddTables>>
    BY <1>3, <2>1, <2>3
  <2> QED
    BY <1>1, <2>2, <2>3
<1>5. Live' = Live /\ \A c : DdFramesOf(c)' = DdFramesOf(c)
  BY DEF Live, DdFramesOf
<1>6. ddTables \in Nat /\ ddTables' \in Nat /\ \A k \in 1..ddTables : k \in 1..ddTables' /\ k # ddTables + 1
  BY <1>4 DEF DdInv, DdTypes
<1>7. DdTypes'
  BY <1>2, <1>4, <1>6 DEF DdInv, DdTypes, matrixVars
<1>8. ASSUME NEW o \in DdThreads PROVE DdCallOK(o)'
  <2>1. CASE o = th
    BY <1>2, <1>4, <2>1 DEF DdCallOK
  <2>2. CASE o # th
    BY <1>2, <1>4, <1>5, <2>2, DdCallKept DEF DdInv
  <2> QED
    BY <2>1, <2>2
<1>9. DdApart'
  BY <1>3, <1>4 DEF DdInv, DdApart
<1>10. DdTablesOK'
  <2>1. \A p \in DdThreads : DdPending(p)' /\ p # th => DdPending(p) /\ ddCalls'[p] = ddCalls[p]
    BY <1>4 DEF DdPending
  <2>2. \A g \in Live' : ddFrames'[g].context \in DOMAIN ddContexts' /\ ddFrames'[g].table \in 1..ddTables'
    <3>1. \A g \in Live : ddFrames[g].context \in DOMAIN ddContexts /\ ddFrames[g].table \in 1..ddTables
      BY DEF DdInv, DdTablesOK
    <3> QED
      BY <1>2, <1>5, <1>6, <3>1
  <2>3. \A g, h \in Live' : ddFrames'[g].table = ddFrames'[h].table => g = h
    BY <1>5 DEF DdInv, DdTablesOK
  <2>4. ASSUME NEW p \in DdThreads, DdPending(p)'
        PROVE  /\ ddCalls'[p].table \in 1..ddTables'
               /\ \A g \in Live' : ddFrames'[g].table # ddCalls'[p].table
               /\ \A o \in DdThreads : DdPending(o)' /\ ddCalls'[o].table = ddCalls'[p].table => o = p
    <3>1. \A q \in DdThreads : DdPending(q)' /\ q # th =>
            /\ ddCalls'[q].table \in 1..ddTables
            /\ \A g \in Live : ddFrames[g].table # ddCalls'[q].table
            /\ \A o \in DdThreads : DdPending(o) /\ ddCalls[o].table = ddCalls'[q].table => o = q
      BY <2>1 DEF DdInv, DdTablesOK
    <3>2. DdPending(th)' => ddCalls'[th].table = ddTables + 1 /\ ddTables' = ddTables + 1
      BY <1>4 DEF DdPending
    <3>3. \A g \in Live : ddFrames[g].table \in 1..ddTables
      BY DEF DdInv, DdTablesOK
    <3>4. CASE p = th
      <4>1. ddTables + 1 \in 1..ddTables'
        BY <1>6, <2>4, <3>2, <3>4
      <4>2. \A o \in DdThreads : DdPending(o)' /\ ddCalls'[o].table = ddCalls'[p].table => o = p
        BY <1>6, <2>4, <3>1, <3>2, <3>4
      <4> QED
        BY <1>5, <1>6, <2>4, <3>2, <3>3, <3>4, <4>1, <4>2
    <3>5. CASE p # th
      <4>1. \A o \in DdThreads : DdPending(o)' /\ ddCalls'[o].table = ddCalls'[p].table => o # th
        BY <1>6, <2>4, <3>1, <3>2, <3>5
      <4> QED
        BY <1>5, <1>6, <2>1, <2>4, <3>1, <3>5, <4>1
    <3> QED
      BY <3>4, <3>5
  <2> QED
    BY <2>2, <2>3, <2>4 DEF DdTablesOK
<1>11. DdCounted'
  <2>1. ASSUME NEW c \in DOMAIN ddContexts PROVE DdExact(ddContexts'[c], DdMaking(c)', DdFramesOf(c)')
    <3>1. \A o : o \in DdMaking(c)' <=> o \in DdMaking(c)
      BY <1>2, <1>3, <1>4 DEF DdMaking
    <3>2. DdMaking(c)' = DdMaking(c)
      BY <3>1, Zenon
    <3>3. DdExact(ddContexts[c], DdMaking(c), DdFramesOf(c))
      BY DEF DdInv, DdCounted
    <3> QED
      BY <1>2, <1>5, <3>2, <3>3
  <2>2. DdExact(ddContexts'[n], DdMaking(n)', DdFramesOf(n)')
    <3>1. DdFramesOf(n)' = {}
      BY <1>2, <1>5 DEF DdFramesOf, DdInv, DdTablesOK
    <3>2. \A o \in DdThreads : ddCalls[o].at \in {"made", "framed"} => ddCalls[o].context # n
      BY <1>2 DEF DdInv, DdCallOK
    <3>3. CASE ddCalls'[th].at = "made"
      <4>1. \A o : o \in DdMaking(n)' <=> o \in {th}
        BY <1>4, <3>2, <3>3 DEF DdMaking
      <4>2. DdMaking(n)' = {th}
        BY <4>1, Zenon
      <4>3. rec = [refs |-> 1, database |-> TRUE, connection |-> TRUE]
        BY <1>4, <3>3
      <4> QED
        BY <1>2, <3>1, <4>2, <4>3, DdNone
    <3>4. CASE ddCalls'[th].at # "made"
      <4>1. \A o : o \in DdMaking(n)' <=> o \in {}
        BY <1>4, <3>2, <3>4 DEF DdMaking
      <4>2. DdMaking(n)' = {}
        BY <4>1, Zenon
      <4>3. rec = [refs |-> 0, database |-> FALSE, connection |-> FALSE]
        BY <1>4, <3>4
      <4> QED
        BY <1>2, <3>1, <4>2, <4>3, DdNone
    <3> QED
      BY <3>3, <3>4
  <2> QED
    BY <1>2, <2>1, <2>2 DEF DdCounted
<1>12. DdBlocksOK'
  <2>1. \A o : o \in DdFilling' <=> o \in DdFilling
    BY <1>3, <1>4 DEF DdFilling
  <2>2. DdFilling' = DdFilling
    BY <2>1, Zenon
  <2> QED
    BY <2>2 DEF DdInv, DdBlocksOK, matrixVars
<1> QED
  BY <1>7, <1>8, <1>9, <1>10, <1>11, <1>12 DEF DdInv

(* Without memory for its frame the call that made a context goes on without. *)
LEMMA DdMakesNoFrame ==
  ASSUME DdAssumption, DdInv, NEW th \in DdThreads, ddCalls[th].at = "made",
         NEW call \in DdCallRecords, call.at = "framed", call.context = ddCalls[th].context,
         call.frame = ddCalls[th].frame, call.uses = ddCalls[th].uses,
         ddCalls' = [ddCalls EXCEPT ![th] = call], UNCHANGED <<ddContexts, ddFrames, ddTables, matrixVars>>
  PROVE  DdInv'
<1>1. /\ ddCalls' \in [DdThreads -> DdCallRecords] /\ ddCalls'[th] = call
      /\ \A o \in DdThreads : o # th => ddCalls'[o] = ddCalls[o]
  BY DEF DdInv, DdTypes
<1>2. Live' = Live /\ \A c : DdFramesOf(c)' = DdFramesOf(c)
  BY DEF Live, DdFramesOf
<1>3. DdTypes'
  BY <1>1 DEF DdInv, DdTypes, matrixVars
<1>4. ASSUME NEW o \in DdThreads PROVE DdCallOK(o)'
  <2>1. CASE o = th
    BY <1>1, <1>2, <2>1 DEF DdInv, DdCallOK
  <2>2. CASE o # th
    BY <1>1, <1>2, <2>2, DdCallKept DEF DdInv
  <2> QED
    BY <2>1, <2>2
<1>5. DdApart'
  <2>1. \A o \in DdThreads : ddCalls'[o].frame = ddCalls[o].frame /\ ddCalls'[o].uses = ddCalls[o].uses
    BY <1>1
  <2> QED
    BY <2>1 DEF DdInv, DdApart
<1>6. DdTablesOK'
  <2>1. \A p \in DdThreads : DdPending(p)' => DdPending(p) /\ ddCalls'[p] = ddCalls[p]
    BY <1>1 DEF DdPending
  <2>2. /\ \A g \in Live' : ddFrames'[g].context \in DOMAIN ddContexts' /\ ddFrames'[g].table \in 1..ddTables'
        /\ \A g, h \in Live' : ddFrames'[g].table = ddFrames'[h].table => g = h
    BY <1>2 DEF DdInv, DdTablesOK
  <2>3. ASSUME NEW p \in DdThreads, DdPending(p)'
        PROVE  /\ ddCalls'[p].table \in 1..ddTables'
               /\ \A g \in Live' : ddFrames'[g].table # ddCalls'[p].table
               /\ \A o \in DdThreads : DdPending(o)' /\ ddCalls'[o].table = ddCalls'[p].table => o = p
    <3>1. /\ ddCalls[p].table \in 1..ddTables
          /\ \A g \in Live : ddFrames[g].table # ddCalls[p].table
          /\ \A o \in DdThreads : DdPending(o) /\ ddCalls[o].table = ddCalls[p].table => o = p
      BY <2>1, <2>3 DEF DdInv, DdTablesOK
    <3> QED
      BY <1>2, <2>1, <2>3, <3>1
  <2> QED
    BY <2>2, <2>3 DEF DdTablesOK
<1>7. DdCounted'
  <2>1. ASSUME NEW c PROVE DdMaking(c)' = DdMaking(c)
    <3>1. \A o : o \in DdMaking(c)' <=> o \in DdMaking(c)
      BY <1>1 DEF DdMaking
    <3> QED
      BY <3>1, Zenon
  <2> QED
    BY <1>2, <2>1 DEF DdInv, DdCounted
<1>8. DdBlocksOK'
  <2>1. \A o : o \in DdFilling' <=> o \in DdFilling
    BY <1>1 DEF DdFilling
  <2>2. DdFilling' = DdFilling
    BY <2>1, Zenon
  <2> QED
    BY <2>2 DEF DdInv, DdBlocksOK, matrixVars
<1> QED
  BY <1>3, <1>4, <1>5, <1>6, <1>7, <1>8 DEF DdInv

-----------------------------------------------------------------------------
(* The steps *)

LEMMA DdFillingStays ==
  ASSUME DdInv, UNCHANGED matrixVars,
         \A o \in DdThreads : ddCalls'[o].at = "filling" <=> ddCalls[o].at = "filling"
  PROVE  ddMatrices' \in Int /\ ddBlocks' \in Int /\ DdBlocksOK'
<1>1. \A o : o \in DdFilling' <=> o \in DdFilling
  BY DEF DdFilling
<1>2. DdFilling' = DdFilling
  BY <1>1, Zenon
<1> QED
  BY <1>2 DEF DdInv, DdTypes, DdBlocksOK, matrixVars

LEMMA LoadDuckdbInv == ASSUME DdInv, NEW th \in DdThreads, NEW b, LoadDuckdb(th, b) PROVE DdInv'
<1>1. UNCHANGED <<ddContexts, ddFrames, ddTables, ddCalls, ddMatrices, ddBlocks>>
  BY DEF LoadDuckdb, matrixVars
<1>2. Live' = Live /\ DdFilling' = DdFilling
  BY <1>1 DEF Live, DdFilling
<1>3. \A c : DdMaking(c)' = DdMaking(c) /\ DdFramesOf(c)' = DdFramesOf(c)
  BY <1>1, <1>2 DEF DdMaking, DdFramesOf
<1>4. DdTypes' /\ DdApart' /\ DdBlocksOK'
  BY <1>1, <1>2 DEF DdInv, DdTypes, DdApart, DdBlocksOK
<1>5. \A o \in DdThreads : DdCallOK(o)'
  BY <1>1, <1>2 DEF DdInv, DdCallOK
<1>6. DdTablesOK'
  BY <1>1, <1>2 DEF DdInv, DdTablesOK, DdPending
<1>7. DdCounted'
  BY <1>1, <1>3 DEF DdInv, DdCounted
<1> QED
  BY <1>4, <1>5, <1>6, <1>7 DEF DdInv

LEMMA CtxCreateInv ==
  ASSUME DdAssumption, DdInv, NEW th \in DdThreads, NEW opened \in BOOLEAN, NEW connected \in BOOLEAN,
         CtxCreate(th, opened, connected)
  PROVE  DdInv'
<1>1. CASE opened /\ connected
  <2>0. PICK n \in Nat, t \in Nat : n = Len(ddContexts) + 1 /\ t = ddTables + 1
    BY DEF DdInv, DdTypes
  <2>1. PICK call : call = [NoCall EXCEPT !.at = "made", !.context = n, !.table = t]
    OBVIOUS
  <2>2. call = [at |-> "made", context |-> n, frame |-> 0, uses |-> {}, table |-> t]
    BY <2>1 DEF NoCall
  <2>3. /\ call \in DdCallRecords /\ call.at = "made" /\ call.context = Len(ddContexts) + 1
        /\ call.table = ddTables + 1 /\ call.frame = 0 /\ call.uses = {}
    <3>1. "made" \in DdPlaces
      BY DEF DdPlaces
    <3> QED
      BY <2>0, <2>2, <3>1 DEF DdCallRecords
  <2>4. /\ ddCalls' = [ddCalls EXCEPT ![th] = call] /\ Idle(th) /\ ddTables' = ddTables + 1
        /\ ddContexts' = Append(ddContexts, [refs |-> 1, database |-> TRUE, connection |-> TRUE])
        /\ UNCHANGED <<ddFrames, matrixVars>>
    BY <1>1, <2>0, <2>1 DEF CtxCreate, Goto
  <2>5. [refs |-> 1, database |-> TRUE, connection |-> TRUE] \in DdContextRecords
    <3>1. 1 \in Int /\ TRUE \in BOOLEAN
      OBVIOUS
    <3> QED
      BY <3>1 DEF DdContextRecords
  <2> QED
    BY <2>3, <2>4, <2>5, DdMakesContext
<1>2. CASE ~(opened /\ connected)
  <2>1. /\ Idle(th) /\ UNCHANGED <<ddCalls, ddTables>> /\ UNCHANGED <<ddFrames, matrixVars>>
        /\ ddContexts' = Append(ddContexts, [refs |-> 0, database |-> FALSE, connection |-> FALSE])
    BY <1>2 DEF CtxCreate
  <2>2. [refs |-> 0, database |-> FALSE, connection |-> FALSE] \in DdContextRecords
    <3>1. 0 \in Int /\ FALSE \in BOOLEAN
      OBVIOUS
    <3> QED
      BY <3>1 DEF DdContextRecords
  <2> QED
    BY <2>1, <2>2, DdMakesContext
<1> QED
  BY <1>1, <1>2

LEMMA MakeFrameInv ==
  ASSUME DdAssumption, DdInv, NEW th \in DdThreads, NEW memory \in BOOLEAN, MakeFrame(th, memory) PROVE DdInv'
<1>1. ddCalls[th] \in DdCallRecords
  BY DEF DdInv, DdTypes
<1>2. PICK n : n = Len(ddFrames) + 1
  OBVIOUS
<1>3. n \in Nat
  BY <1>2 DEF DdInv, DdTypes
<1> DEFINE then == [ddCalls[th] EXCEPT !.at = "framed"]
           with == [then EXCEPT !.frame = n]
<1>4. /\ then \in DdCallRecords /\ then.at = "framed" /\ then.context = ddCalls[th].context
      /\ then.frame = ddCalls[th].frame /\ then.uses = ddCalls[th].uses
  <2>1. "framed" \in DdPlaces
    BY DEF DdPlaces
  <2> QED
    BY <1>1, <2>1 DEF DdCallRecords
<1> HIDE DEF then
<1>5. /\ with \in DdCallRecords /\ with.at = "framed" /\ with.context = ddCalls[th].context
      /\ with.frame = n /\ with.uses = ddCalls[th].uses
  BY <1>3, <1>4 DEF DdCallRecords
<1>6. ddCalls[th].at = "made" /\ DfNew(th, ddCalls[th].context, ddCalls[th].table, memory, then)
      /\ UNCHANGED <<ddTables, matrixVars>>
  BY DEF MakeFrame, then
<1>7. CASE memory
  <2>1. /\ ddFrames' = Append(ddFrames, [context |-> ddCalls[th].context, table |-> ddCalls[th].table])
        /\ ddContexts' = [ddContexts EXCEPT ![ddCalls[th].context] = Referred(ddCalls[th].context)]
        /\ ddCalls' = [ddCalls EXCEPT ![th] = with]
    BY <1>2, <1>6, <1>7 DEF DfNew, Goto
  <2> HIDE DEF with
  <2> QED
    BY <1>2, <1>5, <1>6, <2>1, DdMakesFrame DEF DdPending
<1>8. CASE ~memory
  <2>1. UNCHANGED <<ddFrames, ddContexts>> /\ ddCalls' = [ddCalls EXCEPT ![th] = then]
    BY <1>6, <1>8 DEF DfNew, Goto
  <2> QED
    BY <1>4, <1>6, <2>1, DdMakesNoFrame
<1> QED
  BY <1>7, <1>8

LEMMA DropOwnInv ==
  ASSUME DdAssumption, DdInv, NEW th \in DdThreads, NEW load \in BOOLEAN, DropOwn(th, load) PROVE DdInv'
<1>1. ddCalls[th] \in DdCallRecords
  BY DEF DdInv, DdTypes
<1>2. NoCall \in DdCallRecords
  BY DEF NoCall, DdCallRecords, DdPlaces
<1>3. PICK uses : uses = {ddCalls[th].frame} \ {0}
  OBVIOUS
<1> DEFINE then == [ddCalls[th] EXCEPT !.at = "load", !.uses = uses]
<1>4. /\ then \in DdCallRecords /\ then.at = "load" /\ then.context = ddCalls[th].context
      /\ then.frame = ddCalls[th].frame /\ then.uses = uses
  <2>1. "load" \in DdPlaces /\ uses \in SUBSET Nat
    BY <1>1, <1>3 DEF DdPlaces, DdCallRecords
  <2> QED
    BY <1>1, <2>1 DEF DdCallRecords
<1>5. /\ ddCalls[th].at = "framed" /\ Unref(ddCalls[th].context) /\ UNCHANGED <<ddFrames, ddTables, matrixVars>>
      /\ ddCalls' = [ddCalls EXCEPT ![th] = IF load THEN then ELSE NoCall]
  BY <1>3 DEF DropOwn, Goto
<1> HIDE DEF then
<1>6. CASE load
  BY <1>3, <1>4, <1>5, <1>6, DdDropsOwn
<1>7. CASE ~load
  BY <1>2, <1>5, <1>7, DdDropsOwn
<1> QED
  BY <1>6, <1>7

(* Where the calls that ask something of a frame go. *)
DdCallAt(at, c, uses, t) == [NoCall EXCEPT !.at = at, !.context = c, !.uses = uses, !.table = t]

LEMMA DdCallRecord ==
  ASSUME NEW at \in DdPlaces, NEW c \in Nat, NEW uses \in SUBSET Nat, NEW t \in Nat,
         NEW call, call = DdCallAt(at, c, uses, t)
  PROVE  /\ call \in DdCallRecords /\ call.at = at /\ call.context = c /\ call.uses = uses
         /\ call.table = t /\ call.frame = 0
<1>1. call = [at |-> at, context |-> c, frame |-> 0, uses |-> uses, table |-> t]
  BY DEF NoCall, DdCallAt
<1> QED
  BY <1>1 DEF DdCallRecords

LEMMA DdNoCallRecord ==
  NoCall \in DdCallRecords /\ NoCall.at = "none" /\ NoCall.frame = 0 /\ NoCall.uses = {}
BY DEF NoCall, DdCallRecords, DdPlaces

LEMMA DdKnownTypes ==
  ASSUME DdInv, NEW f \in Known
  PROVE  f \in Live /\ f \in Nat /\ ddFrames[f].context \in Nat /\ {f} \in SUBSET Nat
<1>1. f \in DOMAIN ddFrames /\ f \in Live
  BY DEF Known, Live
<1>2. ddFrames \in Seq(DdFrameRecords)
  BY DEF DdInv, DdTypes
<1>3. ddFrames[f] \in DdFrameRecords /\ f \in Nat
  BY <1>1, <1>2
<1> QED
  BY <1>1, <1>3 DEF DdFrameRecords

LEMMA DdTypesOfCalls ==
  ASSUME DdInv
  PROVE  /\ ddCalls \in [DdThreads -> DdCallRecords] /\ ddTables \in Nat /\ ddTables + 1 \in Nat
         /\ ddTables <= ddTables /\ ddTables <= ddTables + 1
         /\ \A th \in DdThreads : Idle(th) => ddCalls[th].at = "none" /\ ddCalls[th].frame = 0
<1>1. ddCalls \in [DdThreads -> DdCallRecords] /\ ddTables \in Nat
  BY DEF DdInv, DdTypes
<1> QED
  BY <1>1, DdNoCallRecord DEF Idle

(* An idle thread that calls for some frames, and fills no matrix. *)
LEMMA DdAsks ==
  ASSUME DdAssumption, DdInv, NEW th \in DdThreads, Idle(th), NEW call \in DdCallRecords,
         ddCalls' = [ddCalls EXCEPT ![th] = call], UNCHANGED <<ddContexts, ddFrames, matrixVars>>,
         call.at \in {"queried", "return", "sized"}, call.frame = 0, call.uses \subseteq Known,
         IF call.at = "queried"
         THEN /\ call.table = ddTables + 1 /\ ddTables' = ddTables + 1
              /\ \E f \in call.uses : ddFrames[f].context = call.context
         ELSE UNCHANGED ddTables
  PROVE  DdInv'
<1>1. /\ ddCalls \in [DdThreads -> DdCallRecords] /\ ddTables \in Nat /\ ddTables' \in Nat /\ ddTables <= ddTables'
      /\ ddCalls[th].at = "none"
  BY DdTypesOfCalls
<1>2. \A o \in DdThreads : ddCalls'[o].at = "filling" <=> ddCalls[o].at = "filling"
  BY <1>1
<1>3. ddMatrices' \in Int /\ ddBlocks' \in Int /\ DdBlocksOK'
  BY <1>2, DdFillingStays
<1> QED
  BY <1>1, <1>3, DdGoes

LEMMA LoadFileInv ==
  ASSUME DdAssumption, DdInv, NEW th \in DdThreads, NEW ok \in BOOLEAN, LoadFile(th, ok) PROVE DdInv'
<1>1. /\ ddCalls \in [DdThreads -> DdCallRecords] /\ ddTables \in Nat /\ ddTables <= ddTables
  BY DdTypesOfCalls
<1>2. ddCalls[th].at = "load" /\ ddCalls' = [ddCalls EXCEPT ![th] = NoCall] /\ UNCHANGED <<ddTables, matrixVars>>
  BY DEF LoadFile, Goto
<1>3. /\ ddCalls'[th] = NoCall /\ \A o \in DdThreads : o # th => ddCalls'[o] = ddCalls[o]
      /\ ddCalls' \in [DdThreads -> DdCallRecords]
  BY <1>1, <1>2, DdNoCallRecord
<1>4. CASE ddCalls[th].frame = 0 \/ ok
  <2>1. UNCHANGED <<ddContexts, ddFrames>>
    BY <1>4 DEF LoadFile
  <2>2. \A o \in DdThreads : ddCalls'[o].at = "filling" <=> ddCalls[o].at = "filling"
    BY <1>2, <1>3, DdNoCallRecord
  <2>3. ddMatrices' \in Int /\ ddBlocks' \in Int /\ DdBlocksOK'
    BY <1>2, <2>2, DdFillingStays
  <2> QED
    BY <1>1, <1>2, <2>1, <2>3, DdNoCallRecord, DdGoes
<1>5. CASE ddCalls[th].frame # 0 /\ ~ok
  <2>1. PICK f : f = ddCalls[th].frame
    OBVIOUS
  <2>2. f \in Live /\ ddFrames[f].context = ddCalls[th].context
    BY <1>2, <1>5, <2>1 DEF DdInv, DdCallOK
  <2>3. Unref(ddCalls[th].context) /\ ddFrames' = [ddFrames EXCEPT ![f] = Gone]
    BY <1>5, <2>1 DEF LoadFile
  <2>4. \A o \in DdThreads : o # th => f \notin ddCalls[o].uses /\ f # ddCalls[o].frame
    BY <1>5, <2>1 DEF DdInv, DdApart
  <2>5. \A o \in DdThreads :
           \/ ddCalls'[o] = NoCall /\ ddCalls[o].at \notin {"made", "framed", "filling"}
           \/ ddCalls'[o] = ddCalls[o] /\ f \notin ddCalls[o].uses /\ f # ddCalls[o].frame
    BY <1>2, <1>3, <2>4
  <2> QED
    BY <1>2, <1>3, <2>2, <2>3, <2>5, DdLosesFrame
<1> QED
  BY <1>4, <1>5

LEMMA QuerySqlInv ==
  ASSUME DdAssumption, DdInv, NEW th \in DdThreads, NEW f, NEW ok \in BOOLEAN, QuerySql(th, f, ok) PROVE DdInv'
<1>1. /\ ddCalls \in [DdThreads -> DdCallRecords] /\ ddTables \in Nat /\ ddTables + 1 \in Nat /\ ddTables <= ddTables + 1
  BY DdTypesOfCalls
<1>2. /\ Idle(th) /\ f \in Known /\ ddTables' = ddTables + 1 /\ UNCHANGED <<ddContexts, ddFrames, matrixVars>>
  BY DEF QuerySql
<1>3. PICK c \in Nat, t \in Nat : c = ddFrames[f].context /\ t = ddTables + 1
  BY <1>1, <1>2, DdKnownTypes
<1>4. CASE ok
  <2>1. PICK call : call = DdCallAt("queried", c, {f}, t)
    OBVIOUS
  <2>2. "queried" \in DdPlaces /\ {f} \in SUBSET Nat
    BY <1>2, DdKnownTypes DEF DdPlaces
  <2>3. /\ call \in DdCallRecords /\ call.at = "queried" /\ call.context = c /\ call.uses = {f}
        /\ call.table = t /\ call.frame = 0
    BY <2>1, <2>2, DdCallRecord
  <2>4. ddCalls' = [ddCalls EXCEPT ![th] = call]
    BY <1>3, <1>4, <2>1 DEF QuerySql, Goto, DdCallAt
  <2> QED
    BY <1>2, <1>3, <2>3, <2>4, DdAsks
<1>5. CASE ~ok
  <2>1. ddCalls' = [ddCalls EXCEPT ![th] = ddCalls[th]] /\ ddCalls[th] \in DdCallRecords
    BY <1>1, <1>5 DEF QuerySql
  <2>2. ddCalls[th].at = "none" /\ ddCalls[th].frame = 0
    BY <1>2, DdTypesOfCalls
  <2>3. \A o \in DdThreads : ddCalls'[o].at = "filling" <=> ddCalls[o].at = "filling"
    BY <1>1, <2>1
  <2>4. ddMatrices' \in Int /\ ddBlocks' \in Int /\ DdBlocksOK'
    BY <1>2, <2>3, DdFillingStays
  <2> QED
    BY <1>1, <1>2, <2>1, <2>2, <2>4, DdGoes
<1> QED
  BY <1>4, <1>5

LEMMA JoinInnerInv ==
  ASSUME DdAssumption, DdInv, NEW th \in DdThreads, NEW l, NEW r, JoinInner(th, l, r) PROVE DdInv'
<1>1. ddTables + 1 \in Nat
  BY DdTypesOfCalls
<1>2. /\ Idle(th) /\ l \in Known /\ r \in Known /\ ddTables' = ddTables + 1
      /\ UNCHANGED <<ddContexts, ddFrames, matrixVars>>
  BY DEF JoinInner
<1>3. PICK c \in Nat, t \in Nat : c = ddFrames[l].context /\ t = ddTables + 1
  BY <1>1, <1>2, DdKnownTypes
<1>4. PICK call : call = DdCallAt("queried", c, {l, r}, t)
  OBVIOUS
<1>5. "queried" \in DdPlaces /\ {l, r} \in SUBSET Nat
  BY <1>2, DdKnownTypes DEF DdPlaces
<1>6. /\ call \in DdCallRecords /\ call.at = "queried" /\ call.context = c /\ call.uses = {l, r}
      /\ call.table = t /\ call.frame = 0
  BY <1>4, <1>5, DdCallRecord
<1>7. ddCalls' = [ddCalls EXCEPT ![th] = call]
  BY <1>3, <1>4 DEF JoinInner, Goto, DdCallAt
<1> QED
  BY <1>2, <1>3, <1>6, <1>7, DdAsks

LEMMA QueryFrameInv ==
  ASSUME DdAssumption, DdInv, NEW th \in DdThreads, NEW memory \in BOOLEAN, QueryFrame(th, memory) PROVE DdInv'
<1>1. ddCalls \in [DdThreads -> DdCallRecords] /\ ddTables \in Nat /\ ddTables <= ddTables
  BY DdTypesOfCalls
<1>2. PICK n : n = Len(ddFrames) + 1
  OBVIOUS
<1>3. n \in Nat
  BY <1>2 DEF DdInv, DdTypes
<1>4. PICK then : then = [NoCall EXCEPT !.at = "return"]
  OBVIOUS
<1>5. then \in DdCallRecords /\ then.at = "return" /\ then.frame = 0 /\ then.uses = {}
  BY <1>4 DEF NoCall, DdCallRecords, DdPlaces
<1>6. PICK with : with = [then EXCEPT !.frame = n]
  OBVIOUS
<1>7. with \in DdCallRecords /\ with.at = "return" /\ with.frame = n /\ with.uses = {}
  BY <1>3, <1>5, <1>6 DEF DdCallRecords
<1>8. ddCalls[th].at = "queried" /\ DfNew(th, ddCalls[th].context, ddCalls[th].table, memory, then)
      /\ UNCHANGED <<ddTables, matrixVars>>
  BY <1>4 DEF QueryFrame
<1>9. CASE memory
  <2>1. /\ ddFrames' = Append(ddFrames, [context |-> ddCalls[th].context, table |-> ddCalls[th].table])
        /\ ddContexts' = [ddContexts EXCEPT ![ddCalls[th].context] = Referred(ddCalls[th].context)]
        /\ ddCalls' = [ddCalls EXCEPT ![th] = with]
    BY <1>2, <1>6, <1>8, <1>9 DEF DfNew, Goto
  <2> QED
    BY <1>2, <1>7, <1>8, <2>1, DdMakesFrame DEF DdPending
<1>10. CASE ~memory
  <2>1. UNCHANGED <<ddFrames, ddContexts>> /\ ddCalls' = [ddCalls EXCEPT ![th] = then]
    BY <1>8, <1>10 DEF DfNew, Goto
  <2>2. \A o \in DdThreads : ddCalls'[o].at = "filling" <=> ddCalls[o].at = "filling"
    BY <1>1, <1>5, <1>8, <2>1
  <2>3. ddMatrices' \in Int /\ ddBlocks' \in Int /\ DdBlocksOK'
    BY <1>8, <2>2, DdFillingStays
  <2> QED
    BY <1>1, <1>5, <1>8, <2>1, <2>3, DdGoes
<1> QED
  BY <1>9, <1>10

LEMMA ReturnFrameInv == ASSUME DdAssumption, DdInv, NEW th \in DdThreads, ReturnFrame(th) PROVE DdInv'
<1>1. ddCalls \in [DdThreads -> DdCallRecords] /\ ddTables \in Nat /\ ddTables <= ddTables
  BY DdTypesOfCalls
<1>2. /\ ddCalls[th].at = "return" /\ ddCalls' = [ddCalls EXCEPT ![th] = NoCall]
      /\ UNCHANGED <<ddContexts, ddFrames, ddTables, matrixVars>>
  BY DEF ReturnFrame, Goto
<1>3. \A o \in DdThreads : ddCalls'[o].at = "filling" <=> ddCalls[o].at = "filling"
  BY <1>1, <1>2, DdNoCallRecord
<1>4. ddMatrices' \in Int /\ ddBlocks' \in Int /\ DdBlocksOK'
  BY <1>2, <1>3, DdFillingStays
<1> QED
  BY <1>1, <1>2, <1>4, DdNoCallRecord, DdGoes

LEMMA FreeFrameInv ==
  ASSUME DdAssumption, DdInv, NEW th \in DdThreads, NEW f, FreeFrame(th, f) PROVE DdInv'
<1>1. /\ f \in Known \ Used /\ Unref(ddFrames[f].context) /\ ddFrames' = [ddFrames EXCEPT ![f] = Gone]
      /\ UNCHANGED <<ddTables, matrixVars>> /\ ddCalls' = ddCalls
  BY DEF FreeFrame
<1>2. \A o \in DdThreads : f \notin ddCalls[o].uses /\ f # ddCalls[o].frame
  BY <1>1 DEF Known, Used
<1>3. f \in Live /\ ddCalls' \in [DdThreads -> DdCallRecords]
  BY <1>1, DdKnownTypes, DdTypesOfCalls
<1> QED
  BY <1>1, <1>2, <1>3, DdLosesFrame

LEMMA ReadFrameInv ==
  ASSUME DdAssumption, DdInv, NEW th \in DdThreads, NEW f, NEW at \in {"return", "sized"},
         Idle(th), f \in Known, UNCHANGED <<ddContexts, ddFrames, ddTables, matrixVars>>,
         ddCalls' = [ddCalls EXCEPT ![th] = [NoCall EXCEPT !.at = at, !.context = ddFrames[f].context, !.uses = {f}]]
  PROVE  DdInv'
<1>1. PICK c \in Nat, u \in SUBSET Nat : c = ddFrames[f].context /\ u = {f}
  BY DdKnownTypes
<1>2. PICK call : call = [NoCall EXCEPT !.at = at, !.context = c, !.uses = u]
  OBVIOUS
<1>3. call = [at |-> at, context |-> c, frame |-> 0, uses |-> u, table |-> 0]
  BY <1>2 DEF NoCall
<1>4. at \in DdPlaces /\ 0 \in Nat
  BY DEF DdPlaces
<1>5. call \in DdCallRecords /\ call.at = at /\ call.uses = u /\ call.frame = 0
  BY <1>1, <1>3, <1>4 DEF DdCallRecords
<1>6. ddCalls' = [ddCalls EXCEPT ![th] = call]
  BY <1>1, <1>2
<1>7. call.at \in {"queried", "return", "sized"} /\ call.at # "queried" /\ call.uses \subseteq Known
  BY <1>1, <1>5
<1> QED
  BY <1>5, <1>6, <1>7, DdAsks

(* A matrix is filled in two blocks, and both go when it could not be.        *)
LEMMA DdMatrixStep ==
  ASSUME DdAssumption, DdInv, NEW th \in DdThreads, NEW call \in DdCallRecords,
         ddCalls' = [ddCalls EXCEPT ![th] = call], UNCHANGED <<ddContexts, ddFrames, ddTables>>,
         ddCalls[th].at \in {"none", "sized", "filling"}, call.at \in {"none", "return", "filling"},
         call.frame \in {0, ddCalls[th].frame}, call.uses \subseteq ddCalls[th].uses,
         ddMatrices' \in Int, ddBlocks' \in Int,
         ddBlocks' - 2 * ddMatrices' - (IF call.at = "filling" THEN 2 ELSE 0)
           = ddBlocks - 2 * ddMatrices - (IF ddCalls[th].at = "filling" THEN 2 ELSE 0)
  PROVE  DdInv'
<1>1. ddCalls \in [DdThreads -> DdCallRecords] /\ ddTables \in Nat /\ ddTables <= ddTables
  BY DdTypesOfCalls
<1>2. IsFiniteSet(DdFilling)
  BY DdFinite DEF DdInv
<1>3. PICK k \in Nat : k = Cardinality(DdFilling \ {th})
  BY <1>2, FS_RemoveElement, FS_CardinalityType
<1>4. Cardinality(DdFilling) = IF ddCalls[th].at = "filling" THEN k + 1 ELSE k
  <2>1. CASE ddCalls[th].at = "filling"
    <3>1. th \in DdFilling
      BY <2>1 DEF DdFilling
    <3>2. Cardinality(DdFilling \ {th}) = Cardinality(DdFilling) - 1 /\ Cardinality(DdFilling) \in Nat
      BY <1>2, <3>1, FS_RemoveElement, FS_CardinalityType
    <3> QED
      BY <1>3, <2>1, <3>2
  <2>2. CASE ddCalls[th].at # "filling"
    <3>1. DdFilling \ {th} = DdFilling
      BY <2>2 DEF DdFilling
    <3> QED
      BY <1>3, <2>2, <3>1
  <2> QED
    BY <2>1, <2>2
<1>5. PICK now : now = DdFilling'
  OBVIOUS
<1>6. now = (DdFilling \ {th}) \cup (IF call.at = "filling" THEN {th} ELSE {})
  <2>1. \A o : o \in DdFilling' <=> o \in (DdFilling \ {th}) \cup (IF call.at = "filling" THEN {th} ELSE {})
    BY <1>1 DEF DdFilling
  <2> QED
    BY <1>5, <2>1
<1>7. Cardinality(now) = IF call.at = "filling" THEN k + 1 ELSE k
  <2>1. CASE call.at = "filling"
    <3>1. now = (DdFilling \ {th}) \cup {th}
      BY <1>6, <2>1
    <3>2. IsFiniteSet(DdFilling \ {th}) /\ th \notin DdFilling \ {th}
      BY <1>2, FS_RemoveElement
    <3>3. Cardinality((DdFilling \ {th}) \cup {th}) = Cardinality(DdFilling \ {th}) + 1
      BY <3>2, FS_AddElement
    <3> QED
      BY <1>3, <2>1, <3>1, <3>3
  <2>2. CASE call.at # "filling"
    <3>1. now = DdFilling \ {th}
      BY <1>6, <2>2
    <3> QED
      BY <1>3, <2>2, <3>1
  <2> QED
    BY <2>1, <2>2
<1>8. DdBlocksOK'
  <2>1. PICK m \in Int, b \in Int, m2 \in Int, b2 \in Int :
          m = ddMatrices /\ b = ddBlocks /\ m2 = ddMatrices' /\ b2 = ddBlocks'
    BY DEF DdInv, DdTypes
  <2>2. b = 2 * m + 2 * Cardinality(DdFilling)
    BY <2>1 DEF DdInv, DdBlocksOK
  <2>3. PICK was \in {0, 1} : Cardinality(DdFilling) = k + was /\ was = IF ddCalls[th].at = "filling" THEN 1 ELSE 0
    BY <1>4
  <2>4. PICK is \in {0, 1} : Cardinality(now) = k + is /\ is = IF call.at = "filling" THEN 1 ELSE 0
    BY <1>7
  <2>5. b2 - 2 * m2 - 2 * is = b - 2 * m - 2 * was
    <3>1. (IF call.at = "filling" THEN 2 ELSE 0) = 2 * is
      BY <2>4
    <3>2. (IF ddCalls[th].at = "filling" THEN 2 ELSE 0) = 2 * was
      BY <2>3
    <3> QED
      BY <2>1, <3>1, <3>2
  <2>6. b2 = 2 * m2 + 2 * (k + is)
    <3>1. b = 2 * m + 2 * (k + was)
      BY <2>2, <2>3
    <3>2. \A x \in Int : x = b => b2 = (2 * m2 + 2 * is) + (x - 2 * m - 2 * was)
      BY <2>5
    <3> QED
      BY <2>5, <3>1
  <2> QED
    BY <1>5, <2>1, <2>4, <2>6 DEF DdBlocksOK
<1>9. ddCalls[th].at \notin {"made", "framed"} /\ call.at \notin {"made", "framed", "load", "queried"}
  OBVIOUS
<1> QED
  BY <1>1, <1>8, <1>9, DdGoes

LEMMA MatrixInv ==
  ASSUME DdAssumption, DdInv, NEW th \in DdThreads, NEW b \in BOOLEAN,
         AllocMatrix(th, b) \/ FillMatrix(th, b) \/ FreeMatrix(th)
  PROVE  DdInv'
<1>1. /\ ddCalls \in [DdThreads -> DdCallRecords] /\ ddCalls[th] \in DdCallRecords
      /\ ddMatrices \in Int /\ ddBlocks \in Int
  BY DEF DdInv, DdTypes
<1>2. \A m, n \in Int : /\ m + 1 \in Int /\ m - 1 \in Int /\ n + 2 \in Int /\ n - 2 \in Int /\ n + 0 = n
                        /\ (n + 2) - 2 * m - 2 = n - 2 * m - 0
                        /\ n - 2 * (m + 1) - 0 = n - 2 * m - 2
                        /\ (n - 2) - 2 * m - 0 = n - 2 * m - 2
                        /\ (n - 2) - 2 * (m - 1) - 0 = n - 2 * m - 0
  OBVIOUS
<1>3. CASE AllocMatrix(th, b)
  <2>1. PICK place : place = IF b THEN "filling" ELSE "return"
    OBVIOUS
  <2>2. PICK call : call = [ddCalls[th] EXCEPT !.at = place]
    OBVIOUS
  <2>3. place \in DdPlaces
    BY <2>1 DEF DdPlaces
  <2>4. call \in DdCallRecords /\ call.at = place /\ call.frame = ddCalls[th].frame /\ call.uses = ddCalls[th].uses
    BY <1>1, <2>2, <2>3 DEF DdCallRecords
  <2>5. /\ ddCalls' = [ddCalls EXCEPT ![th] = call] /\ ddCalls[th].at = "sized"
        /\ UNCHANGED <<ddContexts, ddFrames, ddTables, ddMatrices>>
    BY <1>3, <2>1, <2>2 DEF AllocMatrix, Goto
  <2>6. ddBlocks' = ddBlocks + (IF b THEN 2 ELSE 0)
    BY <1>3 DEF AllocMatrix
  <2>7. ddMatrices' \in Int /\ ddBlocks' \in Int
    BY <1>1, <1>2, <2>5, <2>6
  <2>8. ddBlocks' - 2 * ddMatrices' - (IF call.at = "filling" THEN 2 ELSE 0)
          = ddBlocks - 2 * ddMatrices - (IF ddCalls[th].at = "filling" THEN 2 ELSE 0)
    BY <1>1, <1>2, <2>1, <2>4, <2>5, <2>6
  <2> QED
    BY <2>1, <2>4, <2>5, <2>7, <2>8, DdMatrixStep
<1>4. CASE FillMatrix(th, b)
  <2>1. /\ ddCalls' = [ddCalls EXCEPT ![th] = NoCall] /\ ddCalls[th].at = "filling"
        /\ UNCHANGED <<ddContexts, ddFrames, ddTables>>
    BY <1>4 DEF FillMatrix, Goto
  <2>2. IF b THEN ddMatrices' = ddMatrices + 1 /\ ddBlocks' = ddBlocks
             ELSE ddBlocks' = ddBlocks - 2 /\ ddMatrices' = ddMatrices
    BY <1>4 DEF FillMatrix
  <2>3. ddMatrices' \in Int /\ ddBlocks' \in Int
    BY <1>1, <1>2, <2>2
  <2>4. ddBlocks' - 2 * ddMatrices' - (IF NoCall.at = "filling" THEN 2 ELSE 0)
          = ddBlocks - 2 * ddMatrices - (IF ddCalls[th].at = "filling" THEN 2 ELSE 0)
    BY <1>1, <1>2, <2>1, <2>2, DdNoCallRecord
  <2> QED
    BY <2>1, <2>3, <2>4, DdNoCallRecord, DdMatrixStep
<1>5. CASE FreeMatrix(th)
  <2>1. /\ ddCalls' = [ddCalls EXCEPT ![th] = NoCall] /\ ddCalls[th] = NoCall
        /\ UNCHANGED <<ddContexts, ddFrames, ddTables>>
        /\ ddMatrices' = ddMatrices - 1 /\ ddBlocks' = ddBlocks - 2
    BY <1>1, <1>5 DEF FreeMatrix, Idle
  <2>2. ddMatrices' \in Int /\ ddBlocks' \in Int
    BY <1>1, <1>2, <2>1
  <2>3. ddBlocks' - 2 * ddMatrices' - (IF NoCall.at = "filling" THEN 2 ELSE 0)
          = ddBlocks - 2 * ddMatrices - (IF ddCalls[th].at = "filling" THEN 2 ELSE 0)
    BY <1>1, <1>2, <2>1, DdNoCallRecord
  <2> QED
    BY <2>1, <2>2, <2>3, DdNoCallRecord, DdMatrixStep
<1> QED
  BY <1>3, <1>4, <1>5

LEMMA DdInitInv == DdAssumption /\ DdInit => DdInv
<1> SUFFICES ASSUME DdAssumption, DdInit PROVE DdInv
  OBVIOUS
<1>1. /\ ddContexts = <<>> /\ ddFrames = <<>> /\ ddTables = 0 /\ ddMatrices = 0 /\ ddBlocks = 0
      /\ ddCalls = [th \in DdThreads |-> NoCall]
  BY DEF DdInit
<1>2. Live = {}
  BY <1>1 DEF Live
<1>3. \A th \in DdThreads : ddCalls[th] = NoCall
  BY <1>1
<1>4. DdTypes
  BY <1>1, DdNoCallRecord DEF DdTypes
<1>5. \A th \in DdThreads : DdCallOK(th)
  BY <1>3, DdNoCallRecord DEF DdCallOK
<1>6. DdApart
  BY <1>3, DdNoCallRecord DEF DdApart
<1>7. DdTablesOK
  BY <1>2, <1>3, DdNoCallRecord DEF DdTablesOK, DdPending
<1>8. DdCounted
  BY <1>1 DEF DdCounted
<1>9. DdBlocksOK
  <2>1. DdFilling = {}
    BY <1>3, DdNoCallRecord DEF DdFilling
  <2>2. Cardinality({}) = 0
    BY FS_EmptySet
  <2> QED
    BY <1>1, <2>1, <2>2 DEF DdBlocksOK
<1> QED
  BY <1>4, <1>5, <1>6, <1>7, <1>8, <1>9 DEF DdInv

LEMMA DdNextInv == DdAssumption /\ DdInv /\ [DdNext]_ddVars => DdInv'
<1> SUFFICES ASSUME DdAssumption, DdInv, [DdNext]_ddVars PROVE DdInv'
  OBVIOUS
<1>1. ASSUME NEW th \in DdThreads, NEW b \in BOOLEAN,
             \/ LoadDuckdb(th, b) \/ MakeFrame(th, b) \/ DropOwn(th, b) \/ LoadFile(th, b) \/ QueryFrame(th, b)
             \/ AllocMatrix(th, b) \/ FillMatrix(th, b)
      PROVE  DdInv'
  BY <1>1, LoadDuckdbInv, MakeFrameInv, DropOwnInv, LoadFileInv, QueryFrameInv, MatrixInv
<1>2. ASSUME NEW th \in DdThreads, NEW b \in BOOLEAN, NEW f, SizeMatrix(th, f, b) PROVE DdInv'
  <2>1. PICK at \in {"return", "sized"} : at = IF b THEN "sized" ELSE "return"
    OBVIOUS
  <2>2. /\ Idle(th) /\ f \in Known /\ UNCHANGED <<ddContexts, ddFrames, ddTables, matrixVars>>
        /\ ddCalls' = [ddCalls EXCEPT ![th] = [NoCall EXCEPT !.at = at, !.context = ddFrames[f].context, !.uses = {f}]]
    BY <1>2, <2>1 DEF SizeMatrix, Goto
  <2> QED
    BY <2>2, ReadFrameInv
<1>3. ASSUME NEW th \in DdThreads, NEW f, ReadFrame(th, f) PROVE DdInv'
  <2>1. /\ Idle(th) /\ f \in Known /\ UNCHANGED <<ddContexts, ddFrames, ddTables, matrixVars>>
        /\ ddCalls' = [ddCalls EXCEPT ![th] = [NoCall EXCEPT !.at = "return", !.context = ddFrames[f].context, !.uses = {f}]]
    BY <1>3 DEF ReadFrame, Goto
  <2> QED
    BY <2>1, ReadFrameInv
<1>4. ASSUME NEW th \in DdThreads, FreeMatrix(th) \/ ReturnFrame(th) PROVE DdInv'
  <2>1. TRUE \in BOOLEAN
    OBVIOUS
  <2> QED
    BY <1>4, <2>1, MatrixInv, ReturnFrameInv
<1>5. CASE UNCHANGED ddVars
  <2>1. UNCHANGED <<ddContexts, ddFrames, ddTables, ddCalls, ddMatrices, ddBlocks>>
    BY <1>5 DEF ddVars, matrixVars
  <2>2. Live' = Live /\ DdFilling' = DdFilling
    BY <2>1 DEF Live, DdFilling
  <2>3. \A c : DdMaking(c)' = DdMaking(c) /\ DdFramesOf(c)' = DdFramesOf(c)
    BY <2>1, <2>2 DEF DdMaking, DdFramesOf
  <2>4. DdTypes' /\ DdApart' /\ DdBlocksOK'
    BY <2>1, <2>2 DEF DdInv, DdTypes, DdApart, DdBlocksOK
  <2>5. \A o \in DdThreads : DdCallOK(o)'
    BY <2>1, <2>2 DEF DdInv, DdCallOK
  <2>6. DdTablesOK'
    BY <2>1, <2>2 DEF DdInv, DdTablesOK, DdPending
  <2>7. DdCounted'
    BY <2>1, <2>3 DEF DdInv, DdCounted
  <2> QED
    BY <2>4, <2>5, <2>6, <2>7 DEF DdInv
<1>6. ASSUME NEW th \in DdThreads, NEW b \in BOOLEAN, NEW connected \in BOOLEAN, CtxCreate(th, b, connected)
      PROVE  DdInv'
  BY <1>6, CtxCreateInv
<1>7. ASSUME NEW th \in DdThreads, NEW b \in BOOLEAN, NEW f, QuerySql(th, f, b) PROVE DdInv'
  BY <1>7, QuerySqlInv
<1>8. ASSUME NEW th \in DdThreads, NEW l, NEW r, JoinInner(th, l, r) PROVE DdInv'
  BY <1>8, JoinInnerInv
<1>9. ASSUME NEW th \in DdThreads, NEW f, FreeFrame(th, f) PROVE DdInv'
  BY <1>9, FreeFrameInv
<1>10. CASE DdNext
  BY <1>1, <1>2, <1>3, <1>4, <1>6, <1>7, <1>8, <1>9, <1>10 DEF DdNext
<1> QED
  BY <1>5, <1>10

LEMMA DdInvExact == DdInv => DuckContextsExact
<1> SUFFICES ASSUME DdInv PROVE DuckContextsExact
  OBVIOUS
<1>1. ASSUME NEW c \in DOMAIN ddContexts PROVE DdExact(ddContexts[c], DdMaking(c), DdFramesOf(c))
  BY DEF DdInv, DdCounted
<1>2. \A th \in DdThreads : ddCalls[th].uses \subseteq Live
  BY DEF DdInv, DdCallOK
<1>3. \A f, g \in Live : ddFrames[f].table = ddFrames[g].table => f = g
  BY DEF DdInv, DdTablesOK
<1>4. ddBlocks = 2 * ddMatrices + 2 * Cardinality({th \in DdThreads : ddCalls[th].at = "filling"})
  BY DEF DdInv, DdBlocksOK, DdFilling
<1> QED
  BY <1>1, <1>2, <1>3, <1>4 DEF DuckContextsExact, DdExact, DdMaking, DdFramesOf

(* uxdataframe_duckdb.c, for any threads, contexts, frames and queries: a     *)
(* connection is open exactly as long as a frame or the call that made it     *)
(* has it, no two frames are one table, and a matrix has its two blocks.      *)
THEOREM DuckAlwaysExact == DdSpec => []DuckContextsExact
<1>1. DdInit => DdInv
  BY DdInitInv, DdAssumption
<1>2. DdInv /\ [DdNext]_ddVars => DdInv'
  BY DdNextInv, DdAssumption
<1> QED
  BY <1>1, <1>2, DdInvExact, PTL DEF DdSpec

-----------------------------------------------------------------------------
(* The inference sessions of ONNX Runtime *)

OxSessionRecords == [objects : SUBSET {"env", "options", "session"}, alive : BOOLEAN]
OxTensorRecords == [type : OxTypes, alive : BOOLEAN]
OxRunRecords == [session : Nat, inputs : Seq(Nat), outputs : Nat, alive : BOOLEAN]
OxResultRecords == [tensors : Seq(Nat), alive : BOOLEAN]
OxCallRecords == [run : Nat, at : {"none", "inputs", "outputs"},
                  inputs : Seq(Nat), outputs : Seq(Nat), tensors : Seq(Nat)]

OxTyped ==
  /\ oxSessions \in Seq(OxSessionRecords) /\ oxTensors \in Seq(OxTensorRecords)
  /\ oxRuns \in Seq(OxRunRecords) /\ oxResults \in Seq(OxResultRecords) /\ oxCall \in OxCallRecords

OxSessionsOK ==
  \A s \in DOMAIN oxSessions :
    oxSessions[s].objects = IF oxSessions[s].alive THEN {"env", "options", "session"} ELSE {}

(* What a run works with: the values of its inputs are the first numbers, and *)
(* those of the outputs that are not copied yet come after those that were.   *)
OxRunning ==
  LET n == Len(oxCall.inputs)
      p == Len(oxCall.tensors)
      m == Len(oxCall.outputs)
  IN  /\ oxCall.at = "none" => oxCall = NotRunning
      /\ \A i \in 1..n : oxCall.inputs[i] = i
      /\ \A i \in 1..m : oxCall.outputs[i] = (n + p) + i
      /\ oxCall.at # "none" => /\ oxCall.run \in DOMAIN oxRuns /\ oxRuns[oxCall.run].outputs # 0
                               /\ ToSet(oxRuns[oxCall.run].inputs) \subseteq AliveIn(oxTensors)
      /\ oxCall.at = "inputs" => m = 0 /\ p = 0
      /\ oxCall.at = "outputs" => m + p = oxRuns[oxCall.run].outputs

OxValuesOK ==
  /\ DOMAIN oxValues = ToSet(oxCall.inputs) \cup ToSet(oxCall.outputs)
  /\ \A v \in DOMAIN oxValues : oxValues[v] # 0 => oxValues[v] \in AliveIn(oxTensors)

(* A tensor has one owner. *)
OxOwnedOK ==
  /\ ToSet(oxCall.tensors) \subseteq AliveIn(oxTensors) /\ IsInjective(oxCall.tensors)
  /\ \A r \in AliveIn(oxResults) :
       /\ ToSet(oxResults[r].tensors) \subseteq AliveIn(oxTensors) \ ToSet(oxCall.tensors)
       /\ oxResults[r].tensors # <<>> /\ IsInjective(oxResults[r].tensors)
       /\ \A o \in AliveIn(oxResults) \ {r} :
            ToSet(oxResults[r].tensors) \cap ToSet(oxResults[o].tensors) = {}

OxInv == OxTyped /\ OxSessionsOK /\ OxRunning /\ OxValuesOK /\ OxOwnedOK

-----------------------------------------------------------------------------
(* Sequences as sets *)

LEMMA OxToSet ==
  /\ ToSet(<<>>) = {} /\ IsInjective(<<>>)
  /\ \A s \in Seq(Nat), x \in Nat : ToSet(Append(s, x)) = ToSet(s) \cup {x}
  /\ \A s \in Seq(Nat), x \in Nat : IsInjective(s) /\ x \notin ToSet(s) => IsInjective(Append(s, x))
  /\ \A s \in Seq(Nat) : s # <<>> <=> Len(s) # 0
<1>1. ToSet(<<>>) = {} /\ IsInjective(<<>>)
  BY DEF ToSet, IsInjective
<1>2. ASSUME NEW s \in Seq(Nat), NEW x \in Nat
      PROVE  /\ ToSet(Append(s, x)) = ToSet(s) \cup {x}
             /\ IsInjective(s) /\ x \notin ToSet(s) => IsInjective(Append(s, x))
  <2>1. PICK n \in Nat : n = Len(s)
    OBVIOUS
  <2>2. PICK t : t = Append(s, x)
    OBVIOUS
  <2>3. /\ DOMAIN s = 1..n /\ DOMAIN t = 1..(n + 1) /\ t[n + 1] = x
        /\ \A i \in 1..n : t[i] = s[i]
    BY <2>1, <2>2
  <2>4. 1..(n + 1) = 1..n \cup {n + 1} /\ n + 1 \notin 1..n
    BY <2>1
  <2>5. ToSet(t) = ToSet(s) \cup {x}
    BY <2>3, <2>4 DEF ToSet
  <2>6. ASSUME IsInjective(s), x \notin ToSet(s) PROVE IsInjective(t)
    <3>1. \A i \in 1..n : s[i] # x
      BY <2>3, <2>6 DEF ToSet
    <3>2. \A a, b \in 1..n : s[a] = s[b] => a = b
      BY <2>3, <2>6 DEF IsInjective
    <3> QED
      BY <2>3, <2>4, <3>1, <3>2 DEF IsInjective
  <2> QED
    BY <2>2, <2>5, <2>6
<1> QED
  BY <1>1, <1>2

(* The numbers of the values, in an execution and outside.                    *)
LEMMA OxNumbers ==
  ASSUME OxInv
  PROVE  /\ Len(oxCall.inputs) \in Nat /\ Len(oxCall.tensors) \in Nat /\ Len(oxCall.outputs) \in Nat
         /\ ToSet(oxCall.inputs) = 1..Len(oxCall.inputs)
         /\ ToSet(oxCall.outputs) = (Len(oxCall.inputs) + Len(oxCall.tensors) + 1)
                                      ..(Len(oxCall.inputs) + Len(oxCall.tensors) + Len(oxCall.outputs))
<1>1. PICK ins \in Seq(Nat), outs \in Seq(Nat), tens \in Seq(Nat) :
        ins = oxCall.inputs /\ outs = oxCall.outputs /\ tens = oxCall.tensors
  BY DEF OxInv, OxTyped, OxCallRecords
<1>2. PICK n \in Nat, m \in Nat, p \in Nat : n = Len(ins) /\ m = Len(outs) /\ p = Len(tens)
  OBVIOUS
<1>3. /\ DOMAIN ins = 1..n /\ \A i \in 1..n : ins[i] = i
      /\ DOMAIN outs = 1..m /\ \A i \in 1..m : outs[i] = (n + p) + i
  <2>1. /\ \A i \in 1..Len(oxCall.inputs) : oxCall.inputs[i] = i
        /\ \A i \in 1..Len(oxCall.outputs) : oxCall.outputs[i] = (Len(oxCall.inputs) + Len(oxCall.tensors)) + i
    BY DEF OxInv, OxRunning
  <2>2. DOMAIN ins = 1..n /\ DOMAIN outs = 1..m
    BY <1>2
  <2> QED
    BY <1>1, <1>2, <2>1, <2>2
<1>4. ToSet(ins) = 1..n
  BY <1>3 DEF ToSet
<1>5. ToSet(outs) = (n + p + 1)..(n + p + m)
  <2>1. ASSUME NEW v \in ToSet(outs) PROVE v \in (n + p + 1)..(n + p + m)
    BY <1>3 DEF ToSet
  <2>2. ASSUME NEW v \in (n + p + 1)..(n + p + m) PROVE v \in ToSet(outs)
    <3>1. v - (n + p) \in 1..m /\ outs[v - (n + p)] = v
      BY <1>3
    <3> QED
      BY <1>3, <3>1 DEF ToSet
  <2> QED
    BY <2>1, <2>2
<1> QED
  BY <1>1, <1>2, <1>4, <1>5

LEMMA OxFreeCall ==
  /\ NotRunning \in OxCallRecords /\ NotRunning.at = "none" /\ NotRunning.run = 0
  /\ NotRunning.inputs = <<>> /\ NotRunning.outputs = <<>> /\ NotRunning.tensors = <<>>
BY DEF NotRunning, OxCallRecords

(* Outside an execution the runtime has no value. *)
LEMMA OxNoValues ==
  ASSUME OxInv, Free
  PROVE  DOMAIN oxValues = {} /\ ToSet(oxCall.tensors) = {}
BY OxFreeCall, OxToSet DEF Free, OxInv, OxValuesOK

(* What was lent and what is owned, when tensors only come to be.             *)
LEMMA OxTensorsGrow ==
  ASSUME OxInv, UNCHANGED <<oxSessions, oxRuns, oxResults, oxValues, oxCall>>,
         oxTensors' \in Seq(OxTensorRecords), AliveIn(oxTensors) \subseteq AliveIn(oxTensors')
  PROVE  OxInv'
<1>1. OxTyped' /\ OxSessionsOK'
  BY DEF OxInv, OxTyped, OxSessionsOK
<1>2. OxRunning'
  BY DEF OxInv, OxRunning
<1>3. OxValuesOK'
  BY DEF OxInv, OxValuesOK
<1>4. AliveIn(oxResults)' = AliveIn(oxResults)
  BY DEF AliveIn
<1>5. OxOwnedOK'
  BY <1>4 DEF OxInv, OxOwnedOK
<1> QED
  BY <1>1, <1>2, <1>3, <1>5 DEF OxInv

-----------------------------------------------------------------------------
(* Outside an execution *)

(* A step on sessions and runs, while none executes. *)
LEMMA OxIdleStep ==
  ASSUME OxInv, Free, UNCHANGED <<oxTensors, oxResults, oxValues, oxCall>>,
         oxSessions' \in Seq(OxSessionRecords), OxSessionsOK', oxRuns' \in Seq(OxRunRecords)
  PROVE  OxInv'
<1>1. oxCall' = NotRunning /\ oxCall = NotRunning
  BY DEF Free
<1>2. OxTyped'
  BY DEF OxInv, OxTyped
<1>3. OxRunning'
  BY <1>1, OxFreeCall DEF OxRunning, OxInv
<1>4. AliveIn(oxResults)' = AliveIn(oxResults) /\ AliveIn(oxTensors)' = AliveIn(oxTensors)
  BY DEF AliveIn
<1>5. OxValuesOK' /\ OxOwnedOK'
  BY <1>4 DEF OxInv, OxValuesOK, OxOwnedOK
<1> QED
  BY <1>2, <1>3, <1>5 DEF OxInv

LEMMA OxCreated ==
  ASSUME NEW done \in 0..Len(CreateSteps)
  PROVE  /\ SessionObjects(done) \subseteq {"env", "options", "session"}
         /\ SessionFreed(SessionObjects(done)) = {}
         /\ done = Len(CreateSteps) => SessionObjects(done) = {"env", "options", "session"}
<1>1. Len(CreateSteps) = 8 /\ CreateSteps[1] = {"env"} /\ CreateSteps[2] = {"options"} /\ CreateSteps[7] = {"session"}
      /\ \A i \in 1..8 : CreateSteps[i] \subseteq {"env", "options", "session"}
  BY DEF CreateSteps
<1>2. SessionObjects(done) \subseteq {"env", "options", "session"}
  BY <1>1 DEF SessionObjects
<1>3. SessionFreed(SessionObjects(done)) = {}
  BY <1>2 DEF SessionFreed
<1>4. ASSUME done = 8 PROVE SessionObjects(done) = {"env", "options", "session"}
  <2>1. {1, 2, 7} \subseteq 1..done
    BY <1>4
  <2> QED
    BY <1>1, <1>2, <2>1 DEF SessionObjects
<1> QED
  BY <1>1, <1>2, <1>3, <1>4

LEMMA SessionCreateInv ==
  ASSUME OxInv, NEW done \in 0..Len(CreateSteps), SessionCreate(done) PROVE OxInv'
<1>1. PICK whole \in BOOLEAN : whole = (done = Len(CreateSteps))
  OBVIOUS
<1>2. PICK objects \in SUBSET {"env", "options", "session"} :
        /\ objects = IF whole THEN SessionObjects(done) ELSE SessionFreed(SessionObjects(done))
        /\ objects = IF whole THEN {"env", "options", "session"} ELSE {}
  BY <1>1, OxCreated
<1>3. PICK rec : rec = [objects |-> objects, alive |-> whole]
  OBVIOUS
<1>4. rec \in OxSessionRecords /\ rec.objects = objects /\ rec.alive = whole
  BY <1>3 DEF OxSessionRecords
<1>5. oxSessions' = Append(oxSessions, rec) /\ Free /\ UNCHANGED <<oxRuns, oxTensors, oxResults, oxValues, oxCall>>
  BY <1>1, <1>2, <1>3 DEF SessionCreate
<1>6. oxSessions \in Seq(OxSessionRecords) /\ oxRuns \in Seq(OxRunRecords)
  BY DEF OxInv, OxTyped
<1>7. oxSessions' \in Seq(OxSessionRecords)
  BY <1>4, <1>5, <1>6
<1>8. OxSessionsOK'
  <2>1. \A s \in DOMAIN oxSessions' :
          \/ s \in DOMAIN oxSessions /\ oxSessions'[s] = oxSessions[s]
          \/ oxSessions'[s] = rec
    BY <1>4, <1>5, <1>6
  <2> QED
    BY <1>2, <1>4, <2>1 DEF OxInv, OxSessionsOK
<1> QED
  BY <1>5, <1>6, <1>7, <1>8, OxIdleStep

LEMMA SessionFreeInv == ASSUME OxInv, NEW s, SessionFree(s) PROVE OxInv'
<1>1. oxSessions \in Seq(OxSessionRecords) /\ oxRuns \in Seq(OxRunRecords)
  BY DEF OxInv, OxTyped
<1>2. s \in DOMAIN oxSessions /\ oxSessions[s] \in OxSessionRecords
  BY <1>1 DEF SessionFree, AliveIn
<1>3. PICK rec : rec = [objects |-> SessionFreed(oxSessions[s].objects), alive |-> FALSE]
  OBVIOUS
<1>4. rec \in OxSessionRecords /\ rec.objects = {} /\ rec.alive = FALSE
  <2>1. SessionFreed(oxSessions[s].objects) = {}
    BY <1>2 DEF SessionFreed, OxSessionRecords
  <2>2. FALSE \in BOOLEAN
    OBVIOUS
  <2> QED
    BY <1>3, <2>1, <2>2 DEF OxSessionRecords
<1>5. oxSessions' = [oxSessions EXCEPT ![s] = rec] /\ Free /\ UNCHANGED <<oxRuns, oxTensors, oxResults, oxValues, oxCall>>
  BY <1>3 DEF SessionFree
<1>6. /\ oxSessions' \in Seq(OxSessionRecords) /\ DOMAIN oxSessions' = DOMAIN oxSessions /\ oxSessions'[s] = rec
      /\ \A t \in DOMAIN oxSessions : t # s => oxSessions'[t] = oxSessions[t]
  BY <1>1, <1>2, <1>4, <1>5
<1>7. OxSessionsOK'
  BY <1>4, <1>6 DEF OxInv, OxSessionsOK
<1> QED
  BY <1>1, <1>5, <1>6, <1>7, OxIdleStep

(* The calls that make and change runs. *)
LEMMA RunsInv ==
  ASSUME OxInv, NEW r, NEW s, NEW t, RunCreate(s) \/ RunFree(r) \/ AddInput(r, t) \/ AddOutput(r) PROVE OxInv'
<1>1. oxSessions \in Seq(OxSessionRecords) /\ oxRuns \in Seq(OxRunRecords)
  BY DEF OxInv, OxTyped
<1>2. /\ Free /\ UNCHANGED <<oxSessions, oxTensors, oxResults, oxValues, oxCall>>
  BY DEF RunCreate, RunFree, AddInput, AddOutput
<1>3. CASE RunCreate(s)
  <2>1. s \in Nat
    BY <1>1, <1>3 DEF RunCreate, AliveIn
  <2>2. [session |-> s, inputs |-> <<>>, outputs |-> 0, alive |-> TRUE] \in OxRunRecords
    <3>1. <<>> \in Seq(Nat) /\ 0 \in Nat /\ TRUE \in BOOLEAN
      OBVIOUS
    <3> QED
      BY <2>1, <3>1 DEF OxRunRecords
  <2> QED
    BY <1>1, <1>2, <1>3, <2>2, OxIdleStep DEF RunCreate, OxInv, OxSessionsOK
<1>4. ASSUME RunFree(r) \/ AddInput(r, t) \/ AddOutput(r) PROVE OxInv'
  <2>1. r \in DOMAIN oxRuns /\ oxRuns[r] \in OxRunRecords
    BY <1>1, <1>4 DEF RunFree, AddInput, AddOutput, AliveIn
  <2>2. PICK rec \in OxRunRecords : oxRuns' = [oxRuns EXCEPT ![r] = rec]
    <3>1. PICK run \in OxRunRecords : run = oxRuns[r]
      BY <2>1
    <3>2. CASE RunFree(r)
      <4>1. FALSE \in BOOLEAN
        OBVIOUS
      <4>2. [run EXCEPT !.alive = FALSE] \in OxRunRecords
        BY <4>1 DEF OxRunRecords
      <4> QED
        BY <2>1, <3>1, <3>2, <4>2 DEF RunFree
    <3>3. CASE AddInput(r, t)
      <4>1. t \in Nat
        BY <1>4, <3>3 DEF AddInput, AliveIn, OxInv, OxTyped
      <4>5. PICK ins \in Seq(Nat) : ins = run.inputs
        BY DEF OxRunRecords
      <4>6. Append(ins, t) \in Seq(Nat)
        BY <4>1
      <4>2. PICK q \in Seq(Nat) : q = Append(run.inputs, t)
        BY <4>5, <4>6
      <4>3. [run EXCEPT !.inputs = q] \in OxRunRecords
        BY DEF OxRunRecords
      <4> QED
        BY <2>1, <3>1, <3>3, <4>2, <4>3 DEF AddInput
    <3>4. CASE AddOutput(r)
      <4>1. PICK n \in Nat : n = run.outputs + 1
        BY DEF OxRunRecords
      <4>2. [run EXCEPT !.outputs = n] \in OxRunRecords
        BY DEF OxRunRecords
      <4> QED
        BY <2>1, <3>1, <3>4, <4>1, <4>2 DEF AddOutput
    <3> QED
      BY <1>4, <3>2, <3>3, <3>4
  <2>3. oxRuns' \in Seq(OxRunRecords)
    BY <1>1, <2>1, <2>2
  <2> QED
    BY <1>1, <1>2, <2>3, OxIdleStep DEF OxInv, OxSessionsOK
<1> QED
  BY <1>3, <1>4

(* A set of tensors is freed. *)
LEMMA OxFreed ==
  ASSUME oxTensors \in Seq(OxTensorRecords), NEW gone
  PROVE  [t \in DOMAIN oxTensors |-> IF t \in gone THEN [oxTensors[t] EXCEPT !.alive = FALSE] ELSE oxTensors[t]]
           \in Seq(OxTensorRecords)
<1>1. PICK n \in Nat : n = Len(oxTensors)
  OBVIOUS
<1>2. DOMAIN oxTensors = 1..n /\ \A t \in 1..n : oxTensors[t] \in OxTensorRecords
  BY <1>1
<1>3. \A t \in 1..n : [oxTensors[t] EXCEPT !.alive = FALSE] \in OxTensorRecords
  <2>1. FALSE \in BOOLEAN
    OBVIOUS
  <2> QED
    BY <1>2, <2>1 DEF OxTensorRecords
<1>4. PICK ts : ts = [t \in 1..n |-> IF t \in gone THEN [oxTensors[t] EXCEPT !.alive = FALSE] ELSE oxTensors[t]]
  OBVIOUS
<1>5. ts \in [1..n -> OxTensorRecords]
  BY <1>2, <1>3, <1>4
<1>6. ts \in Seq(OxTensorRecords)
  BY <1>5
<1> QED
  BY <1>2, <1>4, <1>6

(* The entry points that only make or free an object of one table. *)
LEMMA TensorCreateInv == ASSUME OxInv, NEW type \in OxTypes, TensorCreate(type) PROVE OxInv'
<1>1. PICK rec : rec = [type |-> type, alive |-> TRUE]
  OBVIOUS
<1>2. rec \in OxTensorRecords /\ rec.alive
  <2>1. TRUE \in BOOLEAN
    OBVIOUS
  <2> QED
    BY <1>1, <2>1 DEF OxTensorRecords
<1>3. oxTensors \in Seq(OxTensorRecords) /\ oxTensors' = Append(oxTensors, rec)
  BY <1>1 DEF OxInv, OxTyped, TensorCreate
<1>4. UNCHANGED <<oxSessions, oxRuns, oxResults, oxValues, oxCall>>
  BY DEF TensorCreate, oxObjects
<1>5. oxTensors' \in Seq(OxTensorRecords)
  BY <1>2, <1>3
<1>6. AliveIn(oxTensors) \subseteq AliveIn(oxTensors')
  BY <1>2, <1>3 DEF AliveIn
<1> QED
  BY <1>4, <1>5, <1>6, OxTensorsGrow

(* While nothing executes, a step that leaves what the results that remain own *)
(* alive.                                                                    *)
LEMMA OxFreeStep ==
  ASSUME OxInv, Free, UNCHANGED <<oxSessions, oxRuns, oxValues, oxCall>>,
         oxTensors' \in Seq(OxTensorRecords), oxResults' \in Seq(OxResultRecords),
         AliveIn(oxResults') \subseteq AliveIn(oxResults),
         \A r \in AliveIn(oxResults') :
           /\ oxResults'[r].tensors = oxResults[r].tensors
           /\ ToSet(oxResults[r].tensors) \subseteq AliveIn(oxTensors')
  PROVE  OxInv'
<1>1. oxCall' = NotRunning /\ oxCall = NotRunning
  BY DEF Free
<1>2. OxTyped' /\ OxSessionsOK'
  BY DEF OxInv, OxTyped, OxSessionsOK
<1>3. OxRunning'
  BY <1>1, OxFreeCall DEF OxRunning, OxInv
<1>4. OxValuesOK'
  BY OxNoValues DEF OxInv, OxValuesOK
<1>5. OxOwnedOK'
  <2>1. ToSet(oxCall'.tensors) = {} /\ IsInjective(oxCall'.tensors)
    BY <1>1, OxFreeCall, OxToSet
  <2>2. ASSUME NEW r \in AliveIn(oxResults')
        PROVE  /\ ToSet(oxResults'[r].tensors) \subseteq AliveIn(oxTensors') \ ToSet(oxCall'.tensors)
               /\ oxResults'[r].tensors # <<>> /\ IsInjective(oxResults'[r].tensors)
               /\ \A o \in AliveIn(oxResults') \ {r} :
                    ToSet(oxResults'[r].tensors) \cap ToSet(oxResults'[o].tensors) = {}
    BY <2>1, <2>2 DEF OxInv, OxOwnedOK
  <2> QED
    BY <2>1, <2>2 DEF OxOwnedOK, AliveIn
<1> QED
  BY <1>2, <1>3, <1>4, <1>5 DEF OxInv

LEMMA TensorFreeInv == ASSUME OxInv, NEW t, TensorFree(t) PROVE OxInv'
<1>1. oxTensors \in Seq(OxTensorRecords) /\ oxResults \in Seq(OxResultRecords)
  BY DEF OxInv, OxTyped
<1>2. t \in DOMAIN oxTensors /\ t \notin Owned /\ Free
  BY DEF TensorFree, AliveIn
<1>3. PICK rec : rec = [oxTensors[t] EXCEPT !.alive = FALSE]
  OBVIOUS
<1>4. rec \in OxTensorRecords
  <2>1. oxTensors[t] \in OxTensorRecords
    BY <1>1, <1>2
  <2>2. FALSE \in BOOLEAN
    OBVIOUS
  <2> QED
    BY <1>3, <2>1, <2>2 DEF OxTensorRecords
<1>5. oxTensors' = [oxTensors EXCEPT ![t] = rec] /\ UNCHANGED <<oxSessions, oxRuns, oxResults, oxValues, oxCall>>
  BY <1>3 DEF TensorFree, oxObjects
<1>6. oxTensors' \in Seq(OxTensorRecords)
  BY <1>1, <1>2, <1>4, <1>5
<1>7. \A u \in AliveIn(oxTensors) \ {t} : u \in AliveIn(oxTensors')
  BY <1>1, <1>5 DEF AliveIn
<1>8. AliveIn(oxResults') = AliveIn(oxResults)
  BY <1>5 DEF AliveIn
<1>9. ASSUME NEW r \in AliveIn(oxResults') PROVE ToSet(oxResults[r].tensors) \subseteq AliveIn(oxTensors')
  <2>1. t \notin ToSet(oxResults[r].tensors)
    BY <1>2, <1>8, <1>9 DEF Owned
  <2> QED
    BY <1>7, <1>8, <1>9, <2>1 DEF OxInv, OxOwnedOK
<1> QED
  BY <1>1, <1>2, <1>5, <1>6, <1>8, <1>9, OxFreeStep

LEMMA FreeResultInv == ASSUME OxInv, NEW r, FreeResult(r) PROVE OxInv'
<1>1. oxTensors \in Seq(OxTensorRecords) /\ oxResults \in Seq(OxResultRecords)
  BY DEF OxInv, OxTyped
<1>2. r \in AliveIn(oxResults) /\ r \in DOMAIN oxResults /\ Free /\ UNCHANGED <<oxSessions, oxRuns, oxValues, oxCall>>
  BY DEF FreeResult, AliveIn, oxObjects
<1>3. PICK rec : rec = [oxResults[r] EXCEPT !.alive = FALSE]
  OBVIOUS
<1>4. rec \in OxResultRecords /\ rec.alive = FALSE
  <2>1. oxResults[r] \in OxResultRecords
    BY <1>1, <1>2
  <2>2. FALSE \in BOOLEAN
    OBVIOUS
  <2> QED
    BY <1>3, <2>1, <2>2 DEF OxResultRecords
<1>5. oxResults' = [oxResults EXCEPT ![r] = rec]
  BY <1>3 DEF FreeResult
<1>6. /\ oxResults' \in Seq(OxResultRecords) /\ DOMAIN oxResults' = DOMAIN oxResults /\ oxResults'[r] = rec
      /\ \A o \in DOMAIN oxResults : o # r => oxResults'[o] = oxResults[o]
  BY <1>1, <1>2, <1>4, <1>5
<1>7. AliveIn(oxResults') = AliveIn(oxResults) \ {r}
  BY <1>4, <1>6 DEF AliveIn
<1>8. oxTensors' = [t \in DOMAIN oxTensors |->
                      IF t \in ToSet(oxResults[r].tensors) THEN [oxTensors[t] EXCEPT !.alive = FALSE]
                      ELSE oxTensors[t]]
  BY DEF FreeResult
<1>9. oxTensors' \in Seq(OxTensorRecords)
  BY <1>1, <1>8, OxFreed
<1>10. \A u \in AliveIn(oxTensors) \ ToSet(oxResults[r].tensors) : u \in AliveIn(oxTensors')
  BY <1>8 DEF AliveIn
<1>11. ASSUME NEW o \in AliveIn(oxResults')
       PROVE  oxResults'[o].tensors = oxResults[o].tensors /\ ToSet(oxResults[o].tensors) \subseteq AliveIn(oxTensors')
  <2>1. o \in AliveIn(oxResults) \ {r} /\ o \in DOMAIN oxResults
    BY <1>7, <1>11 DEF AliveIn
  <2>2. ToSet(oxResults[o].tensors) \subseteq AliveIn(oxTensors)
    BY <2>1 DEF OxInv, OxOwnedOK
  <2>3. ToSet(oxResults[o].tensors) \cap ToSet(oxResults[r].tensors) = {}
    BY <1>2, <2>1 DEF OxInv, OxOwnedOK
  <2> QED
    BY <1>6, <1>10, <2>1, <2>2, <2>3
<1>12. AliveIn(oxResults') \subseteq AliveIn(oxResults)
  BY <1>7
<1> QED
  BY <1>2, <1>6, <1>9, <1>11, <1>12, OxFreeStep

-----------------------------------------------------------------------------
(* An execution *)

(* Numbers that follow each other. *)
LEMMA OxRow ==
  ASSUME NEW s \in Seq(Nat), NEW c \in Nat, \A i \in 1..Len(s) : s[i] = c + i
  PROVE  ToSet(s) = (c + 1)..(c + Len(s))
<1>1. PICK n \in Nat : n = Len(s) /\ DOMAIN s = 1..n
  OBVIOUS
<1>2. ASSUME NEW v \in ToSet(s) PROVE v \in (c + 1)..(c + n)
  BY <1>1 DEF ToSet
<1>3. ASSUME NEW v \in (c + 1)..(c + n) PROVE v \in ToSet(s)
  <2>1. v - c \in 1..n /\ s[v - c] = v
    BY <1>1
  <2> QED
    BY <1>1, <2>1 DEF ToSet
<1> QED
  BY <1>1, <1>2, <1>3

(* What an execution has, in constants. *)
OxFacts(ins, outs, tens, n, m, p) ==
  /\ ins = oxCall.inputs /\ outs = oxCall.outputs /\ tens = oxCall.tensors
  /\ n = Len(ins) /\ m = Len(outs) /\ p = Len(tens)
  /\ \A i \in 1..n : ins[i] = i
  /\ \A i \in 1..m : outs[i] = (n + p) + i
  /\ DOMAIN oxValues = 1..n \cup ((n + p + 1)..(n + p + m))
  /\ oxCall.run \in DOMAIN oxRuns /\ oxRuns[oxCall.run].outputs \in Nat \ {0}
  /\ oxRuns[oxCall.run].inputs \in Seq(Nat)
  /\ ToSet(oxRuns[oxCall.run].inputs) \subseteq AliveIn(oxTensors)
  /\ oxCall.at = "inputs" => m = 0 /\ p = 0
  /\ oxCall.at = "outputs" => m + p = oxRuns[oxCall.run].outputs

LEMMA OxRunFacts ==
  ASSUME OxInv, oxCall.at # "none"
  PROVE  \E ins \in Seq(Nat), outs \in Seq(Nat), tens \in Seq(Nat), n \in Nat, m \in Nat, p \in Nat :
           OxFacts(ins, outs, tens, n, m, p)
<1>1. PICK ins \in Seq(Nat), outs \in Seq(Nat), tens \in Seq(Nat) :
        ins = oxCall.inputs /\ outs = oxCall.outputs /\ tens = oxCall.tensors
  BY DEF OxInv, OxTyped, OxCallRecords
<1>2. PICK n \in Nat, m \in Nat, p \in Nat : n = Len(ins) /\ m = Len(outs) /\ p = Len(tens)
  OBVIOUS
<1>3. /\ \A i \in 1..Len(oxCall.inputs) : oxCall.inputs[i] = i
      /\ \A i \in 1..Len(oxCall.outputs) : oxCall.outputs[i] = (Len(oxCall.inputs) + Len(oxCall.tensors)) + i
      /\ oxCall.run \in DOMAIN oxRuns /\ oxRuns[oxCall.run].outputs # 0
      /\ ToSet(oxRuns[oxCall.run].inputs) \subseteq AliveIn(oxTensors)
      /\ oxCall.at = "inputs" => Len(oxCall.outputs) = 0 /\ Len(oxCall.tensors) = 0
      /\ oxCall.at = "outputs" => Len(oxCall.outputs) + Len(oxCall.tensors) = oxRuns[oxCall.run].outputs
  BY DEF OxInv, OxRunning
<1>4. DOMAIN oxValues = 1..n \cup ((n + p + 1)..(n + p + m))
  BY <1>1, <1>2, OxNumbers DEF OxInv, OxValuesOK
<1>5. oxRuns[oxCall.run].outputs \in Nat /\ oxRuns[oxCall.run].inputs \in Seq(Nat)
  <2>1. oxRuns[oxCall.run] \in OxRunRecords
    BY <1>3 DEF OxInv, OxTyped
  <2> QED
    BY <2>1 DEF OxRunRecords
<1>6. OxFacts(ins, outs, tens, n, m, p)
  BY <1>1, <1>2, <1>3, <1>4, <1>5 DEF OxFacts
<1> QED
  BY <1>6

(* The new value of an input gets the next number. *)
LEMMA OxTop ==
  ASSUME OxInv, oxCall.at = "inputs", NEW n \in Nat, n = Len(oxCall.inputs)
  PROVE  DOMAIN oxValues = 1..n /\ Max(DOMAIN oxValues \cup {0}) = n
<1>1. DOMAIN oxValues = 1..n
  <2>1. oxCall.at # "none"
    OBVIOUS
  <2>2. PICK ins \in Seq(Nat), outs \in Seq(Nat), tens \in Seq(Nat), k \in Nat, m \in Nat, p \in Nat :
          OxFacts(ins, outs, tens, k, m, p)
    BY <2>1, OxRunFacts
  <2>3. k = n /\ m = 0 /\ p = 0 /\ DOMAIN oxValues = 1..k \cup ((k + p + 1)..(k + p + m))
    BY <2>2 DEF OxFacts
  <2> QED
    BY <2>3
<1>2. PICK S : S = DOMAIN oxValues \cup {0}
  OBVIOUS
<1>3. S = 0..n
  BY <1>1, <1>2
<1>4. \A x \in S : (\A y \in S : x >= y) <=> x = n
  BY <1>3
<1>5. n \in S
  BY <1>3
<1>6. (CHOOSE x \in S : \A y \in S : x >= y) = n
  BY <1>4, <1>5
<1> QED
  BY <1>1, <1>2, <1>6 DEF Max

(* An execution that ends, one way or another. *)
LEMMA OxEnds ==
  ASSUME OxInv, oxCall' = NotRunning, DOMAIN oxValues' = {}, UNCHANGED <<oxSessions, oxRuns>>,
         oxTensors' \in Seq(OxTensorRecords), oxResults' \in Seq(OxResultRecords),
         \A r \in AliveIn(oxResults') :
           /\ ToSet(oxResults'[r].tensors) \subseteq AliveIn(oxTensors')
           /\ oxResults'[r].tensors # <<>> /\ IsInjective(oxResults'[r].tensors)
           /\ \A o \in AliveIn(oxResults') \ {r} :
                ToSet(oxResults'[r].tensors) \cap ToSet(oxResults'[o].tensors) = {}
  PROVE  OxInv'
<1>1. OxTyped' /\ OxSessionsOK'
  BY OxFreeCall DEF OxInv, OxTyped, OxSessionsOK
<1>2. OxRunning'
  BY OxFreeCall DEF OxRunning
<1>3. ToSet(oxCall'.tensors) = {} /\ ToSet(oxCall'.inputs) = {} /\ ToSet(oxCall'.outputs) = {} /\ IsInjective(oxCall'.tensors)
  BY OxFreeCall, OxToSet
<1>4. OxValuesOK'
  BY <1>3 DEF OxValuesOK
<1>5. OxOwnedOK'
  BY <1>3 DEF OxOwnedOK, AliveIn
<1> QED
  BY <1>1, <1>2, <1>4, <1>5 DEF OxInv

(* The label fail, also after the tensors that were made are freed again. *)
LEMMA OxFailInv ==
  ASSUME OxInv, Fail, UNCHANGED <<oxSessions, oxRuns, oxResults>>,
         oxTensors' \in Seq(OxTensorRecords),
         AliveIn(oxTensors) \ ToSet(oxCall.tensors) \subseteq AliveIn(oxTensors')
  PROVE  OxInv'
<1>1. oxCall' = NotRunning
  BY DEF Fail
<1>2. DOMAIN oxValues' = {}
  BY DEF Fail, WithoutValues, OxInv, OxValuesOK
<1>3. AliveIn(oxResults') = AliveIn(oxResults) /\ oxResults' \in Seq(OxResultRecords)
  BY DEF AliveIn, OxInv, OxTyped
<1>4. ASSUME NEW r \in AliveIn(oxResults')
      PROVE  /\ ToSet(oxResults'[r].tensors) \subseteq AliveIn(oxTensors')
             /\ oxResults'[r].tensors # <<>> /\ IsInjective(oxResults'[r].tensors)
             /\ \A o \in AliveIn(oxResults') \ {r} :
                  ToSet(oxResults'[r].tensors) \cap ToSet(oxResults'[o].tensors) = {}
  BY <1>3, <1>4 DEF OxInv, OxOwnedOK
<1> QED
  BY <1>1, <1>2, <1>3, <1>4, OxEnds

LEMMA ExecuteInv == ASSUME OxInv, NEW r, Execute(r) PROVE OxInv'
<1>1. PICK call : call = [NotRunning EXCEPT !.run = r, !.at = "inputs"]
  OBVIOUS
<1>2. r \in DOMAIN oxRuns /\ r \in Nat /\ oxRuns[r].outputs # 0 /\ ToSet(oxRuns[r].inputs) \subseteq AliveIn(oxTensors)
  BY DEF Execute, AliveIn, OxInv, OxTyped
<1>3. /\ call.run = r /\ call.at = "inputs" /\ call.inputs = <<>> /\ call.outputs = <<>> /\ call.tensors = <<>>
      /\ call \in OxCallRecords
  <2>1. call = [run |-> r, at |-> "inputs", inputs |-> <<>>, outputs |-> <<>>, tensors |-> <<>>]
    BY <1>1 DEF NotRunning
  <2>2. <<>> \in Seq(Nat) /\ "inputs" \in {"none", "inputs", "outputs"}
    OBVIOUS
  <2>3. call \in OxCallRecords
    BY <1>2, <2>1, <2>2 DEF OxCallRecords
  <2> QED
    BY <2>1, <2>3
<1>4. oxCall' = call /\ UNCHANGED <<oxSessions, oxTensors, oxRuns, oxResults, oxValues>> /\ Free
  BY <1>1 DEF Execute, oxObjects
<1>5. OxTyped' /\ OxSessionsOK'
  BY <1>3, <1>4 DEF OxInv, OxTyped, OxSessionsOK
<1>6. OxRunning'
  <2>1. AliveIn(oxTensors') = AliveIn(oxTensors)
    BY <1>4 DEF AliveIn
  <2>2. oxCall'.run = r /\ oxRuns' = oxRuns /\ oxCall'.at = "inputs"
    BY <1>3, <1>4
  <2>3. Len(oxCall'.inputs) = 0 /\ Len(oxCall'.outputs) = 0 /\ Len(oxCall'.tensors) = 0
    BY <1>3, <1>4
  <2> QED
    BY <1>2, <2>1, <2>2, <2>3 DEF OxRunning
<1>7. OxValuesOK'
  <2>1. ToSet(oxCall'.inputs) = {} /\ ToSet(oxCall'.outputs) = {} /\ DOMAIN oxValues' = {}
    BY <1>3, <1>4, OxToSet, OxNoValues
  <2> QED
    BY <2>1 DEF OxValuesOK
<1>8. OxOwnedOK'
  <2>1. ToSet(oxCall'.tensors) = {} /\ IsInjective(oxCall'.tensors) /\ ToSet(oxCall.tensors) = {}
    BY <1>3, <1>4, OxToSet, OxNoValues
  <2>2. AliveIn(oxTensors') = AliveIn(oxTensors) /\ AliveIn(oxResults') = AliveIn(oxResults)
    BY <1>4 DEF AliveIn
  <2> QED
    BY <1>4, <2>1, <2>2 DEF OxInv, OxOwnedOK, AliveIn
<1> QED
  BY <1>5, <1>6, <1>7, <1>8 DEF OxInv

(* The value of the next input. *)
LEMMA ToOrtInv == ASSUME OxInv, NEW ok \in BOOLEAN, ToOrt(ok) PROVE OxInv'
<1>1. oxCall.at = "inputs" /\ oxCall.at # "none" /\ UNCHANGED <<oxSessions, oxRuns, oxTensors, oxResults>>
  BY DEF ToOrt, oxObjects
<1>2. PICK ins \in Seq(Nat), outs \in Seq(Nat), tens \in Seq(Nat), n \in Nat, m \in Nat, p \in Nat :
        OxFacts(ins, outs, tens, n, m, p)
  BY <1>1, OxRunFacts
<1>3. m = 0 /\ p = 0 /\ n = Len(oxCall.inputs) /\ ins = oxCall.inputs /\ n = Len(ins)
  BY <1>1, <1>2 DEF OxFacts
<1>4. CASE ~ok
  <2>1. Fail
    BY <1>4 DEF ToOrt
  <2>2. oxTensors' \in Seq(OxTensorRecords) /\ AliveIn(oxTensors) \subseteq AliveIn(oxTensors')
    BY <1>1 DEF OxInv, OxTyped, AliveIn
  <2> QED
    BY <1>1, <2>1, <2>2, OxFailInv
<1>5. CASE ok
  <2>1. DOMAIN oxValues = 1..n /\ Max(DOMAIN oxValues \cup {0}) = n
    BY <1>1, <1>3, OxTop
  <2>2. PICK value \in Nat : value = n + 1
    OBVIOUS
  <2>3. Fresh(1)[1] = value
    BY <2>1, <2>2 DEF Fresh
  <2>4. PICK next \in Nat : next = n + 1
    OBVIOUS
  <2>5. next \in 1..Len(oxRuns[oxCall.run].inputs)
    BY <1>3, <2>4 DEF ToOrt
  <2>6. PICK t : t = oxRuns[oxCall.run].inputs[next]
    OBVIOUS
  <2>7. t \in AliveIn(oxTensors)
    <3>1. t \in ToSet(oxRuns[oxCall.run].inputs)
      BY <1>2, <2>5, <2>6 DEF ToSet, OxFacts
    <3> QED
      BY <1>2, <3>1 DEF OxFacts
  <2>8. PICK lent : lent = IF oxTensors[t].type = "string" THEN 0 ELSE t
    OBVIOUS
  <2>9. lent # 0 => lent \in AliveIn(oxTensors)
    BY <2>7, <2>8
  <2>10. PICK q \in Seq(Nat) : q = Append(ins, value)
    <3>1. Append(ins, value) \in Seq(Nat)
      BY <2>2
    <3> QED
      BY <3>1
  <2>11. oxValues' = [v \in DOMAIN oxValues \cup {value} |-> IF v = value THEN lent ELSE oxValues[v]]
    BY <1>5, <1>3, <2>3, <2>4, <2>6, <2>8 DEF ToOrt
  <2>12. oxCall' = [oxCall EXCEPT !.inputs = q]
    BY <1>5, <1>3, <2>3, <2>10 DEF ToOrt
  <2>13. oxCall \in OxCallRecords
    BY DEF OxInv, OxTyped
  <2>14. /\ oxCall' \in OxCallRecords /\ oxCall'.inputs = q /\ oxCall'.run = oxCall.run /\ oxCall'.at = "inputs"
         /\ oxCall'.outputs = oxCall.outputs /\ oxCall'.tensors = oxCall.tensors
    <3>1. PICK call \in OxCallRecords : call = oxCall
      BY <2>13
    <3>2. [call EXCEPT !.inputs = q] \in OxCallRecords
      BY DEF OxCallRecords
    <3> QED
      BY <1>1, <2>12, <3>1, <3>2 DEF OxCallRecords
  <2>15. Len(q) = n + 1 /\ q[n + 1] = value /\ \A i \in 1..n : q[i] = ins[i]
    BY <1>3, <2>10
  <2>16. \A i \in 1..Len(q) : q[i] = i
    <3>1. \A i \in 1..n : q[i] = i
      BY <1>2, <2>15 DEF OxFacts
    <3> QED
      BY <2>2, <2>15, <3>1
  <2>17. OxTyped' /\ OxSessionsOK'
    BY <1>1, <2>14 DEF OxInv, OxTyped, OxSessionsOK
  <2>18. Len(oxCall'.outputs) = 0 /\ Len(oxCall'.tensors) = 0
    BY <1>2, <1>3, <2>14 DEF OxFacts
  <2>19. OxRunning'
    <3>1. AliveIn(oxTensors') = AliveIn(oxTensors) /\ oxRuns' = oxRuns
      BY <1>1 DEF AliveIn
    <3>2. /\ oxCall'.run \in DOMAIN oxRuns /\ oxRuns[oxCall'.run].outputs # 0
          /\ ToSet(oxRuns[oxCall'.run].inputs) \subseteq AliveIn(oxTensors)
      BY <1>2, <2>14 DEF OxFacts
    <3>3. \A i \in 1..Len(oxCall'.inputs) : oxCall'.inputs[i] = i
      BY <2>14, <2>16
    <3> QED
      BY <2>14, <2>18, <3>1, <3>2, <3>3 DEF OxRunning
  <2>20. OxValuesOK'
    <3>1. ToSet(q) = 1..(n + 1)
      <4>1. \A i \in 1..Len(q) : q[i] = 0 + i
        BY <2>15, <2>16
      <4>2. ToSet(q) = (0 + 1)..(0 + Len(q))
        BY <4>1, OxRow
      <4> QED
        BY <2>15, <4>2
    <3>2. DOMAIN oxValues' = 1..(n + 1)
      BY <2>1, <2>2, <2>11
    <3>3. ToSet(oxCall'.outputs) = {}
      <4>1. oxCall'.outputs = outs /\ Len(outs) = 0
        BY <1>2, <1>3, <2>14 DEF OxFacts
      <4>2. outs = <<>>
        BY <4>1
      <4> QED
        BY <4>1, <4>2, OxToSet
    <3>4. AliveIn(oxTensors') = AliveIn(oxTensors)
      BY <1>1 DEF AliveIn
    <3>5. \A v \in DOMAIN oxValues' : oxValues'[v] # 0 => oxValues'[v] \in AliveIn(oxTensors)
      BY <2>9, <2>11 DEF OxInv, OxValuesOK
    <3> QED
      BY <2>14, <3>1, <3>2, <3>3, <3>4, <3>5 DEF OxValuesOK
  <2>21. OxOwnedOK'
    BY <1>1, <2>14 DEF OxInv, OxOwnedOK, AliveIn
  <2> QED
    BY <2>17, <2>19, <2>20, <2>21 DEF OxInv
<1> QED
  BY <1>4, <1>5

(* The runtime answers with a value for each output. *)
LEMMA OrtRunInv == ASSUME OxInv, NEW ok \in BOOLEAN, OrtRun(ok) PROVE OxInv'
<1>1. oxCall.at = "inputs" /\ oxCall.at # "none" /\ UNCHANGED <<oxSessions, oxRuns, oxTensors, oxResults>>
  BY DEF OrtRun, oxObjects
<1>2. PICK ins \in Seq(Nat), outs \in Seq(Nat), tens \in Seq(Nat), n \in Nat, m \in Nat, p \in Nat :
        OxFacts(ins, outs, tens, n, m, p)
  BY <1>1, OxRunFacts
<1>3. m = 0 /\ p = 0 /\ n = Len(oxCall.inputs) /\ ins = oxCall.inputs /\ n = Len(ins)
  BY <1>1, <1>2 DEF OxFacts
<1>4. CASE ~ok
  <2>1. Fail
    BY <1>4 DEF OrtRun
  <2>2. oxTensors' \in Seq(OxTensorRecords) /\ AliveIn(oxTensors) \subseteq AliveIn(oxTensors')
    BY <1>1 DEF OxInv, OxTyped, AliveIn
  <2> QED
    BY <1>1, <2>1, <2>2, OxFailInv
<1>5. CASE ok
  <2>1. DOMAIN oxValues = 1..n /\ Max(DOMAIN oxValues \cup {0}) = n
    BY <1>1, <1>3, OxTop
  <2>2. PICK k \in Nat : k = oxRuns[oxCall.run].outputs /\ k # 0
    BY <1>2 DEF OxFacts
  <2>3. PICK made : made = [i \in 1..k |-> n + i]
    OBVIOUS
  <2>4. made = Fresh(k) /\ made = Fresh(oxRuns[oxCall.run].outputs)
    BY <2>1, <2>2, <2>3 DEF Fresh
  <2>5. made \in Seq(Nat) /\ Len(made) = k /\ \A i \in 1..k : made[i] = n + i
    <3>1. made \in [1..k -> Nat]
      BY <2>3
    <3>2. made \in Seq(Nat)
      BY <3>1
    <3> QED
      BY <2>3, <3>1, <3>2
  <2>6. ToSet(made) = (n + 1)..(n + k)
    BY <2>5, OxRow
  <2>7. oxValues' = [v \in DOMAIN oxValues \cup ToSet(made) |-> IF v \in ToSet(made) THEN 0 ELSE oxValues[v]]
    BY <1>5, <2>4 DEF OrtRun
  <2>8. oxCall' = [oxCall EXCEPT !.at = "outputs", !.outputs = made]
    BY <1>5, <2>4 DEF OrtRun
  <2>9. /\ oxCall' \in OxCallRecords /\ oxCall'.inputs = oxCall.inputs /\ oxCall'.run = oxCall.run
        /\ oxCall'.at = "outputs" /\ oxCall'.outputs = made /\ oxCall'.tensors = oxCall.tensors
    <3>1. PICK call \in OxCallRecords : call = oxCall
      BY DEF OxInv, OxTyped
    <3>2. "outputs" \in {"none", "inputs", "outputs"}
      OBVIOUS
    <3>3. [call EXCEPT !.at = "outputs", !.outputs = made] \in OxCallRecords
      BY <2>5, <3>2 DEF OxCallRecords
    <3> QED
      BY <2>8, <3>1, <3>3 DEF OxCallRecords
  <2>10. OxTyped' /\ OxSessionsOK'
    BY <1>1, <2>9 DEF OxInv, OxTyped, OxSessionsOK
  <2>11. Len(oxCall'.inputs) = n /\ Len(oxCall'.tensors) = 0 /\ Len(oxCall'.outputs) = k
    BY <1>2, <1>3, <2>5, <2>9 DEF OxFacts
  <2>12. OxRunning'
    <3>1. AliveIn(oxTensors') = AliveIn(oxTensors) /\ oxRuns' = oxRuns
      BY <1>1 DEF AliveIn
    <3>2. /\ oxCall'.run \in DOMAIN oxRuns /\ oxRuns[oxCall'.run].outputs = k
          /\ ToSet(oxRuns[oxCall'.run].inputs) \subseteq AliveIn(oxTensors)
      BY <1>2, <2>2, <2>9 DEF OxFacts
    <3>3. \A i \in 1..Len(oxCall'.inputs) : oxCall'.inputs[i] = i
      BY <1>2, <1>3, <2>9 DEF OxFacts
    <3>4. \A i \in 1..Len(oxCall'.outputs) :
            oxCall'.outputs[i] = (Len(oxCall'.inputs) + Len(oxCall'.tensors)) + i
      BY <2>5, <2>9, <2>11
    <3>5. oxRuns'[oxCall'.run].outputs = k /\ oxCall'.run \in DOMAIN oxRuns'
      BY <3>1, <3>2
    <3>6. Len(oxCall'.outputs) + Len(oxCall'.tensors) = k
      BY <2>2, <2>11
    <3>7. ToSet(oxRuns'[oxCall'.run].inputs) \subseteq AliveIn(oxTensors')
      BY <3>1, <3>2
    <3>8. oxCall'.at # "none" /\ oxCall'.at # "inputs" /\ k # 0
      BY <2>2, <2>9
    <3> QED
      BY <3>3, <3>4, <3>5, <3>6, <3>7, <3>8 DEF OxRunning
  <2>13. OxValuesOK'
    <3>1. ToSet(oxCall'.inputs) = DOMAIN oxValues
      <4>1. \A i \in 1..Len(ins) : ins[i] = 0 + i
        <5>1. \A i \in 1..n : ins[i] = i
          BY <1>2 DEF OxFacts
        <5>2. \A i \in 1..n : 0 + i = i
          OBVIOUS
        <5> QED
          BY <1>3, <5>1, <5>2
      <4>2. ToSet(ins) = (0 + 1)..(0 + Len(ins))
        BY <4>1, OxRow
      <4> QED
        BY <1>3, <2>1, <2>9, <4>2
    <3>2. DOMAIN oxValues' = DOMAIN oxValues \cup ToSet(made)
      BY <2>7
    <3>3. AliveIn(oxTensors') = AliveIn(oxTensors)
      BY <1>1 DEF AliveIn
    <3>4. \A v \in DOMAIN oxValues' : oxValues'[v] # 0 => oxValues'[v] \in AliveIn(oxTensors)
      BY <2>7 DEF OxInv, OxValuesOK
    <3> QED
      BY <2>9, <3>1, <3>2, <3>3, <3>4 DEF OxValuesOK
  <2>14. OxOwnedOK'
    BY <1>1, <2>9 DEF OxInv, OxOwnedOK, AliveIn
  <2> QED
    BY <2>10, <2>12, <2>13, <2>14 DEF OxInv
<1> QED
  BY <1>4, <1>5

(* A value of an output becomes a tensor, or the execution fails. *)
LEMMA FromOrtFailInv == ASSUME OxInv, NEW type, FromOrt(type, FALSE) PROVE OxInv'
<1>1. /\ Fail /\ UNCHANGED <<oxSessions, oxRuns, oxResults>>
      /\ oxTensors' = [t \in DOMAIN oxTensors |->
                         IF t \in ToSet(oxCall.tensors) THEN [oxTensors[t] EXCEPT !.alive = FALSE] ELSE oxTensors[t]]
  BY DEF FromOrt, oxObjects
<1>2. oxTensors' \in Seq(OxTensorRecords)
  BY <1>1, OxFreed DEF OxInv, OxTyped
<1>3. AliveIn(oxTensors) \ ToSet(oxCall.tensors) \subseteq AliveIn(oxTensors')
  BY <1>1 DEF AliveIn
<1> QED
  BY <1>1, <1>2, <1>3, OxFailInv

LEMMA FromOrtInv == ASSUME OxInv, NEW type \in OxTypes, FromOrt(type, TRUE) PROVE OxInv'
<1>1. oxCall.at = "outputs" /\ oxCall.at # "none" /\ UNCHANGED <<oxSessions, oxRuns, oxResults>>
  BY DEF FromOrt, oxObjects
<1>2. PICK ins \in Seq(Nat), outs \in Seq(Nat), tens \in Seq(Nat), n \in Nat, m \in Nat, p \in Nat :
        OxFacts(ins, outs, tens, n, m, p)
  BY <1>1, OxRunFacts
<1>3. /\ ins = oxCall.inputs /\ outs = oxCall.outputs /\ tens = oxCall.tensors
      /\ n = Len(ins) /\ m = Len(outs) /\ p = Len(tens) /\ outs # <<>>
  BY <1>2 DEF OxFacts, FromOrt
<1>4. m \in Nat \ {0} /\ 1 \in 1..m
  BY <1>3
<1>5. PICK value \in Nat : value = n + p + 1
  OBVIOUS
<1>6. Head(outs) = value
  <2>1. outs[1] = (n + p) + 1
    BY <1>2, <1>4 DEF OxFacts
  <2>2. Head(outs) = outs[1]
    BY <1>3
  <2> QED
    BY <1>5, <2>1, <2>2
<1>7. oxTensors \in Seq(OxTensorRecords) /\ oxResults \in Seq(OxResultRecords) /\ oxCall \in OxCallRecords
  BY DEF OxInv, OxTyped
<1>8. PICK k \in Nat : k = Len(oxTensors) + 1
  BY <1>7
<1>9. PICK rec : rec = [type |-> type, alive |-> TRUE]
  OBVIOUS
<1>10. rec \in OxTensorRecords /\ rec.alive
  <2>1. TRUE \in BOOLEAN
    OBVIOUS
  <2> QED
    BY <1>9, <2>1 DEF OxTensorRecords
<1>11. oxTensors' = Append(oxTensors, rec)
  BY <1>9 DEF FromOrt
<1>12. oxTensors' \in Seq(OxTensorRecords)
  BY <1>7, <1>10, <1>11
<1>13. AliveIn(oxTensors') = AliveIn(oxTensors) \cup {k} /\ k \notin AliveIn(oxTensors)
  <2>1. PICK l \in Nat : l = Len(oxTensors)
    BY <1>7
  <2>2. /\ DOMAIN oxTensors = 1..l /\ DOMAIN oxTensors' = 1..(l + 1) /\ oxTensors'[l + 1] = rec
        /\ \A t \in 1..l : oxTensors'[t] = oxTensors[t]
    BY <1>7, <1>11, <2>1
  <2>3. k = l + 1 /\ 1..(l + 1) = 1..l \cup {k} /\ k \notin 1..l
    BY <1>8, <2>1
  <2> QED
    BY <1>10, <2>2, <2>3 DEF AliveIn
<1>14. PICK q \in Seq(Nat) : q = Append(tens, k)
  <2>1. Append(tens, k) \in Seq(Nat)
    BY <1>8
  <2> QED
    BY <2>1
<1>15. PICK rest \in Seq(Nat) : rest = Tail(outs)
  <2>1. Tail(outs) \in Seq(Nat)
    BY <1>3
  <2> QED
    BY <2>1
<1>16. /\ Len(rest) = m - 1 /\ Len(q) = p + 1
       /\ \A i \in 1..(m - 1) : rest[i] = outs[i + 1]
  BY <1>3, <1>4, <1>14, <1>15
<1>17. oxCall' = [oxCall EXCEPT !.outputs = rest, !.tensors = q]
  BY <1>3, <1>8, <1>14, <1>15 DEF FromOrt
<1>18. oxValues' = WithoutValues({value})
  BY <1>3, <1>6 DEF FromOrt
<1>19. /\ oxCall' \in OxCallRecords /\ oxCall'.inputs = ins /\ oxCall'.run = oxCall.run
       /\ oxCall'.at = "outputs" /\ oxCall'.outputs = rest /\ oxCall'.tensors = q
  <2>1. PICK call \in OxCallRecords : call = oxCall
    BY <1>7
  <2>2. [call EXCEPT !.outputs = rest, !.tensors = q] \in OxCallRecords
    BY DEF OxCallRecords
  <2> QED
    BY <1>1, <1>3, <1>17, <2>1, <2>2 DEF OxCallRecords
<1>20. OxTyped' /\ OxSessionsOK'
  BY <1>1, <1>12, <1>19 DEF OxInv, OxTyped, OxSessionsOK
<1>21. \A i \in 1..(m - 1) : rest[i] = (n + (p + 1)) + i
  <2>1. ASSUME NEW i \in 1..(m - 1) PROVE rest[i] = (n + (p + 1)) + i
    <3>1. i + 1 \in 1..m
      BY <1>4
    <3>2. outs[i + 1] = (n + p) + (i + 1)
      BY <1>2, <3>1 DEF OxFacts
    <3>3. rest[i] = outs[i + 1]
      BY <1>16
    <3> QED
      BY <3>2, <3>3
  <2> QED
    BY <2>1
<1>22. OxRunning'
  <2>1. oxRuns' = oxRuns
    BY <1>1
  <2>2. /\ oxCall'.run \in DOMAIN oxRuns /\ oxRuns[oxCall'.run].outputs # 0
        /\ ToSet(oxRuns[oxCall'.run].inputs) \subseteq AliveIn(oxTensors')
        /\ oxRuns[oxCall'.run].outputs = m + p
    BY <1>1, <1>2, <1>13, <1>19 DEF OxFacts
  <2>3. \A i \in 1..Len(oxCall'.inputs) : oxCall'.inputs[i] = i
    BY <1>2, <1>3, <1>19 DEF OxFacts
  <2>4. Len(oxCall'.inputs) = n /\ Len(oxCall'.outputs) = m - 1 /\ Len(oxCall'.tensors) = p + 1
    BY <1>3, <1>16, <1>19
  <2>5. \A i \in 1..Len(oxCall'.outputs) :
          oxCall'.outputs[i] = (Len(oxCall'.inputs) + Len(oxCall'.tensors)) + i
    BY <1>19, <1>21, <2>4
  <2>6. (m - 1) + (p + 1) = m + p
    OBVIOUS
  <2> QED
    BY <1>19, <2>1, <2>2, <2>3, <2>4, <2>5, <2>6 DEF OxRunning
<1>23. OxValuesOK'
  <2>1. DOMAIN oxValues = 1..n \cup ((n + p + 1)..(n + p + m))
    BY <1>2 DEF OxFacts
  <2>2. ToSet(ins) = 1..n
    <3>1. \A i \in 1..Len(ins) : ins[i] = 0 + i
      BY <1>2, <1>3 DEF OxFacts
    <3>2. ToSet(ins) = (0 + 1)..(0 + Len(ins))
      BY <3>1, OxRow
    <3> QED
      BY <1>3, <3>2
  <2>3. ToSet(rest) = (n + p + 2)..(n + p + m)
    <3>1. \A i \in 1..Len(rest) : rest[i] = (n + (p + 1)) + i
      BY <1>16, <1>21
    <3>2. PICK c \in Nat : c = n + (p + 1)
      OBVIOUS
    <3>3. ToSet(rest) = (c + 1)..(c + Len(rest))
      BY <3>1, <3>2, OxRow
    <3>4. c + 1 = n + p + 2 /\ c + (m - 1) = n + p + m
      BY <3>2
    <3> QED
      BY <1>16, <3>3, <3>4
  <2>4. DOMAIN oxValues \ {value} = 1..n \cup ((n + p + 2)..(n + p + m))
    <3>1. \A v \in Nat : (v \in (n + p + 1)..(n + p + m) /\ v # value) <=> v \in (n + p + 2)..(n + p + m)
      BY <1>4, <1>5
    <3>2. value \notin 1..n
      BY <1>5
    <3>3. (n + p + 1)..(n + p + m) \subseteq Nat /\ (n + p + 2)..(n + p + m) \subseteq Nat
      OBVIOUS
    <3> QED
      BY <2>1, <3>1, <3>2, <3>3
  <2>5. DOMAIN oxValues' = ToSet(ins) \cup ToSet(rest)
    BY <1>18, <2>2, <2>3, <2>4 DEF WithoutValues
  <2>6. \A v \in DOMAIN oxValues' : v \in DOMAIN oxValues /\ oxValues'[v] = oxValues[v]
    BY <1>18 DEF WithoutValues
  <2>7. \A v \in DOMAIN oxValues' : oxValues'[v] # 0 => oxValues'[v] \in AliveIn(oxTensors')
    BY <1>13, <2>6 DEF OxInv, OxValuesOK
  <2> QED
    BY <1>19, <2>5, <2>7 DEF OxValuesOK
<1>24. OxOwnedOK'
  <2>1. ToSet(tens) \subseteq AliveIn(oxTensors) /\ IsInjective(tens)
    BY <1>3 DEF OxInv, OxOwnedOK
  <2>2. ToSet(q) = ToSet(tens) \cup {k} /\ IsInjective(q)
    BY <1>13, <1>14, <2>1, OxToSet
  <2>3. oxResults' = oxResults /\ AliveIn(oxResults') = AliveIn(oxResults)
    BY <1>1 DEF AliveIn
  <2>4. ASSUME NEW r \in AliveIn(oxResults)
        PROVE  /\ ToSet(oxResults[r].tensors) \subseteq AliveIn(oxTensors') \ ToSet(q)
               /\ oxResults[r].tensors # <<>> /\ IsInjective(oxResults[r].tensors)
               /\ \A o \in AliveIn(oxResults) \ {r} :
                    ToSet(oxResults[r].tensors) \cap ToSet(oxResults[o].tensors) = {}
    <3>1. /\ ToSet(oxResults[r].tensors) \subseteq AliveIn(oxTensors) \ ToSet(tens)
          /\ oxResults[r].tensors # <<>> /\ IsInjective(oxResults[r].tensors)
          /\ \A o \in AliveIn(oxResults) \ {r} :
               ToSet(oxResults[r].tensors) \cap ToSet(oxResults[o].tensors) = {}
      BY <1>3 DEF OxInv, OxOwnedOK
    <3> QED
      BY <1>13, <2>2, <3>1
  <2> QED
    BY <1>13, <1>19, <2>1, <2>2, <2>3, <2>4 DEF OxOwnedOK
<1> QED
  BY <1>20, <1>22, <1>23, <1>24 DEF OxInv

(* The result that an execution ends with owns the tensors it made. *)
LEMMA FinishInv == ASSUME OxInv, Finish PROVE OxInv'
<1>1. /\ oxCall.at = "outputs" /\ oxCall.at # "none" /\ oxCall.outputs = <<>>
      /\ UNCHANGED <<oxSessions, oxRuns, oxTensors>> /\ oxCall' = NotRunning
  BY DEF Finish, oxObjects
<1>2. PICK ins \in Seq(Nat), outs \in Seq(Nat), tens \in Seq(Nat), n \in Nat, m \in Nat, p \in Nat :
        OxFacts(ins, outs, tens, n, m, p)
  BY <1>1, OxRunFacts
<1>3. tens = oxCall.tensors /\ p = Len(tens) /\ p # 0
  <2>1. Len(oxCall.outputs) = 0
    BY <1>1
  <2>2. m = 0 /\ m + p = oxRuns[oxCall.run].outputs /\ oxRuns[oxCall.run].outputs \in Nat \ {0}
    BY <1>1, <1>2, <2>1 DEF OxFacts
  <2>3. p # 0
    BY <2>2
  <2> QED
    BY <1>2, <2>3 DEF OxFacts
<1>4. tens # <<>>
  BY <1>3
<1>5. DOMAIN oxValues' = {}
  <2>1. ToSet(oxCall.outputs) = {}
    BY <1>1, OxToSet
  <2> QED
    BY <2>1 DEF Finish, WithoutValues, OxInv, OxValuesOK
<1>6. PICK rec : rec = [tensors |-> tens, alive |-> TRUE]
  OBVIOUS
<1>7. rec \in OxResultRecords /\ rec.tensors = tens /\ rec.alive
  <2>1. TRUE \in BOOLEAN
    OBVIOUS
  <2> QED
    BY <1>6, <2>1 DEF OxResultRecords
<1>8. oxResults \in Seq(OxResultRecords) /\ oxTensors' \in Seq(OxTensorRecords) /\ oxResults' = Append(oxResults, rec)
  BY <1>1, <1>3, <1>6 DEF OxInv, OxTyped, Finish
<1>9. oxResults' \in Seq(OxResultRecords)
  BY <1>7, <1>8
<1>10. PICK l \in Nat : l = Len(oxResults)
  BY <1>8
<1>11. PICK k \in Nat : k = l + 1
  OBVIOUS
<1>12. /\ DOMAIN oxResults = 1..l /\ DOMAIN oxResults' = 1..l \cup {k} /\ oxResults'[k] = rec /\ k \notin 1..l
       /\ \A r \in 1..l : oxResults'[r] = oxResults[r]
  <2>1. /\ DOMAIN oxResults = 1..l /\ DOMAIN oxResults' = 1..(l + 1) /\ oxResults'[l + 1] = rec
        /\ \A r \in 1..l : oxResults'[r] = oxResults[r]
    BY <1>8, <1>10
  <2>2. 1..(l + 1) = 1..l \cup {k} /\ k \notin 1..l
    BY <1>11
  <2> QED
    BY <1>11, <2>1, <2>2
<1>13. AliveIn(oxResults') = AliveIn(oxResults) \cup {k} /\ k \notin AliveIn(oxResults)
       /\ \A r \in AliveIn(oxResults) : oxResults'[r] = oxResults[r]
  BY <1>7, <1>12 DEF AliveIn
<1>14. ToSet(tens) \subseteq AliveIn(oxTensors) /\ IsInjective(tens)
  BY <1>3 DEF OxInv, OxOwnedOK
<1>15. AliveIn(oxTensors') = AliveIn(oxTensors)
  BY <1>1 DEF AliveIn
<1>16. ASSUME NEW r \in AliveIn(oxResults)
       PROVE  /\ ToSet(oxResults[r].tensors) \subseteq AliveIn(oxTensors) \ ToSet(tens)
              /\ oxResults[r].tensors # <<>> /\ IsInjective(oxResults[r].tensors)
              /\ \A o \in AliveIn(oxResults) \ {r} :
                   ToSet(oxResults[r].tensors) \cap ToSet(oxResults[o].tensors) = {}
  BY <1>3 DEF OxInv, OxOwnedOK
<1>17. ASSUME NEW r \in AliveIn(oxResults')
       PROVE  /\ ToSet(oxResults'[r].tensors) \subseteq AliveIn(oxTensors')
              /\ oxResults'[r].tensors # <<>> /\ IsInjective(oxResults'[r].tensors)
              /\ \A o \in AliveIn(oxResults') \ {r} :
                   ToSet(oxResults'[r].tensors) \cap ToSet(oxResults'[o].tensors) = {}
  <2>1. CASE r = k
    <3>1. oxResults'[r].tensors = tens
      BY <1>7, <1>12, <2>1
    <3>2. \A o \in AliveIn(oxResults') \ {r} :
            ToSet(oxResults'[r].tensors) \cap ToSet(oxResults'[o].tensors) = {}
      BY <1>13, <1>16, <2>1, <3>1
    <3> QED
      BY <1>4, <1>14, <1>15, <3>1, <3>2
  <2>2. CASE r # k
    <3>1. r \in AliveIn(oxResults) /\ oxResults'[r] = oxResults[r]
      BY <1>13, <2>2
    <3>2. oxResults'[k].tensors = tens
      BY <1>7, <1>12
    <3>3. \A o \in AliveIn(oxResults') \ {r} :
            ToSet(oxResults'[r].tensors) \cap ToSet(oxResults'[o].tensors) = {}
      BY <1>13, <1>16, <3>1, <3>2
    <3> QED
      BY <1>15, <1>16, <3>1, <3>3
  <2> QED
    BY <2>1, <2>2
<1> QED
  BY <1>1, <1>5, <1>8, <1>9, <1>17, OxEnds

-----------------------------------------------------------------------------
LEMMA OxInitInv == ASSUME OxInit PROVE OxInv
<1>1. OxTyped
  BY OxFreeCall DEF OxInit, OxTyped
<1>2. OxRunning
  <2>1. Len(oxCall.inputs) = 0 /\ Len(oxCall.outputs) = 0 /\ Len(oxCall.tensors) = 0
    BY OxFreeCall DEF OxInit
  <2> QED
    BY <2>1, OxFreeCall DEF OxInit, OxRunning
<1>3. OxSessionsOK
  BY DEF OxInit, OxSessionsOK
<1>4. ToSet(oxCall.inputs) = {} /\ ToSet(oxCall.outputs) = {} /\ ToSet(oxCall.tensors) = {} /\ IsInjective(oxCall.tensors)
  BY OxFreeCall, OxToSet DEF OxInit
<1>5. OxValuesOK
  BY <1>4 DEF OxInit, OxValuesOK
<1>6. OxOwnedOK
  BY <1>4 DEF OxInit, OxOwnedOK, AliveIn
<1> QED
  BY <1>1, <1>2, <1>3, <1>5, <1>6 DEF OxInv

LEMMA OxNextInv == ASSUME OxInv, [OxNext]_oxVars PROVE OxInv'
<1>1. CASE UNCHANGED oxVars
  BY <1>1 DEF oxVars, OxInv, OxTyped, OxSessionsOK, OxRunning, OxValuesOK, OxOwnedOK, AliveIn
<1>2. ASSUME NEW b \in BOOLEAN, InitOrt(b) PROVE OxInv'
  <2>1. UNCHANGED <<oxSessions, oxTensors, oxRuns, oxResults, oxValues, oxCall>> /\ Free
    BY <1>2 DEF InitOrt
  <2> QED
    BY <2>1, OxIdleStep DEF OxInv, OxTyped, OxSessionsOK
<1>3. ASSUME NEW b \in BOOLEAN, ToOrt(b) \/ OrtRun(b) PROVE OxInv'
  BY <1>3, ToOrtInv, OrtRunInv
<1>4. ASSUME NEW type \in OxTypes, NEW b \in BOOLEAN, FromOrt(type, b) PROVE OxInv'
  <2>1. CASE b = TRUE
    BY <1>4, <2>1, FromOrtInv
  <2>2. CASE b = FALSE
    BY <1>4, <2>2, FromOrtFailInv
  <2> QED
    BY <2>1, <2>2
<1>5. ASSUME NEW r, NEW t, AddInput(r, t) PROVE OxInv'
  BY <1>5, RunsInv
<1>6. ASSUME NEW r, RunCreate(r) \/ RunFree(r) \/ AddOutput(r) PROVE OxInv'
  BY <1>6, RunsInv
<1> QED
  BY <1>1, <1>2, <1>3, <1>4, <1>5, <1>6, SessionCreateInv, SessionFreeInv, TensorCreateInv, TensorFreeInv,
     ExecuteInv, FinishInv, FreeResultInv DEF OxNext

LEMMA OxInvExact == ASSUME OxInv PROVE OnnxObjectsExact
<1>1. Cardinality(DOMAIN oxValues) = Len(oxCall.inputs) + Len(oxCall.outputs)
  <2>1. PICK n \in Nat, m \in Nat, p \in Nat :
          n = Len(oxCall.inputs) /\ m = Len(oxCall.outputs) /\ p = Len(oxCall.tensors)
    BY OxNumbers
  <2>2. PICK A, B : A = 1..n /\ B = (n + p + 1)..(n + p + m)
    OBVIOUS
  <2>3. DOMAIN oxValues = A \cup B
    BY <2>1, <2>2, OxNumbers DEF OxInv, OxValuesOK
  <2>4. IsFiniteSet(A) /\ Cardinality(A) = n
    BY <2>2, FS_Interval
  <2>5. IsFiniteSet(B) /\ Cardinality(B) = m
    <3>1. n + p + 1 \in Int /\ n + p + m \in Int
      OBVIOUS
    <3>2. IsFiniteSet(B) /\ Cardinality(B) = IF n + p + 1 > n + p + m THEN 0 ELSE ((n + p + m) - (n + p + 1)) + 1
      BY <2>2, <3>1, FS_Interval
    <3> QED
      BY <3>2
  <2>6. A \cap B = {}
    BY <2>2
  <2>7. Cardinality(A \cup B) = n + m
    <3>1. Cardinality(A \cup B) = Cardinality(A) + Cardinality(B) - Cardinality(A \cap B)
      BY <2>4, <2>5, FS_Union
    <3>2. Cardinality(A \cap B) = 0
      BY <2>6, FS_EmptySet
    <3> QED
      BY <2>4, <2>5, <3>1, <3>2
  <2> QED
    BY <2>1, <2>3, <2>7
<1>2. \A v \in DOMAIN oxValues : oxValues[v] # 0 => oxTensors[oxValues[v]].alive
  BY DEF OxInv, OxValuesOK, AliveIn
<1> QED
  BY <1>1, <1>2 DEF OxInv, OxSessionsOK, OxValuesOK, OxOwnedOK, OnnxObjectsExact

(* Whichever call of the runtime fails: a session that was refused has left   *)
(* nothing open, the values in the runtime are those the execution holds,     *)
(* numbers are lent to the runtime only while their tensor is alive, and a    *)
(* tensor of a result has one owner.                                         *)
THEOREM OnnxAlwaysExact == OxSpec => []OnnxObjectsExact
<1>1. OxInit => OxInv
  BY OxInitInv
<1>2. OxInv /\ [OxNext]_oxVars => OxInv'
  BY OxNextInv
<1>3. OxInv => OnnxObjectsExact
  BY OxInvExact
<1> QED
  BY <1>1, <1>2, <1>3, PTL DEF OxSpec

-----------------------------------------------------------------------------
(* Lua and Prolog *)

LgLoading == {"found", "symbols", "failed"}
LgQuerying == {"pipe", "started", "reading", "ended"}
LgThreadRecords ==
  [at : {"idle", "new"} \cup LgLoading \cup LgQuerying, library : LgLibraries \cup {NoLibrary},
   then : {"return", "new"}]

(* The library that is mapped, or none; the first k entry points are of it.    *)
LgMappedIs(library) == \A l \in LgLibraries : lgMapped[l] = IF l = library THEN 1 ELSE 0
LgPointTo(library, k) ==
  \A i \in 1..LgSymbols : lgPointers[i] = IF i <= k THEN library ELSE NoLibrary

(* Where a load under way is. *)
LgLoadAt(thread) ==
  /\ thread.at \in LgLoading /\ thread.library \in LgLibraries
  /\ thread.at = "found" => LgMappedIs(NoLibrary) /\ LgPointTo(NoLibrary, LgSymbols)
  /\ thread.at # "found" => LgMappedIs(thread.library)
  /\ thread.at = "symbols" => \E k \in 0..LgSymbols : LgPointTo(thread.library, k)

LgLoadOK ==
  \/ /\ lgLock = {} /\ \A t \in LgThreads : lgThreads[t].at \notin LgLoading
     /\ LgMappedIs(lgLua) /\ LgPointTo(lgLua, LgSymbols)
  \/ \E th \in LgThreads :
       /\ lgLock = {th} /\ lgLua = NoLibrary /\ LgLoadAt(lgThreads[th])
       /\ \A t \in LgThreads \ {th} : lgThreads[t].at \notin LgLoading

LgLoadInv ==
  /\ lgThreads \in [LgThreads -> LgThreadRecords] /\ lgLua \in LgLibraries \cup {NoLibrary}
  /\ DOMAIN lgMapped = LgLibraries /\ DOMAIN lgPointers = 1..LgSymbols
  /\ \A th \in LgThreads : lgThreads[th].at = "new" => lgLua # NoLibrary
  /\ LgLoadOK

LEMMA LgGo ==
  ASSUME lgThreads \in [LgThreads -> LgThreadRecords], NEW th \in LgThreads,
         NEW place \in {"idle", "new"} \cup LgLoading \cup LgQuerying, Go(th, place)
  PROVE  /\ lgThreads' \in [LgThreads -> LgThreadRecords]
         /\ lgThreads'[th].at = place /\ lgThreads'[th].library = lgThreads[th].library
         /\ \A t \in LgThreads : t # th => lgThreads'[t] = lgThreads[t]
<1>1. PICK rec : rec = [lgThreads[th] EXCEPT !.at = place]
  OBVIOUS
<1>2. rec \in LgThreadRecords /\ rec.at = place /\ rec.library = lgThreads[th].library
  BY <1>1 DEF LgThreadRecords
<1>3. lgThreads' = [lgThreads EXCEPT ![th] = rec]
  BY <1>1 DEF Go
<1> QED
  BY <1>2, <1>3

LEMMA LgLeave ==
  ASSUME lgThreads \in [LgThreads -> LgThreadRecords], NEW th \in LgThreads, NEW place \in {"idle", "new"},
         Leave(th, place)
  PROVE  /\ lgThreads' \in [LgThreads -> LgThreadRecords] /\ lgThreads'[th].at = place
         /\ \A t \in LgThreads : t # th => lgThreads'[t] = lgThreads[t]
<1>1. PICK rec : rec = [NoLoad EXCEPT !.at = place]
  OBVIOUS
<1>2. rec \in LgThreadRecords /\ rec.at = place
  BY <1>1 DEF LgThreadRecords, NoLoad
<1>3. lgThreads' = [lgThreads EXCEPT ![th] = rec]
  BY <1>1 DEF Leave
<1> QED
  BY <1>2, <1>3

(* A thread goes from one place to another, none of them of a load.            *)
LEMMA LgElsewhere ==
  ASSUME LgLoadInv, NEW th \in LgThreads, lgThreads[th].at \notin LgLoading,
         NEW place \in {"idle", "new"} \cup LgQuerying, place = "new" => lgLua # NoLibrary,
         Go(th, place), UNCHANGED <<lgLua, lgPointers, lgMapped, lgLock>>
  PROVE  LgLoadInv'
<1>1. /\ lgThreads' \in [LgThreads -> LgThreadRecords] /\ lgThreads'[th].at = place
      /\ \A t \in LgThreads : t # th => lgThreads'[t] = lgThreads[t]
  BY LgGo DEF LgLoadInv
<1>2. place \notin LgLoading
  BY DEF LgLoading, LgQuerying
<1>3. CASE /\ lgLock = {} /\ \A t \in LgThreads : lgThreads[t].at \notin LgLoading
           /\ LgMappedIs(lgLua) /\ LgPointTo(lgLua, LgSymbols)
  BY <1>1, <1>2, <1>3 DEF LgLoadInv, LgLoadOK, LgMappedIs, LgPointTo
<1>4. ASSUME NEW o \in LgThreads, lgLock = {o}, lgLua = NoLibrary, LgLoadAt(lgThreads[o]),
             \A t \in LgThreads \ {o} : lgThreads[t].at \notin LgLoading
      PROVE  LgLoadInv'
  <2>1. o # th
    BY <1>4 DEF LgLoadAt
  <2>2. LgLoadAt(lgThreads[o])'
    BY <1>1, <1>4, <2>1 DEF LgLoadAt, LgMappedIs, LgPointTo
  <2>3. \A t \in LgThreads \ {o} : lgThreads'[t].at \notin LgLoading
    BY <1>1, <1>2, <1>4
  <2>4. LgLoadOK'
    BY <1>4, <2>2, <2>3 DEF LgLoadOK
  <2> QED
    BY <1>1, <2>4 DEF LgLoadInv
<1> QED
  BY <1>3, <1>4 DEF LgLoadInv, LgLoadOK

(* The load of a thread ends: nothing is loaded, or all of it.                 *)
LEMMA LgLoadEnds ==
  ASSUME LgLoadInv, NEW th \in LgThreads, lgThreads[th].at \in LgLoading,
         NEW place \in {"idle", "new"}, place = "new" => lgLua' # NoLibrary, Leave(th, place),
         lgLua' \in LgLibraries \cup {NoLibrary}, DOMAIN lgMapped' = LgLibraries, DOMAIN lgPointers' = 1..LgSymbols,
         LgMappedIs(lgLua)', LgPointTo(lgLua, LgSymbols)'
  PROVE  LgLoadInv'
<1>1. /\ lgThreads' \in [LgThreads -> LgThreadRecords] /\ lgThreads'[th].at = place
      /\ \A t \in LgThreads : t # th => lgThreads'[t] = lgThreads[t]
  BY LgLeave DEF LgLoadInv
<1>2. \A t \in LgThreads \ {th} : lgThreads[t].at \notin LgLoading
  BY DEF LgLoadInv, LgLoadOK
<1>3. lgLua = NoLibrary
  BY DEF LgLoadInv, LgLoadOK
<1>4. \A t \in LgThreads : lgThreads'[t].at \notin LgLoading
  BY <1>1, <1>2 DEF LgLoading
<1>5. \A t \in LgThreads : lgThreads'[t].at = "new" => lgLua' # NoLibrary
  BY <1>1, <1>3 DEF LgLoadInv
<1>6. LgLoadOK'
  BY <1>4 DEF LgLoadOK, Leave
<1> QED
  BY <1>1, <1>5, <1>6 DEF LgLoadInv

(* The load of a thread goes on. *)
LEMMA LgLoadGoesOn ==
  ASSUME LgLoadInv, NEW th \in LgThreads, lgThreads[th].at \in LgLoading,
         lgThreads' \in [LgThreads -> LgThreadRecords],
         \A t \in LgThreads : t # th => lgThreads'[t] = lgThreads[t],
         UNCHANGED <<lgLock, lgLua>>, DOMAIN lgMapped' = LgLibraries, DOMAIN lgPointers' = 1..LgSymbols,
         LgLoadAt(lgThreads[th])'
  PROVE  LgLoadInv'
<1>1. lgLock = {th} /\ lgLua = NoLibrary /\ \A t \in LgThreads \ {th} : lgThreads[t].at \notin LgLoading
  BY DEF LgLoadInv, LgLoadOK
<1>2. LgLoadOK'
  BY <1>1 DEF LgLoadOK
<1>3. lgThreads'[th].at # "new"
  BY DEF LgLoadAt, LgLoading
<1> QED
  BY <1>1, <1>2, <1>3 DEF LgLoadInv

LEMMA LuaLoadInv ==
  ASSUME LgLoadInv, NEW th \in LgThreads, NEW library \in LgLibraries, NEW then \in {"return", "new"},
         LuaLoad(th, library, then)
  PROVE  LgLoadInv'
<1>1. /\ lgThreads[th].at = "idle" /\ lgLock = {} /\ UNCHANGED <<lgLua, lgPointers, lgMapped>>
      /\ lgThreads \in [LgThreads -> LgThreadRecords]
  BY DEF LuaLoad, At, LgLoadInv
<1>2. CASE lgLua # NoLibrary
  <2>1. PICK place \in {"idle", "new"} : place = IF then = "new" THEN "new" ELSE "idle"
    OBVIOUS
  <2>2. Go(th, place) /\ UNCHANGED lgLock
    BY <1>2, <2>1 DEF LuaLoad, Go
  <2>3. "idle" \notin LgLoading
    BY DEF LgLoading
  <2> QED
    BY <1>1, <1>2, <2>2, <2>3, LgElsewhere
<1>3. CASE lgLua = NoLibrary
  <2>1. PICK rec : rec = [at |-> "found", library |-> library, then |-> then]
    OBVIOUS
  <2>2. rec \in LgThreadRecords /\ rec.at = "found" /\ rec.library = library
    BY <2>1 DEF LgThreadRecords, LgLoading
  <2>3. lgThreads' = [lgThreads EXCEPT ![th] = rec] /\ lgLock' = {th}
    BY <1>3, <2>1 DEF LuaLoad
  <2>4. /\ lgThreads' \in [LgThreads -> LgThreadRecords] /\ lgThreads'[th] = rec
        /\ \A t \in LgThreads : t # th => lgThreads'[t] = lgThreads[t]
    BY <1>1, <2>2, <2>3
  <2>5. /\ \A t \in LgThreads : lgThreads[t].at \notin LgLoading
        /\ LgMappedIs(NoLibrary) /\ LgPointTo(NoLibrary, LgSymbols)
    BY <1>1, <1>3 DEF LgLoadInv, LgLoadOK
  <2>6. LgMappedIs(NoLibrary)' /\ LgPointTo(NoLibrary, LgSymbols)'
    BY <1>1, <2>5 DEF LgMappedIs, LgPointTo
  <2>7. LgLoadAt(lgThreads[th])'
    BY <2>2, <2>4, <2>6 DEF LgLoadAt, LgLoading
  <2>8. LgLoadOK'
    BY <1>1, <1>3, <2>3, <2>4, <2>5, <2>7 DEF LgLoadOK
  <2> QED
    BY <1>1, <2>2, <2>4, <2>8 DEF LgLoadInv
<1> QED
  BY <1>2, <1>3

(* What the load of a thread finds. *)
LEMMA LgAtLoad ==
  ASSUME LgLoadInv, NEW th \in LgThreads, lgThreads[th].at \in LgLoading
  PROVE  LgLoadAt(lgThreads[th]) /\ lgLua = NoLibrary
BY DEF LgLoadInv, LgLoadOK

LEMMA LoadLibraryInv ==
  ASSUME LgLoadInv, NEW th \in LgThreads, NEW ok \in BOOLEAN, LoadLibrary(th, ok) PROVE LgLoadInv'
<1>1. /\ lgThreads[th].at = "found" /\ lgThreads[th].at \in LgLoading /\ UNCHANGED <<lgLua, lgPointers>>
      /\ lgThreads \in [LgThreads -> LgThreadRecords]
  BY DEF LoadLibrary, At, LgLoadInv, LgLoading
<1>2. PICK library \in LgLibraries : library = lgThreads[th].library
  BY <1>1, LgAtLoad DEF LgLoadAt
<1>3. LgMappedIs(NoLibrary) /\ LgPointTo(NoLibrary, LgSymbols) /\ lgLua = NoLibrary /\ DOMAIN lgMapped = LgLibraries
  BY <1>1, LgAtLoad DEF LgLoadAt, LgLoadInv
<1>4. CASE ok
  <2>1. lgMapped' = [lgMapped EXCEPT ![library] = @ + 1] /\ Go(th, "symbols") /\ UNCHANGED lgLock
    BY <1>2, <1>4 DEF LoadLibrary
  <2>2. "symbols" \in {"idle", "new"} \cup LgLoading \cup LgQuerying
    BY DEF LgLoading
  <2>3. /\ lgThreads' \in [LgThreads -> LgThreadRecords]
        /\ lgThreads'[th].at = "symbols" /\ lgThreads'[th].library = library
        /\ \A t \in LgThreads : t # th => lgThreads'[t] = lgThreads[t]
    BY <1>1, <1>2, <2>1, <2>2, LgGo
  <2>4. \A l \in LgLibraries : lgMapped[l] = 0
    BY <1>3, LgAssumption DEF LgMappedIs, NoLibrary
  <2>5. \A l \in LgLibraries : lgMapped'[l] = IF l = library THEN 1 ELSE 0
    BY <1>3, <2>1, <2>4
  <2>6. \A i \in 1..LgSymbols : lgPointers[i] = NoLibrary
    BY <1>3 DEF LgPointTo
  <2>7. \E k \in 0..LgSymbols : \A i \in 1..LgSymbols : lgPointers'[i] = IF i <= k THEN library ELSE NoLibrary
    <3>1. 0 \in 0..LgSymbols /\ \A i \in 1..LgSymbols : ~(i <= 0)
      BY LgAssumption
    <3> QED
      BY <1>1, <2>6, <3>1
  <2>8. LgLoadAt(lgThreads[th])'
    BY <2>3, <2>5, <2>7 DEF LgLoadAt, LgMappedIs, LgPointTo, LgLoading
  <2>9. DOMAIN lgMapped' = LgLibraries /\ DOMAIN lgPointers' = 1..LgSymbols
    BY <1>1, <1>3, <2>1 DEF LgLoadInv
  <2> QED
    BY <1>1, <2>1, <2>3, <2>8, <2>9, LgLoadGoesOn
<1>5. CASE ~ok
  <2>1. Leave(th, "idle") /\ UNCHANGED lgMapped
    BY <1>5 DEF LoadLibrary
  <2>2. LgMappedIs(lgLua)' /\ LgPointTo(lgLua, LgSymbols)'
    BY <1>1, <1>3, <2>1 DEF LgMappedIs, LgPointTo
  <2>3. DOMAIN lgMapped' = LgLibraries /\ DOMAIN lgPointers' = 1..LgSymbols /\ lgLua' \in LgLibraries \cup {NoLibrary}
    BY <1>1, <1>3, <2>1 DEF LgLoadInv
  <2> QED
    BY <1>1, <2>1, <2>2, <2>3, LgLoadEnds
<1> QED
  BY <1>4, <1>5

(* The entry points that were found are counted. *)
LEMMA LgResolved ==
  ASSUME NEW library \in LgLibraries, NEW k \in 0..LgSymbols, LgPointTo(library, k)
  PROVE  Resolved(library) = k
<1>1. library # NoLibrary
  BY LgAssumption DEF NoLibrary
<1>2. {i \in 1..LgSymbols : lgPointers[i] = library} = 1..k
  BY <1>1, LgAssumption DEF LgPointTo
<1>3. 1 \in Int /\ k \in Int /\ k \in Nat
  BY LgAssumption
<1>4. Cardinality(1..k) = IF 1 > k THEN 0 ELSE (k - 1) + 1
  BY <1>3, FS_Interval
<1>5. Cardinality(1..k) = k
  BY <1>3, <1>4
<1> QED
  BY <1>2, <1>5 DEF Resolved

LEMMA ResolveSymbolInv == ASSUME LgLoadInv, NEW th \in LgThreads, ResolveSymbol(th) PROVE LgLoadInv'
<1>1. /\ lgThreads[th].at = "symbols" /\ lgThreads[th].at \in LgLoading /\ UNCHANGED <<lgLua, lgMapped, lgLock>>
      /\ lgThreads \in [LgThreads -> LgThreadRecords]
  BY DEF ResolveSymbol, At, LgLoadInv, LgLoading
<1>2. PICK library \in LgLibraries : library = lgThreads[th].library
  BY <1>1, LgAtLoad DEF LgLoadAt
<1>3. PICK k \in 0..LgSymbols : LgPointTo(library, k)
  BY <1>1, <1>2, LgAtLoad DEF LgLoadAt
<1>4. PICK next \in Nat : next = k + 1
  BY LgAssumption
<1>5. Resolved(library) + 1 = next /\ next \in 1..LgSymbols
  <2>1. Resolved(library) = k
    BY <1>3, LgResolved
  <2> QED
    BY <1>2, <1>4, <2>1, LgAssumption DEF ResolveSymbol
<1>6. LgMappedIs(library)'
  BY <1>1, <1>2, LgAtLoad DEF LgLoadAt, LgMappedIs
<1>7. CASE next <= LgHas[library]
  <2>1. lgPointers' = [lgPointers EXCEPT ![next] = library] /\ UNCHANGED lgThreads
    BY <1>2, <1>5, <1>7 DEF ResolveSymbol
  <2>2. DOMAIN lgPointers = 1..LgSymbols
    BY DEF LgLoadInv
  <2>3. \A i \in 1..LgSymbols : lgPointers'[i] = IF i <= next THEN library ELSE NoLibrary
    BY <1>3, <1>4, <1>5, <2>1, <2>2, LgAssumption DEF LgPointTo
  <2>4. next \in 0..LgSymbols
    BY <1>5
  <2>5. LgLoadAt(lgThreads[th])'
    BY <1>1, <1>2, <1>6, <2>1, <2>3, <2>4 DEF LgLoadAt, LgPointTo
  <2>6. DOMAIN lgMapped' = LgLibraries /\ DOMAIN lgPointers' = 1..LgSymbols
    BY <1>1, <2>1, <2>2 DEF LgLoadInv
  <2> QED
    BY <1>1, <2>1, <2>5, <2>6, LgLoadGoesOn
<1>8. CASE ~(next <= LgHas[library])
  <2>1. Go(th, "failed") /\ UNCHANGED lgPointers
    BY <1>2, <1>5, <1>8 DEF ResolveSymbol
  <2>2. "failed" \in {"idle", "new"} \cup LgLoading \cup LgQuerying
    BY DEF LgLoading
  <2>3. /\ lgThreads' \in [LgThreads -> LgThreadRecords]
        /\ lgThreads'[th].at = "failed" /\ lgThreads'[th].library = library
        /\ \A t \in LgThreads : t # th => lgThreads'[t] = lgThreads[t]
    BY <1>1, <1>2, <2>1, <2>2, LgGo
  <2>4. LgLoadAt(lgThreads[th])'
    BY <1>6, <2>3 DEF LgLoadAt, LgLoading
  <2>5. DOMAIN lgMapped' = LgLibraries /\ DOMAIN lgPointers' = 1..LgSymbols
    BY <1>1, <2>1 DEF LgLoadInv
  <2> QED
    BY <1>1, <2>3, <2>4, <2>5, LgLoadGoesOn
<1> QED
  BY <1>7, <1>8

LEMMA PublishInv == ASSUME LgLoadInv, NEW th \in LgThreads, Publish(th) PROVE LgLoadInv'
<1>1. /\ lgThreads[th].at = "symbols" /\ lgThreads[th].at \in LgLoading /\ UNCHANGED <<lgPointers, lgMapped>>
  BY DEF Publish, At, LgLoading
<1>2. PICK library \in LgLibraries : library = lgThreads[th].library
  BY <1>1, LgAtLoad DEF LgLoadAt
<1>3. PICK k \in 0..LgSymbols : LgPointTo(library, k)
  BY <1>1, <1>2, LgAtLoad DEF LgLoadAt
<1>4. Resolved(library) = LgSymbols /\ Resolved(library) = k
  BY <1>2, <1>3, LgResolved DEF Publish
<1>5. lgLua' = library /\ library # NoLibrary
  BY <1>2, LgAssumption DEF Publish, NoLibrary
<1>6. LgMappedIs(lgLua)'
  BY <1>1, <1>2, <1>5, LgAtLoad DEF LgLoadAt, LgMappedIs
<1>7. LgPointTo(lgLua, LgSymbols)'
  BY <1>1, <1>3, <1>4, <1>5 DEF LgPointTo
<1>8. PICK place \in {"idle", "new"} : place = IF lgThreads[th].then = "new" THEN "new" ELSE "idle"
  OBVIOUS
<1>9. Leave(th, place)
  BY <1>8 DEF Publish
<1>10. DOMAIN lgMapped' = LgLibraries /\ DOMAIN lgPointers' = 1..LgSymbols
  BY <1>1 DEF LgLoadInv
<1> QED
  BY <1>1, <1>5, <1>6, <1>7, <1>9, <1>10, LgLoadEnds

LEMMA LoadFailedInv == ASSUME LgLoadInv, NEW th \in LgThreads, LoadFailed(th) PROVE LgLoadInv'
<1>1. /\ lgThreads[th].at = "failed" /\ lgThreads[th].at # "found" /\ lgThreads[th].at \in LgLoading /\ UNCHANGED lgLua
      /\ Leave(th, "idle")
  BY DEF LoadFailed, At, LgLoading
<1>2. PICK library \in LgLibraries : library = lgThreads[th].library
  BY <1>1, LgAtLoad DEF LgLoadAt
<1>3. LgMappedIs(library) /\ lgLua = NoLibrary /\ DOMAIN lgMapped = LgLibraries
  BY <1>1, <1>2, LgAtLoad DEF LgLoadAt, LgLoadInv
<1>4. lgMapped' = [lgMapped EXCEPT ![library] = @ - 1] /\ lgPointers' = [i \in 1..LgSymbols |-> NoLibrary]
  BY <1>2 DEF LoadFailed
<1>5. \A l \in LgLibraries : lgMapped'[l] = 0
  BY <1>3, <1>4 DEF LgMappedIs
<1>6. LgMappedIs(lgLua)'
  BY <1>1, <1>3, <1>5, LgAssumption DEF LgMappedIs, NoLibrary
<1>7. LgPointTo(lgLua, LgSymbols)'
  BY <1>1, <1>3, <1>4 DEF LgPointTo
<1>8. DOMAIN lgMapped' = LgLibraries /\ DOMAIN lgPointers' = 1..LgSymbols /\ lgLua' \in LgLibraries \cup {NoLibrary}
  BY <1>1, <1>3, <1>4
<1> QED
  BY <1>1, <1>6, <1>7, <1>8, LgLoadEnds

-----------------------------------------------------------------------------
LgStateRecords == [height : Int, globals : [LgNames -> Int], alive : BOOLEAN]
LgAskedRecords == [results : Int, numbers : [LgNames -> Int]]

LgStacksInv ==
  /\ lgStates \in Seq(LgStateRecords) /\ lgAsked \in Seq(LgAskedRecords) /\ Len(lgStates) = Len(lgAsked)
  /\ \A s \in DOMAIN lgStates :
       lgStates[s].height = lgAsked[s].results /\ lgStates[s].globals = lgAsked[s].numbers

LEMMA LgStackStep ==
  ASSUME LgStacksInv, NEW th, NEW s, NEW state \in LgStateRecords, NEW asked \in LgAskedRecords,
         OnState(th, s, state, asked), state.height = asked.results, state.globals = asked.numbers
  PROVE  LgStacksInv'
<1>1. /\ lgStates \in Seq(LgStateRecords) /\ lgAsked \in Seq(LgAskedRecords)
      /\ Len(lgStates) = Len(lgAsked)
  BY DEF LgStacksInv
<1>2. s \in DOMAIN lgStates /\ lgStates' = [lgStates EXCEPT ![s] = state] /\ lgAsked' = [lgAsked EXCEPT ![s] = asked]
  BY DEF OnState, OpenStates
<1>3. s \in DOMAIN lgAsked /\ DOMAIN lgAsked = DOMAIN lgStates
  BY <1>1, <1>2
<1>4. /\ lgStates' \in Seq(LgStateRecords) /\ Len(lgStates') = Len(lgStates) /\ DOMAIN lgStates' = DOMAIN lgStates
      /\ lgStates'[s] = state /\ \A t \in DOMAIN lgStates : t # s => lgStates'[t] = lgStates[t]
  BY <1>1, <1>2
<1>5. /\ lgAsked' \in Seq(LgAskedRecords) /\ Len(lgAsked') = Len(lgAsked)
      /\ lgAsked'[s] = asked /\ \A t \in DOMAIN lgStates : t # s => lgAsked'[t] = lgAsked[t]
  BY <1>1, <1>2, <1>3
<1> QED
  BY <1>1, <1>4, <1>5 DEF LgStacksInv

LEMMA LgPushPop ==
  ASSUME NEW state \in LgStateRecords, NEW n \in Int
  PROVE  /\ Pushed(state, n) \in LgStateRecords /\ Pushed(state, n).height = state.height + n
         /\ Pushed(state, n).globals = state.globals
         /\ Popped(state) \in LgStateRecords /\ Popped(state).height = state.height - 1
         /\ Popped(state).globals = state.globals
<1>1. PICK more \in Int, less \in Int : more = state.height + n /\ less = state.height - 1
  BY DEF LgStateRecords
<1>2. [state EXCEPT !.height = more] \in LgStateRecords /\ [state EXCEPT !.height = less] \in LgStateRecords
  BY DEF LgStateRecords
<1>3. Pushed(state, n) = [state EXCEPT !.height = more] /\ Popped(state) = [state EXCEPT !.height = less]
  BY <1>1 DEF Pushed, Popped
<1> QED
  BY <1>1, <1>2, <1>3 DEF LgStateRecords

LEMMA LgStateTyped ==
  ASSUME LgStacksInv, NEW s \in DOMAIN lgStates
  PROVE  /\ lgStates[s] \in LgStateRecords /\ lgAsked[s] \in LgAskedRecords
         /\ lgStates[s].height = lgAsked[s].results /\ lgStates[s].globals = lgAsked[s].numbers
<1>1. s \in DOMAIN lgAsked
  BY DEF LgStacksInv
<1> QED
  BY <1>1 DEF LgStacksInv

LEMMA LuaNewStack == ASSUME LgStacksInv, NEW th, NEW ok \in BOOLEAN, LuaNew(th, ok) PROVE LgStacksInv'
<1>1. CASE ~ok
  BY <1>1 DEF LuaNew, LgStacksInv
<1>2. CASE ok
  <2>1. PICK state, asked : /\ state = [height |-> 0, globals |-> UnsetNumbers, alive |-> TRUE]
                            /\ asked = [results |-> 0, numbers |-> UnsetNumbers]
    OBVIOUS
  <2>2. UnsetNumbers \in [LgNames -> Int] /\ TRUE \in BOOLEAN /\ 0 \in Int
    BY DEF UnsetNumbers
  <2>3. /\ state \in LgStateRecords /\ asked \in LgAskedRecords
        /\ state.height = asked.results /\ state.globals = asked.numbers
    BY <2>1, <2>2 DEF LgStateRecords, LgAskedRecords
  <2>4. lgStates' = Append(lgStates, state) /\ lgAsked' = Append(lgAsked, asked)
    BY <1>2, <2>1 DEF LuaNew
  <2>5. PICK l \in Nat : l = Len(lgStates) /\ l = Len(lgAsked)
    BY DEF LgStacksInv
  <2>6. /\ lgStates' \in Seq(LgStateRecords) /\ Len(lgStates') = l + 1 /\ lgStates'[l + 1] = state
        /\ \A s \in 1..l : lgStates'[s] = lgStates[s]
    <3>1. lgStates \in Seq(LgStateRecords) /\ l = Len(lgStates)
      BY <2>5 DEF LgStacksInv
    <3> QED
      BY <2>3, <2>4, <3>1
  <2>7. /\ lgAsked' \in Seq(LgAskedRecords) /\ Len(lgAsked') = l + 1 /\ lgAsked'[l + 1] = asked
        /\ \A s \in 1..l : lgAsked'[s] = lgAsked[s]
    <3>1. lgAsked \in Seq(LgAskedRecords) /\ l = Len(lgAsked)
      BY <2>5 DEF LgStacksInv
    <3> QED
      BY <2>3, <2>4, <3>1
  <2>8. \A s \in 1..l : lgStates[s].height = lgAsked[s].results /\ lgStates[s].globals = lgAsked[s].numbers
    BY <2>5 DEF LgStacksInv
  <2>9. ASSUME NEW s \in 1..(l + 1)
        PROVE  lgStates'[s].height = lgAsked'[s].results /\ lgStates'[s].globals = lgAsked'[s].numbers
    <3>1. CASE s = l + 1
      BY <2>3, <2>6, <2>7, <3>1
    <3>2. CASE s # l + 1
      <4>1. s \in 1..l
        BY <3>2
      <4> QED
        BY <2>6, <2>7, <2>8, <4>1
    <3> QED
      BY <3>1, <3>2
  <2>10. DOMAIN lgStates' = 1..(l + 1)
    BY <2>6
  <2> QED
    BY <2>6, <2>7, <2>9, <2>10 DEF LgStacksInv
<1> QED
  BY <1>1, <1>2

LEMMA LuaCloseStack == ASSUME LgStacksInv, NEW th, NEW s, LuaClose(th, s) PROVE LgStacksInv'
<1>1. s \in DOMAIN lgStates
  BY DEF LuaClose, OnState, OpenStates
<1>2. PICK state : state = [lgStates[s] EXCEPT !.alive = FALSE]
  OBVIOUS
<1>3. state \in LgStateRecords /\ state.height = lgStates[s].height /\ state.globals = lgStates[s].globals
  <2>1. FALSE \in BOOLEAN
    OBVIOUS
  <2> QED
    BY <1>1, <1>2, <2>1, LgStateTyped DEF LgStateRecords
<1>4. OnState(th, s, state, lgAsked[s])
  BY <1>2 DEF LuaClose
<1> QED
  BY <1>1, <1>3, <1>4, LgStateTyped, LgStackStep

(* What a chunk pushes and what is taken again, whether it ends well or not.   *)
LEMMA LuaFinishStack ==
  ASSUME LgStacksInv, NEW th, NEW s, NEW loads \in BOOLEAN, NEW ends \in BOOLEAN, NEW results \in Int,
         LuaFinish(th, s, loads, ends, results)
  PROVE  LgStacksInv'
<1>1. s \in DOMAIN lgStates
  BY DEF LuaFinish, OpenStates
<1>2. PICK old \in LgStateRecords, asked \in LgAskedRecords : old = lgStates[s] /\ asked = lgAsked[s]
  BY <1>1, LgStateTyped
<1>3. PICK h \in Int : h = old.height /\ h = asked.results /\ old.globals = asked.numbers
  BY <1>1, <1>2, LgStateTyped DEF LgStateRecords
<1>4. PICK loaded \in LgStateRecords : loaded = Pushed(old, 1) /\ loaded.height = h + 1 /\ loaded.globals = old.globals
  <2>1. 1 \in Int
    OBVIOUS
  <2>2. /\ Pushed(old, 1) \in LgStateRecords /\ Pushed(old, 1).height = old.height + 1
        /\ Pushed(old, 1).globals = old.globals
    BY <2>1, LgPushPop
  <2> QED
    BY <1>3, <2>2
<1>5. PICK called \in LgStateRecords :
        /\ called = Popped(loaded) /\ called.height = h /\ called.globals = old.globals
  BY <1>3, <1>4, LgPushPop
<1>6. CASE loads /\ ends
  <2>1. PICK state \in LgStateRecords :
          /\ state = Pushed(called, results) /\ state.height = h + results /\ state.globals = old.globals
    BY <1>3, <1>5, LgPushPop
  <2>2. PICK sum \in Int : sum = h + results
    OBVIOUS
  <2>3. PICK rec : rec = [asked EXCEPT !.results = sum]
    OBVIOUS
  <2>4. rec \in LgAskedRecords /\ rec.results = sum /\ rec.numbers = asked.numbers
    BY <2>3 DEF LgAskedRecords
  <2>5. rec = [lgAsked[s] EXCEPT !.results = @ + results]
    BY <1>2, <1>3, <2>2, <2>3 DEF LgAskedRecords
  <2>6. OnState(th, s, state, rec)
    BY <1>2, <1>4, <1>5, <1>6, <2>1, <2>5 DEF LuaFinish
  <2> QED
    BY <1>3, <2>1, <2>2, <2>4, <2>6, LgStackStep
<1>7. CASE loads /\ ~ends
  <2>1. PICK failed \in LgStateRecords :
          failed = Pushed(called, 1) /\ failed.height = h + 1 /\ failed.globals = old.globals
    BY <1>3, <1>5, LgPushPop
  <2>2. PICK state \in LgStateRecords : state = Popped(failed) /\ state.height = h /\ state.globals = old.globals
    BY <1>3, <2>1, LgPushPop
  <2>3. OnState(th, s, state, asked)
    BY <1>2, <1>4, <1>5, <1>7, <2>1, <2>2 DEF LuaFinish
  <2> QED
    BY <1>3, <2>2, <2>3, LgStackStep
<1>8. CASE ~loads
  <2>1. OnState(th, s, called, asked)
    BY <1>2, <1>4, <1>5, <1>8 DEF LuaFinish
  <2> QED
    BY <1>3, <1>5, <2>1, LgStackStep
<1> QED
  BY <1>6, <1>7, <1>8

LEMMA LuaSetNumberStack ==
  ASSUME LgStacksInv, NEW th, NEW s, NEW name \in LgNames, NEW number \in LgNumbers,
         LuaSetNumber(th, s, name, number)
  PROVE  LgStacksInv'
<1>1. s \in DOMAIN lgStates /\ number \in Int
  BY LgAssumption DEF LuaSetNumber, OnState, OpenStates
<1>2. PICK old \in LgStateRecords, asked \in LgAskedRecords : old = lgStates[s] /\ asked = lgAsked[s]
  BY <1>1, LgStateTyped
<1>3. PICK h \in Int : h = old.height /\ h = asked.results /\ old.globals = asked.numbers
  BY <1>1, <1>2, LgStateTyped DEF LgStateRecords
<1>4. PICK pushed \in LgStateRecords : pushed = Pushed(old, 1) /\ pushed.height = h + 1 /\ pushed.globals = old.globals
  <2>1. 1 \in Int
    OBVIOUS
  <2>2. /\ Pushed(old, 1) \in LgStateRecords /\ Pushed(old, 1).height = old.height + 1
        /\ Pushed(old, 1).globals = old.globals
    BY <2>1, LgPushPop
  <2> QED
    BY <1>3, <2>2
<1>5. PICK values \in [LgNames -> Int] : values = [asked.numbers EXCEPT ![name] = number]
  BY <1>1 DEF LgAskedRecords
<1>6. PICK set : set = [pushed EXCEPT !.globals = values]
  OBVIOUS
<1>7. set \in LgStateRecords /\ set.height = h + 1 /\ set.globals = values
  BY <1>4, <1>6 DEF LgStateRecords
<1>8. PICK state \in LgStateRecords : state = Popped(set) /\ state.height = h /\ state.globals = values
  BY <1>3, <1>7, LgPushPop
<1>9. PICK rec : rec = [asked EXCEPT !.numbers = values]
  OBVIOUS
<1>10. rec \in LgAskedRecords /\ rec.results = h /\ rec.numbers = values
  BY <1>3, <1>9 DEF LgAskedRecords
<1>11. set = [pushed EXCEPT !.globals[name] = number] /\ rec = [asked EXCEPT !.numbers[name] = number]
  BY <1>3, <1>4, <1>5, <1>6, <1>9
<1>12. OnState(th, s, state, rec)
  BY <1>2, <1>4, <1>8, <1>11 DEF LuaSetNumber
<1> QED
  BY <1>8, <1>10, <1>12, LgStackStep

-----------------------------------------------------------------------------
LgPipeRecords ==
  [open : SUBSET {"read", "write"}, writers : SUBSET LgThreads, unread : Nat, written : Nat, read : Nat,
   child : {"none", "runs", "ended"}, closed : BOOLEAN]

(* A pipe by the place its thread is at; a child that runs can write to it.    *)
LgPipeOK(th, at, p) ==
  /\ p \in LgPipeRecords /\ p.read + p.unread = p.written
  /\ p.child = "runs" => th \in p.writers
  /\ at \in {"pipe", "started"} => p.open = {"read", "write"}
  /\ at \in {"started", "reading"} => p.child # "none"
  /\ at = "ended" => p.child = "ended" /\ p.unread = 0
  /\ at \notin LgQuerying => p.open = {} /\ (p.closed => p.read = p.written /\ p.child = "ended")

LgQueriesInv ==
  /\ DOMAIN lgPipes = LgThreads
  /\ \A th \in LgThreads : LgPipeOK(th, lgThreads[th].at, lgPipes[th])

(* A step of one thread and its pipe. *)
LEMMA LgPipeStep ==
  ASSUME LgQueriesInv, NEW th \in LgThreads, NEW pipe, MyPipe(th, pipe),
         LgPipeOK(th, lgThreads'[th].at, pipe),
         \A t \in LgThreads : t # th => lgThreads'[t] = lgThreads[t]
  PROVE  LgQueriesInv'
<1>1. DOMAIN lgPipes' = LgThreads /\ lgPipes'[th] = pipe /\ \A t \in LgThreads : t # th => lgPipes'[t] = lgPipes[t]
  BY DEF MyPipe, LgQueriesInv
<1>2. ASSUME NEW t \in LgThreads PROVE LgPipeOK(t, lgThreads'[t].at, lgPipes'[t])
  <2>1. CASE t = th
    BY <1>1, <2>1
  <2>2. CASE t # th
    BY <1>1, <2>2 DEF LgQueriesInv
  <2> QED
    BY <2>1, <2>2
<1> QED
  BY <1>1, <1>2 DEF LgQueriesInv

(* A step of a thread that asks nothing. *)
LEMMA LgNoQueryStep ==
  ASSUME LgQueriesInv, NEW th \in LgThreads, UNCHANGED lgPipes,
         lgThreads[th].at \notin LgQuerying, lgThreads'[th].at \notin LgQuerying,
         \A t \in LgThreads : t # th => lgThreads'[t] = lgThreads[t]
  PROVE  LgQueriesInv'
<1>1. ASSUME NEW t \in LgThreads PROVE LgPipeOK(t, lgThreads'[t].at, lgPipes[t])
  <2>1. CASE t = th
    <3>1. lgThreads'[t].at \notin {"pipe", "started", "reading", "ended"}
      BY <2>1 DEF LgQuerying
    <3> QED
      BY <2>1, <3>1 DEF LgQueriesInv, LgPipeOK, LgQuerying
  <2>2. CASE t # th
    BY <2>2 DEF LgQueriesInv
  <2> QED
    BY <2>1, <2>2
<1> QED
  BY <1>1 DEF LgQueriesInv

LEMMA LgNoPipe == /\ NoPipe \in LgPipeRecords /\ NoPipe.read = 0 /\ NoPipe.unread = 0 /\ NoPipe.written = 0
                  /\ NoPipe.child = "none" /\ NoPipe.closed = FALSE /\ NoPipe.open = {} /\ NoPipe.writers = {}
<1>1. {} \in SUBSET {"read", "write"} /\ {} \in SUBSET LgThreads /\ 0 \in Nat /\ FALSE \in BOOLEAN
      /\ "none" \in {"none", "runs", "ended"}
  OBVIOUS
<1> QED
  BY <1>1 DEF NoPipe, LgPipeRecords

LEMMA CreatePipeInv ==
  ASSUME LgQueriesInv, LgLoadInv, NEW th \in LgThreads, NEW ok \in BOOLEAN, CreatePipe(th, ok)
  PROVE  LgQueriesInv'
<1>1. CASE ~ok
  BY <1>1 DEF CreatePipe, LgQueriesInv
<1>2. CASE ok
  <2>1. PICK pipe : pipe = [NoPipe EXCEPT !.open = {"read", "write"}]
    OBVIOUS
  <2>2. MyPipe(th, pipe) /\ Go(th, "pipe")
    BY <1>2, <2>1 DEF CreatePipe
  <2>3. lgThreads'[th].at = "pipe" /\ \A t \in LgThreads : t # th => lgThreads'[t] = lgThreads[t]
    BY <2>2, LgGo DEF LgLoadInv, LgQuerying
  <2>4. /\ pipe \in LgPipeRecords /\ pipe.read = 0 /\ pipe.unread = 0 /\ pipe.written = 0
        /\ pipe.child = "none" /\ pipe.open = {"read", "write"}
    BY <2>1, LgNoPipe DEF LgPipeRecords
  <2>5. LgPipeOK(th, "pipe", pipe)
    BY <2>4 DEF LgPipeOK, LgQuerying
  <2> QED
    BY <2>2, <2>3, <2>5, LgPipeStep
<1> QED
  BY <1>1, <1>2

(* The child inherits the ends of all pipes that are open for writing.         *)
LEMMA StartChildInv ==
  ASSUME LgQueriesInv, LgLoadInv, NEW th \in LgThreads, NEW ok \in BOOLEAN, StartChild(th, ok)
  PROVE  LgQueriesInv'
<1>1. lgThreads[th].at = "pipe"
  BY DEF StartChild, At
<1>2. CASE ~ok
  <2>1. MyPipe(th, NoPipe) /\ Go(th, "idle")
    BY <1>2 DEF StartChild
  <2>2. lgThreads'[th].at = "idle" /\ \A t \in LgThreads : t # th => lgThreads'[t] = lgThreads[t]
    BY <2>1, LgGo DEF LgLoadInv
  <2>3. LgPipeOK(th, "idle", NoPipe)
    BY LgNoPipe DEF LgPipeOK, LgQuerying
  <2> QED
    BY <2>1, <2>2, <2>3, LgPipeStep
<1>3. CASE ok
  <2>1. /\ Go(th, "started") /\ DOMAIN lgPipes' = LgThreads
        /\ \A t \in LgThreads :
             lgPipes'[t] = IF "write" \notin lgPipes[t].open THEN lgPipes[t]
                           ELSE [lgPipes[t] EXCEPT !.writers = @ \cup {th}, !.child = IF t = th THEN "runs" ELSE @]
    BY <1>3 DEF StartChild
  <2>2. lgThreads'[th].at = "started" /\ \A t \in LgThreads : t # th => lgThreads'[t] = lgThreads[t]
    BY <2>1, LgGo DEF LgLoadInv, LgQuerying
  <2>3. ASSUME NEW t \in LgThreads PROVE LgPipeOK(t, lgThreads'[t].at, lgPipes'[t])
    <3>1. LgPipeOK(t, lgThreads[t].at, lgPipes[t]) /\ lgPipes[t] \in LgPipeRecords
      BY DEF LgQueriesInv, LgPipeOK
    <3>2. CASE "write" \notin lgPipes[t].open
      <4>1. t # th
        BY <1>1, <3>1, <3>2 DEF LgPipeOK
      <4> QED
        BY <2>1, <2>2, <3>1, <3>2, <4>1
    <3>3. CASE "write" \in lgPipes[t].open
      <4>1. PICK p \in LgPipeRecords : p = lgPipes[t]
        BY <3>1
      <4>2. PICK writers \in SUBSET LgThreads, child \in {"none", "runs", "ended"} :
              /\ writers = p.writers \cup {th} /\ child = IF t = th THEN "runs" ELSE p.child
        BY DEF LgPipeRecords
      <4>3. lgPipes'[t] = [p EXCEPT !.writers = writers, !.child = child]
        BY <2>1, <3>3, <4>1, <4>2
      <4>4. /\ lgPipes'[t] \in LgPipeRecords /\ lgPipes'[t].writers = writers /\ lgPipes'[t].child = child
            /\ lgPipes'[t].open = p.open /\ lgPipes'[t].read = p.read /\ lgPipes'[t].unread = p.unread
            /\ lgPipes'[t].written = p.written /\ lgPipes'[t].closed = p.closed
        BY <4>3 DEF LgPipeRecords
      <4>5. lgPipes'[t].read + lgPipes'[t].unread = lgPipes'[t].written
        BY <3>1, <4>1, <4>4 DEF LgPipeOK
      <4>6. CASE t = th
        BY <1>1, <2>2, <3>1, <4>1, <4>2, <4>4, <4>5, <4>6 DEF LgPipeOK, LgQuerying
      <4>7. CASE t # th
        BY <2>2, <3>1, <4>1, <4>2, <4>4, <4>5, <4>7 DEF LgPipeOK
      <4> QED
        BY <4>6, <4>7
    <3> QED
      BY <3>2, <3>3
  <2> QED
    BY <2>1, <2>3 DEF LgQueriesInv
<1> QED
  BY <1>2, <1>3

LEMMA CloseWriteInv ==
  ASSUME LgQueriesInv, LgLoadInv, NEW th \in LgThreads, CloseWrite(th) PROVE LgQueriesInv'
<1>1. lgThreads[th].at = "started" /\ LgPipeOK(th, "started", lgPipes[th])
  BY DEF CloseWrite, At, LgQueriesInv
<1>2. PICK p \in LgPipeRecords : p = lgPipes[th]
  BY <1>1 DEF LgPipeOK
<1>3. PICK pipe : pipe = [p EXCEPT !.open = {"read"}]
  OBVIOUS
<1>4. /\ pipe \in LgPipeRecords /\ pipe.read = p.read /\ pipe.unread = p.unread /\ pipe.written = p.written
      /\ pipe.child = p.child /\ pipe.writers = p.writers /\ pipe.open = {"read"}
  BY <1>3 DEF LgPipeRecords
<1>5. MyPipe(th, pipe) /\ Go(th, "reading")
  BY <1>2, <1>3 DEF CloseWrite
<1>6. lgThreads'[th].at = "reading" /\ \A t \in LgThreads : t # th => lgThreads'[t] = lgThreads[t]
  BY <1>5, LgGo DEF LgLoadInv, LgQuerying
<1>7. LgPipeOK(th, "reading", pipe)
  BY <1>1, <1>2, <1>4 DEF LgPipeOK, LgQuerying
<1> QED
  BY <1>5, <1>6, <1>7, LgPipeStep

LEMMA ChildWritesInv == ASSUME LgQueriesInv, NEW th \in LgThreads, ChildWrites(th) PROVE LgQueriesInv'
<1>1. lgPipes[th].child = "runs" /\ LgPipeOK(th, lgThreads[th].at, lgPipes[th]) /\ lgThreads' = lgThreads
  BY DEF ChildWrites, LgQueriesInv
<1>2. PICK p \in LgPipeRecords : p = lgPipes[th]
  BY <1>1 DEF LgPipeOK
<1>3. PICK unread \in Nat, written \in Nat : unread = p.unread + 1 /\ written = p.written + 1
  BY DEF LgPipeRecords
<1>4. PICK pipe : pipe = [p EXCEPT !.unread = unread, !.written = written]
  OBVIOUS
<1>5. /\ pipe \in LgPipeRecords /\ pipe.read = p.read /\ pipe.unread = unread /\ pipe.written = written
      /\ pipe.child = "runs" /\ pipe.writers = p.writers /\ pipe.open = p.open /\ pipe.closed = p.closed
  BY <1>1, <1>2, <1>4 DEF LgPipeRecords
<1>6. MyPipe(th, pipe)
  BY <1>2, <1>3, <1>4 DEF ChildWrites
<1>7. pipe.read + pipe.unread = pipe.written
  <2>1. p.read + p.unread = p.written /\ p.read \in Nat /\ p.unread \in Nat /\ p.written \in Nat
    BY <1>1, <1>2 DEF LgPipeOK, LgPipeRecords
  <2> QED
    BY <1>3, <1>5, <2>1
<1>8. lgThreads[th].at # "ended" /\ (lgThreads[th].at \notin LgQuerying => ~p.closed)
  BY <1>1, <1>2 DEF LgPipeOK
<1>9. LgPipeOK(th, lgThreads'[th].at, pipe)
  BY <1>1, <1>2, <1>5, <1>7, <1>8 DEF LgPipeOK
<1> QED
  BY <1>1, <1>6, <1>9, LgPipeStep

LEMMA ChildEndsInv == ASSUME LgQueriesInv, NEW th \in LgThreads, ChildEnds(th) PROVE LgQueriesInv'
<1>1. /\ lgPipes[th].child = "runs" /\ lgThreads' = lgThreads /\ DOMAIN lgPipes' = LgThreads
      /\ \A t \in LgThreads :
           lgPipes'[t] = [lgPipes[t] EXCEPT !.writers = @ \ {th}, !.child = IF t = th THEN "ended" ELSE @]
  BY DEF ChildEnds
<1>2. ASSUME NEW t \in LgThreads PROVE LgPipeOK(t, lgThreads[t].at, lgPipes'[t])
  <2>1. LgPipeOK(t, lgThreads[t].at, lgPipes[t])
    BY DEF LgQueriesInv
  <2>2. PICK p \in LgPipeRecords : p = lgPipes[t]
    BY <2>1 DEF LgPipeOK
  <2>3. PICK writers \in SUBSET LgThreads, child \in {"none", "runs", "ended"} :
          /\ writers = p.writers \ {th} /\ child = IF t = th THEN "ended" ELSE p.child
    BY DEF LgPipeRecords
  <2>4. lgPipes'[t] = [p EXCEPT !.writers = writers, !.child = child]
    BY <1>1, <2>2, <2>3
  <2>5. /\ lgPipes'[t] \in LgPipeRecords /\ lgPipes'[t].writers = writers /\ lgPipes'[t].child = child
        /\ lgPipes'[t].open = p.open /\ lgPipes'[t].read = p.read /\ lgPipes'[t].unread = p.unread
        /\ lgPipes'[t].written = p.written /\ lgPipes'[t].closed = p.closed
    BY <2>4 DEF LgPipeRecords
  <2>6. lgPipes'[t].read + lgPipes'[t].unread = lgPipes'[t].written
    BY <2>1, <2>2, <2>5 DEF LgPipeOK
  <2>7. CASE t = th
    BY <1>1, <2>1, <2>2, <2>3, <2>5, <2>6, <2>7 DEF LgPipeOK
  <2>8. CASE t # th
    BY <2>1, <2>2, <2>3, <2>5, <2>6, <2>8 DEF LgPipeOK
  <2> QED
    BY <2>7, <2>8
<1> QED
  BY <1>1, <1>2 DEF LgQueriesInv

LEMMA ReadPipeInv ==
  ASSUME LgQueriesInv, LgLoadInv, NEW th \in LgThreads, ReadPipe(th) PROVE LgQueriesInv'
<1>1. lgThreads[th].at = "reading" /\ LgPipeOK(th, "reading", lgPipes[th])
  BY DEF ReadPipe, At, LgQueriesInv
<1>2. PICK p \in LgPipeRecords : p = lgPipes[th]
  BY <1>1 DEF LgPipeOK
<1>3. p.read + p.unread = p.written /\ p.read \in Nat /\ p.unread \in Nat /\ p.written \in Nat
  BY <1>1, <1>2 DEF LgPipeOK, LgPipeRecords
<1>4. CASE p.unread > 0 /\ UNCHANGED lgThreads /\ MyPipe(th, [p EXCEPT !.unread = 0, !.read = @ + p.unread])
  <2>1. PICK read \in Nat : read = p.read + p.unread
    BY <1>3
  <2>2. PICK pipe : pipe = [p EXCEPT !.unread = 0, !.read = read]
    OBVIOUS
  <2>3. /\ pipe \in LgPipeRecords /\ pipe.read = read /\ pipe.unread = 0 /\ pipe.written = p.written
        /\ pipe.child = p.child /\ pipe.writers = p.writers /\ pipe.open = p.open
    <3>1. 0 \in Nat
      OBVIOUS
    <3> QED
      BY <2>2, <3>1 DEF LgPipeRecords
  <2>4. MyPipe(th, pipe)
    BY <1>4, <2>1, <2>2 DEF LgPipeRecords
  <2>5. pipe.read + pipe.unread = pipe.written
    BY <1>3, <2>1, <2>3
  <2>6. LgPipeOK(th, "reading", pipe)
    BY <1>1, <1>2, <2>3, <2>5 DEF LgPipeOK, LgQuerying
  <2> QED
    BY <1>1, <1>4, <2>4, <2>6, LgPipeStep
<1>5. CASE p.unread = 0 /\ p.writers = {} /\ Go(th, "ended") /\ UNCHANGED lgPipes
  <2>1. lgThreads'[th].at = "ended" /\ \A t \in LgThreads : t # th => lgThreads'[t] = lgThreads[t]
    BY <1>5, LgGo DEF LgLoadInv, LgQuerying
  <2>2. p.child = "ended"
    BY <1>1, <1>2, <1>5 DEF LgPipeOK, LgPipeRecords
  <2>3. LgPipeOK(th, "ended", p)
    BY <1>1, <1>2, <1>5, <2>2 DEF LgPipeOK, LgQuerying
  <2>4. ASSUME NEW t \in LgThreads PROVE LgPipeOK(t, lgThreads'[t].at, lgPipes[t])
    <3>1. LgPipeOK(t, lgThreads[t].at, lgPipes[t])
      BY DEF LgQueriesInv
    <3> QED
      BY <1>2, <2>1, <2>3, <3>1
  <2> QED
    BY <1>5, <2>4 DEF LgQueriesInv
<1> QED
  BY <1>2, <1>4, <1>5 DEF ReadPipe

LEMMA WaitForChildInv ==
  ASSUME LgQueriesInv, LgLoadInv, NEW th \in LgThreads, WaitForChild(th) PROVE LgQueriesInv'
<1>1. lgThreads[th].at = "ended" /\ LgPipeOK(th, "ended", lgPipes[th])
  BY DEF WaitForChild, At, LgQueriesInv
<1>2. PICK p \in LgPipeRecords : p = lgPipes[th]
  BY <1>1 DEF LgPipeOK
<1>3. p.read = p.written /\ p.unread = 0 /\ p.child = "ended"
  BY <1>1, <1>2 DEF LgPipeOK, LgPipeRecords
<1>4. PICK pipe : pipe = [p EXCEPT !.open = {}, !.closed = TRUE]
  OBVIOUS
<1>5. /\ pipe \in LgPipeRecords /\ pipe.read = p.read /\ pipe.unread = p.unread /\ pipe.written = p.written
      /\ pipe.child = p.child /\ pipe.writers = p.writers /\ pipe.open = {} /\ pipe.closed
  <2>1. {} \in SUBSET {"read", "write"} /\ TRUE \in BOOLEAN
    OBVIOUS
  <2> QED
    BY <1>4, <2>1 DEF LgPipeRecords
<1>6. MyPipe(th, pipe) /\ Go(th, "idle")
  BY <1>2, <1>4 DEF WaitForChild
<1>7. lgThreads'[th].at = "idle" /\ \A t \in LgThreads : t # th => lgThreads'[t] = lgThreads[t]
  BY <1>6, LgGo DEF LgLoadInv
<1>8. LgPipeOK(th, "idle", pipe)
  BY <1>1, <1>2, <1>3, <1>5 DEF LgPipeOK, LgQuerying
<1> QED
  BY <1>6, <1>7, <1>8, LgPipeStep

-----------------------------------------------------------------------------
LgInv == LgLoadInv /\ LgStacksInv /\ LgQueriesInv

LEMMA LgInitInv == ASSUME LgInit PROVE LgInv
<1>1. NoLoad \in LgThreadRecords /\ NoLoad.at = "idle"
  BY DEF NoLoad, LgThreadRecords
<1>2. LgLoadInv
  <2>1. LgMappedIs(lgLua) /\ LgPointTo(lgLua, LgSymbols)
    BY LgAssumption DEF LgInit, LgMappedIs, LgPointTo, NoLibrary
  <2>2. \A t \in LgThreads : lgThreads[t].at \notin LgLoading /\ lgThreads[t].at # "new"
    BY <1>1 DEF LgInit, LgLoading
  <2>3. LgLoadOK
    BY <2>1, <2>2 DEF LgInit, LgLoadOK
  <2> QED
    BY <1>1, <2>2, <2>3 DEF LgInit, LgLoadInv
<1>3. LgStacksInv
  BY DEF LgInit, LgStacksInv
<1>4. LgQueriesInv
  <2>1. \A th \in LgThreads : LgPipeOK(th, "idle", NoPipe)
    BY LgNoPipe DEF LgPipeOK, LgQuerying
  <2> QED
    BY <1>1, <2>1 DEF LgInit, LgQueriesInv
<1> QED
  BY <1>2, <1>3, <1>4 DEF LgInv

(* Loading leaves the stacks and, by the places it goes to, the queries.       *)
LEMMA LgLoadKeeps ==
  ASSUME LgInv, NEW th \in LgThreads,
         (\E library \in LgLibraries, then \in {"return", "new"} : LuaLoad(th, library, then))
         \/ (\E ok \in BOOLEAN : LoadLibrary(th, ok)) \/ ResolveSymbol(th) \/ Publish(th) \/ LoadFailed(th)
  PROVE  LgInv'
<1>1. UNCHANGED <<lgStates, lgAsked, lgPipes>>
  BY DEF LuaLoad, LoadLibrary, ResolveSymbol, Publish, LoadFailed
<1>2. LgLoadInv'
  BY LuaLoadInv, LoadLibraryInv, ResolveSymbolInv, PublishInv, LoadFailedInv DEF LgInv
<1>3. LgStacksInv'
  BY <1>1 DEF LgInv, LgStacksInv
<1>4. lgThreads \in [LgThreads -> LgThreadRecords]
  BY DEF LgInv, LgLoadInv
<1>5. /\ lgThreads[th].at \in {"idle"} \cup LgLoading
      /\ UNCHANGED lgThreads \/ (\E place \in {"idle", "new", "found", "symbols", "failed"} :
            lgThreads'[th].at = place /\ \A t \in LgThreads : t # th => lgThreads'[t] = lgThreads[t])
  <2>1. ASSUME NEW library \in LgLibraries, NEW then \in {"return", "new"}, LuaLoad(th, library, then)
        PROVE  /\ lgThreads[th].at = "idle"
               /\ \E place \in {"idle", "new", "found", "symbols", "failed"} :
                    lgThreads'[th].at = place /\ \A t \in LgThreads : t # th => lgThreads'[t] = lgThreads[t]
    <3>1. lgThreads[th].at = "idle"
      BY <2>1 DEF LuaLoad, At
    <3>2. CASE lgLua # NoLibrary
      <4>1. PICK place \in {"idle", "new"} : place = IF then = "new" THEN "new" ELSE "idle"
        OBVIOUS
      <4>2. Go(th, place)
        BY <2>1, <3>2, <4>1 DEF LuaLoad, Go
      <4> QED
        BY <1>4, <3>1, <4>2, LgGo
    <3>3. CASE lgLua = NoLibrary
      <4>1. PICK rec : rec = [at |-> "found", library |-> library, then |-> then]
        OBVIOUS
      <4>2. lgThreads' = [lgThreads EXCEPT ![th] = rec] /\ rec.at = "found"
        BY <2>1, <3>3, <4>1 DEF LuaLoad
      <4> QED
        BY <1>4, <3>1, <4>2
    <3> QED
      BY <3>2, <3>3
  <2>2. ASSUME NEW ok \in BOOLEAN, LoadLibrary(th, ok)
        PROVE  /\ lgThreads[th].at = "found"
               /\ \E place \in {"idle", "new", "found", "symbols", "failed"} :
                    lgThreads'[th].at = place /\ \A t \in LgThreads : t # th => lgThreads'[t] = lgThreads[t]
    <3>1. lgThreads[th].at = "found" /\ (Go(th, "symbols") \/ Leave(th, "idle"))
      BY <2>2 DEF LoadLibrary, At
    <3>2. "symbols" \in {"idle", "new"} \cup LgLoading \cup LgQuerying
      BY DEF LgLoading
    <3> QED
      BY <1>4, <3>1, <3>2, LgGo, LgLeave
  <2>3. ASSUME ResolveSymbol(th)
        PROVE  /\ lgThreads[th].at = "symbols"
               /\ UNCHANGED lgThreads \/ \E place \in {"idle", "new", "found", "symbols", "failed"} :
                    lgThreads'[th].at = place /\ \A t \in LgThreads : t # th => lgThreads'[t] = lgThreads[t]
    <3>1. lgThreads[th].at = "symbols" /\ (UNCHANGED lgThreads \/ Go(th, "failed"))
      BY <2>3 DEF ResolveSymbol, At
    <3>2. "failed" \in {"idle", "new"} \cup LgLoading \cup LgQuerying
      BY DEF LgLoading
    <3> QED
      BY <1>4, <3>1, <3>2, LgGo
  <2>4. ASSUME Publish(th)
        PROVE  /\ lgThreads[th].at = "symbols"
               /\ \E place \in {"idle", "new", "found", "symbols", "failed"} :
                    lgThreads'[th].at = place /\ \A t \in LgThreads : t # th => lgThreads'[t] = lgThreads[t]
    <3>1. PICK place \in {"idle", "new"} : place = IF lgThreads[th].then = "new" THEN "new" ELSE "idle"
      OBVIOUS
    <3>2. lgThreads[th].at = "symbols" /\ Leave(th, place)
      BY <2>4, <3>1 DEF Publish, At
    <3> QED
      BY <1>4, <3>2, LgLeave
  <2>5. ASSUME LoadFailed(th)
        PROVE  /\ lgThreads[th].at = "failed"
               /\ \E place \in {"idle", "new", "found", "symbols", "failed"} :
                    lgThreads'[th].at = place /\ \A t \in LgThreads : t # th => lgThreads'[t] = lgThreads[t]
    BY <1>4, <2>5, LgLeave DEF LoadFailed, At
  <2>6. {"found", "symbols", "failed"} = LgLoading
    BY DEF LgLoading
  <2> QED
    BY <2>1, <2>2, <2>3, <2>4, <2>5, <2>6
<1>6. LgQueriesInv'
  <2>1. CASE UNCHANGED lgThreads
    BY <1>1, <2>1 DEF LgInv, LgQueriesInv
  <2>2. ASSUME NEW place \in {"idle", "new", "found", "symbols", "failed"}, lgThreads'[th].at = place,
               \A t \in LgThreads : t # th => lgThreads'[t] = lgThreads[t]
        PROVE  LgQueriesInv'
    <3>1. place \notin LgQuerying /\ lgThreads[th].at \notin LgQuerying
      BY <1>5 DEF LgQuerying, LgLoading
    <3> QED
      BY <1>1, <2>2, <3>1, LgNoQueryStep DEF LgInv
  <2> QED
    BY <1>5, <2>1, <2>2
<1> QED
  BY <1>2, <1>3, <1>6 DEF LgInv

LEMMA LuaNextInv == ASSUME LgInv, LuaNext PROVE LgInv'
<1>1. ASSUME NEW th \in LgThreads, NEW ok \in BOOLEAN, LuaNew(th, ok) PROVE LgInv'
  <2>1. lgThreads[th].at = "new" /\ Go(th, "idle") /\ UNCHANGED <<lgLua, lgPointers, lgMapped, lgLock, lgPipes>>
    BY <1>1 DEF LuaNew, At
  <2>2. "new" \notin LgLoading /\ "new" \notin LgQuerying /\ "idle" \notin LgQuerying
    BY DEF LgLoading, LgQuerying
  <2>3. LgLoadInv'
    BY <2>1, <2>2, LgElsewhere DEF LgInv
  <2>4. lgThreads'[th].at = "idle" /\ \A t \in LgThreads : t # th => lgThreads'[t] = lgThreads[t]
    BY <2>1, LgGo DEF LgInv, LgLoadInv
  <2>5. LgQueriesInv'
    BY <2>1, <2>2, <2>4, LgNoQueryStep DEF LgInv
  <2> QED
    BY <1>1, <2>3, <2>5, LuaNewStack DEF LgInv
<1>2. ASSUME UNCHANGED <<lgLua, lgPointers, lgMapped, lgLock, lgThreads, lgPipes>>, LgStacksInv' PROVE LgInv'
  BY <1>2 DEF LgInv, LgLoadInv, LgLoadOK, LgLoadAt, LgMappedIs, LgPointTo, LgQueriesInv
<1>3. ASSUME NEW th \in LgThreads, NEW s, LuaClose(th, s) PROVE LgInv'
  <2>1. UNCHANGED <<lgLua, lgPointers, lgMapped, lgLock, lgThreads, lgPipes>>
    BY <1>3 DEF LuaClose, OnState
  <2> QED
    BY <1>2, <1>3, <2>1, LuaCloseStack DEF LgInv
<1>4. ASSUME NEW th \in LgThreads, NEW s, NEW loads \in BOOLEAN, NEW ends \in BOOLEAN, NEW n \in 0..LgResults,
             LuaFinish(th, s, loads, ends, n)
      PROVE  LgInv'
  <2>1. UNCHANGED <<lgLua, lgPointers, lgMapped, lgLock, lgThreads, lgPipes>>
    BY <1>4 DEF LuaFinish, OnState
  <2>2. n \in Int
    OBVIOUS
  <2> QED
    BY <1>2, <1>4, <2>1, <2>2, LuaFinishStack DEF LgInv
<1>5. ASSUME NEW th \in LgThreads, NEW s, NEW name \in LgNames, NEW number \in LgNumbers,
             LuaSetNumber(th, s, name, number)
      PROVE  LgInv'
  <2>1. UNCHANGED <<lgLua, lgPointers, lgMapped, lgLock, lgThreads, lgPipes>>
    BY <1>5 DEF LuaSetNumber, OnState
  <2> QED
    BY <1>2, <1>5, <2>1, LuaSetNumberStack DEF LgInv
<1> QED
  BY <1>1, <1>3, <1>4, <1>5, LgLoadKeeps DEF LuaNext

LEMMA PrologNextInv == ASSUME LgInv, PrologNext PROVE LgInv'
<1>1. UNCHANGED luaVars
  BY DEF PrologNext, CreatePipe, StartChild, CloseWrite, ReadPipe, WaitForChild, ChildWrites, ChildEnds
<1>2. LgStacksInv'
  BY <1>1 DEF luaVars, LgInv, LgStacksInv
<1>3. LgQueriesInv'
  BY CreatePipeInv, StartChildInv, CloseWriteInv, ReadPipeInv, WaitForChildInv, ChildWritesInv, ChildEndsInv
     DEF PrologNext, LgInv
<1>4. LgLoadInv'
  <2>1. CASE UNCHANGED lgThreads
    BY <1>1, <2>1 DEF luaVars, LgInv, LgLoadInv, LgLoadOK, LgLoadAt, LgMappedIs, LgPointTo
  <2>2. ASSUME NEW th \in LgThreads, lgThreads[th].at \in {"idle"} \cup LgQuerying,
               NEW place \in {"idle"} \cup LgQuerying, Go(th, place)
        PROVE  LgLoadInv'
    <3>1. /\ lgThreads[th].at \notin LgLoading /\ place # "new"
          /\ place \in {"idle", "new"} \cup LgQuerying
      BY <2>2 DEF LgLoading, LgQuerying
    <3>2. UNCHANGED <<lgLua, lgPointers, lgMapped, lgLock>>
      BY <1>1 DEF luaVars
    <3> QED
      BY <2>2, <3>1, <3>2, LgElsewhere DEF LgInv
  <2>3. UNCHANGED lgThreads \/ \E th \in LgThreads, place \in {"idle"} \cup LgQuerying :
          lgThreads[th].at \in {"idle"} \cup LgQuerying /\ Go(th, place)
    BY DEF PrologNext, CreatePipe, StartChild, CloseWrite, ReadPipe, WaitForChild, ChildWrites, ChildEnds,
           At, LgQuerying
  <2> QED
    BY <2>1, <2>2, <2>3
<1> QED
  BY <1>2, <1>3, <1>4 DEF LgInv

LEMMA LgNextInv == ASSUME LgInv, [LgNext]_lgVars PROVE LgInv'
<1>1. CASE UNCHANGED lgVars
  BY <1>1 DEF lgVars, luaVars, LgInv, LgLoadInv, LgLoadOK, LgLoadAt, LgMappedIs, LgPointTo, LgStacksInv, LgQueriesInv
<1> QED
  BY <1>1, LuaNextInv, PrologNextInv DEF LgNext

LEMMA LgInvExact == ASSUME LgInv PROVE LogicExact
<1>1. LuaLoadedWhole
  <2>1. \A th \in LgThreads : At(th, "new") => lgLua # NoLibrary
    BY DEF LgInv, LgLoadInv, At
  <2>2. ASSUME lgLua # NoLibrary \/ lgLock = {}
        PROVE  LgMappedIs(lgLua) /\ \A i \in 1..LgSymbols : lgPointers[i] = lgLua
    <3>1. LgMappedIs(lgLua) /\ LgPointTo(lgLua, LgSymbols)
      BY <2>2 DEF LgInv, LgLoadInv, LgLoadOK
    <3> QED
      BY <3>1, LgAssumption DEF LgPointTo
  <2> QED
    BY <2>1, <2>2 DEF LuaLoadedWhole, LgMappedIs
<1>2. LuaStacksExact
  BY DEF LgInv, LgStacksInv, LuaStacksExact, OpenStates
<1>3. QueriesWhole
  BY DEF LgInv, LgQueriesInv, LgPipeOK, LgQuerying, QueriesWhole, At
<1> QED
  BY <1>1, <1>2, <1>3 DEF LogicExact

(* However threads load, run and ask: a Lua that is seen as loaded is whole,    *)
(* its stacks hold the results of the chunks that ended well, and a query that  *)
(* is over has read all that its child wrote and left no pipe open.            *)
THEOREM LogicAlwaysExact == LgSpec => []LogicExact
<1>1. LgInit => LgInv
  BY LgInitInv
<1>2. LgInv /\ [LgNext]_lgVars => LgInv'
  BY LgNextInv
<1>3. LgInv => LogicExact
  BY LgInvExact
<1> QED
  BY <1>1, <1>2, <1>3, PTL DEF LgSpec

-----------------------------------------------------------------------------
(* Databases, patterns and documents *)

CsDatabaseRecords == [open : BOOLEAN, connection : BOOLEAN, left : BOOLEAN]
CsStatementRecords ==
  [owner : Nat, stmt : BOOLEAN, row : BOOLEAN, bound : SUBSET CsParameters, open : BOOLEAN, accepted : BOOLEAN]
CsPatternRecords ==
  [objects : SUBSET {"code", "match"}, rc : Int, spans : [1..CsGroups -> Int \X Int], open : BOOLEAN]
CsDocumentRecords == [doc : BOOLEAN, text : BOOLEAN, open : BOOLEAN]

(* A statement that is open is of a database that was opened, and if that one  *)
(* is closed it was closed before its statements.                           *)
CsOwnersOK ==
  \A s \in OpenStatements :
    /\ csStatements[s].accepted /\ csStatements[s].owner \in DOMAIN csDatabases
    /\ ~csDatabases[csStatements[s].owner].open => csDatabases[csStatements[s].owner].left

CsConnectionsOK ==
  \A d \in DOMAIN csDatabases :
    /\ csDatabases[d].connection <=> csDatabases[d].open \/ Prepared(csStatements, d) # {}
    /\ csDatabases[d].open => ~csDatabases[d].left

SqliteInv ==
  /\ csDatabases \in Seq(CsDatabaseRecords) /\ csStatements \in Seq(CsStatementRecords)
  /\ CsOwnersOK /\ CsConnectionsOK
  /\ csWild => \E d \in DOMAIN csDatabases : csDatabases[d].left

(* How a statement may change: it may be closed, and runs and is bound. *)
LEMMA CsStatementStep ==
  ASSUME SqliteInv, NEW s \in DOMAIN csStatements, NEW rec \in CsStatementRecords,
         csStatements' = [csStatements EXCEPT ![s] = rec], UNCHANGED csDatabases,
         rec.owner = csStatements[s].owner, rec.stmt = csStatements[s].stmt,
         rec.open = csStatements[s].open, rec.accepted = csStatements[s].accepted,
         csWild' => csWild \/ \E d \in DOMAIN csDatabases : csDatabases[d].left
  PROVE  SqliteInv'
<1>1. /\ csStatements' \in Seq(CsStatementRecords) /\ DOMAIN csStatements' = DOMAIN csStatements
      /\ csStatements'[s] = rec /\ \A t \in DOMAIN csStatements : t # s => csStatements'[t] = csStatements[t]
  BY DEF SqliteInv
<1>2. \A t \in DOMAIN csStatements :
        /\ csStatements'[t].owner = csStatements[t].owner /\ csStatements'[t].stmt = csStatements[t].stmt
        /\ csStatements'[t].open = csStatements[t].open /\ csStatements'[t].accepted = csStatements[t].accepted
  BY <1>1
<1>3. CsOwnersOK'
  BY <1>1, <1>2 DEF SqliteInv, CsOwnersOK, OpenStatements
<1>4. CsConnectionsOK'
  <2>1. \A d : Prepared(csStatements', d) = Prepared(csStatements, d)
    BY <1>1, <1>2 DEF Prepared
  <2> QED
    BY <2>1 DEF SqliteInv, CsConnectionsOK
<1> QED
  BY <1>1, <1>3, <1>4 DEF SqliteInv

LEMMA DbOpenInv == ASSUME SqliteInv, NEW ok \in BOOLEAN, DbOpen(ok) PROVE SqliteInv'
<1>1. PICK rec : rec = [open |-> ok, connection |-> ok, left |-> FALSE]
  OBVIOUS
<1>2. rec \in CsDatabaseRecords /\ (rec.connection <=> rec.open) /\ ~rec.left
  <2>1. FALSE \in BOOLEAN
    OBVIOUS
  <2> QED
    BY <1>1, <2>1 DEF CsDatabaseRecords
<1>3. csDatabases' = Append(csDatabases, rec) /\ UNCHANGED <<csStatements, csWild>> /\ csDatabases \in Seq(CsDatabaseRecords)
  BY <1>1 DEF DbOpen, SqliteInv
<1>4. PICK k : k \notin DOMAIN csDatabases /\ DOMAIN csDatabases' = DOMAIN csDatabases \cup {k}
               /\ csDatabases'[k] = rec /\ \A d \in DOMAIN csDatabases : csDatabases'[d] = csDatabases[d]
  <2>1. PICK l \in Nat : l = Len(csDatabases)
    BY <1>3
  <2>2. /\ DOMAIN csDatabases = 1..l /\ DOMAIN csDatabases' = 1..(l + 1) /\ csDatabases'[l + 1] = rec
        /\ \A d \in 1..l : csDatabases'[d] = csDatabases[d]
    BY <1>3, <2>1
  <2>3. 1..(l + 1) = 1..l \cup {l + 1} /\ l + 1 \notin 1..l
    BY <2>1
  <2> QED
    BY <2>2, <2>3
<1>5. csDatabases' \in Seq(CsDatabaseRecords)
  BY <1>2, <1>3
<1>6. OpenStatements' = OpenStatements /\ \A d : Prepared(csStatements', d) = Prepared(csStatements, d)
  BY <1>3 DEF OpenStatements
<1>7. CsOwnersOK'
  BY <1>3, <1>4, <1>6 DEF SqliteInv, CsOwnersOK
<1>8. CsConnectionsOK'
  <2>1. Prepared(csStatements, k) = {}
    BY <1>4 DEF Prepared, SqliteInv, CsOwnersOK, OpenStatements
  <2>2. \A d \in DOMAIN csDatabases :
          /\ csDatabases'[d].connection <=> csDatabases'[d].open \/ Prepared(csStatements, d) # {}
          /\ csDatabases'[d].open => ~csDatabases'[d].left
    BY <1>4 DEF SqliteInv, CsConnectionsOK
  <2> QED
    BY <1>2, <1>4, <1>6, <2>1, <2>2 DEF CsConnectionsOK
<1> QED
  BY <1>3, <1>4, <1>5, <1>7, <1>8 DEF SqliteInv

(* What sqlite3_close_v2 leaves. *)
LEMMA CsConnected ==
  ASSUME NEW dbs \in Seq(CsDatabaseRecords), NEW stmts
  PROVE  /\ Connected(dbs, stmts) \in Seq(CsDatabaseRecords) /\ DOMAIN Connected(dbs, stmts) = DOMAIN dbs
         /\ \A d \in DOMAIN dbs :
              /\ Connected(dbs, stmts)[d].open = dbs[d].open /\ Connected(dbs, stmts)[d].left = dbs[d].left
              /\ Connected(dbs, stmts)[d].connection <=>
                   dbs[d].connection /\ (dbs[d].open \/ Prepared(stmts, d) # {})
<1>1. PICK n \in Nat : n = Len(dbs) /\ DOMAIN dbs = 1..n
  OBVIOUS
<1>2. PICK c : c = Connected(dbs, stmts)
  OBVIOUS
<1>3. ASSUME NEW d \in 1..n
      PROVE  /\ c[d] \in CsDatabaseRecords /\ c[d].open = dbs[d].open /\ c[d].left = dbs[d].left
             /\ c[d].connection <=> dbs[d].connection /\ (dbs[d].open \/ Prepared(stmts, d) # {})
  <2>1. dbs[d] \in CsDatabaseRecords
    BY <1>1
  <2>2. PICK b \in BOOLEAN : b <=> (dbs[d].connection /\ (dbs[d].open \/ Prepared(stmts, d) # {}))
    OBVIOUS
  <2>3. b = (dbs[d].connection /\ (dbs[d].open \/ Prepared(stmts, d) # {}))
    BY <2>1, <2>2 DEF CsDatabaseRecords
  <2>4. c[d] = [dbs[d] EXCEPT !.connection = b]
    BY <1>1, <1>2, <2>3 DEF Connected
  <2>5. c[d] \in CsDatabaseRecords /\ c[d].open = dbs[d].open /\ c[d].left = dbs[d].left /\ c[d].connection = b
    BY <2>1, <2>4 DEF CsDatabaseRecords
  <2> QED
    BY <2>2, <2>5
<1>4. DOMAIN c = 1..n
  BY <1>1, <1>2 DEF Connected
<1>5. c = [d \in 1..n |-> c[d]]
  BY <1>1, <1>2 DEF Connected
<1>6. c \in Seq(CsDatabaseRecords)
  BY <1>3, <1>5
<1> QED
  BY <1>1, <1>2, <1>3, <1>4, <1>6

LEMMA DbCloseInv == ASSUME SqliteInv, NEW d, DbClose(d) PROVE SqliteInv'
<1>1. d \in DOMAIN csDatabases /\ csDatabases \in Seq(CsDatabaseRecords) /\ csDatabases[d].open
  BY DEF DbClose, OpenDatabases, SqliteInv
<1>2. PICK left \in BOOLEAN : left <=> \E s \in OpenStatements : csStatements[s].owner = d
  OBVIOUS
<1>3. PICK rec : rec = [csDatabases[d] EXCEPT !.open = FALSE, !.left = left]
  OBVIOUS
<1>4. /\ rec \in CsDatabaseRecords /\ rec.open = FALSE /\ rec.left = left
      /\ rec.connection = csDatabases[d].connection
  <2>1. csDatabases[d] \in CsDatabaseRecords
    BY <1>1
  <2>2. FALSE \in BOOLEAN
    OBVIOUS
  <2> QED
    BY <1>3, <2>1, <2>2 DEF CsDatabaseRecords
<1>5. PICK dbs : dbs = [csDatabases EXCEPT ![d] = rec]
  OBVIOUS
<1>6. /\ dbs \in Seq(CsDatabaseRecords) /\ DOMAIN dbs = DOMAIN csDatabases /\ dbs[d] = rec
      /\ \A e \in DOMAIN csDatabases : e # d => dbs[e] = csDatabases[e]
  BY <1>1, <1>4, <1>5
<1>7. csDatabases' = Connected(dbs, csStatements) /\ UNCHANGED <<csStatements, csWild>>
  <2>1. left = (\E s \in OpenStatements : csStatements[s].owner = d)
    BY <1>2
  <2>2. dbs = [csDatabases EXCEPT ![d].open = FALSE,
                                  ![d].left = \E s \in OpenStatements : csStatements[s].owner = d]
    BY <1>1, <1>3, <1>5, <2>1
  <2> QED
    BY <2>2 DEF DbClose
<1>8. /\ csDatabases' \in Seq(CsDatabaseRecords) /\ DOMAIN csDatabases' = DOMAIN csDatabases
      /\ \A e \in DOMAIN csDatabases :
           /\ csDatabases'[e].open = dbs[e].open /\ csDatabases'[e].left = dbs[e].left
           /\ csDatabases'[e].connection <=>
                dbs[e].connection /\ (dbs[e].open \/ Prepared(csStatements, e) # {})
  BY <1>6, <1>7, CsConnected
<1>9. OpenStatements' = OpenStatements /\ \A e : Prepared(csStatements', e) = Prepared(csStatements, e)
  BY <1>7 DEF OpenStatements
<1>10. CsConnectionsOK'
  <2>1. ASSUME NEW e \in DOMAIN csDatabases
        PROVE  /\ csDatabases'[e].connection <=> csDatabases'[e].open \/ Prepared(csStatements, e) # {}
               /\ csDatabases'[e].open => ~csDatabases'[e].left
    BY <1>1, <1>4, <1>6, <1>8 DEF SqliteInv, CsConnectionsOK
  <2> QED
    BY <1>8, <1>9, <2>1 DEF CsConnectionsOK
<1>11. CsOwnersOK'
  <2>1. ASSUME NEW s \in OpenStatements
        PROVE  /\ csStatements[s].accepted /\ csStatements[s].owner \in DOMAIN csDatabases
               /\ ~csDatabases'[csStatements[s].owner].open => csDatabases'[csStatements[s].owner].left
    <3>1. /\ csStatements[s].accepted /\ csStatements[s].owner \in DOMAIN csDatabases
          /\ ~csDatabases[csStatements[s].owner].open => csDatabases[csStatements[s].owner].left
      BY DEF SqliteInv, CsOwnersOK
    <3> QED
      BY <1>2, <1>4, <1>6, <1>8, <3>1
  <2> QED
    BY <1>7, <1>8, <1>9, <2>1 DEF CsOwnersOK
<1>12. csWild' => \E e \in DOMAIN csDatabases' : csDatabases'[e].left
  <2>1. ASSUME csWild, NEW e \in DOMAIN csDatabases, csDatabases[e].left
        PROVE  \E f \in DOMAIN csDatabases' : csDatabases'[f].left
    <3>1. e # d   \* which is open, so that nothing was left of it before
      BY <1>1, <2>1 DEF SqliteInv, CsConnectionsOK
    <3> QED
      BY <1>6, <1>8, <2>1, <3>1
  <2> QED
    BY <1>7, <2>1 DEF SqliteInv
<1> QED
  BY <1>7, <1>8, <1>10, <1>11, <1>12 DEF SqliteInv

LEMMA DbPrepareInv ==
  ASSUME SqliteInv, NEW d, NEW ok \in BOOLEAN, NEW some \in BOOLEAN, d \in Nat, DbPrepare(d, ok, some)
  PROVE  SqliteInv'
<1>1. PICK stmt \in BOOLEAN : stmt <=> ok /\ some
  OBVIOUS
<1>2. PICK rec : rec = [owner |-> d, stmt |-> stmt, row |-> FALSE, bound |-> {}, open |-> ok, accepted |-> ok]
  OBVIOUS
<1>3. /\ rec \in CsStatementRecords /\ rec.owner = d /\ (rec.open <=> rec.accepted)
  <2>1. FALSE \in BOOLEAN /\ {} \in SUBSET CsParameters
    OBVIOUS
  <2> QED
    BY <1>2, <2>1 DEF CsStatementRecords
<1>4. csStatements' = Append(csStatements, rec) /\ UNCHANGED <<csDatabases, csWild>> /\ csStatements \in Seq(CsStatementRecords)
  <2>1. stmt = (ok /\ some)
    BY <1>1
  <2> QED
    BY <1>2, <2>1 DEF DbPrepare, SqliteInv
<1>5. d \in DOMAIN csDatabases /\ csDatabases[d].open
  BY DEF DbPrepare, OpenDatabases
<1>6. PICK k : k \notin DOMAIN csStatements /\ DOMAIN csStatements' = DOMAIN csStatements \cup {k}
               /\ csStatements'[k] = rec /\ \A s \in DOMAIN csStatements : csStatements'[s] = csStatements[s]
  <2>1. PICK l \in Nat : l = Len(csStatements)
    BY <1>4
  <2>2. /\ DOMAIN csStatements = 1..l /\ DOMAIN csStatements' = 1..(l + 1) /\ csStatements'[l + 1] = rec
        /\ \A s \in 1..l : csStatements'[s] = csStatements[s]
    BY <1>4, <2>1
  <2>3. 1..(l + 1) = 1..l \cup {l + 1} /\ l + 1 \notin 1..l
    BY <2>1
  <2> QED
    BY <2>2, <2>3
<1>7. csStatements' \in Seq(CsStatementRecords)
  BY <1>3, <1>4
<1>8. CsOwnersOK'
  BY <1>3, <1>4, <1>5, <1>6 DEF SqliteInv, CsOwnersOK, OpenStatements
<1>9. CsConnectionsOK'
  <2>1. \A e : e # d => Prepared(csStatements', e) = Prepared(csStatements, e)
    BY <1>3, <1>6 DEF Prepared
  <2>2. csDatabases[d].connection
    BY <1>5 DEF SqliteInv, CsConnectionsOK
  <2> QED
    BY <1>4, <1>5, <2>1, <2>2 DEF SqliteInv, CsConnectionsOK
<1> QED
  BY <1>4, <1>7, <1>8, <1>9 DEF SqliteInv

LEMMA StmtFinalizeInv == ASSUME SqliteInv, NEW s, StmtFinalize(s) PROVE SqliteInv'
<1>1. /\ s \in DOMAIN csStatements /\ csStatements \in Seq(CsStatementRecords)
      /\ csDatabases \in Seq(CsDatabaseRecords)
  BY DEF StmtFinalize, OpenStatements, SqliteInv
<1>2. PICK rec : rec = [csStatements[s] EXCEPT !.open = FALSE]
  OBVIOUS
<1>3. rec \in CsStatementRecords /\ rec.open = FALSE
  <2>1. csStatements[s] \in CsStatementRecords
    BY <1>1
  <2>2. FALSE \in BOOLEAN
    OBVIOUS
  <2> QED
    BY <1>2, <2>1, <2>2 DEF CsStatementRecords
<1>4. csStatements' = [csStatements EXCEPT ![s] = rec] /\ UNCHANGED csWild /\ csDatabases' = Connected(csDatabases, csStatements')
  BY <1>2 DEF StmtFinalize
<1>5. /\ csStatements' \in Seq(CsStatementRecords) /\ DOMAIN csStatements' = DOMAIN csStatements
      /\ csStatements'[s] = rec /\ \A t \in DOMAIN csStatements : t # s => csStatements'[t] = csStatements[t]
  BY <1>1, <1>3, <1>4
<1>6. /\ csDatabases' \in Seq(CsDatabaseRecords) /\ DOMAIN csDatabases' = DOMAIN csDatabases
      /\ \A e \in DOMAIN csDatabases :
           /\ csDatabases'[e].open = csDatabases[e].open /\ csDatabases'[e].left = csDatabases[e].left
           /\ csDatabases'[e].connection <=>
                csDatabases[e].connection /\ (csDatabases[e].open \/ Prepared(csStatements', e) # {})
  BY <1>1, <1>4, CsConnected
<1>7. \A e : Prepared(csStatements', e) \subseteq Prepared(csStatements, e)
  BY <1>3, <1>5 DEF Prepared
<1>8. CsConnectionsOK'
  <2>1. ASSUME NEW e \in DOMAIN csDatabases
        PROVE  /\ csDatabases'[e].connection <=> csDatabases'[e].open \/ Prepared(csStatements', e) # {}
               /\ csDatabases'[e].open => ~csDatabases'[e].left
    <3>1. /\ csDatabases[e].connection <=> csDatabases[e].open \/ Prepared(csStatements, e) # {}
          /\ csDatabases[e].open => ~csDatabases[e].left
      BY DEF SqliteInv, CsConnectionsOK
    <3>2. Prepared(csStatements', e) # {} => Prepared(csStatements, e) # {}
      BY <1>7
    <3> QED
      BY <1>6, <3>1, <3>2
  <2> QED
    BY <1>6, <2>1 DEF CsConnectionsOK
<1>9. CsOwnersOK'
  <2>1. \A t \in OpenStatements' : t \in OpenStatements /\ csStatements'[t] = csStatements[t]
    BY <1>3, <1>5 DEF OpenStatements
  <2> QED
    BY <1>6, <2>1 DEF SqliteInv, CsOwnersOK
<1>10. csWild' => \E e \in DOMAIN csDatabases' : csDatabases'[e].left
  BY <1>4, <1>6 DEF SqliteInv
<1> QED
  BY <1>5, <1>6, <1>8, <1>9, <1>10 DEF SqliteInv

LEMMA StmtBindInv == ASSUME SqliteInv, NEW s, NEW p \in CsParameters, StmtBind(s, p) PROVE SqliteInv'
<1>1. s \in DOMAIN csStatements /\ csStatements[s] \in CsStatementRecords
  BY DEF StmtBind, OpenStatements, SqliteInv
<1>2. PICK old \in CsStatementRecords : old = csStatements[s]
  BY <1>1
<1>3. PICK bound \in SUBSET CsParameters : bound = old.bound \cup {p}
  BY DEF CsStatementRecords
<1>4. PICK rec : rec = [old EXCEPT !.bound = bound]
  OBVIOUS
<1>5. /\ rec \in CsStatementRecords /\ rec.owner = old.owner /\ rec.stmt = old.stmt
      /\ rec.open = old.open /\ rec.accepted = old.accepted
  BY <1>4 DEF CsStatementRecords
<1>6. csStatements' = [csStatements EXCEPT ![s] = rec] /\ UNCHANGED <<csDatabases, csWild>>
  BY <1>2, <1>3, <1>4 DEF StmtBind
<1> QED
  BY <1>1, <1>2, <1>5, <1>6, CsStatementStep

LEMMA StmtStepInv == ASSUME SqliteInv, NEW s, NEW outcome, StmtStep(s, outcome) PROVE SqliteInv'
<1>1. s \in DOMAIN csStatements /\ csStatements[s] \in CsStatementRecords /\ s \in OpenStatements
  BY DEF StmtStep, OpenStatements, SqliteInv
<1>2. PICK old \in CsStatementRecords : old = csStatements[s]
  BY <1>1
<1>3. PICK row \in BOOLEAN : row = (outcome = "row")
  OBVIOUS
<1>4. PICK rec : rec = [old EXCEPT !.row = row]
  OBVIOUS
<1>5. /\ rec \in CsStatementRecords /\ rec.owner = old.owner /\ rec.stmt = old.stmt
      /\ rec.open = old.open /\ rec.accepted = old.accepted
  BY <1>4 DEF CsStatementRecords
<1>6. csStatements' = [csStatements EXCEPT ![s] = rec] /\ UNCHANGED csDatabases
  BY <1>2, <1>3, <1>4 DEF StmtStep
<1>7. csWild' => csWild \/ \E d \in DOMAIN csDatabases : csDatabases[d].left
  BY <1>1 DEF StmtStep, SqliteInv, CsOwnersOK, OpenDatabases
<1> QED
  BY <1>1, <1>2, <1>5, <1>6, <1>7, CsStatementStep

LEMMA StmtResetInv == ASSUME SqliteInv, NEW s, StmtReset(s) PROVE SqliteInv'
<1>1. s \in DOMAIN csStatements /\ csStatements[s] \in CsStatementRecords /\ csStatements \in Seq(CsStatementRecords)
  BY DEF StmtReset, OpenStatements, SqliteInv
<1>2. PICK old \in CsStatementRecords : old = csStatements[s]
  BY <1>1
<1>3. PICK rec : rec = [old EXCEPT !.bound = {}, !.row = FALSE]
  OBVIOUS
<1>4. /\ rec \in CsStatementRecords /\ rec.owner = old.owner /\ rec.stmt = old.stmt
      /\ rec.open = old.open /\ rec.accepted = old.accepted
  <2>1. {} \in SUBSET CsParameters /\ FALSE \in BOOLEAN
    OBVIOUS
  <2> QED
    BY <1>3, <2>1 DEF CsStatementRecords
<1>5. csStatements' = [csStatements EXCEPT ![s] = rec] /\ UNCHANGED <<csDatabases, csWild>>
  BY <1>1, <1>2, <1>3 DEF StmtReset
<1> QED
  BY <1>1, <1>2, <1>4, <1>5, CsStatementStep

LEMMA SqliteNextInv == ASSUME SqliteInv, SqliteNext PROVE SqliteInv'
<1>1. ASSUME NEW d \in 1..CsDatabases, NEW ok \in BOOLEAN, NEW some \in BOOLEAN, DbPrepare(d, ok, some) PROVE SqliteInv'
  <2>1. d \in Nat
    BY CsAssumption
  <2> QED
    BY <1>1, <2>1, DbPrepareInv
<1> QED
  BY <1>1, DbOpenInv, DbCloseInv, StmtFinalizeInv, StmtBindInv, StmtStepInv, StmtResetInv DEF SqliteNext

-----------------------------------------------------------------------------
RegexInv ==
  /\ csPatterns \in Seq(CsPatternRecords) /\ csSubjects \in Seq(Nat) /\ DOMAIN csSubjects = DOMAIN csPatterns
  /\ \A h \in DOMAIN csPatterns :
       /\ csPatterns[h].objects = IF csPatterns[h].open THEN {"code", "match"} ELSE {}
       /\ \A g \in 1..CsGroups : g <= csPatterns[h].rc =>
            csPatterns[h].spans[g] = Unset \/ csPatterns[h].spans[g][2] <= csSubjects[h]

LEMMA RegexCompileInv ==
  ASSUME RegexInv, NEW compiles \in BOOLEAN, NEW matches \in BOOLEAN, RegexCompile(compiles, matches)
  PROVE  RegexInv'
<1>1. PICK whole \in BOOLEAN : whole = (compiles /\ matches)
  OBVIOUS
<1>2. PICK rec : rec = [objects |-> IF whole THEN {"code", "match"} ELSE {}, rc |-> 0,
                        spans |-> [g \in 1..CsGroups |-> Unset], open |-> whole]
  OBVIOUS
<1>3. /\ rec \in CsPatternRecords /\ rec.rc = 0 /\ rec.open = whole
      /\ rec.objects = IF whole THEN {"code", "match"} ELSE {}
  <2>1. [g \in 1..CsGroups |-> Unset] \in [1..CsGroups -> Int \X Int]
    BY DEF Unset
  <2>2. (IF whole THEN {"code", "match"} ELSE {}) \in SUBSET {"code", "match"} /\ 0 \in Int
    OBVIOUS
  <2> QED
    BY <1>2, <2>1, <2>2 DEF CsPatternRecords
<1>4. /\ csPatterns' = Append(csPatterns, rec) /\ csSubjects' = Append(csSubjects, 0)
      /\ csPatterns \in Seq(CsPatternRecords) /\ csSubjects \in Seq(Nat) /\ DOMAIN csSubjects = DOMAIN csPatterns
  BY <1>1, <1>2 DEF RegexCompile, RegexInv
<1>5. csPatterns' \in Seq(CsPatternRecords) /\ csSubjects' \in Seq(Nat)
  BY <1>3, <1>4
<1>6. PICK l \in Nat : l = Len(csPatterns) /\ l = Len(csSubjects)
  BY <1>4
<1>7. /\ DOMAIN csPatterns = 1..l /\ DOMAIN csPatterns' = 1..(l + 1) /\ DOMAIN csSubjects' = 1..(l + 1)
      /\ csPatterns'[l + 1] = rec
      /\ \A h \in 1..l : csPatterns'[h] = csPatterns[h] /\ csSubjects'[h] = csSubjects[h]
  <2>1. /\ DOMAIN csPatterns = 1..l /\ DOMAIN csPatterns' = 1..(l + 1) /\ csPatterns'[l + 1] = rec
        /\ \A h \in 1..l : csPatterns'[h] = csPatterns[h]
    <3>1. csPatterns' = Append(csPatterns, rec) /\ csPatterns \in Seq(CsPatternRecords) /\ rec \in CsPatternRecords
      BY <1>3, <1>4
    <3>2. l = Len(csPatterns)
      BY <1>6
    <3> QED
      BY <3>1, <3>2
  <2>2. DOMAIN csSubjects' = 1..(l + 1) /\ \A h \in 1..l : csSubjects'[h] = csSubjects[h]
    BY <1>4, <1>6
  <2> QED
    BY <2>1, <2>2
<1>8. ASSUME NEW h \in 1..(l + 1)
      PROVE  /\ csPatterns'[h].objects = IF csPatterns'[h].open THEN {"code", "match"} ELSE {}
             /\ \A g \in 1..CsGroups : g <= csPatterns'[h].rc =>
                  csPatterns'[h].spans[g] = Unset \/ csPatterns'[h].spans[g][2] <= csSubjects'[h]
  <2>1. CASE h = l + 1
    <3>1. \A g \in 1..CsGroups : ~(g <= rec.rc)
      BY <1>3, CsAssumption
    <3> QED
      BY <1>3, <1>7, <2>1, <3>1
  <2>2. CASE h # l + 1
    <3>1. h \in 1..l
      BY <2>2
    <3> QED
      BY <1>7, <3>1 DEF RegexInv
  <2> QED
    BY <2>1, <2>2
<1> QED
  BY <1>5, <1>7, <1>8 DEF RegexInv

LEMMA RegexFreeInv == ASSUME RegexInv, NEW h, RegexFree(h) PROVE RegexInv'
<1>1. h \in DOMAIN csPatterns /\ csPatterns \in Seq(CsPatternRecords) /\ csPatterns[h] \in CsPatternRecords
  BY DEF RegexFree, OpenPatterns, RegexInv
<1>2. PICK rec : rec = [csPatterns[h] EXCEPT !.open = FALSE, !.objects = {}]
  OBVIOUS
<1>3. /\ rec \in CsPatternRecords /\ rec.open = FALSE /\ rec.objects = {}
      /\ rec.rc = csPatterns[h].rc /\ rec.spans = csPatterns[h].spans
  <2>1. {} \in SUBSET {"code", "match"} /\ FALSE \in BOOLEAN
    OBVIOUS
  <2> QED
    BY <1>1, <1>2, <2>1 DEF CsPatternRecords
<1>4. csPatterns' = [csPatterns EXCEPT ![h] = rec] /\ UNCHANGED csSubjects
  BY <1>1, <1>2 DEF RegexFree
<1>5. /\ csPatterns' \in Seq(CsPatternRecords) /\ DOMAIN csPatterns' = DOMAIN csPatterns /\ csPatterns'[h] = rec
      /\ \A k \in DOMAIN csPatterns : k # h => csPatterns'[k] = csPatterns[k]
  BY <1>1, <1>3, <1>4
<1>6. ASSUME NEW k \in DOMAIN csPatterns
      PROVE  /\ csPatterns'[k].objects = IF csPatterns'[k].open THEN {"code", "match"} ELSE {}
             /\ csPatterns'[k].rc = csPatterns[k].rc /\ csPatterns'[k].spans = csPatterns[k].spans
  BY <1>3, <1>5 DEF RegexInv
<1> QED
  BY <1>4, <1>5, <1>6 DEF RegexInv

LEMMA RegexMatchInv ==
  ASSUME RegexInv, NEW h, NEW n \in CsLengths, NEW rc \in (1..CsGroups) \cup {-1},
         NEW from \in 0..n, NEW to \in 0..n, RegexMatch(h, n, rc, from, to)
  PROVE  RegexInv'
<1>1. /\ h \in DOMAIN csPatterns /\ csPatterns \in Seq(CsPatternRecords) /\ csPatterns[h] \in CsPatternRecords
      /\ csSubjects \in Seq(Nat) /\ h \in DOMAIN csSubjects
  <2>1. h \in DOMAIN csPatterns
    BY DEF RegexMatch, OpenPatterns
  <2>2. csPatterns \in Seq(CsPatternRecords) /\ csSubjects \in Seq(Nat) /\ DOMAIN csSubjects = DOMAIN csPatterns
    BY DEF RegexInv
  <2> QED
    BY <2>1, <2>2
<1>2. n \in Nat /\ rc \in Int /\ from \in Int /\ to \in Int /\ to <= n /\ CsGroups \in Nat
  BY CsAssumption
<1>3. PICK spans : spans = IF rc < 0 THEN csPatterns[h].spans
                           ELSE [g \in 1..CsGroups |-> IF g <= rc THEN <<from, to>> ELSE Unset]
  OBVIOUS
<1>4. spans \in [1..CsGroups -> Int \X Int]
  <2>1. CASE rc < 0
    BY <1>1, <1>3, <2>1 DEF CsPatternRecords
  <2>2. CASE ~(rc < 0)
    BY <1>2, <1>3, <2>2 DEF Unset
  <2> QED
    BY <2>1, <2>2
<1>5. PICK rec : rec = [csPatterns[h] EXCEPT !.rc = rc, !.spans = spans]
  OBVIOUS
<1>6. /\ rec \in CsPatternRecords /\ rec.rc = rc /\ rec.spans = spans
      /\ rec.open = csPatterns[h].open /\ rec.objects = csPatterns[h].objects
  BY <1>1, <1>2, <1>4, <1>5 DEF CsPatternRecords
<1>7. csPatterns' = [csPatterns EXCEPT ![h] = rec] /\ csSubjects' = [csSubjects EXCEPT ![h] = n]
  BY <1>1, <1>3, <1>5 DEF RegexMatch
<1>8. /\ csPatterns' \in Seq(CsPatternRecords) /\ DOMAIN csPatterns' = DOMAIN csPatterns /\ csPatterns'[h] = rec
      /\ \A k \in DOMAIN csPatterns : k # h => csPatterns'[k] = csPatterns[k]
  BY <1>1, <1>6, <1>7
<1>9. /\ csSubjects' \in Seq(Nat) /\ DOMAIN csSubjects' = DOMAIN csSubjects /\ csSubjects'[h] = n
      /\ \A k \in DOMAIN csSubjects : k # h => csSubjects'[k] = csSubjects[k]
  BY <1>1, <1>2, <1>7
<1>10. \A g \in 1..CsGroups : g <= rc => spans[g] = Unset \/ spans[g][2] <= n
  <2>1. CASE rc < 0
    BY <1>2, <2>1
  <2>2. CASE ~(rc < 0)
    <3>1. \A g \in 1..CsGroups : g <= rc => spans[g] = <<from, to>>
      BY <1>3, <2>2
    <3>2. <<from, to>>[2] = to
      OBVIOUS
    <3> QED
      BY <1>2, <3>1, <3>2
  <2> QED
    BY <2>1, <2>2
<1>11. ASSUME NEW k \in DOMAIN csPatterns
       PROVE  /\ csPatterns'[k].objects = IF csPatterns'[k].open THEN {"code", "match"} ELSE {}
              /\ \A g \in 1..CsGroups : g <= csPatterns'[k].rc =>
                   csPatterns'[k].spans[g] = Unset \/ csPatterns'[k].spans[g][2] <= csSubjects'[k]
  <2>1. CASE k = h
    BY <1>6, <1>8, <1>9, <1>10, <2>1 DEF RegexInv
  <2>2. CASE k # h
    BY <1>8, <1>9, <2>2 DEF RegexInv
  <2> QED
    BY <2>1, <2>2
<1> QED
  BY <1>8, <1>9, <1>11 DEF RegexInv

LEMMA RegexInvExact == ASSUME RegexInv PROVE PatternsExact
<1>1. ASSUME NEW h \in DOMAIN csPatterns, NEW g \in 0..(CsGroups - 1), GroupSpan(h, g) # Unset
      PROVE  csPatterns[h].rc > 0 /\ GroupSpan(h, g)[2] <= csSubjects[h]
  <2>1. csPatterns[h] \in CsPatternRecords
    BY DEF RegexInv
  <2>2. PICK rc \in Int : rc = csPatterns[h].rc
    BY <2>1 DEF CsPatternRecords
  <2>3. ~(rc <= g) /\ GroupSpan(h, g) = csPatterns[h].spans[g + 1]
    BY <1>1, <2>2 DEF GroupSpan
  <2>4. PICK k : k = g + 1
    OBVIOUS
  <2>5. k \in 1..CsGroups /\ k <= rc /\ rc > 0
    BY <2>2, <2>3, <2>4, CsAssumption
  <2>6. csPatterns[h].spans[k] = Unset \/ csPatterns[h].spans[k][2] <= csSubjects[h]
    BY <2>2, <2>5 DEF RegexInv
  <2> QED
    BY <1>1, <2>2, <2>3, <2>4, <2>5, <2>6
<1> QED
  BY <1>1 DEF RegexInv, PatternsExact

-----------------------------------------------------------------------------
JsonInv ==
  /\ csDocuments \in Seq(CsDocumentRecords)
  /\ \A j \in DOMAIN csDocuments :
       csDocuments[j].doc = csDocuments[j].open /\ (csDocuments[j].text => csDocuments[j].doc)

LEMMA CsDocumentStep ==
  ASSUME JsonInv, NEW j \in DOMAIN csDocuments, NEW rec \in CsDocumentRecords,
         csDocuments' = [csDocuments EXCEPT ![j] = rec], rec.doc = rec.open, rec.text => rec.doc
  PROVE  JsonInv'
<1>1. /\ csDocuments' \in Seq(CsDocumentRecords) /\ DOMAIN csDocuments' = DOMAIN csDocuments
      /\ csDocuments'[j] = rec /\ \A k \in DOMAIN csDocuments : k # j => csDocuments'[k] = csDocuments[k]
  BY DEF JsonInv
<1> QED
  BY <1>1 DEF JsonInv

LEMMA JsonNextInv == ASSUME JsonInv, JsonNext PROVE JsonInv'
<1>1. ASSUME NEW ok \in BOOLEAN, JsonParse(ok) PROVE JsonInv'
  <2>1. PICK rec : rec = [doc |-> ok, text |-> FALSE, open |-> ok]
    OBVIOUS
  <2>2. rec \in CsDocumentRecords /\ rec.doc = rec.open /\ ~rec.text
    <3>1. FALSE \in BOOLEAN
      OBVIOUS
    <3> QED
      BY <2>1, <3>1 DEF CsDocumentRecords
  <2>3. csDocuments' = Append(csDocuments, rec) /\ csDocuments \in Seq(CsDocumentRecords)
    BY <1>1, <2>1 DEF JsonParse, JsonInv
  <2>4. csDocuments' \in Seq(CsDocumentRecords)
    BY <2>2, <2>3
  <2>5. \A j \in DOMAIN csDocuments' :
          csDocuments'[j] = rec \/ (j \in DOMAIN csDocuments /\ csDocuments'[j] = csDocuments[j])
    BY <2>2, <2>3
  <2> QED
    BY <2>2, <2>4, <2>5 DEF JsonInv
<1>2. ASSUME NEW j, NEW ok \in BOOLEAN, JsonWrite(j, ok) PROVE JsonInv'
  <2>1. j \in DOMAIN csDocuments /\ csDocuments[j].open /\ csDocuments[j] \in CsDocumentRecords
    BY <1>2 DEF JsonWrite, OpenDocuments, JsonInv
  <2>2. PICK rec : rec = [csDocuments[j] EXCEPT !.text = ok]
    OBVIOUS
  <2>3. rec \in CsDocumentRecords /\ rec.doc = csDocuments[j].doc /\ rec.open = csDocuments[j].open
    BY <2>1, <2>2 DEF CsDocumentRecords
  <2>4. rec.doc = rec.open /\ rec.doc
    BY <2>1, <2>3 DEF JsonInv
  <2>5. csDocuments' = [csDocuments EXCEPT ![j] = rec]
    BY <1>2, <2>2 DEF JsonWrite
  <2> QED
    BY <2>1, <2>3, <2>4, <2>5, CsDocumentStep
<1>3. ASSUME NEW j, JsonFree(j) PROVE JsonInv'
  <2>1. PICK rec : rec = [doc |-> FALSE, text |-> FALSE, open |-> FALSE]
    OBVIOUS
  <2>2. rec \in CsDocumentRecords /\ rec.doc = rec.open /\ ~rec.text
    <3>1. FALSE \in BOOLEAN
      OBVIOUS
    <3> QED
      BY <2>1, <3>1 DEF CsDocumentRecords
  <2>3. csDocuments' = [csDocuments EXCEPT ![j] = rec] /\ j \in DOMAIN csDocuments
    BY <1>3, <2>1 DEF JsonFree, OpenDocuments
  <2> QED
    BY <2>2, <2>3, CsDocumentStep
<1> QED
  BY <1>1, <1>2, <1>3 DEF JsonNext

(* What the conversions of C answer for numbers in range, for every width. *)
LEMMA CsNumbers ==
  ASSUME NEW n \in (1 - Modulus)..(Modulus - 1)
  PROVE  /\ 2 * n \in -Modulus..(Modulus - 1) => GetI64(IF n < 0 THEN "signed" ELSE "unsigned", n) = n
         /\ n >= 0 => GetU64("unsigned", n) = n /\ GetU64("real", 2 * n + 1) = n
         /\ n < 0 => GetU64("signed", n) = 0 /\ GetI64("real", 2 * n - 1) = n
<1>1. PICK m \in Nat : m = Modulus
  BY CsAssumption DEF Modulus
<1>2. n \in Int /\ n \in (1 - m)..(m - 1)
  BY <1>1
<1>3. ASSUME 2 * n \in -Modulus..(Modulus - 1) PROVE AsSigned(n) = n
  <2>1. 2 * n \in -m..(m - 1)
    BY <1>1, <1>3
  <2>2. CASE n < 0
    <3>1. PICK r \in Int : r = n + m
      BY <1>2
    <3>2. n % m = r
      BY <1>2, <2>2, <3>1
    <3>3. AsSigned(n) = IF 2 * r >= m THEN r - m ELSE r
      BY <1>1, <3>2 DEF AsSigned
    <3>4. 2 * r >= m /\ r - m = n
      BY <1>2, <2>1, <3>1
    <3> QED
      BY <3>3, <3>4
  <2>3. CASE n >= 0
    <3>1. n \in 0..(m - 1)
      BY <1>2, <2>3
    <3>2. n % m = n
      BY <3>1
    <3>3. AsSigned(n) = IF 2 * n >= m THEN n - m ELSE n
      BY <1>1, <3>2 DEF AsSigned
    <3>4. ~(2 * n >= m)
      BY <1>2, <2>1
    <3> QED
      BY <3>3, <3>4
  <2> QED
    BY <1>2, <2>2, <2>3
<1>4. ASSUME n >= 0 PROVE GetU64("unsigned", n) = n /\ GetU64("real", 2 * n + 1) = n
  <2>1. n \in Nat
    BY <1>2, <1>4
  <2>2. (2 * n + 1) \div 2 = n
    BY <2>1
  <2>3. ~(2 * n + 1 < 0) /\ 2 * n + 1 >= 0
    BY <2>1
  <2>4. Cut(2 * n + 1) = n
    BY <2>2, <2>3 DEF Cut
  <2> QED
    BY <2>3, <2>4 DEF GetU64
<1>5. ASSUME n < 0 PROVE GetU64("signed", n) = 0 /\ GetI64("real", 2 * n - 1) = n
  <2>1. PICK k \in Nat : k = -n
    BY <1>2, <1>5
  <2>2. (2 * k + 1) \div 2 = k
    BY <2>1
  <2>3. -(2 * n - 1) = 2 * k + 1 /\ 2 * n - 1 < 0 /\ -k = n
    BY <1>2, <1>5, <2>1
  <2>4. Cut(2 * n - 1) = n
    BY <2>2, <2>3 DEF Cut
  <2>5. ~(n >= 0)
    BY <1>2, <1>5
  <2> QED
    BY <2>4, <2>5 DEF GetU64, GetI64
<1>6. \A kind \in {"signed", "unsigned"} : GetI64(kind, n) = AsSigned(n)
  BY DEF GetI64
<1> QED
  BY <1>3, <1>4, <1>5, <1>6

-----------------------------------------------------------------------------
CsInv == SqliteInv /\ RegexInv /\ JsonInv

LEMMA CsInitInv == ASSUME CsInit PROVE CsInv
<1>1. SqliteInv
  BY DEF CsInit, SqliteInv, CsOwnersOK, CsConnectionsOK, OpenStatements
<1>2. RegexInv
  BY DEF CsInit, RegexInv
<1>3. JsonInv
  BY DEF CsInit, JsonInv
<1> QED
  BY <1>1, <1>2, <1>3 DEF CsInv

LEMMA CsNextInv == ASSUME CsInv, [CsNext]_csVars PROVE CsInv'
<1>1. CASE UNCHANGED csVars
  BY <1>1 DEF csVars, sqliteVars, regexVars, CsInv, SqliteInv, CsOwnersOK, CsConnectionsOK, OpenStatements,
              Prepared, RegexInv, JsonInv
<1>2. ASSUME UNCHANGED regexVars PROVE RegexInv'
  BY <1>2 DEF regexVars, CsInv, RegexInv
<1>3. ASSUME UNCHANGED csDocuments PROVE JsonInv'
  BY <1>3 DEF CsInv, JsonInv
<1>4. ASSUME UNCHANGED sqliteVars PROVE SqliteInv'
  BY <1>4 DEF sqliteVars, CsInv, SqliteInv, CsOwnersOK, CsConnectionsOK, OpenStatements, Prepared
<1>5. CASE SqliteNext
  <2>1. UNCHANGED regexVars /\ UNCHANGED csDocuments
    BY <1>5 DEF SqliteNext, DbOpen, DbClose, DbPrepare, StmtFinalize, StmtReset, StmtBind, StmtStep
  <2> QED
    BY <1>2, <1>3, <1>5, <2>1, SqliteNextInv DEF CsInv
<1>6. CASE RegexNext
  <2>1. UNCHANGED sqliteVars /\ UNCHANGED csDocuments
    BY <1>6 DEF RegexNext, RegexCompile, RegexFree, RegexMatch
  <2>2. RegexInv'
    BY <1>6, RegexCompileInv, RegexFreeInv, RegexMatchInv DEF RegexNext, CsInv
  <2> QED
    BY <1>3, <1>4, <2>1, <2>2 DEF CsInv
<1>7. CASE JsonNext
  <2>1. UNCHANGED sqliteVars /\ UNCHANGED regexVars
    BY <1>7 DEF JsonNext, JsonParse, JsonWrite, JsonFree
  <2> QED
    BY <1>2, <1>4, <1>7, <2>1, JsonNextInv DEF CsInv
<1> QED
  BY <1>1, <1>5, <1>6, <1>7 DEF CsNext

LEMMA CsInvExact == ASSUME CsInv PROVE BaseObjectsExact
<1>1. DatabasesExact
  BY DEF CsInv, SqliteInv, CsOwnersOK, CsConnectionsOK, DatabasesExact
<1>2. PatternsExact
  BY RegexInvExact DEF CsInv
<1>3. DocumentsExact
  BY CsNumbers DEF CsInv, JsonInv, DocumentsExact
<1> QED
  BY <1>1, <1>2, <1>3 DEF BaseObjectsExact

(* Whichever calls fail, connections, patterns and documents are there as long *)
(* as their handles need them, a pattern shows its last match and no other,    *)
(* and numbers in range are answered as they are, for integers of any width.   *)
THEOREM BaseAlwaysExact == CsSpec => []BaseObjectsExact
<1>1. CsInit => CsInv
  BY CsInitInv
<1>2. CsInv /\ [CsNext]_csVars => CsInv'
  BY CsNextInv
<1>3. CsInv => BaseObjectsExact
  BY CsInvExact
<1> QED
  BY <1>1, <1>2, <1>3, PTL DEF CsSpec

-----------------------------------------------------------------------------
(* All of them in one program *)

LEMMA FrameworksImplement ==
  FrameworksSpec => DdSpec /\ OxSpec /\ RlSpec /\ LgSpec /\ CsSpec
<1>1. FrameworksInit => DdInit /\ OxInit /\ RlInit /\ LgInit /\ CsInit
  BY DEF FrameworksInit
<1>2. [FrameworksNext]_frameworkVars => [DdNext]_ddVars
  BY DEF FrameworksNext, frameworkVars
<1>3. [FrameworksNext]_frameworkVars => [OxNext]_oxVars
  BY DEF FrameworksNext, frameworkVars
<1>4. [FrameworksNext]_frameworkVars => [RlNext]_rlVars
  BY DEF FrameworksNext, frameworkVars
<1>5. [FrameworksNext]_frameworkVars => [LgNext]_lgVars
  BY DEF FrameworksNext, frameworkVars
<1>6. [FrameworksNext]_frameworkVars => [CsNext]_csVars
  BY DEF FrameworksNext, frameworkVars
<1> QED
  BY <1>1, <1>2, <1>3, <1>4, <1>5, <1>6, PTL DEF FrameworksSpec, DdSpec, OxSpec, RlSpec, LgSpec, CsSpec

(* A program that uses all these libraries, its calls in any order and each of *)
(* them failing at any point: what it holds of a library, and what a library   *)
(* holds for it, is there exactly as long as an object of it needs it.        *)
THEOREM ForeignObjectsAlwaysOwned == FrameworksSpec => []ForeignObjectsOwned
<1>1. DuckContextsExact /\ OnnxObjectsExact /\ RaylibObjectsOwned /\ LogicExact /\ BaseObjectsExact
      => ForeignObjectsOwned
  BY DEF ForeignObjectsOwned
<1> QED
  BY <1>1, FrameworksImplement, DuckAlwaysExact, OnnxAlwaysExact, RaylibAlwaysOwned,
     LogicAlwaysExact, BaseAlwaysExact, PTL

=============================================================================
