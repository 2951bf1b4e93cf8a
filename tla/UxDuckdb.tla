------------------------------- MODULE UxDuckdb -------------------------------
(***************************************************************************)
(* Data frames (src/runtime_ext/uxdataframe/uxdataframe_duckdb.c): a frame  *)
(* is a table of a DuckDB connection, and the frames that are computed from *)
(* it share the connection, which the last of them closes.  Calls of        *)
(* several threads interleave; nothing is locked but the loading of the     *)
(* library.  The program frees a frame once and not while a call uses it.   *)
(* DuckDB is external; what a query computes, texts and the numbers of the  *)
(* matrices that are copied out are left out.                              *)
(***************************************************************************)
EXTENDS Integers, Sequences, FiniteSets, SequencesExt

CONSTANTS
  DdThreads,
  DdContexts,   \* bound: the contexts that are made
  DdFrames,     \* bound: the frames that are made
  DdQueries,    \* bound: the tables that are named, 2^63 - 1 in the code
  DdMatrices    \* bound: the matrices that the program keeps

ASSUME DdAssumption ==
  IsFiniteSet(DdThreads) /\ {DdContexts, DdFrames, DdQueries, DdMatrices} \subseteq Nat

VARIABLES
  ddLoaded,     \* g_duck
  ddContexts,   \* the contexts ever made: refs, database and connection open
  ddFrames,     \* the frames ever made: context and table, or gone
  ddTables,     \* g_counter: the tables that were named
  ddCalls,      \* of each thread, the call it is in, or NoCall
  ddMatrices,   \* how many matrices the program has
  ddBlocks      \* how many blocks of memory there are for matrices

matrixVars == <<ddMatrices, ddBlocks>>
ddVars == <<ddLoaded, ddContexts, ddFrames, ddTables, ddCalls, matrixVars>>

-----------------------------------------------------------------------------
NoCall == [at |-> "none", context |-> 0, frame |-> 0, uses |-> {}, table |-> 0]
Gone == [context |-> 0, table |-> 0]

Idle(th) == ddCalls[th] = NoCall
Used == UNION {ddCalls[th].uses : th \in DdThreads}
Live == {f \in DOMAIN ddFrames : ddFrames[f] # Gone}
Known == Live \ {ddCalls[th].frame : th \in DdThreads}   \* that a call has returned
Goto(th, call) == ddCalls' = [ddCalls EXCEPT ![th] = call]

(* load_duckdb, all of it under the lock; a symbol that is missing unloads it. *)
LoadDuckdb(th, loaded) ==
  /\ Idle(th) /\ ~ddLoaded
  /\ ddLoaded' = loaded
  /\ UNCHANGED <<ddContexts, ddFrames, ddTables, ddCalls, matrixVars>>

(* ctx_create: the database is opened and connected to, or nothing remains.    *)
(* A context is counted for the call that makes it.                          *)
CtxCreate(th, opened, connected) ==
  /\ Idle(th) /\ ddLoaded /\ Len(ddContexts) < DdContexts
  /\ IF opened /\ connected
     THEN /\ ddContexts' = Append(ddContexts, [refs |-> 1, database |-> TRUE, connection |-> TRUE])
          /\ ddTables' = ddTables + 1
          /\ Goto(th, [NoCall EXCEPT !.at = "made", !.context = Len(ddContexts) + 1,
                                     !.table = ddTables + 1])
     ELSE /\ ddContexts' = Append(ddContexts,   \* opened, and closed again
                                  [refs |-> 0, database |-> FALSE, connection |-> FALSE])
          /\ UNCHANGED <<ddCalls, ddTables>>
  /\ UNCHANGED <<ddLoaded, ddFrames, matrixVars>>

(* Mutant of Referred: the new frame does not count. *)
ReferredNot(context) == ddContexts[context]

(* df_new counts the frame, if there is memory for it. *)
Referred(context) == [ddContexts[context] EXCEPT !.refs = @ + 1]

DfNew(th, context, table, memory, then) ==
  IF memory
  THEN /\ Len(ddFrames) < DdFrames
       /\ ddFrames' = Append(ddFrames, [context |-> context, table |-> table])
       /\ ddContexts' = [ddContexts EXCEPT ![context] = Referred(context)]
       /\ Goto(th, [then EXCEPT !.frame = Len(ddFrames) + 1])
  ELSE UNCHANGED <<ddFrames, ddContexts>> /\ Goto(th, then)

MakeFrame(th, memory) ==   \* of uxdf_open_memory, open_database, load_csv, load_parquet
  /\ ddCalls[th].at = "made"
  /\ DfNew(th, ddCalls[th].context, ddCalls[th].table, memory, [ddCalls[th] EXCEPT !.at = "framed"])
  /\ UNCHANGED <<ddLoaded, ddTables, matrixVars>>

(* ctx_unref: the decrement says which of the threads closes. *)
Unreferred(c) ==
  IF c.refs = 1 THEN [refs |-> 0, database |-> FALSE, connection |-> FALSE]
  ELSE [c EXCEPT !.refs = @ - 1]
Unref(context) == ddContexts' = [ddContexts EXCEPT ![context] = Unreferred(@)]

(* The call gives up its own reference; a call that loads a file goes on. *)
DropOwn(th, load) ==
  /\ ddCalls[th].at = "framed"
  /\ Unref(ddCalls[th].context)
  /\ Goto(th, IF load THEN [ddCalls[th] EXCEPT !.at = "load", !.uses = {ddCalls[th].frame} \ {0}]
              ELSE NoCall)
  /\ UNCHANGED <<ddLoaded, ddFrames, ddTables, matrixVars>>

(* exec_sql refuses no frame; a file that cannot be read frees the frame. *)
LoadFile(th, ok) ==
  /\ ddCalls[th].at = "load"
  /\ IF ddCalls[th].frame = 0 \/ ok THEN UNCHANGED <<ddContexts, ddFrames>>
     ELSE /\ Unref(ddCalls[th].context)
          /\ ddFrames' = [ddFrames EXCEPT ![ddCalls[th].frame] = Gone]
  /\ Goto(th, NoCall)
  /\ UNCHANGED <<ddLoaded, ddTables, matrixVars>>

(* uxdf_query and table_expr: head, select, filter, order by, describe, group. *)
QuerySql(th, f, ok) ==
  /\ Idle(th) /\ f \in Known /\ ddTables < DdQueries
  /\ ddTables' = ddTables + 1
  /\ IF ok THEN Goto(th, [NoCall EXCEPT !.at = "queried", !.context = ddFrames[f].context,
                                        !.uses = {f}, !.table = ddTables + 1])
     ELSE UNCHANGED ddCalls
  /\ UNCHANGED <<ddLoaded, ddContexts, ddFrames, matrixVars>>

(* uxdf_join_inner: frames of two contexts are refused. *)
JoinInner(th, l, r) ==
  /\ Idle(th) /\ {l, r} \subseteq Known /\ ddFrames[l].context = ddFrames[r].context
  /\ ddTables < DdQueries
  /\ ddTables' = ddTables + 1
  /\ Goto(th, [NoCall EXCEPT !.at = "queried", !.context = ddFrames[l].context,
                             !.uses = {l, r}, !.table = ddTables + 1])
  /\ UNCHANGED <<ddLoaded, ddContexts, ddFrames, matrixVars>>

QueryFrame(th, memory) ==
  /\ ddCalls[th].at = "queried"
  /\ DfNew(th, ddCalls[th].context, ddCalls[th].table, memory, [NoCall EXCEPT !.at = "return"])
  /\ UNCHANGED <<ddLoaded, ddTables, matrixVars>>
ReturnFrame(th) ==
  /\ ddCalls[th].at = "return"
  /\ Goto(th, NoCall)
  /\ UNCHANGED <<ddLoaded, ddContexts, ddFrames, ddTables, matrixVars>>

(* uxdf_free; the thread that got the frame knows it before another does. *)
FreeFrame(th, f) ==
  /\ Idle(th) /\ f \in Known \ Used
  /\ Unref(ddFrames[f].context)
  /\ ddFrames' = [ddFrames EXCEPT ![f] = Gone]
  /\ UNCHANGED <<ddLoaded, ddTables, ddCalls, matrixVars>>

(* exec_sql and query_cell: the calls that only ask or write out.  The result  *)
(* of a query is destroyed before the return, whether it failed or not.      *)
ReadFrame(th, f) ==
  /\ Idle(th) /\ f \in Known
  /\ Goto(th, [NoCall EXCEPT !.at = "return", !.context = ddFrames[f].context, !.uses = {f}])
  /\ UNCHANGED <<ddLoaded, ddContexts, ddFrames, ddTables, matrixVars>>

(* uxdf_to_f64_matrix asks for the size first; a frame that has no columns, or *)
(* that a query fails for, has no matrix.                                    *)
SizeMatrix(th, f, sized) ==
  /\ Idle(th) /\ f \in Known /\ ddMatrices < DdMatrices
  /\ Goto(th, [NoCall EXCEPT !.at = IF sized THEN "sized" ELSE "return",
                             !.context = ddFrames[f].context, !.uses = {f}])
  /\ UNCHANGED <<ddLoaded, ddContexts, ddFrames, ddTables, matrixVars>>

(* The record and its numbers are two blocks; without the second there is none. *)
AllocMatrix(th, memory) ==
  /\ ddCalls[th].at = "sized"
  /\ Goto(th, IF memory THEN [ddCalls[th] EXCEPT !.at = "filling"]
              ELSE [ddCalls[th] EXCEPT !.at = "return"])
  /\ ddBlocks' = ddBlocks + (IF memory THEN 2 ELSE 0)
  /\ UNCHANGED <<ddLoaded, ddContexts, ddFrames, ddTables, ddMatrices>>

FillMatrix(th, selected) ==
  /\ ddCalls[th].at = "filling"
  /\ Goto(th, NoCall)
  /\ IF selected THEN ddMatrices' = ddMatrices + 1 /\ UNCHANGED ddBlocks
     ELSE ddBlocks' = ddBlocks - 2 /\ UNCHANGED ddMatrices
  /\ UNCHANGED <<ddLoaded, ddContexts, ddFrames, ddTables>>

FreeMatrix(th) ==
  /\ Idle(th) /\ ddMatrices > 0
  /\ ddMatrices' = ddMatrices - 1 /\ ddBlocks' = ddBlocks - 2
  /\ UNCHANGED <<ddLoaded, ddContexts, ddFrames, ddTables, ddCalls>>

DdInit ==
  /\ ddMatrices = 0 /\ ddBlocks = 0
  /\ ddLoaded = FALSE /\ ddContexts = <<>> /\ ddFrames = <<>> /\ ddTables = 0
  /\ ddCalls = [th \in DdThreads |-> NoCall]

DdNext ==
  \E th \in DdThreads :
    \/ \E b \in BOOLEAN :
         \/ LoadDuckdb(th, b) \/ MakeFrame(th, b) \/ DropOwn(th, b) \/ LoadFile(th, b) \/ QueryFrame(th, b)
         \/ AllocMatrix(th, b) \/ FillMatrix(th, b)
         \/ \E f \in 1..DdFrames : SizeMatrix(th, f, b)
         \/ \E connected \in BOOLEAN : CtxCreate(th, b, connected)
         \/ \E f \in 1..DdFrames : QuerySql(th, f, b)
    \/ \E l, r \in 1..DdFrames : JoinInner(th, l, r)
    \/ ReturnFrame(th) \/ FreeMatrix(th)
    \/ \E f \in 1..DdFrames : FreeFrame(th, f) \/ ReadFrame(th, f)

DdSpec == DdInit /\ [][DdNext]_ddVars

-----------------------------------------------------------------------------
(* Properties *)

(* A connection is open, with its database, exactly as long as a frame or the  *)
(* call that made it has it, so that no call works on a closed one and none   *)
(* is left open when the program has freed its frames; whichever step failed  *)
(* and whatever threads did meanwhile.  No two frames are one table.  A        *)
(* matrix has both its blocks, and one that could not be filled has none.    *)
DuckContextsExact ==
  /\ \A c \in DOMAIN ddContexts :
       LET making == {th \in DdThreads : ddCalls[th].at \in {"made", "framed"}
                                         /\ ddCalls[th].context = c}
           frames == {f \in Live : ddFrames[f].context = c}
       IN  /\ ddContexts[c].refs = Cardinality(making) + Cardinality(frames)
           /\ ddContexts[c].connection = (making \cup frames # {})
           /\ ddContexts[c].database = ddContexts[c].connection
  /\ \A th \in DdThreads : ddCalls[th].uses \subseteq Live
  /\ ddBlocks = 2 * ddMatrices + 2 * Cardinality({th \in DdThreads : ddCalls[th].at = "filling"})
  /\ \A f, g \in Live : ddFrames[f].table = ddFrames[g].table => f = g

=============================================================================
