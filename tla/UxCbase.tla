------------------------------- MODULE UxCbase -------------------------------
(***************************************************************************)
(* Three wrappers of one kind: databases (src/runtime_ext/uxsqlite/          *)
(* uxsqlite.c), patterns (src/runtime_ext/uxregex/uxregex.c) and JSON         *)
(* documents (src/runtime_ext/uxjson/uxjson.c).  A handle is the address of a *)
(* record; one thread calls, and the program uses no handle that it closed.   *)
(* SQLite, PCRE2 and yyjson are external, and each of their calls may fail.   *)
(* The rows of a result, texts and messages are left out.                    *)
(***************************************************************************)
EXTENDS Integers, Sequences, FiniteSets

CONSTANTS
  CsDatabases, CsStatements, CsPatterns, CsDocuments,   \* bounds: the handles made
  CsParameters,   \* the parameters of a statement
  CsLengths,      \* bound: the lengths of the subjects that are matched
  CsGroups,       \* bound: the groups of a pattern, the whole match counted
  CsWidth         \* of the integers of JSON, 64 in the code

ASSUME CsAssumption ==
  /\ {CsDatabases, CsStatements, CsPatterns, CsDocuments, CsGroups} \subseteq Nat
  /\ CsLengths \subseteq Nat /\ CsWidth \in Nat \ {0}
  /\ 2^CsWidth \in Nat   \* so it is; the provers know nothing of powers

VARIABLES
  csDatabases,   \* uxsqlite_db: is the handle open; external: is the connection
  csStatements,  \* uxsqlite_stmt: owner, has it an object of SQLite, row, bound, open
  csWild,        \* for the property: a message went to the record of a closed handle
  csPatterns,    \* uxregex_handle: its objects of PCRE2, last_rc, the spans, open
  csSubjects,    \* for the property: the length of the subject each matched last
  csDocuments    \* uxjson_doc_handle: the number of the document, the text written

sqliteVars == <<csDatabases, csStatements, csWild>>
regexVars == <<csPatterns, csSubjects>>
csVars == <<sqliteVars, regexVars, csDocuments>>

-----------------------------------------------------------------------------
(* Databases *)

OpenDatabases == {d \in DOMAIN csDatabases : csDatabases[d].open}
OpenStatements == {s \in DOMAIN csStatements : csStatements[s].open}
Prepared(stmts, d) ==
  {s \in DOMAIN stmts : stmts[s].open /\ stmts[s].stmt /\ stmts[s].owner = d}

(* sqlite3_close_v2: a connection that statements use is closed after them. *)
Connected(dbs, stmts) ==
  [d \in DOMAIN dbs |-> [dbs[d] EXCEPT !.connection = @ /\ (dbs[d].open \/ Prepared(stmts, d) # {})]]

(* A connection that could not be opened is closed, and the record is freed. *)
DbOpen(ok) ==
  /\ Len(csDatabases) < CsDatabases
  /\ csDatabases' = Append(csDatabases, [open |-> ok, connection |-> ok, left |-> FALSE])
  /\ UNCHANGED <<csStatements, csWild, regexVars, csDocuments>>

(* The record goes whether statements point to it or not. *)
DbClose(d) ==
  /\ d \in OpenDatabases
  /\ csDatabases' = Connected([csDatabases EXCEPT ![d].open = FALSE,
       ![d].left = \E s \in OpenStatements : csStatements[s].owner = d], csStatements)
  /\ UNCHANGED <<csStatements, csWild, regexVars, csDocuments>>

(* Mutant of DbPrepare: a statement that is not accepted keeps its record. *)
DbPrepareKeeps(d, ok, some) ==
  /\ d \in OpenDatabases /\ Len(csStatements) < CsStatements
  /\ csStatements' = Append(csStatements,
       [owner |-> d, stmt |-> some, row |-> FALSE, bound |-> {}, open |-> TRUE, accepted |-> ok])
  /\ UNCHANGED <<csDatabases, csWild, regexVars, csDocuments>>

(* uxsqlite_prepare: a text without a statement is accepted and has no object. *)
DbPrepare(d, ok, some) ==
  /\ d \in OpenDatabases /\ Len(csStatements) < CsStatements
  /\ csStatements' = Append(csStatements,
       [owner |-> d, stmt |-> ok /\ some, row |-> FALSE, bound |-> {}, open |-> ok, accepted |-> ok])
  /\ UNCHANGED <<csDatabases, csWild, regexVars, csDocuments>>

StmtFinalize(s) ==
  /\ s \in OpenStatements
  /\ csStatements' = [csStatements EXCEPT ![s].open = FALSE]
  /\ csDatabases' = Connected(csDatabases, csStatements')
  /\ UNCHANGED <<csWild, regexVars, csDocuments>>

(* bind_i64, bind_f64 and bind_text: SQLite refuses while the statement runs. *)
StmtBind(s, p) ==
  /\ s \in OpenStatements /\ csStatements[s].stmt /\ ~csStatements[s].row
  /\ csStatements' = [csStatements EXCEPT ![s].bound = @ \cup {p}]
  /\ UNCHANGED <<csDatabases, csWild, regexVars, csDocuments>>

(* uxsqlite_step: a row, the end, or an error, which the owner is to show. *)
StmtStep(s, outcome) ==
  /\ s \in OpenStatements /\ csStatements[s].stmt
  /\ csStatements' = [csStatements EXCEPT ![s].row = outcome = "row"]
  /\ csWild' = (csWild \/ (outcome = "error" /\ csStatements[s].owner \notin OpenDatabases))
  /\ UNCHANGED <<csDatabases, regexVars, csDocuments>>

StmtReset(s) ==
  /\ s \in OpenStatements /\ csStatements[s].stmt
  /\ csStatements' = [csStatements EXCEPT ![s].bound = {}, ![s].row = FALSE]
  /\ UNCHANGED <<csDatabases, csWild, regexVars, csDocuments>>

-----------------------------------------------------------------------------
(* Patterns *)

OpenPatterns == {h \in DOMAIN csPatterns : csPatterns[h].open}
Unset == <<-1, -1>>

(* uxregex_compile: a pattern without memory for its matches is freed again. *)
RegexCompile(compiles, matches) ==
  /\ Len(csPatterns) < CsPatterns
  /\ LET whole == compiles /\ matches
     IN  /\ csPatterns' = Append(csPatterns,
              [objects |-> IF whole THEN {"code", "match"} ELSE {}, rc |-> 0,
               spans |-> [g \in 1..CsGroups |-> Unset], open |-> whole])
         /\ csSubjects' = Append(csSubjects, 0)
  /\ UNCHANGED <<sqliteVars, csDocuments>>

RegexFree(h) ==
  /\ h \in OpenPatterns
  /\ csPatterns' = [csPatterns EXCEPT ![h].open = FALSE, ![h].objects = {}]
  /\ UNCHANGED <<sqliteVars, csSubjects, csDocuments>>

(* uxregex_match: the number of groups that have a span, or a negative number,  *)
(* with which the spans stay as they were.                                  *)
RegexMatch(h, length, rc, from, to) ==
  /\ h \in OpenPatterns /\ from <= to /\ to <= length
  /\ csPatterns' = [csPatterns EXCEPT
       ![h].rc = rc,
       ![h].spans = IF rc < 0 THEN @ ELSE [g \in 1..CsGroups |-> IF g <= rc THEN <<from, to>> ELSE Unset]]
  /\ csSubjects' = [csSubjects EXCEPT ![h] = length]
  /\ UNCHANGED <<sqliteVars, csDocuments>>

(* Mutant of GroupSpan: the spans are shown whatever the last match said. *)
GroupSpanAny(h, group) == csPatterns[h].spans[group + 1]

(* group_start, group_end and group_text *)
GroupSpan(h, group) ==
  IF csPatterns[h].rc <= group THEN Unset ELSE csPatterns[h].spans[group + 1]

-----------------------------------------------------------------------------
(* JSON *)

OpenDocuments == {j \in DOMAIN csDocuments : csDocuments[j].open}

JsonParse(ok) ==
  /\ Len(csDocuments) < CsDocuments
  /\ csDocuments' = Append(csDocuments, [doc |-> ok, text |-> FALSE, open |-> ok])
  /\ UNCHANGED <<sqliteVars, regexVars>>

(* uxjson_write: the text before is freed, also if there is no new one. *)
JsonWrite(j, ok) ==
  /\ j \in OpenDocuments
  /\ csDocuments' = [csDocuments EXCEPT ![j].text = ok]
  /\ UNCHANGED <<sqliteVars, regexVars>>

JsonFree(j) ==
  /\ j \in OpenDocuments
  /\ csDocuments' = [csDocuments EXCEPT ![j] = [doc |-> FALSE, text |-> FALSE, open |-> FALSE]]
  /\ UNCHANGED <<sqliteVars, regexVars>>

(* A number is kept as an unsigned, a signed (negative) or a real one, this     *)
(* counted in halves here; the conversion of C wraps, or cuts towards zero.    *)
Modulus == 2^CsWidth
AsSigned(n) == LET m == n % Modulus IN IF 2 * m >= Modulus THEN m - Modulus ELSE m
Cut(halves) == IF halves < 0 THEN -((-halves) \div 2) ELSE halves \div 2
GetI64(kind, n) == IF kind = "real" THEN Cut(n) ELSE AsSigned(n)
GetU64(kind, n) ==
  IF kind = "real" THEN (IF n >= 0 THEN Cut(n) ELSE 0)
  ELSE IF kind = "signed" THEN (IF n >= 0 THEN n ELSE 0) ELSE n

-----------------------------------------------------------------------------
CsInit ==
  /\ csDatabases = <<>> /\ csStatements = <<>> /\ csWild = FALSE
  /\ csPatterns = <<>> /\ csSubjects = <<>> /\ csDocuments = <<>>

SqliteNext ==
  \/ \E ok \in BOOLEAN : DbOpen(ok)
  \/ \E d \in 1..CsDatabases :
       DbClose(d) \/ \E ok, some \in BOOLEAN : DbPrepare(d, ok, some)
  \/ \E s \in 1..CsStatements :
       \/ StmtFinalize(s) \/ StmtReset(s) \/ \E p \in CsParameters : StmtBind(s, p)
       \/ \E outcome \in {"row", "done", "error"} : StmtStep(s, outcome)

RegexNext ==
  \/ \E compiles, matches \in BOOLEAN : RegexCompile(compiles, matches)
  \/ \E h \in 1..CsPatterns :
       \/ RegexFree(h)
       \/ \E n \in CsLengths, rc \in (1..CsGroups) \cup {-1} :
            \E from, to \in 0..n : RegexMatch(h, n, rc, from, to)

JsonNext ==
  \/ \E ok \in BOOLEAN : JsonParse(ok)
  \/ \E j \in 1..CsDocuments : JsonFree(j) \/ \E ok \in BOOLEAN : JsonWrite(j, ok)

CsNext == SqliteNext \/ RegexNext \/ JsonNext
CsSpec == CsInit /\ [][CsNext]_csVars

-----------------------------------------------------------------------------
(* Properties *)

(* Whichever calls fail: a connection is open as long as its handle or a        *)
(* statement of it is, no statement is left of a text that was refused, and a  *)
(* message only goes astray if a handle was closed before its statements.      *)
DatabasesExact ==
  /\ \A d \in DOMAIN csDatabases :
       csDatabases[d].connection <=> csDatabases[d].open \/ Prepared(csStatements, d) # {}
  /\ \A s \in OpenStatements : csStatements[s].accepted
  /\ csWild => \E d \in DOMAIN csDatabases : csDatabases[d].left

(* A pattern shows the groups of its last match and none before: every span      *)
(* lies in the subject that was matched last, and without a match there is no  *)
(* span; a pattern that was refused or freed has no object left.             *)
PatternsExact ==
  \A h \in DOMAIN csPatterns :
    /\ csPatterns[h].objects = IF csPatterns[h].open THEN {"code", "match"} ELSE {}
    /\ \A g \in 0..(CsGroups - 1) :
         GroupSpan(h, g) # Unset => csPatterns[h].rc > 0 /\ GroupSpan(h, g)[2] <= csSubjects[h]

(* A document is in memory as long as its handle, and the text of it no longer; *)
(* a number in the range of the asked type is answered as it is, a real one    *)
(* without its fraction.                                                    *)
DocumentsExact ==
  /\ \A j \in DOMAIN csDocuments :
       csDocuments[j].doc = csDocuments[j].open /\ (csDocuments[j].text => csDocuments[j].doc)
  /\ csDocuments = <<>> => \A n \in (1 - Modulus)..(Modulus - 1) :
       /\ 2 * n \in -Modulus..(Modulus - 1) => GetI64(IF n < 0 THEN "signed" ELSE "unsigned", n) = n
       /\ n >= 0 => GetU64("unsigned", n) = n /\ GetU64("real", 2 * n + 1) = n
       /\ n < 0 => GetU64("signed", n) = 0 /\ GetI64("real", 2 * n - 1) = n

BaseObjectsExact == DatabasesExact /\ PatternsExact /\ DocumentsExact

=============================================================================
