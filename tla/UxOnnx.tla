-------------------------------- MODULE UxOnnx --------------------------------
(***************************************************************************)
(* Inference sessions (src/runtime_ext/uxonnx2/uxonnx2.c), in the build that  *)
(* loads ONNX Runtime: sessions, tensors, runs that name the inputs and      *)
(* outputs of a session, and results, which own their tensors.  One thread   *)
(* calls.  The program frees an object once and runs only what is alive; the  *)
(* runtime is external, and any of its calls may fail.  The elements of a     *)
(* tensor, texts and the shapes of a model are left out.                     *)
(***************************************************************************)
EXTENDS Integers, Sequences, FiniteSets, SequencesExt

CONSTANTS
  OxMaxIo,      \* UXONNX2_MAX_IO, 32 in the code
  OxSessions, OxTensors, OxRuns, OxResults,   \* bounds: the objects that are made
  OxTypes       \* the element types: "string" and others

ASSUME OxAssumption == {OxMaxIo, OxSessions, OxTensors, OxRuns, OxResults} \subseteq Nat

VARIABLES
  oxLoaded,     \* g_ort
  oxSessions,   \* of each session ever made, the objects of the runtime it has
  oxTensors,    \* the tensors ever made: element type, alive
  oxRuns,       \* the runs ever made: session, inputs, outputs counted, alive
  oxResults,    \* the results ever made: their tensors, alive
  oxValues,     \* the OrtValues the runtime has: number |-> the tensor lent, or 0
  oxCall        \* the run that executes and its locals, or NotRunning

oxVars == <<oxLoaded, oxSessions, oxTensors, oxRuns, oxResults, oxValues, oxCall>>
oxObjects == <<oxLoaded, oxSessions, oxRuns>>

-----------------------------------------------------------------------------
NotRunning == [run |-> 0, at |-> "none", inputs |-> <<>>, outputs |-> <<>>, tensors |-> <<>>]
Free == oxCall = NotRunning

AliveIn(table) == {i \in DOMAIN table : table[i].alive}
Owned == UNION {ToSet(oxResults[r].tensors) : r \in AliveIn(oxResults)}   \* by a result

(* uxonnx2_init: every step that fails unloads the library. *)
InitOrt(found) ==
  /\ Free /\ ~oxLoaded
  /\ oxLoaded' = found
  /\ UNCHANGED <<oxSessions, oxTensors, oxRuns, oxResults, oxValues, oxCall>>

(* session_create_advanced: the calls of the runtime in their order and what  *)
(* each makes; session_free gives back what was made.                        *)
CreateSteps == <<{"env"}, {"options"}, {}, {}, {}, {}, {"session"}, {}>>
SessionObjects(done) == UNION {CreateSteps[i] : i \in 1..done}

(* Mutant of SessionFreed: the environment is taken for a shared one. *)
SessionFreedShared(objects) == objects \ {"session", "options"}

(* uxonnx2_session_free *)
SessionFreed(objects) == objects \ {"session", "options", "env"}

SessionCreate(done) ==
  /\ Free /\ oxLoaded /\ Len(oxSessions) < OxSessions
  /\ LET objects == SessionObjects(done)
         whole == done = Len(CreateSteps)
     IN  oxSessions' = Append(oxSessions,
           [objects |-> IF whole THEN objects ELSE SessionFreed(objects), alive |-> whole])
  /\ UNCHANGED <<oxLoaded, oxTensors, oxRuns, oxResults, oxValues, oxCall>>

SessionFree(s) ==
  /\ Free /\ s \in AliveIn(oxSessions)
  /\ oxSessions' = [oxSessions EXCEPT ![s] = [objects |-> SessionFreed(@.objects), alive |-> FALSE]]
  /\ UNCHANGED <<oxLoaded, oxTensors, oxRuns, oxResults, oxValues, oxCall>>

(* tensor_create; memory may run out, and a shape without elements is refused. *)
TensorCreate(type) ==
  /\ Free /\ Len(oxTensors) < OxTensors
  /\ oxTensors' = Append(oxTensors, [type |-> type, alive |-> TRUE])
  /\ UNCHANGED <<oxObjects, oxResults, oxValues, oxCall>>

TensorFree(t) ==   \* a tensor of a result is the result's to free
  /\ Free /\ t \in AliveIn(oxTensors) \ Owned
  /\ oxTensors' = [oxTensors EXCEPT ![t].alive = FALSE]
  /\ UNCHANGED <<oxObjects, oxResults, oxValues, oxCall>>

(* A run keeps pointers: to its session and to the tensors of its inputs. *)
RunCreate(s) ==
  /\ Free /\ s \in AliveIn(oxSessions) /\ Len(oxRuns) < OxRuns
  /\ oxRuns' = Append(oxRuns, [session |-> s, inputs |-> <<>>, outputs |-> 0, alive |-> TRUE])
  /\ UNCHANGED <<oxLoaded, oxSessions, oxTensors, oxResults, oxValues, oxCall>>

RunFree(r) ==
  /\ Free /\ r \in AliveIn(oxRuns)
  /\ oxRuns' = [oxRuns EXCEPT ![r].alive = FALSE]
  /\ UNCHANGED <<oxLoaded, oxSessions, oxTensors, oxResults, oxValues, oxCall>>

AddInput(r, t) ==
  /\ Free /\ r \in AliveIn(oxRuns) /\ t \in AliveIn(oxTensors)
  /\ Len(oxRuns[r].inputs) < OxMaxIo
  /\ oxRuns' = [oxRuns EXCEPT ![r].inputs = Append(@, t)]
  /\ UNCHANGED <<oxLoaded, oxSessions, oxTensors, oxResults, oxValues, oxCall>>

AddOutput(r) ==
  /\ Free /\ r \in AliveIn(oxRuns) /\ oxRuns[r].outputs < OxMaxIo
  /\ oxRuns' = [oxRuns EXCEPT ![r].outputs = @ + 1]
  /\ UNCHANGED <<oxLoaded, oxSessions, oxTensors, oxResults, oxValues, oxCall>>

-----------------------------------------------------------------------------
(* run_execute, up to the next call of the runtime; run1 makes a run, executes *)
(* it and frees it.                                                          *)
Fresh(k) == [i \in 1..k |-> Max(DOMAIN oxValues \cup {0}) + i]   \* numbers of no value
WithoutValues(values) == [v \in DOMAIN oxValues \ values |-> oxValues[v]]

Execute(r) ==
  /\ Free /\ r \in AliveIn(oxRuns) /\ Len(oxResults) < OxResults
  /\ oxRuns[r].session \in AliveIn(oxSessions)
  /\ ToSet(oxRuns[r].inputs) \subseteq AliveIn(oxTensors)
  /\ oxRuns[r].inputs # <<>> /\ oxRuns[r].outputs > 0
  /\ oxCall' = [NotRunning EXCEPT !.run = r, !.at = "inputs"]
  /\ UNCHANGED <<oxObjects, oxTensors, oxResults, oxValues>>

(* The label fail: everything that inputs and outputs still hold is released. *)
Fail ==
  /\ oxValues' = WithoutValues(ToSet(oxCall.inputs) \cup ToSet(oxCall.outputs))
  /\ oxCall' = NotRunning

(* tensor_to_ort: numbers are lent to the runtime, strings are copied, and a   *)
(* value that cannot be filled is released again.                            *)
ToOrt(ok) ==
  LET run == oxRuns[oxCall.run]
      next == Len(oxCall.inputs) + 1
      value == Fresh(1)[1]
  IN  /\ oxCall.at = "inputs" /\ next <= Len(run.inputs)
      /\ IF ok
         THEN LET t == run.inputs[next]
                  lent == IF oxTensors[t].type = "string" THEN 0 ELSE t
              IN  /\ oxValues' = [v \in DOMAIN oxValues \cup {value} |->
                                    IF v = value THEN lent ELSE oxValues[v]]
                  /\ oxCall' = [oxCall EXCEPT !.inputs = Append(@, value)]
         ELSE Fail
      /\ UNCHANGED <<oxObjects, oxTensors, oxResults>>

(* The runtime makes a value for each output, or none. *)
OrtRun(ok) ==
  LET run == oxRuns[oxCall.run]
      made == Fresh(run.outputs)
  IN  /\ oxCall.at = "inputs" /\ Len(oxCall.inputs) = Len(run.inputs)
      /\ IF ok
         THEN /\ oxValues' = [v \in DOMAIN oxValues \cup ToSet(made) |->
                                IF v \in ToSet(made) THEN 0 ELSE oxValues[v]]
              /\ oxCall' = [oxCall EXCEPT !.at = "outputs", !.outputs = made]
         ELSE Fail
      /\ UNCHANGED <<oxObjects, oxTensors, oxResults>>

(* ort_to_tensor copies; the value is released whether it could be or not.  A  *)
(* scalar cannot: tensor_create refuses a shape of rank 0.                   *)
FromOrt(type, ok) ==
  LET value == Head(oxCall.outputs)
      made == Append(oxCall.tensors, Len(oxTensors) + 1)
  IN  /\ oxCall.at = "outputs" /\ oxCall.outputs # <<>>
      /\ IF ok
         THEN /\ Len(oxTensors) < OxTensors
              /\ oxTensors' = Append(oxTensors, [type |-> type, alive |-> TRUE])
              /\ oxValues' = WithoutValues({value})
              /\ oxCall' = [oxCall EXCEPT !.outputs = Tail(@), !.tensors = made]
         ELSE /\ oxTensors' = [t \in DOMAIN oxTensors |->   \* result_free
                 IF t \in ToSet(oxCall.tensors) THEN [oxTensors[t] EXCEPT !.alive = FALSE]
                 ELSE oxTensors[t]]
              /\ Fail
      /\ UNCHANGED <<oxObjects, oxResults>>

Finish ==
  /\ oxCall.at = "outputs" /\ oxCall.outputs = <<>>
  /\ oxResults' = Append(oxResults, [tensors |-> oxCall.tensors, alive |-> TRUE])
  /\ oxValues' = WithoutValues(ToSet(oxCall.inputs))
  /\ oxCall' = NotRunning
  /\ UNCHANGED <<oxObjects, oxTensors>>

FreeResult(r) ==
  /\ Free /\ r \in AliveIn(oxResults)
  /\ oxResults' = [oxResults EXCEPT ![r].alive = FALSE]
  /\ oxTensors' = [t \in DOMAIN oxTensors |->
                     IF t \in ToSet(oxResults[r].tensors) THEN [oxTensors[t] EXCEPT !.alive = FALSE]
                     ELSE oxTensors[t]]
  /\ UNCHANGED <<oxObjects, oxValues, oxCall>>

OxInit ==
  /\ oxLoaded = FALSE /\ oxCall = NotRunning
  /\ oxSessions = <<>> /\ oxTensors = <<>> /\ oxRuns = <<>> /\ oxResults = <<>> /\ oxValues = <<>>

OxNext ==
  \/ \E b \in BOOLEAN : InitOrt(b) \/ ToOrt(b) \/ OrtRun(b)
  \/ \E done \in 0..Len(CreateSteps) : SessionCreate(done)
  \/ \E s \in 1..OxSessions : SessionFree(s) \/ RunCreate(s)
  \/ \E type \in OxTypes : TensorCreate(type) \/ \E b \in BOOLEAN : FromOrt(type, b)
  \/ \E t \in 1..OxTensors : TensorFree(t) \/ \E r \in 1..OxRuns : AddInput(r, t)
  \/ \E r \in 1..OxRuns : RunFree(r) \/ AddOutput(r) \/ Execute(r)
  \/ Finish
  \/ \E r \in 1..OxResults : FreeResult(r)

OxSpec == OxInit /\ [][OxNext]_oxVars

-----------------------------------------------------------------------------
(* Properties *)

(* Whichever call of the runtime fails: a session that was refused has left    *)
(* nothing open; the values in the runtime are the ones the execution still   *)
(* holds, none outside an execution; numbers are lent to the runtime only      *)
(* while their tensor is alive; and a tensor has one owner, so that the        *)
(* tensors of a result are alive until it is freed and are freed once.        *)
OnnxObjectsExact ==
  /\ \A s \in DOMAIN oxSessions :
       oxSessions[s].objects = IF oxSessions[s].alive THEN {"env", "options", "session"} ELSE {}
  /\ DOMAIN oxValues = ToSet(oxCall.inputs) \cup ToSet(oxCall.outputs)
  /\ Cardinality(DOMAIN oxValues) = Len(oxCall.inputs) + Len(oxCall.outputs)
  /\ \A v \in DOMAIN oxValues : oxValues[v] # 0 => oxTensors[oxValues[v]].alive
  /\ \A r \in AliveIn(oxResults) :
       /\ ToSet(oxResults[r].tensors) \subseteq AliveIn(oxTensors) \ ToSet(oxCall.tensors)
       /\ oxResults[r].tensors # <<>> /\ IsInjective(oxResults[r].tensors)
       /\ \A o \in AliveIn(oxResults) \ {r} :
            ToSet(oxResults[r].tensors) \cap ToSet(oxResults[o].tensors) = {}

=============================================================================
