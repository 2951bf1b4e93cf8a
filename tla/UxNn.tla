-------------------------------- MODULE UxNn --------------------------------
(***************************************************************************)
(* Neural networks (src/runtime_ext/uxnn/uxnn.c): layers that the program    *)
(* makes and gives to a network, which passes numbers forward through two    *)
(* buffers and is trained with the squared error, sample by sample.  Numbers *)
(* are whole, so that of the activations the linear one and RELU are here,   *)
(* the learning rate is 1 and the sizes divide two; random weights follow a  *)
(* pattern.  There is memory, and a layer is given to a network once, before   *)
(* it is trained.                                                          *)
(***************************************************************************)
EXTENDS Integers, Sequences, FiniteSets, SequencesExt, FiniteSetsExt

CONSTANTS
  NnSizes,         \* bound: the numbers that layers take and give
  NnActivations,   \* bound: of "linear" and "relu"
  NnPatterns,      \* bound: the random weights that layers are started with
  NnBiases,        \* bound: the biases that are set
  NnBiased,        \* bound: the outputs of a layer that get one
  NnSamples,       \* bound: the inputs and the targets, sequences of numbers
  NnDepth,         \* bound: the layers of a network, as many as memory in the code
  NnCapacity,      \* the layers a new network has room for, 4 in the code
  NnTrainings      \* bound: how often a network is trained

ASSUME NnAssumption ==
  /\ NnSizes \subseteq 1..2 /\ NnActivations \subseteq {"linear", "relu"}
  /\ NnBiases \subseteq Int /\ NnPatterns \subseteq Int
  /\ \A sample \in NnSamples : sample \in Seq(Int)
  /\ {NnDepth, NnCapacity, NnTrainings} \subseteq Nat /\ NnCapacity > 0

VARIABLES
  nnLayer,     \* the layer that the program has and no network, or NoLayer
  nnNet,       \* a network: layers, cap, buf_cap
  nnTrained,   \* how often it was trained
  nnBefore     \* for the property: its layers before that, and the sample

nnVars == <<nnLayer, nnNet, nnTrained, nnBefore>>

-----------------------------------------------------------------------------
NoLayer == [dense |-> FALSE, in |-> 0, out |-> 0, act |-> "linear", w |-> <<>>, b |-> <<>>]
SumTo(n, F(_)) == FoldLeft(LAMBDA s, i : s + F(i), 0, [i \in 1..n |-> i])

(* uxnn_act and its derivative. *)
Activation(act, z) == IF act = "relu" /\ z <= 0 THEN 0 ELSE z
Slope(act, z) == IF act = "relu" /\ z <= 0 THEN 0 ELSE 1

(* uxnn_layer_forward_ptr: what a layer gives, and what it keeps for training. *)
LayerForward(l, x) ==
  LET z == IF l.dense THEN [o \in 1..l.out |-> SumTo(l.in, LAMBDA i : l.w[o][i] * x[i]) + l.b[o]]
           ELSE x
  IN  [input |-> x, z |-> z, a |-> [o \in 1..l.out |-> Activation(l.act, z[o])]]

(* Mutant of BufferOf: one buffer for all the layers but the last. *)
BufferOfOne(li, n) == IF li = n THEN "output" ELSE "a"

(* Where the layer li of n leaves what it gives: its input is not there. *)
BufferOf(li, n) == IF li = n THEN "output" ELSE IF li % 2 = 1 THEN "a" ELSE "b"

(* uxnn_network_forward_ptr: every layer reads where the one before it wrote;   *)
(* a layer that wrote where it reads would see its own numbers.               *)
NetworkForward(layers, x) ==
  LET n == Len(layers)
      Step(s, li) ==
        LET next == BufferOf(li, n)
            f == LayerForward(layers[li], s.buffers[s.cur])
        IN  [cur |-> next, clash |-> s.clash \/ next = s.cur,
             buffers |-> [s.buffers EXCEPT ![next] = f.a], kept |-> Append(s.kept, f)]
      start == [cur |-> "input", clash |-> FALSE, kept |-> <<>>,
                buffers |-> [at \in {"input", "a", "b", "output"} |-> IF at = "input" THEN x ELSE <<>>]]
  IN  FoldLeft(Step, start, [li \in 1..n |-> li])

OutputOf(layers, x) == NetworkForward(layers, x).buffers["output"]

(* uxnn_network_predict_argmax_ptr: the first of the greatest, from 0. *)
PredictArgmax(layers, x) ==
  LET out == OutputOf(layers, x)
  IN  FoldLeft(LAMBDA best, i : IF out[i] > out[best] THEN i ELSE best, 1, [i \in DOMAIN out |-> i]) - 1

(* uxnn_network_mse_ptr, times the samples and the outputs. *)
SquaredError(layers, samples) ==
  FoldLeft(LAMBDA s, sample :
             s + SumTo(Len(sample.y), LAMBDA j : (OutputOf(layers, sample.x)[j] - sample.y[j])
                                                 * (OutputOf(layers, sample.x)[j] - sample.y[j])),
           0, samples)

(* The errors of the layers, from the last to the first.  A layer without      *)
(* weights passes none on.                                                   *)
Deltas(layers, kept, y) ==
  LET n == Len(layers)
      outSize == layers[n].out
      lastDelta == [j \in 1..outSize |->
                      ((2 * (kept[n].a[j] - y[j])) \div outSize) * Slope(layers[n].act, kept[n].z[j])]
      Hidden(li, after) ==
        [i \in 1..layers[li].out |->
           (IF layers[li + 1].dense
            THEN SumTo(layers[li + 1].out, LAMBDA j : layers[li + 1].w[j][i] * after[j])
            ELSE 0) * Slope(layers[li].act, kept[li].z[i])]
  IN  FoldLeft(LAMBDA ds, k : <<Hidden(n - k, ds[1])>> \o ds, <<lastDelta>>, [k \in 1..(n - 1) |-> k])

(* The step of uxnn_network_train_mse_sgd_ptr for one sample: all the errors    *)
(* first, with the weights that the sample was passed through.                *)
TrainedOn(layers, sample) ==
  LET kept == NetworkForward(layers, sample.x).kept
      delta == Deltas(layers, kept, sample.y)
  IN  [li \in DOMAIN layers |->
         IF ~layers[li].dense THEN layers[li]
         ELSE [layers[li] EXCEPT
                 !.w = [o \in DOMAIN @ |-> [i \in DOMAIN @[o] |-> @[o][i] - delta[li][o] * kept[li].input[i]]],
                 !.b = [o \in DOMAIN @ |-> @[o] - delta[li][o]]]]

-----------------------------------------------------------------------------
(* uxnn_layer_dense_create, uxnn_layer_activation_create: the weights are 0. *)
LayerCreate(dense, in, out, act) ==
  /\ nnLayer = NoLayer /\ Len(nnNet.layers) < NnDepth /\ (~dense => in = out)
  /\ nnLayer' = [dense |-> dense, in |-> in, out |-> out, act |-> act,
                 w |-> IF dense THEN [o \in 1..out |-> [i \in 1..in |-> 0]] ELSE <<>>,
                 b |-> IF dense THEN [o \in 1..out |-> 0] ELSE <<>>]
  /\ UNCHANGED <<nnNet, nnTrained, nnBefore>>

LayerFree ==
  /\ nnLayer # NoLayer /\ nnLayer' = NoLayer
  /\ UNCHANGED <<nnNet, nnTrained, nnBefore>>

(* uxnn_layer_init: random weights, and no bias whatever was set before. *)
LayerInit(pattern) ==
  /\ nnLayer.dense
  /\ nnLayer' = [nnLayer EXCEPT
       !.w = [o \in DOMAIN @ |-> [i \in DOMAIN @[o] |-> ((pattern * o + i) % 3) - 1]],
       !.b = [o \in DOMAIN @ |-> 0]]
  /\ UNCHANGED <<nnNet, nnTrained, nnBefore>>
LayerSetBias(o, v) ==
  /\ nnLayer.dense /\ o \in DOMAIN nnLayer.b
  /\ nnLayer' = [nnLayer EXCEPT !.b[o] = v]
  /\ UNCHANGED <<nnNet, nnTrained, nnBefore>>

NewNetwork == [layers |-> <<>>, cap |-> NnCapacity, bufCap |-> 0]

(* uxnn_network_reserve: twice the room, or as much as is asked for. *)
Reserved(cap, c) == IF c <= cap THEN cap ELSE IF 2 * cap < c THEN c ELSE 2 * cap

(* uxnn_network_add_layer: the layer is the network's, unless it does not fit. *)
AddLayer ==
  /\ nnLayer # NoLayer /\ nnTrained = 0
  /\ nnNet.layers # <<>> => Last(nnNet.layers).out = nnLayer.in
  /\ nnNet' = [nnNet EXCEPT !.cap = Reserved(@, Len(nnNet.layers) + 1),
                            !.layers = Append(@, nnLayer)]
  /\ nnLayer' = NoLayer
  /\ UNCHANGED <<nnTrained, nnBefore>>

NetworkFree ==
  /\ nnNet.layers # <<>>
  /\ nnNet' = NewNetwork /\ nnTrained' = 0 /\ nnBefore' = [layers |-> <<>>, sample |-> <<>>]
  /\ UNCHANGED nnLayer

(* uxnn_ensure_buffers, which comes before the first layer is passed. *)
BuffersEnsured(net) ==
  LET sizes == {net.layers[i].in : i \in DOMAIN net.layers} \cup {net.layers[i].out : i \in DOMAIN net.layers}
  IN  [net EXCEPT !.bufCap = Max({@} \cup sizes)]

(* One sample and one epoch: more of them are more calls. *)
TrainSgd(x, y) ==
  /\ nnNet.layers # <<>> /\ nnTrained < NnTrainings
  /\ Len(x) = nnNet.layers[1].in /\ Len(y) = Last(nnNet.layers).out
  /\ nnNet' = [BuffersEnsured(nnNet) EXCEPT !.layers = TrainedOn(@, [x |-> x, y |-> y])]
  /\ nnTrained' = nnTrained + 1
  /\ nnBefore' = [layers |-> nnNet.layers, sample |-> [x |-> x, y |-> y]]
  /\ UNCHANGED nnLayer

NnInit ==
  /\ nnLayer = NoLayer /\ nnNet = NewNetwork /\ nnTrained = 0
  /\ nnBefore = [layers |-> <<>>, sample |-> <<>>]

NnNext ==
  \/ \E dense \in BOOLEAN, in, out \in NnSizes, act \in NnActivations : LayerCreate(dense, in, out, act)
  \/ \E pattern \in NnPatterns : LayerInit(pattern)
  \/ \E o \in NnBiased, v \in NnBiases : LayerSetBias(o, v)
  \/ LayerFree \/ AddLayer \/ NetworkFree
  \/ \E x, y \in NnSamples : TrainSgd(x, y)

-----------------------------------------------------------------------------
(* Properties *)

(* A network computes the composition of its layers: no layer writes where it  *)
(* reads, and they fit.  Training moves every weight and bias of a network of  *)
(* linear layers against the derivative of the error: which, as the error is  *)
(* a square in each of them, half the difference of a step either way is.     *)
NetworksExact ==
  LET layers == nnBefore.layers
      sample == nnBefore.sample
      Error(ls) == SquaredError(ls, <<sample>>)
      Moved(li, o, i, by) ==
        IF i = 0 THEN [layers EXCEPT ![li].b[o] = @ + by] ELSE [layers EXCEPT ![li].w[o][i] = @ + by]
      Of(l, o, i) == IF i = 0 THEN l.b[o] ELSE l.w[o][i]
  IN  /\ \A k \in 1..(Len(nnNet.layers) - 1) : nnNet.layers[k].out = nnNet.layers[k + 1].in
      /\ Len(nnNet.layers) <= nnNet.cap
      /\ nnTrained > 0 =>
           LET forward == NetworkForward(layers, sample.x)
           IN  /\ ~forward.clash
               /\ OutputOf(layers, sample.x)
                    = FoldLeft(LAMBDA x, l : LayerForward(l, x).a, sample.x, layers)
               /\ \A k \in DOMAIN layers : {layers[k].in, layers[k].out} \subseteq 1..nnNet.bufCap
               /\ LET out == OutputOf(layers, sample.x) IN
                    /\ \A j \in DOMAIN out : out[j] <= out[PredictArgmax(layers, sample.x) + 1]
                    /\ \A j \in 1..PredictArgmax(layers, sample.x) :
                         out[j] < out[PredictArgmax(layers, sample.x) + 1]
      /\ nnTrained > 0 /\ (\A k \in DOMAIN layers : layers[k].dense /\ layers[k].act = "linear") =>
           \A li \in DOMAIN layers : \A o \in 1..layers[li].out : \A i \in 0..layers[li].in :
             2 * Last(layers).out * (Of(layers[li], o, i) - Of(nnNet.layers[li], o, i))
               = Error(Moved(li, o, i, 1)) - Error(Moved(li, o, i, -1))

=============================================================================
