------------------------------ MODULE MCNative ------------------------------
(***************************************************************************)
(* The native run time and the libraries that compute by themselves, one at *)
(* a time: they share no state, so a behaviour exercises the one that focus  *)
(* names.                                                                  *)
(***************************************************************************)
EXTENDS Console, NativeTexts, NativeFiles, Exceptions, SlotTable, Collections,
        UxGraph, UxMatrix, UxTensor, UxCollections, UxClz, UxBuffers, UxFuzzy, UxNn, UxDataset

VARIABLE focus

(* An item without and an item with a newline at its end: a character is a    *)
(* name and whether it is a newline.                                         *)
Items == {<<FALSE>>, <<FALSE, TRUE>>}

(* Tagged values of collections, the tag 4 is none, and subscripts of arrays. *)
Tagged == {<<1, 7>>, <<3, 7>>, <<4, 0>>}
Bounds == -2..2

(* Shapes of matrices and of tensors, and items of lists and queues, a number  *)
(* or a text with the priority it is queued with.                            *)
MatrixSizes == {<<2, 3>>, <<3, 3>>, <<0, 2>>}
MatrixValues == {1, -2}
TensorShapes ==
  {<<>>, <<6>>, <<2, 3>>, <<3, 2>>, <<2, 2, 2>>, <<2, 1, 2, 3>>, <<4, 4>>, <<3, 0>>, <<12>>}
BufferNumbers == {3, -3}   \* one and a half, in halves
FuzzyNumbers == -1..3
NumberTexts == [n \in UcNumbers |-> CHOOSE k \in UcKeys \ UcValues : TRUE]
ListItems == {<<1, 2>>, <<1, -1>>, <<2, 2>>, <<3, 5>>, <<1, 7>>}

(* Samples of a network; a file with a header, a missing field and a word. *)
Samples == {<<1>>, <<2, -1>>}
Line(kind, fields) == [kind |-> kind, fields |-> fields]
CsvFiles ==
  {<<Line("data", <<Word, Word>>), Line("comment", <<>>), Line("data", <<1, 2>>),
     Line("blank", <<>>), Line("data", <<3, EmptyField, 5>>), Line("data", <<1, 2>>),
     Line("data", <<6>>)>>}
RowShapes == {<<1, 1>>, <<2, 0>>}

runtimeVars == <<cnVars, txVars, nfVars, exVars, slVars, coVars>>
libraryVars == <<grGraph, mxVars, trTensor, ucVars, clzVars, bfVars, fzAsked, nnVars, dsVars>>

Init ==
  /\ focus \in {"console", "texts", "files", "exceptions", "slots", "collections", "array",
                "graph", "matrix", "tensor", "list", "queue", "hashes",
                "class types", "class objects", "buffers", "fuzzy", "network", "dataset"}
  /\ CnInit /\ TxInit /\ NfInit /\ ExInit /\ SlInit /\ CoInit
  /\ GrInit /\ MxInit /\ TrInit /\ UcInit /\ ClzInit /\ BfInit /\ FzInit
  /\ NnInit /\ DsInit

InFocus(which) == focus = which /\ UNCHANGED focus

RuntimeNext ==
  \/ InFocus("console") /\ CnNext /\ UNCHANGED <<txVars, nfVars, exVars, slVars, coVars>>
  \/ InFocus("texts") /\ TxNext /\ UNCHANGED <<cnVars, nfVars, exVars, slVars, coVars>>
  \/ InFocus("files") /\ NfNext /\ UNCHANGED <<cnVars, txVars, exVars, slVars, coVars>>
  \/ InFocus("exceptions") /\ ExNext /\ UNCHANGED <<cnVars, txVars, nfVars, slVars, coVars>>
  \/ InFocus("slots") /\ SlNext /\ UNCHANGED <<cnVars, txVars, nfVars, exVars, coVars>>
  \/ /\ \/ InFocus("collections") /\ CoTablesNext
        \/ InFocus("array") /\ CoArrayNext
     /\ UNCHANGED <<cnVars, txVars, nfVars, exVars, slVars>>

LibraryNext ==
  \/ /\ \/ InFocus("graph") /\ GrNext /\ UNCHANGED <<mxVars, trTensor>>
        \/ InFocus("matrix") /\ MxNext /\ UNCHANGED <<grGraph, trTensor>>
        \/ InFocus("tensor") /\ TrNext /\ UNCHANGED <<grGraph, mxVars>>
     /\ UNCHANGED <<ucVars, clzVars, bfVars, fzAsked, nnVars, dsVars>>
  \/ /\ \/ InFocus("list") /\ UcListNext
        \/ InFocus("queue") /\ UcQueueNext
        \/ InFocus("hashes") /\ UcHashNext
     /\ UNCHANGED <<grGraph, mxVars, trTensor, clzVars, bfVars, fzAsked, nnVars, dsVars>>
  \/ /\ \/ InFocus("class types") /\ ClzTypesNext
        \/ InFocus("class objects") /\ ClzObjectsNext
     /\ UNCHANGED <<grGraph, mxVars, trTensor, ucVars, bfVars, fzAsked, nnVars, dsVars>>
  \/ /\ \/ InFocus("buffers") /\ BfNext /\ UNCHANGED <<fzAsked, nnVars, dsVars>>
        \/ InFocus("fuzzy") /\ FzAsk /\ UNCHANGED <<bfVars, nnVars, dsVars>>
        \/ InFocus("network") /\ NnNext /\ UNCHANGED <<bfVars, fzAsked, dsVars>>
        \/ InFocus("dataset") /\ DsNext /\ UNCHANGED <<bfVars, fzAsked, nnVars>>
     /\ UNCHANGED <<grGraph, mxVars, trTensor, ucVars, clzVars>>

Next ==
  \/ RuntimeNext /\ UNCHANGED libraryVars
  \/ LibraryNext /\ UNCHANGED runtimeVars

Spec == Init /\ [][Next]_<<focus, runtimeVars, libraryVars>>

-----------------------------------------------------------------------------
(* Properties *)

(* What graphs, matrices, tensors, buffers, fuzzy sets, networks, data sets and *)
(* the lists, queues and hashes of the library answer after any sequence of    *)
(* calls is what their mathematics says, whichever operations built the       *)
(* object.  Those that focus does not name are empty.                        *)
ComputationsExact ==
  /\ focus = "graph" => GraphAnswersExact
  /\ focus = "matrix" => MatrixExact
  /\ focus = "tensor" => TensorExact
  /\ focus = "buffers" => BuffersExact
  /\ focus = "fuzzy" => FuzzyExact
  /\ focus = "network" => NetworksExact
  /\ focus = "dataset" => DatasetsExact
  /\ focus \in {"list", "queue", "hashes"} => UxCollectionsExact

=============================================================================
