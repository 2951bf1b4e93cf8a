------------------------------ MODULE UxDataset ------------------------------
(***************************************************************************)
(* Data sets (src/runtime_ext/uxdataset/uxdataset.c): rows of inputs and     *)
(* targets that are loaded from and saved to CSV files, shuffled, split into  *)
(* a training and a test part, and read in batches by a loader that refers to *)
(* the data set.  The low four bits of the generator stand for its 64.  Means  *)
(* and scalers are left out; there is memory, the files open, and the program *)
(* frees a loader before its data set.                                       *)
(***************************************************************************)
EXTENDS Integers, Sequences, FiniteSets, SequencesExt

CONSTANTS
  DsFiles,      \* bound: the CSV files: sequences of lines
  DsDims,       \* bound: how many inputs and targets a row has
  DsQuarters,   \* bound: the ratios that are asked for, in quarters
  DsSeeds,      \* bound: the seeds
  DsBatches,    \* bound: the sizes of batches
  DsChanges     \* bound: how often a data set is changed, and an epoch begun

(* A line is blank, a comment, or data: numbers, EmptyField or Word between separators. *)
EmptyField == -98
Word == -97
Nan == -99    \* a missing number

ASSUME DsAssumption ==
  /\ DsQuarters \subseteq Int /\ DsSeeds \subseteq 0..15 /\ DsBatches \subseteq Nat \ {0}
  /\ DsChanges \in Nat /\ DsDims \subseteq Nat \X Nat

VARIABLES
  dsSet,      \* the data set: rows, in, tgt, or NoSet
  dsFrom,     \* for the property: the rows it has, in the order of the file
  dsSaved,    \* the file it was last saved to, and the data set then
  dsTrain, dsTest,   \* the last split of each kind, with the rows and what was asked,
                     \* which the model forgets when it is saved or gets a loader
  dsLoader,   \* the loader, or NoLoader
  dsChanges   \* the changes and epochs so far

dsVars == <<dsSet, dsFrom, dsSaved, dsTrain, dsTest, dsLoader, dsChanges>>

-----------------------------------------------------------------------------
NoSet == [rows |-> <<>>, in |-> 0, tgt |-> 0]
NoLoader == [size |-> 0, shuffle |-> FALSE, seed |-> 0, indices |-> <<>>, pos |-> 0, current |-> 0,
             given |-> <<>>, of |-> <<>>]

Rng(s) == (s * 13 + 15) % 16

(* Mutant of Swapped: the second of the two is lost. *)
SwappedHalf(s, a, b) == [s EXCEPT ![b] = s[a]]

Swapped(s, a, b) == [s EXCEPT ![a] = s[b], ![b] = s[a]]

(* The shuffle of uxdataset_shuffle, split_copy and uxdataset_batch_reset: the  *)
(* items and the seed that is left.                                          *)
Shuffled(items, seed) ==
  FoldLeft(LAMBDA s, i : LET r == Rng(s.seed)
                         IN  [seed |-> r, items |-> Swapped(s.items, i, (r % i) + 1)],
           [seed |-> seed, items |-> items],
           [k \in 1..(Len(items) - 1) |-> Len(items) + 1 - k])

SeedOr(seed, default) == IF seed = 0 THEN default ELSE seed

(* parse_line_doubles: separators are skipped however many there are. *)
ParseLine(fields, max) ==
  LET numbers == [i \in DOMAIN fields |-> IF fields[i] = Word THEN Nan ELSE fields[i]]
      found == SelectSeq(numbers, LAMBDA v : v # EmptyField)
  IN  [i \in 1..max |-> IF i <= Len(found) THEN found[i] ELSE Nan]

(* What uxdataset_load_csv makes of a file: the lines that count_csv_rows counts. *)
Loaded(file, in, tgt, header) ==
  LET lines == SelectSeq(IF header THEN SubSeq(file, 2, Len(file)) ELSE file,
                         LAMBDA line : line.kind = "data")
      Row(line) == LET vals == ParseLine(line.fields, in + tgt)
                   IN  [x |-> SubSeq(vals, 1, in), y |-> SubSeq(vals, in + 1, in + tgt)]
  IN  [rows |-> [r \in DOMAIN lines |-> Row(lines[r])], in |-> in, tgt |-> tgt]

Saved(set) == [r \in DOMAIN set.rows |-> [kind |-> "data", fields |-> set.rows[r].x \o set.rows[r].y]]

(* split_copy: the first of the shuffled rows are for training. *)
TrainRows(rows, quarters) ==
  LET q == IF quarters < 0 THEN 0 ELSE IF quarters > 4 THEN 4 ELSE quarters
  IN  (rows * q + 2) \div 4

SplitCopy(set, quarters, seed, wantTrain) ==
  LET rows == Len(set.rows)
      ntrain == TrainRows(rows, quarters)
      idx == Shuffled([i \in 1..rows |-> i], SeedOr(seed, 7)).items
      part == IF wantTrain THEN SubSeq(idx, 1, ntrain) ELSE SubSeq(idx, ntrain + 1, rows)
  IN  [rows |-> [r \in DOMAIN part |-> set.rows[part[r]]],
       asked |-> <<set.rows, quarters, seed>>]

NoSplit == [rows |-> <<>>, asked |-> <<>>]
NotSaved == [file |-> <<>>, of |-> NoSet]

-----------------------------------------------------------------------------
LoadCsv(file, in, tgt, header) ==
  /\ in + tgt > 0 /\ dsLoader = NoLoader /\ dsChanges = 0
  /\ dsSet' = Loaded(file, in, tgt, header)
  /\ dsFrom' = dsSet'.rows /\ dsTrain' = NoSplit /\ dsTest' = NoSplit
  /\ UNCHANGED <<dsSaved, dsLoader, dsChanges>>

SaveCsv ==
  /\ dsLoader = NoLoader /\ dsSaved' = [file |-> Saved(dsSet), of |-> dsSet]
  /\ dsTrain' = NoSplit /\ dsTest' = NoSplit
  /\ UNCHANGED <<dsSet, dsFrom, dsLoader, dsChanges>>

Shuffle(seed) ==
  /\ dsSet.rows # <<>> /\ dsChanges < DsChanges /\ dsChanges' = dsChanges + 1
  /\ dsSet' = [dsSet EXCEPT !.rows = Shuffled(@, SeedOr(seed, 4)).items]
  /\ UNCHANGED <<dsFrom, dsSaved, dsTrain, dsTest, dsLoader>>

SplitTrain(quarters, seed) ==
  /\ dsSet # NoSet /\ dsLoader = NoLoader
  /\ dsTrain' = SplitCopy(dsSet, quarters, seed, TRUE)
  /\ UNCHANGED <<dsSet, dsFrom, dsSaved, dsTest, dsLoader, dsChanges>>

SplitTest(quarters, seed) ==
  /\ dsSet # NoSet /\ dsLoader = NoLoader
  /\ dsTest' = SplitCopy(dsSet, quarters, seed, FALSE)
  /\ UNCHANGED <<dsSet, dsFrom, dsSaved, dsTrain, dsLoader, dsChanges>>

(* uxdataset_batch_reset: the seed goes on, so that no two epochs need be alike. *)
ResetLoader(loader) ==
  LET start == [i \in DOMAIN dsSet.rows |-> i]
      shuffled == Shuffled(start, loader.seed)
  IN  [loader EXCEPT !.indices = IF loader.shuffle THEN shuffled.items ELSE start,
                     !.seed = IF loader.shuffle THEN shuffled.seed ELSE @,
                     !.pos = 0, !.current = 0, !.given = <<>>, !.of = dsSet.rows]

BatchCreate(size, shuffle, seed) ==
  /\ dsSet # NoSet /\ dsLoader = NoLoader /\ dsChanges < DsChanges
  /\ dsLoader' = ResetLoader([NoLoader EXCEPT !.size = size, !.shuffle = shuffle, !.seed = SeedOr(seed, 1)])
  /\ dsChanges' = dsChanges + 1 /\ dsSaved' = NotSaved /\ dsTrain' = NoSplit /\ dsTest' = NoSplit
  /\ UNCHANGED <<dsSet, dsFrom>>

BatchReset ==
  /\ dsLoader # NoLoader /\ dsChanges < DsChanges
  /\ dsLoader' = ResetLoader(dsLoader) /\ dsChanges' = dsChanges + 1
  /\ UNCHANGED <<dsSet, dsFrom, dsSaved, dsTrain, dsTest>>

(* uxdataset_batch_next: the last batch has what is left. *)
BatchNext ==
  /\ dsLoader.pos < Len(dsSet.rows) /\ dsLoader # NoLoader
  /\ LET left == Len(dsSet.rows) - dsLoader.pos
         n == IF dsLoader.size > left THEN left ELSE dsLoader.size
         batch == [br \in 1..n |-> dsSet.rows[dsLoader.indices[dsLoader.pos + br]]]
     IN  dsLoader' = [dsLoader EXCEPT !.pos = @ + n, !.current = n, !.given = Append(@, batch)]
  /\ UNCHANGED <<dsSet, dsFrom, dsSaved, dsTrain, dsTest, dsChanges>>

BatchFree ==
  /\ dsLoader # NoLoader /\ dsLoader' = NoLoader
  /\ UNCHANGED <<dsSet, dsFrom, dsSaved, dsTrain, dsTest, dsChanges>>

DsInit ==
  /\ dsSet = NoSet /\ dsFrom = <<>> /\ dsSaved = NotSaved
  /\ dsTrain = NoSplit /\ dsTest = NoSplit /\ dsLoader = NoLoader /\ dsChanges = 0

DsNext ==
  \/ \E file \in DsFiles, dims \in DsDims, header \in BOOLEAN : LoadCsv(file, dims[1], dims[2], header)
  \/ SaveCsv \/ BatchReset \/ BatchNext \/ BatchFree
  \/ \E seed \in DsSeeds : Shuffle(seed)
  \/ \E q \in DsQuarters, seed \in DsSeeds : SplitTrain(q, seed) \/ SplitTest(q, seed)
  \/ \E size \in DsBatches, shuffle \in BOOLEAN, seed \in DsSeeds : BatchCreate(size, shuffle, seed)

-----------------------------------------------------------------------------
(* Properties *)

(* Every target stays with its inputs: shuffling permutes the rows; the two     *)
(* parts of a split that ask for the same make up the rows, each once; an      *)
(* epoch gives every row once, in full batches but for the last; and what is   *)
(* loaded without a header from a saved file is what was saved.               *)
DatasetsExact ==
  LET Often(v, s) == Cardinality({i \in DOMAIN s : s[i] = v})
      Same(s, t) == Len(s) = Len(t) /\ \A i \in DOMAIN s : Often(s[i], s) = Often(s[i], t)
      given == FlattenSeq(dsLoader.given)
      batches == Len(dsLoader.given)
  IN  /\ Same(dsSet.rows, dsFrom)
      /\ dsTrain.asked = dsTest.asked /\ dsTrain.asked # <<>> =>
           Same(dsTrain.rows \o dsTest.rows, dsTrain.asked[1])
      /\ dsLoader # NoLoader =>
           /\ dsLoader.pos = Len(given)
           /\ batches > 0 => dsLoader.current = Len(Last(dsLoader.given))
           /\ \A b \in 1..(batches - 1) : Len(dsLoader.given[b]) = dsLoader.size
           /\ dsLoader.pos = Len(dsSet.rows) /\ dsSet.rows = dsLoader.of => Same(given, dsSet.rows)
      /\ Loaded(dsSaved.file, dsSaved.of.in, dsSaved.of.tgt, FALSE) = dsSaved.of

=============================================================================
