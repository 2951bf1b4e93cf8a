----------------------------- MODULE MCLockTable -----------------------------
(* LockTable for TLC: the main program and two tasks over one lock of the    *)
(* compiler and one MUTEX.                                                   *)
EXTENDS LockTable, TLC

CONSTANTS MaxAutos, MaxExpl  \* bounds: nesting of statements and LOCK blocks

Symmetry == Permutations(Keys \ {Main})

NestBound ==
  \A k \in Keys : Len(autos[k]) <= MaxAutos /\ Len(expl[k]) <= MaxExpl

=============================================================================
