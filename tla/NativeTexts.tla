---------------------------- MODULE NativeTexts ----------------------------
(***************************************************************************)
(* The STRING store of a native program (uxb_runtime_mir.cpp): a variable,  *)
(* array element, field or call text is a slot that points to bytes, and   *)
(* the register owned_texts says which slot may free which bytes.  A       *)
(* routine's STRING parameter only borrows the bytes of its caller's slot. *)
(* A text that an expression makes, a literal, or the text a routine       *)
(* returns (__uxb_rt_str_temp) is here its value.  Two threads use one      *)
(* slot only in turn (LOCK; NativeTexts does not repeat the lock table).    *)
(***************************************************************************)
EXTENDS Naturals

CONSTANTS
  TxThreads,
  TxVariables,   \* STRING variables of the program, shared by the threads
  TxTexts,       \* the texts
  TxCells        \* bound: the pieces of memory that malloc gives out, 1..TxCells

VARIABLES
  txOwned,    \* owned_texts, with the bytes: cell -> [owner, text], or free
  txSlot,     \* what each slot points to: a cell, or 0
  txCall,     \* the __uxb_rt_str_store that a thread is in the middle of
  txRoutine,  \* whether a thread is outside, inside or back from its routine
  txValue     \* the text last assigned to a slot, for the property

txVars == <<txOwned, txSlot, txCall, txRoutine, txValue>>

Arg(th) == <<"arg", th>>       \* the caller's slot for the text it passes
Param(th) == <<"param", th>>   \* the callee's parameter
TxSlots == TxVariables \cup {Arg(th) : th \in TxThreads} \cup {Param(th) : th \in TxThreads}

NoText == "none"
NoSlot == <<"none">>

ASSUME TxAssumption ==
  /\ TxCells \in Nat \ {0}
  /\ NoSlot \notin TxVariables
  /\ \A th \in TxThreads : Arg(th) \notin TxVariables /\ Param(th) \notin TxVariables

TxFree == [owner |-> NoSlot, text |-> NoText]
NoStore == [slot |-> NoSlot, from |-> NoSlot, text |-> NoText]

OwnedBy(s, c) == c /= 0 /\ txOwned[c].owner = s

(* The slots that thread th may read and write now. *)
TxReads(th) ==
  {s \in TxVariables : \A u \in TxThreads : s \notin {txCall[u].slot, txCall[u].from}}
    \cup (IF txRoutine[th] = "in" THEN {Param(th)} ELSE {})
TxWrites(th) == TxReads(th) \cup (IF txRoutine[th] = "out" THEN {Arg(th)} ELSE {})

(* __uxb_rt_str_store(slot, src): a slot that is given its own bytes keeps     *)
(* them; else the text is copied first.                                      *)
StrStoreFrom(th, slot, src) ==
  /\ txCall[th] = NoStore /\ slot \in TxWrites(th) /\ src \in TxReads(th)
  /\ txSlot[src] /= 0
  /\ ~(txSlot[src] = txSlot[slot] /\ OwnedBy(slot, txSlot[slot]))
  /\ txCall' = [txCall EXCEPT ![th] = [slot |-> slot, from |-> src,
                                       text |-> txOwned[txSlot[src]].text]]
  /\ txValue' = [txValue EXCEPT ![slot] = txValue[src]]
  /\ UNCHANGED <<txOwned, txSlot, txRoutine>>

StrStoreText(th, slot, text) ==
  /\ txCall[th] = NoStore /\ slot \in TxWrites(th)
  /\ txCall' = [txCall EXCEPT ![th] = [slot |-> slot, from |-> slot, text |-> text]]
  /\ txValue' = [txValue EXCEPT ![slot] = text]
  /\ UNCHANGED <<txOwned, txSlot, txRoutine>>

(* Mutant of WithoutOwn: whatever the slot points to is freed. *)
WithoutAny(s) == [c \in DOMAIN txOwned |-> IF c = txSlot[s] THEN TxFree ELSE txOwned[c]]

(* The cells after slot s has let go of the bytes that it owns. *)
WithoutOwn(s) ==
  [c \in DOMAIN txOwned |-> IF c = txSlot[s] /\ OwnedBy(s, c) THEN TxFree ELSE txOwned[c]]

(* The rest of the store: under the lock the slot's own old bytes are freed   *)
(* and the copy is registered.  Any free memory will do; the lowest is the   *)
(* soonest used again.                                                       *)
StrStoreCopy(th) ==
  /\ txCall[th] /= NoStore
  /\ \E c \in 1..TxCells :
       /\ txOwned[c] = TxFree /\ \A d \in 1..(c - 1) : txOwned[d] /= TxFree
       /\ txOwned' = [WithoutOwn(txCall[th].slot) EXCEPT
                        ![c] = [owner |-> txCall[th].slot, text |-> txCall[th].text]]
       /\ txSlot' = [txSlot EXCEPT ![txCall[th].slot] = c]
  /\ txCall' = [txCall EXCEPT ![th] = NoStore]
  /\ UNCHANGED <<txRoutine, txValue>>

(* A call: the parameter gets the address of the caller's call text. *)
EnterRoutine(th) ==
  /\ txCall[th] = NoStore /\ txRoutine[th] = "out" /\ txSlot[Arg(th)] /= 0
  /\ txSlot' = [txSlot EXCEPT ![Param(th)] = txSlot[Arg(th)]]
  /\ txValue' = [txValue EXCEPT ![Param(th)] = txValue[Arg(th)]]
  /\ txRoutine' = [txRoutine EXCEPT ![th] = "in"]
  /\ UNCHANGED <<txOwned, txCall>>

(* __uxb_rt_str_release of a slot that is not used again (0 here): only bytes  *)
(* of the slot's own are freed.                                              *)
StrRelease(s) ==
  /\ txOwned' = WithoutOwn(s)
  /\ txSlot' = [txSlot EXCEPT ![s] = 0]
  /\ txValue' = [txValue EXCEPT ![s] = NoText]

(* The epilogue of a routine releases its locals, the caller then the call    *)
(* text.                                                                     *)
LeaveRoutine(th) ==
  /\ txCall[th] = NoStore /\ txRoutine[th] = "in"
  /\ StrRelease(Param(th))
  /\ txRoutine' = [txRoutine EXCEPT ![th] = "back"]
  /\ UNCHANGED txCall

ReleaseCallText(th) ==
  /\ txCall[th] = NoStore /\ txRoutine[th] = "back"
  /\ StrRelease(Arg(th))
  /\ txRoutine' = [txRoutine EXCEPT ![th] = "out"]
  /\ UNCHANGED txCall

TxInit ==
  /\ txOwned = [c \in 1..TxCells |-> TxFree]
  /\ txSlot = [s \in TxSlots |-> 0]
  /\ txCall = [th \in TxThreads |-> NoStore]
  /\ txRoutine = [th \in TxThreads |-> "out"]
  /\ txValue = [s \in TxSlots |-> NoText]

TxNext ==
  \E th \in TxThreads :
    \/ \E slot \in TxSlots, src \in TxSlots : StrStoreFrom(th, slot, src)
    \/ \E slot \in TxSlots, text \in TxTexts : StrStoreText(th, slot, text)
    \/ StrStoreCopy(th)
    \/ EnterRoutine(th)
    \/ LeaveRoutine(th)
    \/ ReleaseCallText(th)

TxSpec == TxInit /\ [][TxNext]_txVars

(* The slots whose text the program may read: none that is being stored to.   *)
TxReadable == {s \in TxSlots : txSlot[s] /= 0 /\ \A th \in TxThreads : txCall[th].slot /= s}

(* A STRING reads as what was last assigned to it, whatever was stored,        *)
(* released or returned elsewhere since; and no bytes are lost: whatever is    *)
(* allocated, its owner still points to it (S-157, uxb_runtime_mir.cpp:46-51). *)
TextsKept ==
  /\ \A s \in TxReadable : txOwned[txSlot[s]].text = txValue[s]
  /\ \A c \in 1..TxCells : txOwned[c] /= TxFree => txSlot[txOwned[c].owner] = c

=============================================================================
