------------------------------ MODULE Handles ------------------------------
(***************************************************************************)
(* What a table of handles promises to the program that holds them: a      *)
(* handle resolves from the call that made it until the call that frees    *)
(* it, or frees what it was made from, and never again; it is not given to *)
(* a second object.  The wrappers' tables (slot and generation) implement  *)
(* this.                                                                   *)
(***************************************************************************)
CONSTANT Root   \* what handles are made from that have no parent

VARIABLES
  issued,   \* the handles ever returned
  parent    \* the handles that resolve, with what each was made from

Live == DOMAIN parent

Init == issued = {} /\ parent = [h \in {} |-> Root]

Issue ==
  \E h \in issued' \ issued, p \in Live \cup {Root} :
     /\ issued' = issued \cup {h}
     /\ parent' = [x \in Live \cup {h} |-> IF x = h THEN p ELSE parent[x]]

(* Handles are freed: what is left was made from what is left. *)
Retire ==
  LET left == Live'
  IN  /\ left \subseteq Live
      /\ \A h \in left : parent[h] \in left \cup {Root}
      /\ parent' = [h \in left |-> parent[h]]
      /\ UNCHANGED issued

Spec == Init /\ [][Issue \/ Retire]_<<issued, parent>>

=============================================================================
