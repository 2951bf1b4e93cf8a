------------------------------- MODULE UxGsl -------------------------------
(***************************************************************************)
(* The GSL facade (src/runtime_ext/uxgsl/uxgsl.c): a handle is the address *)
(* of the object, and valid while a registry lists it with its kind.  The  *)
(* registry is changed under a lock, memory is allocated and freed outside *)
(* of it.  Numbers and the thread-local status are left out.               *)
(***************************************************************************)
CONSTANTS
  GslThreads,
  GslAddresses,   \* bound: the memory there is; an address freed is given out again
  GslKinds        \* the kinds of handles in use

VARIABLES
  gslMemory,       \* what each address holds: a kind of object, or "free"
  gslHandles,      \* uxgsl_handles, the registry
  gslConfigured,   \* the bisection solvers that have a function
  gslCall          \* what each thread is in the middle of

gslVars == <<gslMemory, gslHandles, gslConfigured, gslCall>>

GslIdle == [at |-> "idle", handle |-> <<>>]

(* A handle is an address and the kind the called function is for. *)
HasHandle(h) == h \in gslHandles

(* The create functions: the object is allocated, then registered; without    *)
(* memory for the node it is freed.                                          *)
GslAllocate(t, a, kind) ==
  /\ gslCall[t].at = "idle" /\ gslMemory[a] = "free"
  /\ gslMemory' = [gslMemory EXCEPT ![a] = kind]
  /\ gslCall' = [gslCall EXCEPT ![t] = [at |-> "register", handle |-> <<a, kind>>]]
  /\ UNCHANGED <<gslHandles, gslConfigured>>

RngCreate(t, a) == GslAllocate(t, a, "rng")
VectorCreate(t, a) == GslAllocate(t, a, "vector")
MatrixCreate(t, a) == GslAllocate(t, a, "matrix")
IntegrationWorkspaceCreate(t, a) == GslAllocate(t, a, "integration workspace")
ComplexCreate(t, a) == GslAllocate(t, a, "complex")
RootBisectionCreate(t, a) == GslAllocate(t, a, "root bisection")   \* with no function yet

RegisterHandle(t) ==
  /\ gslCall[t].at = "register"
  /\ LET h == gslCall[t].handle
     IN  \/ gslHandles' = gslHandles \cup {h} /\ UNCHANGED gslMemory
         \/ gslMemory' = [gslMemory EXCEPT ![h[1]] = "free"] /\ UNCHANGED gslHandles
  /\ gslCall' = [gslCall EXCEPT ![t] = GslIdle]
  /\ UNCHANGED gslConfigured

(* Mutant of TakeHandle: the address stays listed while it is freed. *)
TakeHandleLate(t, h) ==
  /\ gslCall[t].at = "idle" /\ HasHandle(h)
  /\ UNCHANGED gslHandles
  /\ gslCall' = [gslCall EXCEPT ![t] = [at |-> "free", handle |-> h]]

(* uxgsl_take_handle: the node is gone, and with it every other use of the    *)
(* handle, before the memory is given back.                                  *)
TakeHandle(t, h) ==
  /\ gslCall[t].at = "idle" /\ HasHandle(h)
  /\ gslHandles' = gslHandles \ {h}
  /\ gslCall' = [gslCall EXCEPT ![t] = [at |-> "free", handle |-> h]]

GslTake(t, a, kind) ==
  /\ TakeHandle(t, <<a, kind>>)
  /\ UNCHANGED <<gslMemory, gslConfigured>>

RngFree(t, a) == GslTake(t, a, "rng")
VectorFree(t, a) == GslTake(t, a, "vector")
MatrixFree(t, a) == GslTake(t, a, "matrix")
IntegrationWorkspaceFree(t, a) == GslTake(t, a, "integration workspace")
ComplexFree(t, a) == GslTake(t, a, "complex")
RootBisectionFree(t, a) == GslTake(t, a, "root bisection")

GslFreeMemory(t) ==
  /\ gslCall[t].at = "free"
  /\ LET a == gslCall[t].handle[1]
     IN  /\ gslMemory' = [gslMemory EXCEPT ![a] = "free"]
         /\ gslConfigured' = gslConfigured \ {a}
  /\ gslCall' = [gslCall EXCEPT ![t] = GslIdle]
  /\ UNCHANGED gslHandles

(* uxgsl_root_bisection_set: an interval GSL refuses leaves the solver        *)
(* unconfigured, whatever it was before.                                     *)
RootBisectionSet(t, a) ==
  /\ gslCall[t].at = "idle" /\ HasHandle(<<a, "root bisection">>)
  /\ gslConfigured' \in {gslConfigured \cup {a}, gslConfigured \ {a}}
  /\ UNCHANGED <<gslMemory, gslHandles, gslCall>>

GslInit ==
  /\ gslMemory = [a \in GslAddresses |-> "free"]
  /\ gslHandles = {} /\ gslConfigured = {}
  /\ gslCall = [t \in GslThreads |-> GslIdle]

GslKind(kind, op) == kind \in GslKinds /\ op
GslNext ==
  \E t \in GslThreads :
     \/ \E a \in GslAddresses :
          \/ GslKind("rng", RngCreate(t, a) \/ RngFree(t, a))
          \/ GslKind("vector", VectorCreate(t, a) \/ VectorFree(t, a))
          \/ GslKind("matrix", MatrixCreate(t, a) \/ MatrixFree(t, a))
          \/ GslKind("integration workspace",
                     IntegrationWorkspaceCreate(t, a) \/ IntegrationWorkspaceFree(t, a))
          \/ GslKind("complex", ComplexCreate(t, a) \/ ComplexFree(t, a))
          \/ GslKind("root bisection",
                     RootBisectionCreate(t, a) \/ RootBisectionFree(t, a) \/ RootBisectionSet(t, a))
     \/ RegisterHandle(t) \/ GslFreeMemory(t)

GslSpec == GslInit /\ [][GslNext]_gslVars

-----------------------------------------------------------------------------
(* Properties *)

(* "The registry protects ownership bookkeeping between threads": an object   *)
(* has one owner, the registry or the one thread that is making or freeing   *)
(* it, under the kind it was made with; nothing is leaked or freed twice.    *)
GslOwnership ==
  LET pending == {gslCall[t].handle : t \in {x \in GslThreads : gslCall[x].at # "idle"}}
  IN  /\ gslHandles \cap pending = {}
      /\ \A s, t \in GslThreads :
           gslCall[s].handle = gslCall[t].handle => s = t \/ gslCall[s].at = "idle"
      /\ gslHandles \cup pending =
           {<<a, gslMemory[a]>> : a \in {x \in GslAddresses : gslMemory[x] # "free"}}
      /\ \A a \in gslConfigured : gslMemory[a] = "root bisection"

=============================================================================
