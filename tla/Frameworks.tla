----------------------------- MODULE Frameworks -----------------------------
(***************************************************************************)
(* The wrappers of whole libraries, in one program: data frames, inference, *)
(* the Raylib adapter, Lua and Prolog, and databases with patterns and      *)
(* documents.  They share no state; their calls come in any order.         *)
(***************************************************************************)
EXTENDS UxDuckdb, UxOnnx, UxRaylib, UxLogic, UxCbase

frameworkVars == <<ddVars, oxVars, rlVars, lgVars, csVars>>

FrameworksInit == DdInit /\ OxInit /\ RlInit /\ LgInit /\ CsInit

FrameworksNext ==
  \/ DdNext /\ UNCHANGED <<oxVars, rlVars, lgVars, csVars>>
  \/ OxNext /\ UNCHANGED <<ddVars, rlVars, lgVars, csVars>>
  \/ RlNext /\ UNCHANGED <<ddVars, oxVars, lgVars, csVars>>
  \/ LgNext /\ UNCHANGED <<ddVars, oxVars, rlVars, csVars>>
  \/ CsNext /\ UNCHANGED <<ddVars, oxVars, rlVars, lgVars>>

FrameworksSpec == FrameworksInit /\ [][FrameworksNext]_frameworkVars

-----------------------------------------------------------------------------
(* Properties *)

(* What the program holds of the libraries around it, and what these hold for    *)
(* it, is there exactly as long as an object of the program needs it,          *)
(* whichever call fails.                                                    *)
ForeignObjectsOwned ==
  DuckContextsExact /\ OnnxObjectsExact /\ RaylibObjectsOwned /\ LogicExact /\ BaseObjectsExact

=============================================================================
