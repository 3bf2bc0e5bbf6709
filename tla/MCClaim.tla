------------------------------ MODULE MCClaim ------------------------------
(***************************************************************************)
(* Instances of Claim for TLC.  Sessions, agents and workspaces are        *)
(* interchangeable; tasks are too where none is Managed or Blockable.      *)
(* Symmetry is not used where liveness is checked.                         *)
(***************************************************************************)
EXTENDS ClaimInvariant, TLC

Symmetry ==
    Permutations(Sessions) \cup Permutations(Agents) \cup Permutations(Workspaces)
TaskSymmetry == Symmetry \cup Permutations(Tasks)
=============================================================================
