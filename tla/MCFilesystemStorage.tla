------------------------ MODULE MCFilesystemStorage ------------------------
(***************************************************************************)
(* FilesystemStorage on small sets, with the symmetry of its model values. *)
(* A behaviour is calm, with no failing call and no restart, or not: what  *)
(* the code keeps only where nothing fails is asked of the calm ones.      *)
(***************************************************************************)
EXTENDS FilesystemStorage, TLC

VARIABLE calm  \* do all calls succeed and the server stay up?

Calm == INSTANCE FilesystemStorage WITH Faults <- FALSE, Restarts <- FALSE

MCInit == Init /\ calm \in BOOLEAN

MCNext ==
  /\ Next
  /\ calm => Calm!Next
  /\ UNCHANGED calm

MCSpec == MCInit /\ [][MCNext]_<<vars, calm>>

(* Where nothing fails, no race of completes, aborts and chunks leaves a   *)
(* session that says active with its file closed, its .part file gone or   *)
(* its entry dropped from the map.                                         *)
CalmStaysUsable == calm => Calm!ActiveIsUsable

(* Where nothing fails, a session that has left the map has no open file   *)
(* and no .part file once no request is at it.                             *)
CalmLeavesNothing == calm => Calm!NoLeftovers

Symmetry == Permutations(Sessions) \union Permutations(Chunks)
              \union Permutations(Requests) \union Permutations(Nonces)
=============================================================================
