--------------------------- MODULE MCMeshElection ---------------------------
(***************************************************************************)
(* Model-checking instance of MeshElection: three devices.                 *)
(***************************************************************************)
EXTENDS MeshElection

\* Upper bound on the messages a channel holds, to keep the state space finite.
ChanBound == 4
ChanConstraint == \A p \in Pairs : Len(chan[p]) <= ChanBound
=============================================================================
