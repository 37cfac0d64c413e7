-------------------------------- MODULE MCMoc --------------------------------
(***************************************************************************)
(* A small vault: a note and a region-managed target at the root, a note   *)
(* and a fully managed target that does not exist yet in one directory.    *)
(***************************************************************************)
EXTENDS MocProperties

CONSTANTS n0, n1, m0, m1

VaultDirOf == (n0 :> <<>>) @@ (m0 :> <<>>) @@ (n1 :> <<"a">>) @@ (m1 :> <<"a">>)
VaultRank == (m1 :> 1) @@ (m0 :> 2)
VaultKind == (m0 :> "region-managed") @@ (m1 :> "fully-managed")
Zero(d) == Text("human", [n \in NotesIn(d) |-> 0])
VaultInitial == (m0 :> Zero(m0)) @@ (m1 :> Absent)

\* For liveness: one target, and a note that is touched for ever.
OneKind == [d \in {m1} |-> "fully-managed"]
OneInitial == [d \in {m1} |-> Absent]
==============================================================================
