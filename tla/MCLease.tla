-------------------------------- MODULE MCLease --------------------------------
(***************************************************************************)
(* Small instances of the vault lease: three processes on one host and one *)
(* on another.                                                             *)
(***************************************************************************)
EXTENDS VaultLease, TLC

CONSTANTS p1, p2, p3, q1, here, there

MCHostOf == [p \in {p1, p2, p3, q1} |-> IF p = q1 THEN there ELSE here]

\* The processes of one host are interchangeable.
SameHost == Permutations({p1, p2, p3})
================================================================================
