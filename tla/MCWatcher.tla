----------------------------- MODULE MCWatcher -----------------------------
(***************************************************************************)
(* Instances of WatcherBootstrap for TLC.                                  *)
(***************************************************************************)
EXTENDS WatcherBootstrap, TLC

CONSTANTS h1, h2, h3, t1, t2, t3

MCHosts == {h1, h2, h3}
MCTargets == {t1, t2, t3}
MCSymmetry == Permutations(MCHosts) \cup Permutations(MCTargets)
=============================================================================
