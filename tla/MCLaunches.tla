----------------------------- MODULE MCLaunches -----------------------------
(* Small instances of Launches.                                            *)
EXTENDS Launches, TLC

Symmetric == Permutations(Guardians) \cup Permutations(Commands)
=============================================================================
