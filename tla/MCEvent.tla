------------------------------ MODULE MCEvent ------------------------------
(* Instances of Event for TLC.                                             *)
EXTENDS Event, TLC

\* The code compares threads, nodes and the two kinds of event only for equality.
Sym == Permutations(Threads) \cup Permutations(Nodes) \cup Permutations(Kinds)
=============================================================================
