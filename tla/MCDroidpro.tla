----------------------------- MODULE MCDroidpro -----------------------------
(* The application with two consoles.                                       *)
EXTENDS Droidpro, TLC

ThreadSymmetry == Permutations(Threads)
=============================================================================
