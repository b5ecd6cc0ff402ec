------------------------------ MODULE MCServer -------------------------------
(* Server for TLC.                                                          *)
EXTENDS Server, TLC

\* Nothing tells the clients apart.
ClientSymmetry == Permutations(Clients)
=============================================================================
