------------------------------- MODULE MCTunnel -------------------------------
(* Tunnel for TLC: browsers are interchangeable.                            *)
EXTENDS Tunnel, TLC
Symm == Permutations(Browsers)
=============================================================================
