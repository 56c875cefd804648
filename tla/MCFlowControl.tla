---------------------------- MODULE MCFlowControl ----------------------------
(* FlowControl for TLC: the sockets are interchangeable.                    *)
EXTENDS FlowControl
Symm == Permutations(Socks)
=============================================================================
