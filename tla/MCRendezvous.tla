----------------------------- MODULE MCRendezvous -----------------------------
(* Rendezvous for TLC: a program that is run twice under one identity, and *)
(* a finder that looks for it.                                             *)
EXTENDS Rendezvous
CONSTANTS a1, a2, f1
MCName == a1 :> "xlorb" @@ a2 :> "xlorb" @@ f1 :> "xlord"
MCWanted == f1 :> "xlorb"
=============================================================================
