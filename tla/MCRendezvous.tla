---------------------------- MODULE MCRendezvous ----------------------------
(* Small instances of Rendezvous for TLC. *)
EXTENDS Rendezvous

CONSTANTS p1, p2, p3   \* processes

\* Two that may create, and one that never does.
MCProcs == {p1, p2, p3}
=============================================================================
