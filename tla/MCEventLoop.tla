------------------------------ MODULE MCEventLoop ------------------------------
(***************************************************************************)
(* Instances of EventLoop.  Connections are interchangeable, and so are    *)
(* descriptors: no action compares them except for equality, so the runs   *)
(* that check invariants only reduce the states by both symmetries.        *)
(***************************************************************************)
EXTENDS EventLoop, TLC

Interchangeable == Permutations(Conns) \cup Permutations(Fds)
=============================================================================
