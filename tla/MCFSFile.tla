------------------------------ MODULE MCFSFile ------------------------------
(* Instances of FSFile for TLC: the descriptor numbers are small naturals. *)
EXTENDS FSFile
TwoFds == 0 .. 1
ThreeFds == 0 .. 2
=============================================================================
