------------------------------ MODULE MCStream ------------------------------
(* Stream with a time limit of one sleep: two polls, then the timeout.      *)
EXTENDS Stream
=============================================================================
