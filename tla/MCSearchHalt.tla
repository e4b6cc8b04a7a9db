---------------------------- MODULE MCSearchHalt ----------------------------
(* A small instance of SearchHalt for TLC.                                 *)
EXTENDS SearchHalt
=============================================================================
