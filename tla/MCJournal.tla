----------------------------- MODULE MCJournal -----------------------------
(* TLC instance of Journal: two drivers.                                   *)
EXTENDS Journal

CONSTANTS d1, d2
=============================================================================
