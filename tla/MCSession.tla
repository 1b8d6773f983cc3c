----------------------------- MODULE MCSession -----------------------------
(* A TLC instance of Session: an unattended session with hooks, budgets,   *)
(* rewinds and a death of the process.                                     *)
EXTENDS Session, MCCalls
=============================================================================
