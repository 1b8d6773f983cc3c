----------------------------- MODULE MCContext -----------------------------
(* The models of the instances of Context that TLC checks.                  *)
EXTENDS Context

TwoModels == <<"main", "fallback">>
=============================================================================
