------------------------------- MODULE Ledger -------------------------------
(***************************************************************************)
(* What a session promises of its effects, whoever drives it and however   *)
(* often drivers are fenced, interrupted or die: an effect is started only *)
(* once it is on record, it may be run again, but it has one result, that  *)
(* of a run, and none once it has been given up.                           *)
(***************************************************************************)
EXTENDS Naturals

VARIABLES
  issued,    \* the effects on record, each with its place there
  results,   \* the results on record, each with its place and its effect
  open,      \* the effects whose result is still to come
  running    \* the effects somebody runs

ledger == <<issued, results, open, running>>

EffectsOf(records) == {r[2] : r \in records}

Init == issued = {} /\ results = {} /\ open = {} /\ running = {}

(* Runs may end at any time; what starts was on record before.             *)
Runs == running' \subseteq running \cup EffectsOf(issued)

(* A new effect, which no record has, becomes open.                        *)
Opens(new, from) ==
  /\ new[2] \notin EffectsOf(issued)
  /\ issued' = issued \cup {new}
  /\ open' = from \cup {new[2]}

Issue == UNCHANGED results /\ \E new \in issued' \ issued : Opens(new, open)

(* The result of a run, which may issue the next effect.                   *)
Settle ==
  \E r \in results' \ results :
     /\ r[2] \in open \cap running
     /\ results' = results \cup {r}
     /\ \/ issued' = issued /\ open' = open \ {r[2]}
        \/ \E new \in issued' \ issued : Opens(new, open \ {r[2]})

GiveUp == open' = {} /\ UNCHANGED <<issued, results>>

Next == Runs /\ (Issue \/ Settle \/ GiveUp \/ UNCHANGED <<issued, results, open>>)

Spec == Init /\ [][Next]_ledger

(* No effect has two results, and none that has one is still open.         *)
ResultOnce ==
  /\ \A r, q \in results : r[2] = q[2] => r = q
  /\ open \cup EffectsOf(results) \subseteq EffectsOf(issued)
  /\ open \cap EffectsOf(results) = {}
=============================================================================
