------------------------------ MODULE MCEdges ------------------------------
(***************************************************************************)
(* Three parts around a session, each in behaviours of its own: the board  *)
(* of questions with the gates that ask them (AskBoard), an MCP server and *)
(* its client (Mcp), and the streams of two models (Stream).               *)
(***************************************************************************)
EXTENDS AskBoard, Mcp, Stream, TLC

VARIABLE part   \* which of the three a behaviour is about

Vendors == "s1" :> "anthropic" @@ "s2" :> "openai"

(* Nobody is there, and the questions fall back as their levels have it.   *)
Unattended == {<<"allow", "defer">>}

EdgesInit ==
  /\ part \in {"board", "client", "model"}
  /\ Init /\ ClientInit /\ ModelInit
  /\ fallback \in {[q \in Questions |-> "none"]} \cup (IF part = "board" THEN Unattended ELSE {})
  /\ part # "client" => link = "stdio"

Boards  == part = "board"  /\ Next       /\ UNCHANGED <<part, clientVars, modelVars>>
Clients == part = "client" /\ ClientNext /\ UNCHANGED <<part, vars, modelVars>>
Models  == part = "model"  /\ ModelNext  /\ UNCHANGED <<part, vars, clientVars>>

EdgesSpec ==
  /\ EdgesInit /\ [][Boards \/ Clients \/ Models]_<<part, vars, clientVars, modelVars>>
  /\ Fairness /\ ClientFairness /\ ModelFairness
=============================================================================
