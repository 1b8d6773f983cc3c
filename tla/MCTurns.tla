------------------------------ MODULE MCTurns ------------------------------
(***************************************************************************)
(* Two instances of Session, each in behaviours of its own: one of         *)
(* interrupts and failures, with the calls 1 to 3, and one of hooks and    *)
(* humans, with the calls 4 to 6.  What is extended here has the calls of  *)
(* both and is not stepped: it states the properties.                      *)
(***************************************************************************)
EXTENDS Session, MCCalls

VARIABLE part   \* which of the two a behaviour is about

Turn == INSTANCE Session WITH
  Calls <- {1, 2, 3}, Attr <- ReadShellWrite, Hooked <- {},
  Unattended <- FALSE, Disposable <- FALSE, MaxContinuations <- 1, RewriteLimit <- 1, StepLimit <- 20,
  Signals <- {"submit", "queue", "steer"}, Controls <- {"soft", "hard", "pause", "resume"},
  HookTags <- {"allow"}, HumanTags <- {"allow", "deny"}, Responders <- {"human"},
  Failures <- TRUE, Budgeted <- FALSE, MaxInputs <- 4, MaxRestarts <- 0

Gate == INSTANCE Session WITH
  Calls <- {4, 5, 6}, Attr <- EditPostBanned, Hooked <- {"PreTool", "PostTool"},
  Unattended <- FALSE, Disposable <- FALSE, MaxContinuations <- 1, RewriteLimit <- 1, StepLimit <- 20,
  Signals <- {"submit"}, Controls <- {"resume", "soft"},
  HookTags <- {"allow", "deny", "ask", "defer", "rewrite"},
  HumanTags <- {"allow", "deny", "defer", "rewrite"},
  Responders <- {"human", "code", "auto", "env"},
  Failures <- FALSE, Budgeted <- FALSE, MaxInputs <- 2, MaxRestarts <- 0

Turning == part = "turn" /\ Turn!Next /\ UNCHANGED part
Gating  == part = "gate" /\ Gate!Next /\ UNCHANGED part

TurnsInit ==
  \/ part = "turn" /\ Turn!Init
  \/ part = "gate" /\ Gate!Init

TurnsSpec == TurnsInit /\ [][Turning \/ Gating]_<<vars, part>>
=============================================================================
