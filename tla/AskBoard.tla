------------------------------ MODULE AskBoard ------------------------------
(***************************************************************************)
(* The question board of a session (runtime/src/gate.rs) and those who use *)
(* it at once: the actor, which opens a question when it dispatches the    *)
(* gate of ring 5 and closes it on a hard interrupt; the task that runs    *)
(* the gate (GateChain::ask_human); and any number of clients, any of      *)
(* which may answer.  Each method of the board holds its lock, so the      *)
(* steps below are the spans between two of them.                          *)
(***************************************************************************)
EXTENDS Integers, FiniteSets

CONSTANTS
  Questions,   \* ids of questions, in their order, each of one gate
  Ruled,       \* questions an auto-answer rule may answer
  Fallbacks,   \* what an unattended session may do with a question: see below
  MaxKept      \* MAX_ANSWERED_KEPT

Answers == {"allow", "deny"}

(* A gate falls back on nothing ("none") when there are humans             *)
(* (GateChain::unattended unset); else it defers a question of invariant   *)
(* level (in a disposable environment, allows it), and does with the rest  *)
(* what OnAsk says.  A reload replaces the chain for the gates after it.   *)

ASSUME BoardAssumption ==
  /\ Questions \subseteq Nat /\ IsFiniteSet(Questions)
  /\ Ruled \subseteq Questions
  /\ Fallbacks \subseteq Answers \cup {"none", "defer"}
  /\ MaxKept \in Nat

VARIABLES
  fallback,   \* what the gate of each question falls back on
  slot,       \* the board: absent, open, or the answer that won
  task,       \* where the task of each question's gate is
  cancelled,  \* gates whose effect a hard interrupt has cancelled
  closed,     \* of those, the ones whose question it has closed too
  heard,      \* what the task's subscription of the slot has received
  outcome,    \* the verdict the gate reported
  accepted    \* the answers to each question the board accepted

vars == <<fallback, slot, task, cancelled, closed, heard, outcome, accepted>>

Tasks == {"none", "spawned", "asking", "checking", "locking", "waiting", "listening", "over"}

Init ==
  /\ fallback \in [Questions -> Fallbacks]
  /\ slot = [q \in Questions |-> "absent"]
  /\ task = [q \in Questions |-> "none"]
  /\ cancelled = {}
  /\ closed = {}
  /\ heard = [q \in Questions |-> "deaf"]
  /\ outcome = [q \in Questions |-> "none"]
  /\ accepted = [q \in Questions |-> {}]

-----------------------------------------------------------------------------
(* AskBoard::open: an existing slot keeps its answer; of the answered ones *)
(* the first in id order go while there are more than MaxKept.             *)
Opened(q) == [slot EXCEPT ![q] = IF @ = "absent" THEN "open" ELSE @]

Evicted(s) ==
  LET kept     == {p \in Questions : s[p] # "absent"}
      answered == {p \in Questions : s[p] \in Answers}
      rank(p)  == Cardinality({o \in answered : o < p})
  IN {p \in answered : rank(p) < Cardinality(kept) - MaxKept}

Open(q) ==
  LET s == Opened(q)
  IN /\ slot' = [p \in Questions |-> IF p \in Evicted(s) THEN "absent" ELSE s[p]]
     /\ UNCHANGED accepted

(* AskBoard::open_answered, with the answer of a rule.                     *)
OpenAnswered(q, a) ==
  IF slot[q] \in Answers
    THEN UNCHANGED <<slot, accepted>>
    ELSE /\ slot' = [slot EXCEPT ![q] = a]
         /\ accepted' = [accepted EXCEPT ![q] = @ \cup {a}]

(* A question is registered by the actor and again by its task.  Rules may *)
(* answer differently each time: they depend on the permission mode and on *)
(* grants, which change meanwhile.                                         *)
Register(q) == Open(q) \/ (q \in Ruled /\ \E a \in Answers : OpenAnswered(q, a))

(* Mutant: an answer replaces the one that won. *)
AnswerOver(q, a) ==
  /\ slot[q] # "absent"
  /\ slot' = [slot EXCEPT ![q] = a]
  /\ accepted' = [accepted EXCEPT ![q] = @ \cup {a}]

(* AskBoard::answer, a compare-and-swap: only of an open question.         *)
Answer(q, a) ==
  /\ slot[q] = "open"
  /\ slot' = [slot EXCEPT ![q] = a]
  /\ accepted' = [accepted EXCEPT ![q] = @ \cup {a}]

(* Mutant: an answer is stored without waking who waits for it. *)
NotifyRemovals ==
  heard' = [q \in Questions |->
              IF heard[q] = "nothing" /\ slot'[q] = "absent" THEN "closed" ELSE heard[q]]

(* What the subscriptions see of a step of the board: an answer, or the    *)
(* slot's removal; the first thing seen is the one wait returns.           *)
Notify ==
  heard' = [q \in Questions |->
              IF heard[q] # "nothing" THEN heard[q]
              ELSE IF slot'[q] \in Answers THEN slot'[q]
              ELSE IF slot'[q] = "absent" THEN "closed" ELSE heard[q]]

-----------------------------------------------------------------------------
(* The actor: Effect::Gate in Actor::dispatch, and the cancellation of the *)
(* gate, in two steps, in Actor::hard_interrupt.                           *)
Dispatch(q) ==
  /\ task[q] = "none"
  /\ Register(q)
  /\ Notify
  /\ task' = [task EXCEPT ![q] = "spawned"]
  /\ UNCHANGED <<fallback, cancelled, closed, outcome>>

Cancel(q) ==
  /\ task[q] # "none" /\ q \notin cancelled
  /\ cancelled' = cancelled \cup {q}
  /\ UNCHANGED <<fallback, slot, task, heard, outcome, accepted, closed>>

Close(q) ==
  /\ q \in cancelled /\ q \notin closed
  /\ closed' = closed \cup {q}
  /\ slot' = [slot EXCEPT ![q] = "absent"]
  /\ Notify
  /\ UNCHANGED <<fallback, task, cancelled, outcome, accepted>>

(* A deferred approval asked again: resuming the turn dispatches a new     *)
(* gate with the same question.                                            *)
Reask(q) ==
  /\ task[q] = "over" /\ outcome[q] = "defer" /\ q \notin cancelled
  /\ task' = [task EXCEPT ![q] = "none"]
  /\ heard' = [heard EXCEPT ![q] = "deaf"]
  /\ outcome' = [outcome EXCEPT ![q] = "none"]
  /\ UNCHANGED <<fallback, slot, cancelled, closed, accepted>>

-----------------------------------------------------------------------------
(* A client: Control::Answer, from any connection.                         *)
ClientAnswers(q) ==
  /\ \E a \in Answers : Answer(q, a)
  /\ Notify
  /\ UNCHANGED <<fallback, task, cancelled, closed, outcome>>

-----------------------------------------------------------------------------
(* The task of the gate (dispatch::gate, GateChain::ask_human).  It looks  *)
(* at the cancellation when it is polled, so before Ask and while it       *)
(* listens; from Ask to Wait it runs without a pause, against the others.  *)
Report(q, verdict) ==
  /\ outcome' = [outcome EXCEPT ![q] = verdict]
  /\ task' = [task EXCEPT ![q] = "over"]

Poll(q) ==
  /\ task[q] = "spawned"
  /\ task' = [task EXCEPT ![q] = IF q \in cancelled THEN "over" ELSE "asking"]
  /\ UNCHANGED <<fallback, slot, cancelled, closed, heard, outcome, accepted>>

Ask(q) ==
  /\ task[q] = "asking"
  /\ Register(q)
  /\ Notify
  /\ task' = [task EXCEPT ![q] = IF fallback[q] = "none" THEN "waiting" ELSE "checking"]
  /\ UNCHANGED <<fallback, cancelled, closed, outcome>>

CheckAnswered(q) ==
  /\ task[q] = "checking"
  /\ task' = [task EXCEPT ![q] = IF slot[q] \in Answers THEN "waiting" ELSE "locking"]
  /\ UNCHANGED <<fallback, slot, cancelled, closed, heard, outcome, accepted>>

(* Mutant: the fallback is reported whether or not it won. *)
FallBackRegardless(q) ==
  /\ task[q] = "locking" /\ fallback[q] \in Answers
  /\ \/ Answer(q, fallback[q])
     \/ slot[q] # "open" /\ UNCHANGED <<slot, accepted>>
  /\ Report(q, fallback[q])
  /\ Notify
  /\ UNCHANGED <<fallback, cancelled, closed>>

(* The fallback of an unattended session: locked in as the answer, unless  *)
(* another one won; a deferral removes the question.                       *)
FallBack(q) ==
  /\ task[q] = "locking" /\ fallback[q] \in Answers
  /\ \/ /\ Answer(q, fallback[q])
        /\ Report(q, fallback[q])
     \/ /\ slot[q] # "open"
        /\ task' = [task EXCEPT ![q] = "waiting"]
        /\ UNCHANGED <<slot, outcome, accepted>>
  /\ Notify
  /\ UNCHANGED <<fallback, cancelled, closed>>

FallBackDeferring(q) ==
  /\ task[q] = "locking" /\ fallback[q] = "defer"
  /\ slot' = [slot EXCEPT ![q] = "absent"]
  /\ Report(q, "defer")
  /\ Notify
  /\ UNCHANGED <<fallback, cancelled, closed, accepted>>

Wait(q) ==
  /\ task[q] = "waiting"
  /\ \/ /\ slot[q] \in Answers
        /\ Report(q, slot[q])
        /\ UNCHANGED heard
     \/ /\ slot[q] = "absent" \/ q \in cancelled
        /\ Report(q, "defer")
        /\ UNCHANGED heard
     \/ /\ slot[q] = "open"
        /\ heard' = [heard EXCEPT ![q] = "nothing"]
        /\ task' = [task EXCEPT ![q] = "listening"]
        /\ UNCHANGED outcome
  /\ UNCHANGED <<fallback, slot, cancelled, closed, accepted>>

Hear(q) ==
  /\ task[q] = "listening" /\ heard[q] # "nothing"
  /\ Report(q, IF heard[q] \in Answers THEN heard[q] ELSE "defer")
  /\ UNCHANGED <<fallback, slot, cancelled, closed, heard, accepted>>

Abandon(q) ==
  /\ task[q] = "listening" /\ q \in cancelled
  /\ task' = [task EXCEPT ![q] = "over"]
  /\ UNCHANGED <<fallback, slot, cancelled, closed, heard, outcome, accepted>>

-----------------------------------------------------------------------------
GateTask(q) ==
  \/ Poll(q) \/ Ask(q) \/ CheckAnswered(q) \/ FallBack(q) \/ FallBackDeferring(q)
  \/ Wait(q) \/ Hear(q) \/ Abandon(q)

Next == \E q \in Questions :
  \/ Dispatch(q) \/ Cancel(q) \/ Close(q) \/ Reask(q)
  \/ ClientAnswers(q)
  \/ GateTask(q)

Spec == Init /\ [][Next]_vars

(* The task of a gate is scheduled while it can run, and the actor ends    *)
(* the hard interrupt it has begun.                                        *)
Fairness == \A q \in Questions : WF_vars(GateTask(q)) /\ WF_vars(Close(q))

LiveSpec == Spec /\ Fairness

-----------------------------------------------------------------------------
(* The types of the variables.                                             *)
TypeOK ==
  /\ fallback \in [Questions -> Fallbacks]
  /\ slot \in [Questions -> Answers \cup {"absent", "open"}]
  /\ task \in [Questions -> Tasks]
  /\ cancelled \subseteq Questions /\ closed \subseteq cancelled
  /\ heard \in [Questions -> Answers \cup {"deaf", "nothing", "closed"}]
  /\ outcome \in [Questions -> Answers \cup {"none", "defer"}]
  /\ accepted \in [Questions -> SUBSET Answers]

(* A gate reports an answer only when the board accepted that answer, from *)
(* a client, a rule or the fallback: not what lost the race, and not a     *)
(* question that was closed or evicted under it.                           *)
OutcomeFaithful ==
  \A q \in Questions : outcome[q] \in Answers => outcome[q] \in accepted[q]

(* Whoever the board told that their answer won decided: the gate reports  *)
(* it, and no other answer was accepted, unless the gate was cancelled or  *)
(* its fallback defers.                                                    *)
Heard(q) == task[q] = "over" /\ q \notin cancelled => accepted[q] \subseteq {outcome[q]}

AcceptedHeard == \A q \in Questions : fallback[q] # "defer" => Heard(q)

(* A gate whose question was answered, or that was cancelled, comes to an  *)
(* end: no task waits on a slot that is gone or already answered.          *)
GatesEnd ==
  \A q \in Questions :
    task[q] \notin {"none", "over"} /\ (accepted[q] # {} \/ q \in cancelled) ~> task[q] = "over"
=============================================================================
