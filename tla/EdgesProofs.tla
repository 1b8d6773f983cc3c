---------------------------- MODULE EdgesProofs ----------------------------
(***************************************************************************)
(* Three parts around a session, each in behaviours of its own.            *)
(*                                                                         *)
(* What AskBoard keeps for any set of questions, any rules, any fallback   *)
(* and any number of answered questions kept.                              *)
(*                                                                         *)
(* Then why a call of an MCP server's tool never gets another call's       *)
(* answer, for any number of calls, pipes and streams of any length, and   *)
(* any transport the client starts with.                                   *)
(*                                                                         *)
(* Last, why a reply is what one attempt of the model said, for any        *)
(* sessions, vendors, permits and retries, and an answer of any length.    *)
(***************************************************************************)
EXTENDS AskBoard, Mcp, Stream, FiniteSetTheorems, SequenceTheorems, WellFoundedInduction, TLAPS

(* A task that has not subscribed yet has heard nothing, and one that      *)
(* still runs has reported nothing.                                        *)
Silent ==
  \A q \in Questions :
    /\ task[q] \notin {"listening", "over"} => heard[q] = "deaf"
    /\ task[q] # "over" => outcome[q] = "none"

(* Every trace of an answer is an answer the board accepted.               *)
Traced ==
  \A q \in Questions :
    /\ slot[q] \in Answers => slot[q] \in accepted[q]
    /\ heard[q] \in Answers => heard[q] \in accepted[q]

BoardInv == TypeOK /\ Silent /\ Traced /\ OutcomeFaithful

-----------------------------------------------------------------------------
(* What a step of the board may do to the slots and to what was accepted.  *)
BoardStep ==
  /\ slot' \in [Questions -> Answers \cup {"absent", "open"}]
  /\ accepted' \in [Questions -> SUBSET Answers]
  /\ \A q \in Questions : accepted[q] \subseteq accepted'[q]
  /\ \A q \in Questions : slot'[q] \in Answers => slot'[q] \in accepted'[q]

(* Registering a question, opened or answered by a rule, is such a step.   *)
LEMMA RegisterSteps ==
  ASSUME TypeOK, Traced, NEW q \in Questions, Register(q)
  PROVE  BoardStep
<1>1. CASE \E a \in Answers : OpenAnswered(q, a)
  BY <1>1 DEF OpenAnswered, BoardStep, TypeOK, Traced, Answers
<1>2. CASE Open(q)
  <2> DEFINE s == Opened(q)
  <2>1. s \in [Questions -> Answers \cup {"absent", "open"}]
    BY DEF TypeOK, Opened
  <2>2. \A p \in Questions : s[p] \in Answers => s[p] = slot[p]
    BY DEF TypeOK, Opened, Answers
  <2>3. slot' = [p \in Questions |-> IF p \in Evicted(s) THEN "absent" ELSE s[p]]
    BY <1>2 DEF Open
  <2>4. accepted' = accepted
    BY <1>2 DEF Open
  <2> HIDE DEF s
  <2> QED BY <2>1, <2>2, <2>3, <2>4 DEF BoardStep, TypeOK, Traced, Answers
<1> QED BY <1>1, <1>2 DEF Register

(* So is accepting an answer.                                              *)
LEMMA AnswerSteps ==
  ASSUME TypeOK, Traced, NEW q \in Questions, NEW a \in Answers, Answer(q, a)
  PROVE  BoardStep /\ a \in accepted'[q]
BY DEF Answer, BoardStep, TypeOK, Traced, Answers

(* And removing a slot.                                                    *)
LEMMA RemovalSteps ==
  ASSUME TypeOK, Traced, NEW q \in Questions,
         slot' = [slot EXCEPT ![q] = "absent"], accepted' = accepted
  PROVE  BoardStep
BY DEF BoardStep, TypeOK, Traced, Answers

(* Subscriptions hear only what the board then has.                        *)
LEMMA NotifyHears ==
  ASSUME TypeOK, Traced, Silent, BoardStep, Notify
  PROVE  /\ heard' \in [Questions -> Answers \cup {"deaf", "nothing", "closed"}]
         /\ \A q \in Questions : heard'[q] \in Answers => heard'[q] \in accepted'[q]
         /\ \A q \in Questions : heard[q] = "deaf" => heard'[q] = "deaf"
BY DEF TypeOK, Traced, BoardStep, Notify, Answers

LEMMA InitBoard == Init => BoardInv
BY DEF Init, BoardInv, TypeOK, Silent, Traced, OutcomeFaithful, Answers, Tasks

-----------------------------------------------------------------------------
(* Each action preserves the invariant.                                    *)
LEMMA DispatchInv == ASSUME BoardInv, NEW q \in Questions, Dispatch(q) PROVE BoardInv'
<1>1. BoardStep BY RegisterSteps DEF BoardInv, Dispatch
<1>2. Notify BY DEF Dispatch
<1> QED BY <1>1, <1>2, NotifyHears
        DEF BoardInv, BoardStep, Dispatch, TypeOK, Silent, Traced, OutcomeFaithful, Answers, Tasks

LEMMA CancelInv == ASSUME BoardInv, NEW q \in Questions, Cancel(q) PROVE BoardInv'
BY DEF BoardInv, Cancel, TypeOK, Silent, Traced, OutcomeFaithful

LEMMA CloseInv == ASSUME BoardInv, NEW q \in Questions, Close(q) PROVE BoardInv'
<1>1. BoardStep BY RemovalSteps DEF BoardInv, Close
<1>2. Notify BY DEF Close
<1> QED BY <1>1, <1>2, NotifyHears
        DEF BoardInv, BoardStep, Close, TypeOK, Silent, Traced, OutcomeFaithful

LEMMA ReaskInv == ASSUME BoardInv, NEW q \in Questions, Reask(q) PROVE BoardInv'
BY DEF BoardInv, Reask, TypeOK, Silent, Traced, OutcomeFaithful, Answers, Tasks

LEMMA ClientAnswersInv ==
  ASSUME BoardInv, NEW q \in Questions, ClientAnswers(q) PROVE BoardInv'
<1>1. BoardStep BY AnswerSteps DEF BoardInv, ClientAnswers
<1>2. Notify BY DEF ClientAnswers
<1> QED BY <1>1, <1>2, NotifyHears
        DEF BoardInv, BoardStep, ClientAnswers, TypeOK, Silent, Traced, OutcomeFaithful

LEMMA AskInv == ASSUME BoardInv, NEW q \in Questions, Ask(q) PROVE BoardInv'
<1>1. BoardStep BY RegisterSteps DEF BoardInv, Ask
<1>2. Notify BY DEF Ask
<1> QED BY <1>1, <1>2, NotifyHears
        DEF BoardInv, BoardStep, Ask, TypeOK, Silent, Traced, OutcomeFaithful, Answers, Tasks

LEMMA FallBackInv == ASSUME BoardInv, NEW q \in Questions, FallBack(q) PROVE BoardInv'
<1>1. CASE Answer(q, fallback[q]) /\ Report(q, fallback[q])
  <2>1. fallback[q] \in Answers BY DEF FallBack
  <2>2. BoardStep /\ fallback[q] \in accepted'[q] BY <1>1, <2>1, AnswerSteps DEF BoardInv
  <2>3. Notify /\ task[q] = "locking" /\ UNCHANGED <<fallback, cancelled, closed>> BY DEF FallBack
  <2>4. /\ heard' \in [Questions -> Answers \cup {"deaf", "nothing", "closed"}]
        /\ \A p \in Questions : heard'[p] \in Answers => heard'[p] \in accepted'[p]
        /\ \A p \in Questions : heard[p] = "deaf" => heard'[p] = "deaf"
    BY <2>2, <2>3, NotifyHears DEF BoardInv
  <2>5. outcome' = [outcome EXCEPT ![q] = fallback[q]] /\ task' = [task EXCEPT ![q] = "over"]
    BY <1>1 DEF Report
  <2> QED BY <2>1, <2>2, <2>3, <2>4, <2>5
          DEF BoardInv, BoardStep, TypeOK, Silent, Traced, OutcomeFaithful, Tasks
<1>2. CASE /\ task' = [task EXCEPT ![q] = "waiting"]
           /\ UNCHANGED <<slot, outcome, accepted>>
  <2>1. BoardStep BY <1>2 DEF BoardInv, BoardStep, TypeOK, Traced
  <2>2. Notify BY DEF FallBack
  <2> QED BY <1>2, <2>1, <2>2, NotifyHears
          DEF BoardInv, BoardStep, FallBack, TypeOK, Silent, Traced, OutcomeFaithful, Answers, Tasks
<1> QED BY <1>1, <1>2 DEF FallBack

LEMMA FallBackDeferringInv ==
  ASSUME BoardInv, NEW q \in Questions, FallBackDeferring(q) PROVE BoardInv'
<1>1. BoardStep BY RemovalSteps DEF BoardInv, FallBackDeferring
<1>2. Notify BY DEF FallBackDeferring
<1> QED BY <1>1, <1>2, NotifyHears
        DEF BoardInv, BoardStep, FallBackDeferring, Report, TypeOK, Silent, Traced, OutcomeFaithful,
            Answers, Tasks

LEMMA WaitInv == ASSUME BoardInv, NEW q \in Questions, Wait(q) PROVE BoardInv'
BY DEF BoardInv, Wait, Report, TypeOK, Silent, Traced, OutcomeFaithful, Answers, Tasks

LEMMA HearInv == ASSUME BoardInv, NEW q \in Questions, Hear(q) PROVE BoardInv'
BY DEF BoardInv, Hear, Report, TypeOK, Silent, Traced, OutcomeFaithful, Answers, Tasks

LEMMA QuietInv ==
  ASSUME BoardInv, NEW q \in Questions, Poll(q) \/ CheckAnswered(q) \/ Abandon(q)
  PROVE  BoardInv'
BY DEF BoardInv, Poll, CheckAnswered, Abandon, TypeOK, Silent, Traced, OutcomeFaithful, Answers, Tasks

(* The inductive invariant, of the whole next-state relation.              *)
LEMMA NextBoard == BoardInv /\ [Next]_vars => BoardInv'
<1> SUFFICES ASSUME BoardInv, [Next]_vars PROVE BoardInv'
  OBVIOUS
<1>1. CASE UNCHANGED vars
  BY <1>1 DEF vars, BoardInv, TypeOK, Silent, Traced, OutcomeFaithful
<1>2. CASE Next
  <2>1. PICK q \in Questions :
          Dispatch(q) \/ Cancel(q) \/ Close(q) \/ Reask(q) \/ ClientAnswers(q) \/ GateTask(q)
    BY <1>2 DEF Next
  <2>2. CASE GateTask(q)
    BY <2>2, AskInv, FallBackInv, FallBackDeferringInv, WaitInv, HearInv, QuietInv DEF GateTask
  <2> QED BY <2>1, <2>2, DispatchInv, CancelInv, CloseInv, ReaskInv, ClientAnswersInv
<1> QED BY <1>1, <1>2

(* The types of the board and of its gates hold in every reachable state.  *)
THEOREM BoardTypes == Spec => []TypeOK
<1>1. BoardInv => TypeOK BY DEF BoardInv
<1> QED BY InitBoard, NextBoard, <1>1, PTL DEF Spec

(* No gate reports an answer the board has not accepted, whatever the      *)
(* number of questions kept and whoever answers when.                      *)
THEOREM OutcomesAreFaithful == Spec => []OutcomeFaithful
<1>1. BoardInv => OutcomeFaithful BY DEF BoardInv
<1> QED BY InitBoard, NextBoard, <1>1, PTL DEF Spec

-----------------------------------------------------------------------------
(* While the board has room for every question, the slot of a question     *)
(* whose fallback does not defer goes only with its gate's cancellation;   *)
(* short of that it holds the one answer accepted, and the gate reports it.*)
Roomy == Cardinality(Questions) <= MaxKept

Firm == {q \in Questions \ cancelled : fallback[q] # "defer"}

Heeded ==
  \A q \in Firm :
    /\ slot[q] \in {"absent", "open"} => accepted[q] = {}
    /\ slot[q] \in Answers => accepted[q] = {slot[q]}
    /\ slot[q] = "absent" => task[q] = "none"
    /\ heard[q] # "closed" /\ (heard[q] \in Answers => slot[q] = heard[q])
    /\ task[q] = "listening" => heard[q] # "deaf"
    /\ task[q] = "over" => slot[q] \in Answers /\ outcome[q] = slot[q]

HeededInv == BoardInv /\ Heeded

(* With room for all of them no question is evicted.                       *)
LEMMA NoneEvicted ==
  ASSUME Roomy, NEW s \in [Questions -> Answers \cup {"absent", "open"}]
  PROVE  Evicted(s) = {}
<1> DEFINE kept == {p \in Questions : s[p] # "absent"}
           answered == {p \in Questions : s[p] \in Answers}
<1>1. IsFiniteSet(Questions) /\ MaxKept \in Nat BY BoardAssumption
<1>2. /\ Cardinality(kept) \in Nat /\ Cardinality(Questions) \in Nat
      /\ Cardinality(kept) <= Cardinality(Questions)
  BY <1>1, FS_Subset, FS_CardinalityType
<1>3. ASSUME NEW p \in answered
      PROVE  Cardinality({o \in answered : o < p}) \in Nat
  <2>1. {o \in answered : o < p} \subseteq Questions OBVIOUS
  <2> QED BY <1>1, <2>1, FS_Subset, FS_CardinalityType
<1>4. \A p \in answered :
        ~ (Cardinality({o \in answered : o < p}) < Cardinality(kept) - MaxKept)
  BY <1>1, <1>2, <1>3 DEF Roomy
<1> QED BY <1>4 DEF Evicted

(* Registering a question then opens or answers its slot, and no other.    *)
LEMMA RegisterKeeps ==
  ASSUME Roomy, TypeOK, NEW q \in Questions, Register(q)
  PROVE  /\ slot' = [slot EXCEPT ![q] = slot'[q]]
         /\ slot'[q] \in Answers \cup {"open"}
         /\ slot[q] \in Answers => slot'[q] = slot[q] /\ accepted' = accepted
         /\ slot'[q] = "open" => accepted' = accepted
         /\ slot[q] \notin Answers /\ slot'[q] \in Answers
              => accepted' = [accepted EXCEPT ![q] = @ \cup {slot'[q]}]
         /\ \A p \in Questions \ {q} : accepted'[p] = accepted[p]
<1>1. CASE \E a \in Answers : OpenAnswered(q, a)
  BY <1>1 DEF OpenAnswered, TypeOK, Answers
<1>2. CASE Open(q)
  <2>1. Opened(q) \in [Questions -> Answers \cup {"absent", "open"}]
    BY DEF TypeOK, Opened
  <2>2. slot' = [p \in Questions |-> Opened(q)[p]] /\ accepted' = accepted
    BY <1>2, <2>1, NoneEvicted DEF Open
  <2> QED BY <2>2 DEF Opened, TypeOK, Answers
<1> QED BY <1>1, <1>2 DEF Register

LEMMA HeededBasics ==
  ASSUME BoardInv, BoardInv', Heeded, Notify,
         cancelled \subseteq cancelled', fallback' = fallback,
         \A q \in Firm' :
           slot'[q] # "absent" \/ heard[q] # "nothing"
  PROVE  \A q \in Firm' :
           heard'[q] # "closed" /\ (heard[q] # "deaf" => heard'[q] # "deaf")
           /\ (heard'[q] \in Answers => heard'[q] = heard[q] \/ heard'[q] = slot'[q])
BY DEF BoardInv, TypeOK, Heeded, Firm, Notify, Answers

LEMMA RegisterHeeds ==
  ASSUME Roomy, BoardInv, BoardInv', Heeded, NEW q \in Questions, Register(q), Notify,
         cancelled' = cancelled, outcome' = outcome, fallback' = fallback,
         task[q] \in {"none", "asking"},
         NEW t \in {"spawned", "waiting", "checking"}, task' = [task EXCEPT ![q] = t]
  PROVE  Heeded'
<1>1. /\ slot' = [slot EXCEPT ![q] = slot'[q]]
      /\ slot'[q] \in Answers \cup {"open"}
      /\ slot[q] \in Answers => slot'[q] = slot[q] /\ accepted' = accepted
      /\ slot'[q] = "open" => accepted' = accepted
      /\ slot[q] \notin Answers /\ slot'[q] \in Answers
           => accepted' = [accepted EXCEPT ![q] = @ \cup {slot'[q]}]
      /\ \A p \in Questions \ {q} : accepted'[p] = accepted[p]
  BY RegisterKeeps DEF BoardInv
<1>2. \A p \in Questions \ {q} : slot'[p] = slot[p] /\ task'[p] = task[p]
  BY <1>1 DEF BoardInv, TypeOK
<1>3. task'[q] = t BY DEF BoardInv, TypeOK
<1>4. \A p \in Firm : slot'[p] # "absent" \/ heard[p] # "nothing"
  BY <1>1, <1>2 DEF Heeded, Firm, BoardInv, Silent, Answers
<1>5. \A p \in Firm :
        heard'[p] # "closed" /\ (heard[p] # "deaf" => heard'[p] # "deaf")
        /\ (heard'[p] \in Answers => heard'[p] = heard[p] \/ heard'[p] = slot'[p])
  BY <1>4, HeededBasics DEF Firm
<1>6. ASSUME NEW p \in Firm, p # q
      PROVE  /\ slot'[p] \in {"absent", "open"} => accepted'[p] = {}
             /\ slot'[p] \in Answers => accepted'[p] = {slot'[p]}
             /\ slot'[p] = "absent" => task'[p] = "none"
             /\ heard'[p] # "closed" /\ (heard'[p] \in Answers => slot'[p] = heard'[p])
             /\ task'[p] = "listening" => heard'[p] # "deaf"
             /\ task'[p] = "over" => slot'[p] \in Answers /\ outcome'[p] = slot'[p]
  BY <1>1, <1>2, <1>5, <1>6 DEF Heeded, Firm
<1>7. ASSUME q \in Firm
      PROVE  /\ slot'[q] \in {"absent", "open"} => accepted'[q] = {}
             /\ slot'[q] \in Answers => accepted'[q] = {slot'[q]}
             /\ slot'[q] = "absent" => task'[q] = "none"
             /\ heard'[q] # "closed" /\ (heard'[q] \in Answers => slot'[q] = heard'[q])
             /\ task'[q] = "listening" => heard'[q] # "deaf"
             /\ task'[q] = "over" => slot'[q] \in Answers /\ outcome'[q] = slot'[q]
  <2>1. heard[q] = "deaf" BY DEF BoardInv, Silent
  <2>2. slot[q] \in Answers \cup {"absent", "open"} BY DEF BoardInv, TypeOK
  <2>3. accepted[q] = IF slot[q] \in Answers THEN {slot[q]} ELSE {}
    BY <1>7, <2>2 DEF Heeded, Firm
  <2>4. accepted'[q] = IF slot'[q] \in Answers THEN {slot'[q]} ELSE {}
    <3>1. CASE slot[q] \in Answers BY <1>1, <2>3, <3>1
    <3>2. CASE slot'[q] = "open"
      BY <1>1, <2>2, <2>3, <3>2 DEF Answers
    <3>3. CASE slot[q] \notin Answers /\ slot'[q] \in Answers
      BY <1>1, <2>3, <3>3 DEF BoardInv, TypeOK
    <3> QED BY <1>1, <3>1, <3>2, <3>3
  <2> QED BY <1>1, <1>3, <1>5, <1>7, <2>1, <2>4 DEF Answers
<1> QED BY <1>6, <1>7 DEF Heeded, Firm

(* Each action keeps the answers heeded.                                   *)
LEMMA NextHeeded ==
  ASSUME Roomy, BoardInv, BoardInv', Heeded, NEW q \in Questions,
         Dispatch(q) \/ Cancel(q) \/ Close(q) \/ Reask(q) \/ ClientAnswers(q) \/ GateTask(q)
  PROVE  Heeded'
<1>1. CASE Dispatch(q)
  BY <1>1, RegisterHeeds DEF Dispatch
<1>2. CASE Cancel(q)
  BY <1>2 DEF Cancel, Heeded, Firm
<1>3. CASE Close(q)
  <2>1. \A p \in Firm : slot'[p] = slot[p]
    BY <1>3 DEF Close, Firm, BoardInv, TypeOK
  <2>2. \A p \in Firm : slot'[p] # "absent" \/ heard[p] # "nothing"
    BY <2>1 DEF Heeded, Firm, BoardInv, Silent
  <2>3. \A p \in Firm :
          heard'[p] # "closed" /\ (heard[p] # "deaf" => heard'[p] # "deaf")
          /\ (heard'[p] \in Answers => heard'[p] = heard[p] \/ heard'[p] = slot'[p])
    BY <1>3, <2>2, HeededBasics DEF Close, Firm
  <2> QED BY <1>3, <2>1, <2>3 DEF Close, Heeded, Firm
<1>4. CASE Reask(q)
  BY <1>4 DEF Reask, Heeded, Firm, Answers
<1>5. CASE ClientAnswers(q)
  <2>1. PICK a \in Answers : Answer(q, a) BY <1>5 DEF ClientAnswers
  <2>2. /\ slot[q] = "open" /\ slot'[q] = a
        /\ \A p \in Questions \ {q} : slot'[p] = slot[p] /\ accepted'[p] = accepted[p]
        /\ accepted'[q] = accepted[q] \cup {a}
    BY <2>1 DEF Answer, BoardInv, TypeOK
  <2>3. \A p \in Firm : slot'[p] # "absent" \/ heard[p] # "nothing"
    BY <2>2 DEF Heeded, Firm, BoardInv, Silent, Answers
  <2>4. \A p \in Firm :
          heard'[p] # "closed" /\ (heard[p] # "deaf" => heard'[p] # "deaf")
          /\ (heard'[p] \in Answers => heard'[p] = heard[p] \/ heard'[p] = slot'[p])
    BY <1>5, <2>3, HeededBasics DEF ClientAnswers, Firm
  <2> QED BY <1>5, <2>2, <2>4 DEF ClientAnswers, Heeded, Firm, Answers
<1>6. CASE Ask(q)
  BY <1>6, RegisterHeeds DEF Ask
<1>7. CASE FallBack(q)
  <2>1. CASE Answer(q, fallback[q]) /\ Report(q, fallback[q])
    <3>1. /\ slot[q] = "open" /\ slot'[q] = fallback[q] /\ fallback[q] \in Answers
          /\ \A p \in Questions \ {q} :
               /\ slot'[p] = slot[p] /\ accepted'[p] = accepted[p]
               /\ outcome'[p] = outcome[p] /\ task'[p] = task[p]
          /\ accepted'[q] = accepted[q] \cup {fallback[q]}
          /\ outcome'[q] = fallback[q]
      BY <1>7, <2>1 DEF FallBack, Answer, Report, BoardInv, TypeOK
    <3>2. \A p \in Firm : slot'[p] # "absent" \/ heard[p] # "nothing"
      BY <3>1 DEF Heeded, Firm, BoardInv, Silent, Answers
    <3>3. \A p \in Firm :
            heard'[p] # "closed" /\ (heard[p] # "deaf" => heard'[p] # "deaf")
            /\ (heard'[p] \in Answers => heard'[p] = heard[p] \/ heard'[p] = slot'[p])
      BY <1>7, <3>2, HeededBasics DEF FallBack, Firm
    <3>4. fallback' = fallback /\ cancelled' = cancelled /\ task'[q] = "over"
      BY <1>7, <2>1 DEF FallBack, Report, BoardInv, TypeOK
    <3> QED BY <3>1, <3>3, <3>4 DEF Heeded, Firm, Answers
  <2>2. CASE /\ task' = [task EXCEPT ![q] = "waiting"]
             /\ UNCHANGED <<slot, outcome, accepted>>
    <3>1. \A p \in Firm : slot'[p] # "absent" \/ heard[p] # "nothing"
      BY <2>2 DEF Heeded, Firm, BoardInv, Silent
    <3>2. \A p \in Firm :
            heard'[p] # "closed" /\ (heard[p] # "deaf" => heard'[p] # "deaf")
            /\ (heard'[p] \in Answers => heard'[p] = heard[p] \/ heard'[p] = slot'[p])
      BY <1>7, <2>2, <3>1, HeededBasics DEF FallBack, Firm
    <3>3. fallback' = fallback /\ cancelled' = cancelled /\ task[q] = "locking" BY <1>7 DEF FallBack
    <3>4. \A p \in Questions : task'[p] = IF p = q THEN "waiting" ELSE task[p]
      BY <2>2 DEF BoardInv, TypeOK
    <3> QED BY <2>2, <3>2, <3>3, <3>4 DEF Heeded, Firm
  <2> QED BY <1>7, <2>1, <2>2 DEF FallBack
<1>8. CASE FallBackDeferring(q)
  <2>1. /\ q \notin Firm /\ Firm' = Firm
        /\ \A p \in Firm :
             /\ slot'[p] = slot[p] /\ accepted'[p] = accepted[p]
             /\ task'[p] = task[p] /\ outcome'[p] = outcome[p]
    BY <1>8 DEF FallBackDeferring, Report, Firm, BoardInv, TypeOK
  <2>2. \A p \in Firm : slot'[p] # "absent" \/ heard[p] # "nothing"
    BY <2>1 DEF Heeded, Firm, BoardInv, Silent
  <2>3. \A p \in Firm :
          heard'[p] # "closed" /\ (heard[p] # "deaf" => heard'[p] # "deaf")
          /\ (heard'[p] \in Answers => heard'[p] = heard[p] \/ heard'[p] = slot'[p])
    BY <1>8, <2>1, <2>2, HeededBasics DEF FallBackDeferring, Firm
  <2> QED BY <2>1, <2>3 DEF Heeded
<1>9. CASE Wait(q)
  BY <1>9 DEF Wait, Report, Heeded, Firm, BoardInv, TypeOK, Answers
<1>10. CASE Hear(q)
  BY <1>10 DEF Hear, Report, Heeded, Firm, BoardInv, TypeOK, Answers
<1>11. CASE Poll(q) \/ CheckAnswered(q) \/ Abandon(q)
  <2>1. /\ UNCHANGED <<fallback, slot, cancelled, heard, outcome, accepted>> /\ task[q] # "none"
        /\ \A p \in Questions : p # q => task'[p] = task[p]
        /\ task'[q] # "listening" /\ (task'[q] = "over" => q \in cancelled)
    BY <1>11 DEF Poll, CheckAnswered, Abandon, BoardInv, TypeOK
  <2> QED BY <2>1 DEF Heeded, Firm
<1> QED BY <1>1, <1>2, <1>3, <1>4, <1>5, <1>6, <1>7, <1>8, <1>9, <1>10, <1>11 DEF GateTask

(* Where the board has room, an answer that won is what the gate reports,  *)
(* if its fallback does not defer.                                         *)
THEOREM AnswersAreHeard == ASSUME Roomy PROVE Spec => []AcceptedHeard
<1>1. Init => HeededInv
  BY InitBoard DEF Init, HeededInv, Heeded, Firm, Answers
<1>2. HeededInv /\ [Next]_vars => HeededInv'
  <2> SUFFICES ASSUME HeededInv, [Next]_vars PROVE HeededInv'
    OBVIOUS
  <2>1. BoardInv' BY NextBoard DEF HeededInv
  <2>2. CASE UNCHANGED vars BY <2>1, <2>2 DEF vars, HeededInv, Heeded, Firm
  <2>3. CASE Next BY <2>1, <2>3, NextHeeded DEF Next, HeededInv
  <2> QED BY <2>2, <2>3
<1>3. HeededInv => AcceptedHeard
  BY DEF HeededInv, Heeded, Firm, AcceptedHeard, Heard
<1> QED BY <1>1, <1>2, <1>3, PTL DEF Spec

-----------------------------------------------------------------------------
(* The two ends of a connection to an MCP server (Mcp).                    *)

(* The names the model has for the setup, for nobody and for the reader    *)
(* are not names of calls.                                                 *)
NamesApart == Tools \cap {"setup", "none", "reader"} = {}

Words    == {"none", "ask", "tell", "io", "refused", "closed", "timeout", "cancelled"}
Phases   == {"idle", "writing", "finishing", "waiting", "posting", "streaming", "done"}
Messages == [m : Words] \cup [m : {"answer"}, id : Nat, nr : Nat]
Pieces   == [id : Nat, nr : Nat, first : BOOLEAN, last : BOOLEAN]
CallType == [phase : Phases, id : Nat, nr : Nat, box : Messages]

McpTypes ==
  /\ nextId \in Nat \ {0} /\ made \in Nat
  /\ call \in [Callers -> CallType]
  /\ unanswered \subseteq [id : Nat, nr : Nat]
  /\ stream \in [Streams -> Seq(Messages)]
  /\ input \in Seq(Pieces)

(* Ids are given out once over one client, and no two calls share one.     *)
IdsApart ==
  /\ \A c \in Callers : call[c].id < nextId
  /\ \A c, d \in Callers : call[c].id = call[d].id /\ call[c].id # 0 => c = d

(* What carries an id, on either way, is about the request of whichever    *)
(* call has that id now, if one has.                                       *)
About(t, calls, next) ==
  /\ t.id \in Nat \ {0} /\ t.id < next
  /\ \A c \in Callers : calls[c].id = t.id => calls[c].nr = t.nr

McpTraced ==
  /\ \A h \in unanswered : About(h, call, nextId)
  /\ \A s \in Streams : \A i \in 1..Len(stream[s]) :
       stream[s][i].m = "answer" => About(stream[s][i], call, nextId)
  /\ \A i \in 1..Len(input) : input[i].id # 0 => About(input[i], call, nextId)

(* When the client is made anew, its numbers begin again: no call of the   *)
(* first one is left, and the pipe was never used.                         *)
Alone ==
  /\ stage # "open" => \A c \in Tools : call[c] = NoCall
  /\ \A c \in Callers : call[c].phase = "posting" \/ call[c].box.m = "refused" => link = "http"
  /\ link = "http" /\ stage # "open" => input = <<>> /\ lock = "none" /\ waiting = <<>>

McpInv == McpTypes /\ IdsApart /\ McpTraced /\ Alone /\ AnswerMine

-----------------------------------------------------------------------------
(* Steps that give out no id keep the ids apart, and what is in transit is *)
(* about the same requests.                                                *)
SameIds ==
  /\ nextId' = nextId
  /\ \A c \in Callers : call'[c].id = call[c].id /\ call'[c].nr = call[c].nr

LEMMA SameIdsKeep ==
  ASSUME IdsApart, SameIds
  PROVE  IdsApart' /\ \A t : About(t, call, nextId) => About(t, call', nextId')
BY DEF IdsApart, SameIds, About

(* The messages of a stream or pipe after one was taken, or one was added. *)
LEMMA TailKept ==
  ASSUME NEW S, NEW s \in Seq(S), s # <<>>, NEW i \in 1..Len(Tail(s))
  PROVE  i + 1 \in 1..Len(s) /\ Tail(s)[i] = s[i + 1]
OBVIOUS

LEMMA AppendKept ==
  ASSUME NEW S, NEW s \in Seq(S), NEW e \in S, NEW i \in 1..Len(Append(s, e))
  PROVE  (i \in 1..Len(s) /\ Append(s, e)[i] = s[i]) \/ Append(s, e)[i] = e
OBVIOUS

LEMMA InitMcp == ASSUME NamesApart, ClientInit PROVE McpInv
<1>1. NoCall \in CallType /\ NoCall.id = 0 /\ NoCall.box.m = "none" /\ NoCall.phase = "idle"
  BY DEF NoCall, CallType, Messages, Words, Phases, Nothing
<1>2. McpTypes BY <1>1 DEF ClientInit, McpTypes
<1>3. IdsApart BY <1>1 DEF ClientInit, IdsApart
<1>4. McpTraced BY DEF ClientInit, McpTraced
<1>5. Alone BY <1>1 DEF ClientInit, Alone, Callers
<1>6. AnswerMine BY <1>1 DEF ClientInit, AnswerMine
<1> QED BY <1>2, <1>3, <1>4, <1>5, <1>6 DEF McpInv

-----------------------------------------------------------------------------
(* Requests: a fresh id, greater than any that is in use or in transit.    *)
LEMMA RequestInv ==
  ASSUME McpInv, NamesApart, NEW c \in Callers, Request(c),
         c \in Tools => stage = "open", stage = "open" <=> stage' = "open"
  PROVE  McpInv'
<1> DEFINE fresh == [phase |-> Phase, id |-> nextId, nr |-> made + 1, box |-> Nothing]
<1>1. /\ nextId' = nextId + 1 /\ made' = made + 1 /\ call' = [call EXCEPT ![c] = fresh]
      /\ UNCHANGED <<link, unanswered, input, lock>>
      /\ link = "http" => UNCHANGED waiting
  BY DEF Request, NextId, Queue
<1>2. fresh \in CallType /\ fresh.id = nextId /\ fresh.box.m = "none" /\ fresh.phase = Phase
  BY DEF McpInv, McpTypes, CallType, Messages, Words, Phases, Nothing, Phase
<1>3. stream' \in [Streams -> Seq(Messages)] /\ \A s \in Streams : stream'[s] = stream[s] \/ stream'[s] = <<>>
  BY DEF Request, McpInv, McpTypes, Streams
<1> HIDE DEF fresh
<1>4. McpTypes' BY <1>1, <1>2, <1>3 DEF McpInv, McpTypes
<1>5. IdsApart' BY <1>1, <1>2 DEF McpInv, McpTypes, CallType, IdsApart
<1>6. \A t : About(t, call, nextId) => About(t, call', nextId')
  BY <1>1, <1>2 DEF McpInv, McpTypes, IdsApart, About
<1>7. McpTraced'
  <2>1. \A h \in unanswered' : About(h, call', nextId') BY <1>1, <1>6 DEF McpInv, McpTraced
  <2>2. ASSUME NEW s \in Streams, NEW i \in 1..Len(stream'[s]), stream'[s][i].m = "answer"
        PROVE  About(stream'[s][i], call', nextId')
    <3>1. stream'[s] = stream[s] BY <1>3, <2>2
    <3> QED BY <1>6, <2>2, <3>1 DEF McpInv, McpTraced
  <2>3. \A i \in 1..Len(input') : input'[i].id # 0 => About(input'[i], call', nextId')
    BY <1>1, <1>6 DEF McpInv, McpTraced
  <2> QED BY <2>1, <2>2, <2>3 DEF McpTraced
<1>8. Alone'
  <2>1. stage' # "open" => \A t \in Tools : call'[t] = NoCall
    BY <1>1 DEF McpInv, McpTypes, Alone, NamesApart, Callers
  <2>2. \A d \in Callers : call'[d].phase = "posting" \/ call'[d].box.m = "refused" => link' = "http"
    BY <1>1, <1>2 DEF McpInv, McpTypes, Alone, Phase
  <2>3. link' = "http" /\ stage' # "open" => input' = <<>> /\ lock' = "none" /\ waiting' = <<>>
    BY <1>1 DEF McpInv, Alone
  <2> QED BY <2>1, <2>2, <2>3 DEF Alone
<1>9. AnswerMine' BY <1>1, <1>2 DEF McpInv, McpTypes, AnswerMine
<1> QED BY <1>4, <1>5, <1>7, <1>8, <1>9 DEF McpInv

-----------------------------------------------------------------------------
(* The setup notifies: no id, nothing that waits for an answer.            *)
LEMMA NotifyInv ==
  ASSUME McpInv, NamesApart, NotifyServer("setup"), stage # "open", stage' # "open"
  PROVE  McpInv'
<1> DEFINE note == [phase |-> "writing", id |-> 0, nr |-> 0, box |-> Nothing]
<1>1. /\ call' = [call EXCEPT !["setup"] = note]
      /\ UNCHANGED <<link, nextId, made, unanswered, stream, input, lock>>
      /\ link = "http" => UNCHANGED waiting
  BY DEF NotifyServer, Queue, remote
<1>2. note \in CallType /\ note.id = 0 /\ note.phase = "writing" /\ note.box.m = "none"
  BY DEF CallType, Messages, Words, Phases, Nothing
<1> HIDE DEF note
<1>3. "setup" \in Callers BY DEF Callers
<1>4. McpTypes' BY <1>1, <1>2, <1>3 DEF McpInv, McpTypes
<1>5. IdsApart' BY <1>1, <1>2, <1>3 DEF McpInv, McpTypes, CallType, IdsApart
<1>6. \A t : About(t, call, nextId) => About(t, call', nextId')
  BY <1>1, <1>2, <1>3 DEF McpInv, McpTypes, About
<1>7. McpTraced' BY <1>1, <1>6 DEF McpInv, McpTraced
<1>8. Alone'
  <2>1. \A t \in Tools : call'[t] = NoCall BY <1>1 DEF McpInv, McpTypes, Alone, NamesApart, Callers
  <2>2. \A d \in Callers : call'[d].phase = "posting" \/ call'[d].box.m = "refused" => link' = "http"
    BY <1>1, <1>2 DEF McpInv, McpTypes, Alone
  <2>3. link' = "http" => input' = <<>> /\ lock' = "none" /\ waiting' = <<>>
    BY <1>1 DEF McpInv, Alone
  <2> QED BY <2>1, <2>2, <2>3 DEF Alone
<1>9. AnswerMine' BY <1>1, <1>2 DEF McpInv, McpTypes, AnswerMine
<1> QED BY <1>4, <1>5, <1>7, <1>8, <1>9 DEF McpInv

(* The client is made anew for an event stream: nothing is in transit.     *)
LEMMA ConnectSseInv == ASSUME McpInv, NamesApart, ConnectSse PROVE McpInv'
<1>1. /\ call' = [call EXCEPT !["setup"] = NoCall] /\ nextId' = 1 /\ unanswered' = {}
      /\ stream' = [s \in Streams |-> <<>>] /\ link' = "sse"
      /\ UNCHANGED <<made, input>>
  BY DEF ConnectSse
<1>2. NoCall \in CallType /\ NoCall.id = 0 /\ NoCall.phase = "idle" /\ NoCall.box.m = "none"
  BY DEF NoCall, CallType, Messages, Words, Phases, Nothing
<1>3. "setup" \in Callers BY DEF Callers
<1>4. stage # "open" /\ call["setup"].box.m = "refused" /\ stage' # "open" BY DEF ConnectSse, Setup
<1>5. input = <<>> BY <1>3, <1>4 DEF McpInv, Alone
<1>6. \A c \in Callers : call'[c] = NoCall
  BY <1>1, <1>3, <1>4 DEF McpInv, McpTypes, Alone, Callers
<1>7. McpTypes' BY <1>1, <1>2, <1>3 DEF McpInv, McpTypes
<1>8. IdsApart' BY <1>1, <1>2, <1>6 DEF IdsApart
<1>9. McpTraced' BY <1>1, <1>5 DEF McpTraced
<1>10. Alone' BY <1>1, <1>2, <1>6 DEF Alone, Callers
<1>11. AnswerMine' BY <1>2, <1>6 DEF AnswerMine
<1> QED BY <1>7, <1>8, <1>9, <1>10, <1>11 DEF McpInv

-----------------------------------------------------------------------------
(* What every other step does to the calls: none gets another id, an idle  *)
(* one stays so, one is refused only as it posts, and an answer that is    *)
(* put in a call's box is one to its request.                              *)
CallsStep ==
  /\ SameIds
  /\ call' \in [Callers -> CallType]
  /\ \A c \in Callers :
       /\ call[c].phase = "idle" => call'[c] = call[c]
       /\ call'[c].phase = "posting" => call[c].phase = "posting"
       /\ call'[c].box.m = "refused" => call[c].phase = "posting" \/ call[c].box.m = "refused"
       /\ call'[c].box.m = "answer" => call'[c].box = call[c].box \/ call'[c].box.nr = call[c].nr

LEMMA CallsStepInv ==
  ASSUME McpInv, CallsStep, UNCHANGED link, stage' # "open" => stage # "open",
         link = "http" /\ stage' # "open" => UNCHANGED <<input, lock, waiting>>
  PROVE  IdsApart' /\ Alone' /\ AnswerMine'
<1>1. IdsApart' BY SameIdsKeep DEF McpInv, CallsStep
<1>2. Alone'
  <2>1. stage' # "open" => \A t \in Tools : call'[t] = NoCall
    BY DEF McpInv, Alone, CallsStep, NoCall, Callers
  <2>2. \A c \in Callers : call'[c].phase = "posting" \/ call'[c].box.m = "refused" => link' = "http"
    BY DEF McpInv, Alone, CallsStep
  <2>3. link' = "http" /\ stage' # "open" => input' = <<>> /\ lock' = "none" /\ waiting' = <<>>
    BY DEF McpInv, Alone
  <2> QED BY <2>1, <2>2, <2>3 DEF Alone
<1>3. AnswerMine' BY DEF McpInv, CallsStep, SameIds, AnswerMine
<1> QED BY <1>1, <1>2, <1>3

(* A call that ends with an error.                                         *)
LEMMA EndsSteps ==
  ASSUME McpInv, NEW c \in Callers, NEW e \in Words, Ends(c, e), UNCHANGED nextId, call[c].phase # "idle",
         e = "refused" => call[c].phase = "posting"
  PROVE  CallsStep
<1> DEFINE over == [call[c] EXCEPT !.phase = "done", !.box = [m |-> e]]
<1>1. call' = [call EXCEPT ![c] = over] BY DEF Ends, McpInv, McpTypes
<1>2. call[c] \in CallType BY DEF McpInv, McpTypes
<1>3. /\ over \in CallType /\ over.id = call[c].id /\ over.nr = call[c].nr
      /\ over.phase = "done" /\ over.box.m = e
  BY <1>2 DEF CallType, Phases, Messages
<1> HIDE DEF over
<1> QED BY <1>1, <1>3 DEF CallsStep, SameIds, McpInv, McpTypes, Words

(* A call that goes on, or takes what is in its box.                       *)
LEMMA PhaseSteps ==
  ASSUME McpInv, NEW c \in Callers, NEW p \in Phases, call' = [call EXCEPT ![c].phase = p], UNCHANGED nextId,
         call[c].phase # "idle", p # "posting"
  PROVE  CallsStep
<1> DEFINE next == [call[c] EXCEPT !.phase = p]
<1>1. call' = [call EXCEPT ![c] = next] BY DEF McpInv, McpTypes
<1>2. call[c] \in CallType BY DEF McpInv, McpTypes
<1>3. /\ next \in CallType /\ next.id = call[c].id /\ next.nr = call[c].nr
      /\ next.phase = p /\ next.box = call[c].box
  BY <1>2 DEF CallType
<1> HIDE DEF next
<1> QED BY <1>1, <1>3 DEF CallsStep, SameIds, McpInv, McpTypes

LEMMA NoCallSteps == ASSUME McpInv, UNCHANGED <<call, nextId>> PROVE CallsStep
BY DEF McpInv, McpTypes, Alone, AnswerMine, CallsStep, SameIds

(* Both ways are as before: steps of the calls and of the reader alone.    *)
LEMMA StillInv ==
  ASSUME McpInv, CallsStep, UNCHANGED <<link, made, unanswered, stream, input>>, stage' # "open" => stage # "open",
         link = "http" /\ stage' # "open" => UNCHANGED <<lock, waiting>>
  PROVE  McpInv'
<1>1. McpTypes' BY DEF McpInv, McpTypes, CallsStep, SameIds
<1>2. IdsApart' /\ Alone' /\ AnswerMine' BY CallsStepInv
<1>3. McpTraced' BY SameIdsKeep DEF McpInv, CallsStep, McpTraced
<1> QED BY <1>1, <1>2, <1>3 DEF McpInv

LEMMA McpQuietInv ==
  ASSUME McpInv, Lock \/ Listed \/ Fail \/ ServerStops
  PROVE  McpInv'
<1>1. UNCHANGED <<call, nextId, link, made, unanswered, stream, input>> BY DEF Lock, Listed, Fail, ServerStops, remote, client
<1>2. CallsStep BY <1>1, NoCallSteps
<1>3. stage' # "open" => stage # "open" BY DEF Lock, Listed, Fail, ServerStops, client
<1>4. link = "http" /\ stage' # "open" => UNCHANGED <<lock, waiting>>
  BY DEF Lock, Listed, Fail, ServerStops, McpInv, Alone, client
<1> QED BY <1>1, <1>2, <1>3, <1>4, StillInv

(* A call may end under http while the connection is set up only without   *)
(* the lock.                                                               *)
LEMMA LockFree ==
  ASSUME McpInv, NamesApart, NEW c \in Callers, lock = c
  PROVE  ~(link = "http" /\ stage # "open")
BY DEF McpInv, Alone, NamesApart, Callers

LEMMA WriteFailsInv == ASSUME McpInv, NamesApart, NEW c \in Callers, WriteFails(c) PROVE McpInv'
<1>1. CallsStep
  <2>1. Ends(c, "io") /\ UNCHANGED nextId /\ call[c].phase # "idle" BY DEF WriteFails
  <2> QED BY <2>1, EndsSteps DEF Words
<1>2. UNCHANGED <<link, stage, made, unanswered, stream, input>> BY DEF WriteFails, remote
<1>3. ~(link = "http" /\ stage # "open") BY LockFree DEF WriteFails
<1> QED BY <1>1, <1>2, <1>3, StillInv

LEMMA TakeInv == ASSUME McpInv, NEW c \in Callers, Take(c) PROVE McpInv'
<1>1. CallsStep
  <2>1. call' = [call EXCEPT ![c].phase = "done"] /\ UNCHANGED nextId /\ call[c].phase # "idle" BY DEF Take
  <2> QED BY <2>1, PhaseSteps DEF Phases
<1>2. UNCHANGED <<link, stage, made, lock, waiting, unanswered, stream, input>> BY DEF Take, remote
<1> QED BY <1>1, <1>2, StillInv

LEMMA TimeOutInv == ASSUME McpInv, NEW c \in Callers, TimeOut(c) PROVE McpInv'
<1>1. CallsStep
  <2>1. Ends(c, "timeout") /\ UNCHANGED nextId /\ call[c].phase # "idle" BY DEF TimeOut, TimesOut
  <2> QED BY <2>1, EndsSteps DEF Words
<1>2. UNCHANGED <<link, stage, made, lock, waiting, unanswered, stream, input>> BY DEF TimeOut, remote
<1> QED BY <1>1, <1>2, StillInv

LEMMA McpCancelInv == ASSUME McpInv, NEW c \in Callers, CancelCall(c) PROVE McpInv'
<1>1. CallsStep
  <2>1. Ends(c, "cancelled") /\ UNCHANGED nextId /\ call[c].phase # "idle" BY DEF CancelCall, Active
  <2> QED BY <2>1, EndsSteps DEF Words
<1>2. UNCHANGED <<link, stage, made, unanswered, stream, input>> BY DEF CancelCall, remote
<1>3. stage = "open" BY DEF CancelCall, Active, McpInv, Alone, NoCall
<1> QED BY <1>1, <1>2, <1>3, StillInv

LEMMA FailAllInv == ASSUME McpInv, FailAll PROVE McpInv'
<1>1. CallsStep
  <2> DEFINE failed(c) == [call[c] EXCEPT !.box = [m |-> "closed"]]
  <2>1. /\ \A c \in Callers : call[c] \in CallType
        /\ UNCHANGED nextId
        /\ call' = [c \in Callers |-> IF Active(c) /\ call[c].id \in pending THEN failed(c) ELSE call[c]]
    BY DEF FailAll, McpInv, McpTypes
  <2>2. ASSUME NEW c \in Callers
        PROVE  /\ failed(c) \in CallType /\ failed(c).id = call[c].id /\ failed(c).nr = call[c].nr
               /\ failed(c).phase = call[c].phase /\ failed(c).box.m = "closed"
    BY <2>1 DEF CallType, Messages, Words
  <2> HIDE DEF failed
  <2> QED BY <2>1, <2>2 DEF CallsStep, SameIds, Active
<1>2. UNCHANGED <<link, stage, made, lock, waiting, unanswered, stream, input>> BY DEF FailAll, remote
<1> QED BY <1>1, <1>2, StillInv

-----------------------------------------------------------------------------
(* Requests on their way to the server.  One that a call sends is about    *)
(* that call, because no other has its id.                                 *)
LEMMA SentAbout ==
  ASSUME McpInv, NEW c \in Callers, call[c].id # 0, NEW t, t.id = call[c].id, t.nr = call[c].nr
  PROVE  About(t, call, nextId)
BY DEF McpInv, McpTypes, CallType, IdsApart, About

(* A piece more on the pipe.                                               *)
LEMMA PipedInv ==
  ASSUME McpInv, CallsStep, UNCHANGED <<link, made, unanswered, stream>>, stage' # "open" => stage # "open",
         ~(link = "http" /\ stage' # "open"),
         NEW e \in Pieces, input' = Append(input, e), e.id # 0 => About(e, call, nextId)
  PROVE  McpInv'
<1>1. McpTypes' BY DEF McpInv, McpTypes, CallsStep, SameIds
<1>2. IdsApart' /\ Alone' /\ AnswerMine' BY CallsStepInv
<1>3. \A t : About(t, call, nextId) => About(t, call', nextId') BY SameIdsKeep DEF McpInv, CallsStep
<1>4. ASSUME NEW i \in 1..Len(input'), input'[i].id # 0
      PROVE  About(input'[i], call', nextId')
  <2>1. (i \in 1..Len(input) /\ input'[i] = input[i]) \/ input'[i] = e
    BY AppendKept DEF McpInv, McpTypes
  <2> QED BY <1>3, <1>4, <2>1 DEF McpInv, McpTraced
<1>5. McpTraced' BY <1>3, <1>4 DEF McpInv, McpTraced
<1> QED BY <1>1, <1>2, <1>5 DEF McpInv

LEMMA WriteFirstInv == ASSUME McpInv, NamesApart, NEW c \in Callers, WriteFirst(c) PROVE McpInv'
<1>1. CallsStep
  <2>1. call' = [call EXCEPT ![c].phase = "finishing"] /\ UNCHANGED nextId /\ call[c].phase # "idle" BY DEF WriteFirst
  <2> QED BY <2>1, PhaseSteps DEF Phases
<1>2. Piece(c, TRUE, FALSE) \in Pieces BY DEF Piece, Pieces, McpInv, McpTypes, CallType
<1>3. Piece(c, TRUE, FALSE).id # 0 => About(Piece(c, TRUE, FALSE), call, nextId) BY SentAbout DEF Piece
<1>4. input' = Append(input, Piece(c, TRUE, FALSE)) /\ UNCHANGED <<link, stage, made, unanswered, stream>> BY DEF WriteFirst
<1>5. ~(link = "http" /\ stage # "open") BY LockFree DEF WriteFirst
<1> QED BY <1>1, <1>2, <1>3, <1>4, <1>5, PipedInv

LEMMA WriteLastInv == ASSUME McpInv, NamesApart, NEW c \in Callers, WriteLast(c) PROVE McpInv'
<1>1. CallsStep
  <2>1. /\ \E p \in {"done", "waiting"} : call' = [call EXCEPT ![c].phase = p]
        /\ UNCHANGED nextId /\ call[c].phase # "idle"
    BY DEF WriteLast
  <2> QED BY <2>1, PhaseSteps DEF Phases
<1>2. Piece(c, FALSE, TRUE) \in Pieces BY DEF Piece, Pieces, McpInv, McpTypes, CallType
<1>3. Piece(c, FALSE, TRUE).id # 0 => About(Piece(c, FALSE, TRUE), call, nextId) BY SentAbout DEF Piece
<1>4. input' = Append(input, Piece(c, FALSE, TRUE)) /\ UNCHANGED <<link, stage, made, unanswered, stream>> BY DEF WriteLast
<1>5. ~(link = "http" /\ stage # "open") BY LockFree DEF WriteLast
<1> QED BY <1>1, <1>2, <1>3, <1>4, <1>5, PipedInv

(* A request more, or less, that the server has unanswered.                     *)
LEMMA HeardInv ==
  ASSUME McpInv, CallsStep, UNCHANGED <<link, stage, made, stream, lock, waiting>>,
         unanswered' \subseteq [id : Nat, nr : Nat], \A h \in unanswered' : h \in unanswered \/ About(h, call, nextId),
         input' \in Seq(Pieces), Len(input') <= Len(input),
         \A i \in 1..Len(input') : \E j \in 1..Len(input) : input'[i] = input[j]
  PROVE  McpInv'
<1>1. McpTypes' BY DEF McpInv, McpTypes, CallsStep, SameIds
<1>2. input = <<>> => input' = <<>> BY DEF McpInv, McpTypes
<1>3. IdsApart' /\ AnswerMine'
  <2>1. IdsApart' BY SameIdsKeep DEF McpInv, CallsStep
  <2>2. AnswerMine' BY DEF McpInv, CallsStep, SameIds, AnswerMine
  <2> QED BY <2>1, <2>2
<1>4. Alone' BY <1>2 DEF McpInv, Alone, CallsStep, NoCall, Callers
<1>5. \A t : About(t, call, nextId) => About(t, call', nextId') BY SameIdsKeep DEF McpInv, CallsStep
<1>6. \A h \in unanswered' : About(h, call', nextId') BY <1>5 DEF McpInv, McpTraced
<1>7. \A i \in 1..Len(input') : input'[i].id # 0 => About(input'[i], call', nextId') BY <1>5 DEF McpInv, McpTraced
<1>8. McpTraced' BY <1>5, <1>6, <1>7 DEF McpInv, McpTraced
<1> QED BY <1>1, <1>3, <1>4, <1>8 DEF McpInv

LEMMA ToldAbout ==
  ASSUME McpInv, NEW c \in Callers
  PROVE  Told(c) \subseteq [id : Nat, nr : Nat] /\ \A h \in Told(c) : h \in unanswered \/ About(h, call, nextId)
<1>1. CASE call[c].id = 0 BY <1>1 DEF Told, McpInv, McpTypes
<1>2. CASE call[c].id # 0
  <2> DEFINE t == [id |-> call[c].id, nr |-> call[c].nr]
  <2>1. Told(c) = unanswered \cup {t} BY <1>2 DEF Told
  <2>2. t \in [id : Nat, nr : Nat] BY DEF McpInv, McpTypes, CallType
  <2>3. About(t, call, nextId) BY <1>2, SentAbout
  <2> QED BY <2>1, <2>2, <2>3 DEF McpInv, McpTypes
<1> QED BY <1>1, <1>2

LEMMA PostInv == ASSUME McpInv, NEW c \in Callers, Post(c) PROVE McpInv'
<1>1. /\ UNCHANGED <<link, stage, nextId, made, lock, waiting, input, stream>> /\ call[c].phase # "idle"
      /\ unanswered' \in {unanswered, Told(c)}
      /\ (\E p \in {"done", "waiting"} : call' = [call EXCEPT ![c].phase = p]) \/ Ends(c, "io")
  BY DEF Post
<1>2. CallsStep BY <1>1, PhaseSteps, EndsSteps DEF Phases, Words
<1>3. unanswered' \subseteq [id : Nat, nr : Nat] /\ \A h \in unanswered' : h \in unanswered \/ About(h, call, nextId)
  BY <1>1, ToldAbout DEF McpInv, McpTypes
<1>4. input' \in Seq(Pieces) /\ Len(input') <= Len(input) BY <1>1 DEF McpInv, McpTypes
<1> QED BY <1>1, <1>2, <1>3, <1>4, HeardInv

LEMMA HttpSendInv == ASSUME McpInv, NEW c \in Callers, HttpSend(c) PROVE McpInv'
<1>1. /\ UNCHANGED <<link, stage, nextId, made, lock, waiting, input, stream>> /\ call[c].phase = "posting"
      /\ unanswered' \in {unanswered, Told(c)}
      /\ call' = [call EXCEPT ![c].phase = "streaming"] \/ \E e \in {"refused", "io"} : Ends(c, e)
  BY DEF HttpSend
<1>2. CallsStep BY <1>1, PhaseSteps, EndsSteps DEF Phases, Words
<1>3. unanswered' \subseteq [id : Nat, nr : Nat] /\ \A h \in unanswered' : h \in unanswered \/ About(h, call, nextId)
  BY <1>1, ToldAbout DEF McpInv, McpTypes
<1>4. input' \in Seq(Pieces) /\ Len(input') <= Len(input) BY <1>1 DEF McpInv, McpTypes
<1> QED BY <1>1, <1>2, <1>3, <1>4, HeardInv

LEMMA ServerReadsInv == ASSUME McpInv, ServerReads PROVE McpInv'
<1>1. /\ UNCHANGED <<link, stage, nextId, made, call, lock, waiting, stream>>
      /\ input # <<>> /\ input' = Tail(input)
      /\ \/ unanswered' = unanswered
         \/ Head(input).id # 0 /\ unanswered' = unanswered \cup {[id |-> Head(input).id, nr |-> Head(input).nr]}
  BY DEF ServerReads, client
<1>2. CallsStep BY <1>1, NoCallSteps
<1>3. input \in Seq(Pieces) BY DEF McpInv, McpTypes
<1>4. input' \in Seq(Pieces) /\ Len(input') = Len(input) - 1 BY <1>1, <1>3
<1>5. \A i \in 1..Len(input') : i + 1 \in 1..Len(input) /\ input'[i] = input[i + 1] BY <1>1, <1>3, TailKept
<1>6. Head(input) = input[1] /\ 1 \in 1..Len(input) /\ Head(input) \in Pieces BY <1>1, <1>3
<1>7. unanswered' \subseteq [id : Nat, nr : Nat] BY <1>1, <1>6 DEF McpInv, McpTypes, Pieces
<1>8. \A h \in unanswered' : h \in unanswered \/ About(h, call, nextId)
  BY <1>1, <1>6 DEF McpInv, McpTraced, About
<1> QED BY <1>1, <1>2, <1>4, <1>5, <1>7, <1>8, HeardInv

-----------------------------------------------------------------------------
(* Answers on their way back.                                              *)
LEMMA StreamInv ==
  ASSUME McpInv, CallsStep, UNCHANGED <<link, stage, made, input, lock>>, link = "http" => UNCHANGED waiting,
         unanswered' \subseteq unanswered, stream' \in [Streams -> Seq(Messages)],
         \A s \in Streams : \A i \in 1..Len(stream'[s]) :
            stream'[s][i].m = "answer" => About(stream'[s][i], call, nextId)
  PROVE  McpInv'
<1>1. McpTypes' BY DEF McpInv, McpTypes, CallsStep, SameIds
<1>2. IdsApart' /\ Alone' /\ AnswerMine' BY CallsStepInv
<1>3. McpTraced' BY SameIdsKeep DEF McpInv, CallsStep, McpTraced
<1> QED BY <1>1, <1>2, <1>3 DEF McpInv

(* A message of a stream is taken.                                         *)
LEMMA TakenInv ==
  ASSUME McpInv, NEW s \in Streams, stream[s] # <<>>
  PROVE  /\ Head(stream[s]) \in Messages
         /\ Head(stream[s]).m = "answer" => About(Head(stream[s]), call, nextId)
         /\ [stream EXCEPT ![s] = Tail(@)] \in [Streams -> Seq(Messages)]
         /\ \A r \in Streams : \A i \in 1..Len([stream EXCEPT ![s] = Tail(@)][r]) :
              [stream EXCEPT ![s] = Tail(@)][r][i].m = "answer" =>
                About([stream EXCEPT ![s] = Tail(@)][r][i], call, nextId)
<1> DEFINE rest == [stream EXCEPT ![s] = Tail(@)]
<1>1. stream \in [Streams -> Seq(Messages)] /\ stream[s] \in Seq(Messages) BY DEF McpInv, McpTypes
<1>2. Head(stream[s]) = stream[s][1] /\ 1 \in 1..Len(stream[s]) /\ Head(stream[s]) \in Messages BY <1>1
<1>3. Tail(stream[s]) \in Seq(Messages) BY <1>1
<1>4. rest \in [Streams -> Seq(Messages)] BY <1>1, <1>3
<1>5. \A i \in 1..Len(Tail(stream[s])) : i + 1 \in 1..Len(stream[s]) /\ Tail(stream[s])[i] = stream[s][i + 1]
  BY <1>1, TailKept
<1>6. ASSUME NEW r \in Streams, NEW i \in 1..Len(rest[r]), rest[r][i].m = "answer"
      PROVE  About(rest[r][i], call, nextId)
  <2>1. CASE r = s
    <3>1. rest[r] = Tail(stream[s]) BY <1>1, <2>1
    <3> QED BY <1>5, <1>6, <3>1 DEF McpInv, McpTraced
  <2>2. CASE r # s
    <3>1. rest[r] = stream[r] BY <1>1, <2>2
    <3> QED BY <1>6, <3>1 DEF McpInv, McpTraced
  <2> QED BY <2>1, <2>2
<1> QED BY <1>2, <1>4, <1>6 DEF McpInv, McpTraced

LEMMA HttpReadInv == ASSUME McpInv, NEW c \in Callers, HttpRead(c) PROVE McpInv'
<1>1. /\ UNCHANGED <<link, stage, made, nextId, input, lock, waiting, unanswered>>
      /\ call[c].phase = "streaming" /\ c \in Streams
  BY DEF HttpRead, Streams
<1>2. CASE stream[c] # <<>> /\ stream' = [stream EXCEPT ![c] = Tail(@)] /\ call' = call
  <2>1. CallsStep BY <1>1, <1>2, NoCallSteps
  <2> QED BY <1>1, <1>2, <2>1, TakenInv, StreamInv
<1>3. CASE /\ stream[c] # <<>> /\ stream' = [stream EXCEPT ![c] = Tail(@)]
           /\ Head(stream[c]).m = "answer" /\ Head(stream[c]).id = call[c].id
           /\ call' = [call EXCEPT ![c].phase = "done", ![c].box = Head(stream[c])]
  <2> DEFINE m == Head(stream[c])
             done == [call[c] EXCEPT !.phase = "done", !.box = m]
  <2>1. m \in Messages /\ m.nr = call[c].nr BY <1>1, <1>3, TakenInv DEF About
  <2>2. call[c] \in CallType BY DEF McpInv, McpTypes
  <2>3. call' = [call EXCEPT ![c] = done] BY <1>3 DEF McpInv, McpTypes
  <2>4. /\ done \in CallType /\ done.id = call[c].id /\ done.nr = call[c].nr
        /\ done.phase = "done" /\ done.box = m
    BY <2>1, <2>2 DEF CallType, Phases
  <2>5. m.m = "answer" BY <1>3
  <2> HIDE DEF done, m
  <2>6. CallsStep BY <1>1, <2>1, <2>3, <2>4, <2>5 DEF CallsStep, SameIds, McpInv, McpTypes
  <2> QED BY <1>1, <1>3, <2>6, TakenInv, StreamInv
<1>4. CASE Ends(c, "closed") /\ UNCHANGED stream
  <2>1. CallsStep BY <1>1, <1>4, EndsSteps DEF Words
  <2> QED BY <1>1, <1>4, <2>1, StillInv
<1> QED BY <1>2, <1>3, <1>4 DEF HttpRead

(* The reader gives an answer to the call that waits under its id.         *)
LEMMA DeliverSteps ==
  ASSUME McpInv, NEW m \in Messages, m.m = "answer", About(m, call, nextId), Deliver(m.id, m), UNCHANGED nextId
  PROVE  CallsStep
<1> DEFINE mine(c) == m.id \in pending /\ call[c].id = m.id /\ call[c].phase \in {"writing", "finishing", "waiting"}
           given(c) == [call[c] EXCEPT !.box = m]
<1>1. call' = [c \in Callers |-> IF mine(c) THEN given(c) ELSE call[c]] BY DEF Deliver
<1>2. \A c \in Callers : call[c] \in CallType BY DEF McpInv, McpTypes
<1>3. ASSUME NEW c \in Callers
      PROVE  /\ given(c) \in CallType /\ given(c).id = call[c].id /\ given(c).nr = call[c].nr
             /\ given(c).phase = call[c].phase /\ given(c).box = m
  BY <1>2 DEF CallType
<1>4. \A c \in Callers : mine(c) => m.nr = call[c].nr /\ call[c].phase # "idle" BY DEF About
<1> HIDE DEF mine, given
<1> QED BY <1>1, <1>2, <1>3, <1>4 DEF CallsStep, SameIds, McpInv, McpTypes

LEMMA ReadInv == ASSUME McpInv, Read PROVE McpInv'
<1>1. /\ UNCHANGED <<link, stage, made, nextId, input, lock, unanswered>> /\ link # "http"
      /\ stream["all"] # <<>> /\ stream' = [stream EXCEPT !["all"] = Tail(@)] /\ "all" \in Streams
  BY DEF Read, Streams
<1>2. CallsStep
  <2>1. CASE Head(stream["all"]).m = "answer" BY <1>1, <2>1, TakenInv, DeliverSteps DEF Read
  <2>2. CASE Head(stream["all"]).m # "answer" BY <1>1, <2>2, NoCallSteps DEF Read
  <2> QED BY <2>1, <2>2
<1> QED BY <1>1, <1>2, TakenInv, StreamInv

LEMMA ReplyInv == ASSUME McpInv, Reply PROVE McpInv'
<1> DEFINE e == [id |-> 0, nr |-> 0, first |-> TRUE, last |-> TRUE]
<1>1. UNCHANGED <<link, stage, nextId, made, call, unanswered, stream>> BY DEF Reply
<1>2. CallsStep BY <1>1, NoCallSteps
<1>3. CASE UNCHANGED input
  <2>1. link = "http" => UNCHANGED <<lock, waiting>> BY DEF Reply
  <2> QED BY <1>1, <1>2, <1>3, <2>1, StillInv
<1>4. CASE link = "stdio" /\ input' = Append(input, e)
  <2>1. e \in Pieces /\ e.id = 0 BY DEF Pieces
  <2> HIDE DEF e
  <2> QED BY <1>1, <1>2, <1>4, <2>1, PipedInv
<1> QED BY <1>3, <1>4 DEF Reply

(* The server sends: an answer to what it has unanswered, or a word of its own. *)
LEMMA SendsInv ==
  ASSUME McpInv, NEW m \in Messages, Sends(m), m.m = "answer" => About(m, call, nextId), unanswered' \subseteq unanswered
  PROVE  McpInv'
<1>1. PICK s \in Streams : stream' = [stream EXCEPT ![s] = Append(@, m)] BY DEF Sends
<1>2. UNCHANGED <<link, stage, made, nextId, call, input, lock, waiting>> BY DEF Sends, client
<1>3. CallsStep BY <1>2, NoCallSteps
<1>4. stream \in [Streams -> Seq(Messages)] /\ stream[s] \in Seq(Messages) BY DEF McpInv, McpTypes
<1>5. stream' \in [Streams -> Seq(Messages)] BY <1>1, <1>4
<1>6. ASSUME NEW r \in Streams, NEW i \in 1..Len(stream'[r]), stream'[r][i].m = "answer"
      PROVE  About(stream'[r][i], call, nextId)
  <2>1. CASE r = s
    <3>1. stream'[r] = Append(stream[s], m) BY <1>1, <1>4, <2>1
    <3>2. (i \in 1..Len(stream[s]) /\ stream'[r][i] = stream[s][i]) \/ stream'[r][i] = m
      BY <1>4, <1>6, <3>1, AppendKept
    <3> QED BY <1>6, <3>2 DEF McpInv, McpTraced
  <2>2. CASE r # s BY <1>1, <1>4, <1>6, <2>2 DEF McpInv, McpTraced
  <2> QED BY <2>1, <2>2
<1> QED BY <1>2, <1>3, <1>5, <1>6, StreamInv

LEMMA ServerAnswersInv == ASSUME McpInv, ServerAnswers PROVE McpInv'
<1>1. PICK h \in unanswered : Sends([m |-> "answer", id |-> h.id, nr |-> h.nr]) /\ unanswered' = unanswered \ {h} BY DEF ServerAnswers
<1>2. h \in [id : Nat, nr : Nat] /\ About(h, call, nextId) BY DEF McpInv, McpTypes, McpTraced
<1> DEFINE m == [m |-> "answer", id |-> h.id, nr |-> h.nr]
<1>3. m \in Messages BY <1>2 DEF Messages
<1>4. About(m, call, nextId) BY <1>2 DEF About
<1> HIDE DEF m
<1> QED BY <1>1, <1>3, <1>4, SendsInv DEF m

LEMMA ServerAsksInv == ASSUME McpInv, ServerAsks PROVE McpInv'
<1>1. PICK kind \in {"ask", "tell"} : Sends([m |-> kind]) BY DEF ServerAsks
<1>2. unanswered' = unanswered BY DEF ServerAsks
<1>3. [m |-> kind] \in Messages /\ [m |-> kind].m # "answer" BY DEF Messages, Words
<1> QED BY <1>1, <1>2, <1>3, SendsInv

-----------------------------------------------------------------------------
(* The steps of the setup, each of which is one of those above.            *)
LEMMA SetupInv ==
  ASSUME McpInv, NamesApart, Initialize \/ Initialized \/ ListTools \/ Endpoint
  PROVE  McpInv'
<1>1. "setup" \in Callers /\ "setup" \notin Tools BY DEF Callers, NamesApart
<1>2. CASE Initialized BY <1>2, NotifyInv DEF Initialized
<1>3. CASE Initialize \/ ListTools \/ Endpoint
  <2>1. Request("setup") /\ stage # "open" /\ stage' # "open" BY <1>3 DEF Initialize, ListTools, Endpoint
  <2> QED BY <1>1, <2>1, RequestInv
<1> QED BY <1>2, <1>3

LEMMA CallInv == ASSUME McpInv, NamesApart, NEW c \in Callers, Call(c) PROVE McpInv'
BY RequestInv DEF Call

LEMMA NextMcp == ASSUME McpInv, NamesApart, [ClientNext]_clientVars PROVE McpInv'
<1>1. CASE Initialize \/ Initialized \/ ListTools \/ Endpoint BY <1>1, SetupInv
<1>2. CASE Listed \/ Fail \/ Lock \/ ServerStops BY <1>2, McpQuietInv
<1>3. CASE ConnectSse BY <1>3, ConnectSseInv
<1>4. CASE \E c \in Callers : Call(c) \/ Progress(c) \/ CancelCall(c)
  <2>1. PICK c \in Callers : Call(c) \/ Progress(c) \/ CancelCall(c) BY <1>4
  <2>2. CASE Progress(c)
    BY <2>2, WriteFirstInv, WriteLastInv, WriteFailsInv, PostInv, HttpSendInv, HttpReadInv, TakeInv, TimeOutInv
       DEF Progress
  <2> QED BY <2>1, <2>2, CallInv, McpCancelInv
<1>5. CASE Reader BY <1>5, ReadInv, ReplyInv, FailAllInv DEF Reader
<1>6. CASE ServerReads \/ ServerAnswers \/ ServerAsks BY <1>6, ServerReadsInv, ServerAnswersInv, ServerAsksInv
<1>7. CASE UNCHANGED clientVars
  <2>1. UNCHANGED <<call, nextId, link, stage, made, unanswered, stream, input, lock, waiting>>
    BY <1>7 DEF clientVars, client, remote
  <2>2. CallsStep BY <2>1, NoCallSteps
  <2> QED BY <2>1, <2>2, StillInv
<1> QED BY <1>1, <1>2, <1>3, <1>4, <1>5, <1>6, <1>7 DEF ClientNext

-----------------------------------------------------------------------------
(* The inductive invariant holds in every reachable state.                 *)
THEOREM McpInvariant == ASSUME NamesApart PROVE ClientSpec => []McpInv
<1>1. ClientInit => McpInv BY InitMcp
<1>2. McpInv /\ [ClientNext]_clientVars => McpInv' BY NextMcp
<1> QED BY <1>1, <1>2, PTL DEF ClientSpec

(* A call is given the answer to its own request and to no other           *)
(* (`request', `deliver' of tools/src/mcp.rs), however many calls run side *)
(* by side, are cancelled or time out, over each of the three transports.  *)
THEOREM AnswersAreMine == ASSUME NamesApart PROVE ClientSpec => []AnswerMine
<1>1. McpInv => AnswerMine BY DEF McpInv
<1> QED BY <1>1, McpInvariant, PTL

(* No two calls that wait for an answer ever share an id, so the table of  *)
(* pending requests never loses one to another (`next_id', `pending').     *)
THEOREM IdsStayApart == ASSUME NamesApart PROVE ClientSpec => []IdsApart
<1>1. McpInv => IdsApart BY DEF McpInv
<1> QED BY <1>1, McpInvariant, PTL
-----------------------------------------------------------------------------
(* Replies.  A stage is where the server stands between two of its events; *)
(* a place is how much of the answer the assembler has when it has taken   *)
(* some of the deltas, and whether its last part is a call that is open.   *)
TokenSet   == [kind : {"call", "input", "text"}, of : Nat, at : Nat]
PartSet    == [kind : {"call", "text"}, tokens : Seq(TokenSet), open : BOOLEAN]
StageSet   == [open : {"none", "call", "text"}, block : Nat, n : Nat, left : {"content", "stop", "end", "nothing"}]
PlaceSet   == [call : BOOLEAN, n : Nat]
PlaceOf(a) == [call |-> a.open = "call", n |-> a.n]
Brings(t, a, b, S) == b.n = a.n + 1 /\ b.n <= Len(S) /\ t = S[b.n]

(* From stage a, a server of vendor v that says S comes to b by event e.   *)
Opens(v, S, a, e, b) ==
  /\ e.e = "open" /\ a.left = "content" /\ (a.open = "none" \/ v = "openai")
  /\ b.open = e.kind /\ b.block = e.block /\ b.left = "content"
  /\ \/ e.kind = "call" /\ Brings(e.token, a, b, S)
     \/ e.kind = "text" /\ v = "anthropic" /\ b.n = a.n
Extends(v, S, a, e, b) ==
  /\ e.e = "delta" /\ a.left = "content" /\ b.left = "content" /\ Brings(e.token, a, b, S)
  /\ \/ e.kind = "input" /\ a.open = "call" /\ e.block = a.block /\ b.open = "call" /\ b.block = a.block
     \/ e.kind = "text" /\ b.open = "text" /\ (a.open = "text" \/ v = "openai")
Closes(v, a, e, b) ==
  /\ e.e = "close" /\ v = "anthropic" /\ a.left = "content" /\ b.left = "content"
  /\ (a.open = "call" => e.block = a.block) /\ b.open = "none" /\ b.n = a.n
Concludes(v, a, e, b) ==
  /\ b.open = "none" /\ b.n = a.n
  /\ \/ e.e = "stopping" /\ a.left = "content" /\ b.left = "stop" /\ (a.open = "none" \/ v = "openai")
     \/ e.e = "stop" /\ a.left = "stop" /\ b.left = "end" /\ a.open = "none"
Breaks(a, e, b) == e.e \in {"end", "error"} /\ b.left = "nothing"
Advances(v, S, a, e, b) ==
  Opens(v, S, a, e, b) \/ Extends(v, S, a, e, b) \/ Closes(v, a, e, b) \/ Concludes(v, a, e, b) \/ Breaks(a, e, b)

(* Once the server concludes, everything is said.                          *)
AllSaid(a, S, w) == a.left \in {"stop", "end"} => a.open = "none" /\ a.n = Len(S) /\ w.left # "content"

(* The last event is what the server has done last, or OpenAI's server has *)
(* turned to text since and not said any.                                  *)
Abreast(v, S, w, a) ==
  w.left # "nothing" =>
    /\ a.n = Len(S) /\ a.left = w.left
    /\ \/ a.open = w.open /\ (a.open = "call" => a.block = w.blocks)
       \/ v = "openai" /\ w.open = "text"

(* What a mapper has open.                                                 *)
MapperAt(m, a) ==
  /\ m.open = (IF a.open = "call" THEN {a.block} ELSE {})
  /\ m.stop => a.left = "stop"

(* The wire W leads from where the mapper is to where the server is.       *)
Way(v, S, w, W, p) ==
  /\ p \in [0..Len(W) -> StageSet]
  /\ \A i \in 1..Len(W) : Advances(v, S, p[i - 1], W[i], p[i])
  /\ \A i \in 0..Len(W) : AllSaid(p[i], S, w)
  /\ Abreast(v, S, w, p[Len(W)])
Coming(v, S, w, W, m, c) == \E p : Way(v, S, w, W, p) /\ MapperAt(m, p[0]) /\ c = PlaceOf(p[0])

(* Delta d takes the assembler from place a to place b.                    *)
Hands(S, w, a, d, b) ==
  \/ d.d = "text"  /\ ~a.call /\ ~b.call /\ Brings(d.token, a, b, S)
  \/ d.d = "start" /\ ~a.call /\ b.call  /\ Brings(d.token, a, b, S)
  \/ d.d = "input" /\ a.call  /\ b.call  /\ Brings(d.token, a, b, S)
  \/ d.d = "end"   /\ a.call  /\ ~b.call /\ b.n = a.n
  \/ d.d = "stop"  /\ ~a.call /\ a.n = Len(S) /\ w.left # "content"
  \/ d.d = "error"

(* What is assembled at a place: the first tokens, and but for a call that *)
(* is open the calls handed over early.                                    *)
LastCalls(x) == IF x.kind = "call" /\ ~x.open THEN <<x.tokens>> ELSE <<>>
Built(F, x, X, S, a) ==
  /\ F \in Seq(PartSet) /\ x \in PartSet
  /\ x.open = a.call /\ (x.open => x.kind = "call")
  /\ \A i \in 1..Len(F) : ~F[i].open
  /\ Kept(F) = F
  /\ Tokens(F) \o x.tokens = SubSeq(S, 1, a.n)
  /\ X = Calls(F) \o LastCalls(x)
Assembly(P, X, S, a) ==
  /\ a \in PlaceSet /\ a.n <= Len(S)
  /\ \/ P = <<>> /\ X = <<>> /\ a.n = 0 /\ ~a.call
     \/ \E F, x : P = Append(F, x) /\ Built(F, x, X, S, a)

(* The deltas D lead from what is assembled to place c.                    *)
Row(S, w, D, q) ==
  /\ q \in [0..Len(D) -> PlaceSet]
  /\ \A i \in 1..Len(D) : Hands(S, w, q[i - 1], D[i], q[i])
Leads(S, w, a, D, c)     == \E q : Row(S, w, D, q) /\ a = q[0] /\ c = q[Len(D)]
Handed(P, X, S, w, D, c) == \E a : Assembly(P, X, S, a) /\ Leads(S, w, a, D, c)

OpenStream(v, w, S, W, m, D, P, X) ==
  \E c \in PlaceSet :
    /\ Handed(P, X, S, w, D, c)
    /\ IF m.finished THEN D # <<>> /\ D[Len(D)].d \in {"stop", "error"}
                     ELSE Coming(v, S, w, W, m, c)

Fresh(w, W, m, D) == w = Serving /\ W = <<>> /\ m = NewMapper /\ D = <<>>

Mappers == [open : SUBSET Nat, stop : BOOLEAN, finished : BOOLEAN]
Servers == [open : {"none", "call", "text"}, blocks : Nat, left : {"content", "stop", "end", "nothing"}]
EventSet ==
  [e : {"open"}, kind : {"text"}, block : Nat]
  \cup [e : {"open", "delta"}, kind : {"call", "input", "text"}, block : Nat, token : TokenSet]
  \cup [e : {"close"}, block : Nat] \cup [e : {"stopping", "stop", "end"}]
  \cup [e : {"error"}, retryable : BOOLEAN]
DeltaSet ==
  [d : {"text", "start", "input"}, token : TokenSet] \cup [d : {"end", "stop"}]
  \cup [d : {"error"}, retryable : BOOLEAN]

Faithful(v, ph, em, w, S, W, m, D, P, X, rp) ==
  /\ w \in Servers /\ (w.left \in {"stop", "end"} => w.open = "none")
  /\ S \in Seq(TokenSet) /\ W \in Seq(EventSet) /\ m \in Mappers /\ D \in Seq(DeltaSet)
  /\ ph # "ended" => rp = "none"
  /\ ~em => P = <<>> /\ X = <<>>
  /\ ph \in {"idle", "waiting"} => Fresh(w, W, m, D) /\ S = <<>> /\ ~em
  /\ ph = "backoff" => Fresh(w, W, m, D) /\ ~em
  /\ ph = "streaming" => OpenStream(v, w, S, W, m, D, P, X)

FaithfulAt(s) ==
  Faithful(Vendor[s], phase[s], emitted[s], vendor[s], said[s], wire[s], mapper[s], deltas[s], parts[s], streamed[s], reply[s])

Families ==
  /\ attempt \in [Sessions -> Nat]
  /\ DOMAIN phase = Sessions /\ DOMAIN emitted = Sessions
  /\ DOMAIN vendor = Sessions /\ DOMAIN said = Sessions /\ DOMAIN wire = Sessions /\ DOMAIN mapper = Sessions
  /\ DOMAIN deltas = Sessions /\ DOMAIN parts = Sessions /\ DOMAIN streamed = Sessions
     /\ DOMAIN reply = Sessions
RepliesInv == Families /\ \A s \in Sessions : FaithfulAt(s)

-----------------------------------------------------------------------------
(* Induction over the numbers, for a set of them.                          *)
LEMMA Upwards ==
  ASSUME NEW S, 0 \in S, \A n \in Nat : n \in S => n + 1 \in S
  PROVE  Nat \subseteq S
<1> DEFINE R == OpToRel(<, Nat)
           T == Nat \ S
<1>1. IsWellFoundedOn(R, Nat)
  BY NatLessThanWellFounded
<1>2. SUFFICES ASSUME T # {} PROVE FALSE
  OBVIOUS
<1>3. T \subseteq Nat
  OBVIOUS
<1> HIDE DEF R, T
<1>4. PICK x \in T : \A y \in T : ~(<<y, x>> \in R)
  BY <1>1, <1>2, <1>3, WFMin
<1>5. x \in Nat /\ x # 0
  BY DEF T
<1>6. x - 1 \in Nat /\ (x - 1 \in S => x \in S)
  BY <1>5
<1>7. x - 1 \in T
  BY <1>4, <1>5, <1>6 DEF T
<1>8. <<x - 1, x>> \in R
  BY <1>5 DEF R, OpToRel
<1> QED BY <1>4, <1>7, <1>8

(* The sequences ss one after the other, as far as each of the first n.    *)
Flat(ss, n, f) == f = [i \in 1..n |-> IF i = 1 THEN ss[i] ELSE f[i - 1] \o ss[i]]

(* FlattenSeq is the last of the sequences it builds on the way.           *)
LEMMA FlattenIs ==
  ASSUME NEW ss, NEW n, n = Len(ss), n # 0
  PROVE  FlattenSeq(ss) = (CHOOSE f : Flat(ss, n, f))[n]
BY DEF FlattenSeq, Flat

(* Those sequences exist.                                                  *)
LEMMA FlatExists ==
  ASSUME NEW ss, NEW n \in Nat
  PROVE  \E f : Flat(ss, n, f)
<1> DEFINE S == {m \in Nat : \E f : Flat(ss, m, f)}
<1>1. 0 \in S
  <2> DEFINE f == [i \in 1..0 |-> ss]
  <2>1. Flat(ss, 0, f)
    BY DEF Flat
  <2> QED BY <2>1
<1>2. ASSUME NEW m \in Nat, m \in S PROVE m + 1 \in S
  <2>1. PICK f : Flat(ss, m, f)
    BY <1>2
  <2> DEFINE g == [i \in 1..(m + 1) |-> IF i = 1 THEN ss[1] ELSE IF i = m + 1 THEN f[m] \o ss[m + 1] ELSE f[i]]
  <2>2. \A i \in 1..m : f[i] = IF i = 1 THEN ss[i] ELSE f[i - 1] \o ss[i]
    BY <2>1 DEF Flat
  <2>3. ASSUME NEW i \in 1..(m + 1) PROVE g[i] = IF i = 1 THEN ss[i] ELSE g[i - 1] \o ss[i]
    <3>1. CASE i = 1
      BY <3>1
    <3>2. CASE i # 1
      <4>1. i - 1 \in 1..m /\ i - 1 \in 1..(m + 1) /\ i - 1 # m + 1
        BY <3>2
      <4>2. g[i - 1] = f[i - 1]
        BY <2>2, <4>1
      <4>3. CASE i = m + 1
        <5>1. i - 1 = m
          BY <4>3
        <5> QED BY <3>2, <4>2, <4>3, <5>1
      <4>4. CASE i # m + 1
        <5>1. i \in 1..m
          BY <4>4
        <5> QED BY <2>2, <3>2, <4>2, <4>4, <5>1
      <4> QED BY <4>3, <4>4
    <3> QED BY <3>1, <3>2
  <2>4. g = [i \in 1..(m + 1) |-> g[i]]
    OBVIOUS
  <2> HIDE DEF g
  <2>5. g = [i \in 1..(m + 1) |-> IF i = 1 THEN ss[i] ELSE g[i - 1] \o ss[i]]
    BY <2>3, <2>4
  <2>6. Flat(ss, m + 1, g)
    BY <2>5 DEF Flat
  <2> QED BY <2>6
<1> HIDE DEF S
<1>3. Nat \subseteq S
  BY <1>1, <1>2, Upwards
<1> QED BY <1>3 DEF S

(* Nothing flattened is nothing.                                           *)
LEMMA FlattenNothing == FlattenSeq(<<>>) = <<>>
BY DEF FlattenSeq

(* With one more sequence, the result goes on with it.                     *)
LEMMA FlattenAppend ==
  ASSUME NEW T, NEW ss \in Seq(Seq(T)), NEW s \in Seq(T)
  PROVE  FlattenSeq(Append(ss, s)) = FlattenSeq(ss) \o s /\ FlattenSeq(ss) \in Seq(T)
<1> DEFINE n == Len(ss)
           tt == Append(ss, s)
           f == CHOOSE x : Flat(ss, n, x)
           g == CHOOSE x : Flat(tt, n + 1, x)
<1>1. /\ n \in Nat /\ tt \in Seq(Seq(T)) /\ Len(tt) = n + 1 /\ tt[n + 1] = s
      /\ \A i \in 1..n : tt[i] = ss[i] /\ ss[i] \in Seq(T)
  OBVIOUS
<1> HIDE DEF n, tt
<1>6. n \in Nat
  BY <1>1
<1>2. FlattenSeq(tt) = g[n + 1]
  <2>1. n + 1 = Len(tt) /\ n + 1 # 0
    BY <1>1, <1>6
  <2> HIDE DEF g
  <2> QED BY <2>1, FlattenIs DEF g
<1>3. Flat(tt, n + 1, g)
  <2>1. n + 1 \in Nat
    BY <1>6
  <2> QED BY <2>1, FlatExists
<1>4. CASE n = 0
  <2>1. ss = <<>>
    BY <1>4 DEF n
  <2>2. g[1] = tt[1]
    <3> HIDE DEF g
    <3> QED BY <1>3, <1>4 DEF Flat
  <2>3. FlattenSeq(tt) = s
    BY <1>1, <1>2, <1>4, <2>2
  <2>4. FlattenSeq(ss) = <<>>
    BY <2>1, FlattenNothing
  <2> QED BY <2>3, <2>4 DEF tt
<1>5. CASE n # 0
  <2>1. FlattenSeq(ss) = f[n]
    BY <1>5, FlattenIs DEF n
  <2>2. Flat(ss, n, f)
    BY <1>6, FlatExists
  <2> HIDE DEF f, g
  <2>3. \A i \in 1..n : f[i] = IF i = 1 THEN ss[i] ELSE f[i - 1] \o ss[i]
    BY <2>2 DEF Flat
  <2>4. \A i \in 1..(n + 1) : g[i] = IF i = 1 THEN tt[i] ELSE g[i - 1] \o tt[i]
    BY <1>3 DEF Flat
  <2> DEFINE S == {i \in Nat : i + 1 \in 1..n => g[i + 1] = f[i + 1] /\ f[i + 1] \in Seq(T)}
  <2>5. 0 \in S
    <3>1. 1 \in 1..n /\ 1 \in 1..(n + 1)
      BY <1>1, <1>5
    <3>2. f[1] = ss[1] /\ g[1] = tt[1]
      BY <2>3, <2>4, <3>1
    <3> QED BY <1>1, <3>1, <3>2
  <2>6. ASSUME NEW i \in Nat, i \in S PROVE i + 1 \in S
    <3>1. SUFFICES ASSUME i + 2 \in 1..n PROVE g[i + 2] = f[i + 2] /\ f[i + 2] \in Seq(T)
      OBVIOUS
    <3>2. i + 1 \in 1..n /\ i + 2 # 1 /\ (i + 2) - 1 = i + 1 /\ i + 2 \in 1..(n + 1)
      BY <1>1, <3>1
    <3>3. g[i + 1] = f[i + 1] /\ f[i + 1] \in Seq(T)
      BY <2>6, <3>2
    <3>4. f[i + 2] = f[i + 1] \o ss[i + 2]
      BY <2>3, <3>1, <3>2
    <3>5. g[i + 2] = g[i + 1] \o tt[i + 2]
      BY <2>4, <3>2
    <3>6. tt[i + 2] = ss[i + 2] /\ ss[i + 2] \in Seq(T)
      BY <1>1, <3>1
    <3> QED BY <3>3, <3>4, <3>5, <3>6
  <2> HIDE DEF S
  <2>7. Nat \subseteq S
    BY <2>5, <2>6, Upwards
  <2>8. g[n] = f[n] /\ f[n] \in Seq(T)
    <3>1. n - 1 \in Nat /\ (n - 1) + 1 = n /\ n \in 1..n
      BY <1>1, <1>5
    <3> QED BY <2>7, <3>1 DEF S
  <2>9. g[n + 1] = g[n] \o s
    <3>1. n + 1 \in 1..(n + 1) /\ n + 1 # 1 /\ (n + 1) - 1 = n
      BY <1>5, <1>6
    <3> QED BY <1>1, <2>4, <3>1
  <2>10. FlattenSeq(tt) = FlattenSeq(ss) \o s /\ FlattenSeq(ss) \in Seq(T)
    BY <1>2, <2>1, <2>8, <2>9
  <2> QED BY <2>10 DEF tt
<1> QED BY <1>4, <1>5

(* A function one longer is an Append.                                     *)
LEMMA AppendIs ==
  ASSUME NEW T, NEW n \in Nat, NEW ss \in [1..n -> T], NEW tt \in [1..(n + 1) -> T],
         \A i \in 1..n : tt[i] = ss[i]
  PROVE  ss \in Seq(T) /\ tt = Append(ss, tt[n + 1])
<1>1. ss \in Seq(T) /\ Len(ss) = n /\ tt \in Seq(T) /\ Len(tt) = n + 1 /\ tt[n + 1] \in T
  OBVIOUS
<1> DEFINE uu == Append(ss, tt[n + 1])
<1>2. uu \in Seq(T) /\ Len(uu) = n + 1 /\ uu[n + 1] = tt[n + 1] /\ \A i \in 1..n : uu[i] = ss[i]
  BY <1>1
<1> HIDE DEF uu
<1>3. \A i \in 1..(n + 1) : uu[i] = tt[i]
  BY <1>2
<1>4. uu = tt
  BY <1>1, <1>2, <1>3, SeqEqual
<1> QED BY <1>1, <1>4 DEF uu

(* What one more part adds to the tokens, the calls and the parts kept.    *)
LEMMA Appended ==
  ASSUME NEW F \in Seq(PartSet), NEW x \in PartSet, NEW G, G = Append(F, x)
  PROVE  /\ G \in Seq(PartSet) /\ DOMAIN F = 1..Len(F) /\ DOMAIN G = 1..(Len(F) + 1) /\ Len(F) \in Nat
         /\ G[Len(F) + 1] = x /\ Len(F) + 1 \in 1..(Len(F) + 1)
         /\ \A i \in 1..Len(F) : G[i] = F[i] /\ i \in 1..(Len(F) + 1)
OBVIOUS

(* A part at the end brings its tokens at the end,                         *)
LEMMA TokensAppend ==
  ASSUME NEW F \in Seq(PartSet), NEW x \in PartSet
  PROVE  Tokens(Append(F, x)) = Tokens(F) \o x.tokens /\ Tokens(F) \in Seq(TokenSet)
<1> DEFINE G == Append(F, x)
           n == Len(F)
           T == Seq(TokenSet)
           ss == [i \in DOMAIN F |-> F[i].tokens]
           tt == [i \in DOMAIN G |-> G[i].tokens]
<1>1. Tokens(F) = FlattenSeq(ss) /\ Tokens(G) = FlattenSeq(tt)
  BY DEF Tokens
<1>2. /\ G \in Seq(PartSet) /\ DOMAIN F = 1..n /\ DOMAIN G = 1..(n + 1) /\ n \in Nat
      /\ G[n + 1] = x /\ n + 1 \in 1..(n + 1)
      /\ \A i \in 1..n : G[i] = F[i] /\ i \in 1..(n + 1)
  BY Appended
<1>8. \A y \in PartSet : y.tokens \in T
  BY DEF PartSet
<1> HIDE DEF G, n, T
<1>3. ss \in [1..n -> T] /\ tt \in [1..(n + 1) -> T] /\ \A i \in 1..n : tt[i] = ss[i]
  BY <1>2, <1>8
<1>4. tt[n + 1] = x.tokens
  BY <1>2
<1> HIDE DEF ss, tt
<1>5. ss \in Seq(T) /\ tt = Append(ss, x.tokens)
  BY <1>2, <1>3, <1>4, AppendIs
<1>6. x.tokens \in T
  BY <1>8
<1>7. FlattenSeq(tt) = FlattenSeq(ss) \o x.tokens /\ FlattenSeq(ss) \in Seq(TokenSet)
  BY <1>5, <1>6, FlattenAppend DEF T
<1> QED BY <1>1, <1>7 DEF G

CallOf(x) == IF x.kind = "call" THEN <<x.tokens>> ELSE <<>>

(* its call, when it is one,                                               *)
LEMMA CallsAppend ==
  ASSUME NEW F \in Seq(PartSet), NEW x \in PartSet
  PROVE  Calls(Append(F, x)) = Calls(F) \o CallOf(x) /\ Calls(F) \in Seq(Seq(TokenSet))
<1> DEFINE G == Append(F, x)
           n == Len(F)
           U == Seq(TokenSet)
           T == Seq(U)
           ss == [i \in DOMAIN F |-> CallOf(F[i])]
           tt == [i \in DOMAIN G |-> CallOf(G[i])]
<1>1. Calls(F) = FlattenSeq(ss) /\ Calls(G) = FlattenSeq(tt)
  BY DEF Calls, CallOf
<1>2. /\ G \in Seq(PartSet) /\ DOMAIN F = 1..n /\ DOMAIN G = 1..(n + 1) /\ n \in Nat
      /\ G[n + 1] = x /\ n + 1 \in 1..(n + 1)
      /\ \A i \in 1..n : G[i] = F[i] /\ i \in 1..(n + 1)
  BY Appended
<1>8. \A y \in PartSet : CallOf(y) \in T
  <2>1. TAKE y \in PartSet
  <2>2. y.tokens \in U
    BY DEF PartSet
  <2> HIDE DEF U
  <2> QED BY <2>2 DEF CallOf
<1> HIDE DEF G, n, T
<1>3. ss \in [1..n -> T] /\ tt \in [1..(n + 1) -> T] /\ \A i \in 1..n : tt[i] = ss[i]
  BY <1>2, <1>8
<1>4. tt[n + 1] = CallOf(x)
  BY <1>2
<1> HIDE DEF ss, tt
<1>5. ss \in Seq(T) /\ tt = Append(ss, CallOf(x))
  BY <1>2, <1>3, <1>4, AppendIs
<1>6. CallOf(x) \in T
  BY <1>8
<1> HIDE DEF U
<1>7. FlattenSeq(tt) = FlattenSeq(ss) \o CallOf(x) /\ FlattenSeq(ss) \in Seq(U)
  BY <1>5, <1>6, FlattenAppend DEF T
<1> QED BY <1>1, <1>7 DEF G, U

ClosedOf(x) == IF x.open THEN <<>> ELSE <<x>>

(* and itself, when it is not a call that is open.                         *)
LEMMA KeptAppend ==
  ASSUME NEW F \in Seq(PartSet), NEW x \in PartSet
  PROVE  Kept(Append(F, x)) = Kept(F) \o ClosedOf(x) /\ Kept(F) \in Seq(PartSet)
<1> DEFINE G == Append(F, x)
           n == Len(F)
           T == Seq(PartSet)
           ss == [i \in DOMAIN F |-> ClosedOf(F[i])]
           tt == [i \in DOMAIN G |-> ClosedOf(G[i])]
<1>1. Kept(F) = FlattenSeq(ss) /\ Kept(G) = FlattenSeq(tt)
  BY DEF Kept, ClosedOf
<1>2. /\ G \in Seq(PartSet) /\ DOMAIN F = 1..n /\ DOMAIN G = 1..(n + 1) /\ n \in Nat
      /\ G[n + 1] = x /\ n + 1 \in 1..(n + 1)
      /\ \A i \in 1..n : G[i] = F[i] /\ i \in 1..(n + 1)
  BY Appended
<1>8. \A y \in PartSet : ClosedOf(y) \in T
  BY DEF ClosedOf
<1> HIDE DEF G, n, T
<1>3. ss \in [1..n -> T] /\ tt \in [1..(n + 1) -> T] /\ \A i \in 1..n : tt[i] = ss[i]
  BY <1>2, <1>8
<1>4. tt[n + 1] = ClosedOf(x)
  BY <1>2
<1> HIDE DEF ss, tt
<1>5. ss \in Seq(T) /\ tt = Append(ss, ClosedOf(x))
  BY <1>2, <1>3, <1>4, AppendIs
<1>6. ClosedOf(x) \in T
  BY <1>8
<1>7. FlattenSeq(tt) = FlattenSeq(ss) \o ClosedOf(x) /\ FlattenSeq(ss) \in Seq(PartSet)
  BY <1>5, <1>6, FlattenAppend DEF T
<1> QED BY <1>1, <1>7 DEF G

(* Nothing assembled has no tokens, no calls and no parts to keep.         *)
LEMMA NothingAssembled == Tokens(<<>>) = <<>> /\ Calls(<<>>) = <<>> /\ Kept(<<>>) = <<>>
<1>1. DOMAIN <<>> = {}
  OBVIOUS
<1>2. [i \in DOMAIN <<>> |-> <<>>[i].tokens] = <<>>
  BY <1>1
<1>3. [i \in DOMAIN <<>> |-> IF <<>>[i].kind = "call" THEN <<<<>>[i].tokens>> ELSE <<>>] = <<>>
  BY <1>1
<1>4. [i \in DOMAIN <<>> |-> IF <<>>[i].open THEN <<>> ELSE <<<<>>[i]>>] = <<>>
  BY <1>1
<1> QED BY <1>2, <1>3, <1>4, FlattenNothing DEF Tokens, Calls, Kept

-----------------------------------------------------------------------------
(* A delta takes what is assembled from one place to the next.             *)
LEMMA LastOpen ==
  ASSUME NEW F \in Seq(PartSet), NEW x \in PartSet, \A i \in 1..Len(F) : ~F[i].open, NEW P, P = Append(F, x)
  PROVE  /\ ~x.open => OpenCalls(P) = {}
         /\ x.open => OpenCalls(P) # {} /\ LastCall(P) = Len(F) + 1
         /\ P[Len(F) + 1] = x /\ P # <<>> /\ Last(P) = x /\ Len(P) = Len(F) + 1
<1> DEFINE n == Len(F)
<1>1. /\ P \in Seq(PartSet) /\ DOMAIN P = 1..(n + 1) /\ n \in Nat
      /\ P[n + 1] = x /\ n + 1 \in 1..(n + 1)
      /\ \A i \in 1..n : P[i] = F[i] /\ i \in 1..(n + 1)
  BY Appended
<1>2. Len(P) = n + 1 /\ P # <<>>
  OBVIOUS
<1> HIDE DEF n
<1>3. \A i \in 1..(n + 1) : P[i].open => i = n + 1
  <2>1. TAKE i \in 1..(n + 1)
  <2>2. i \in 1..n \/ i = n + 1
    BY <1>1
  <2> QED BY <1>1, <2>2 DEF n
<1>4. ~x.open => OpenCalls(P) = {}
  BY <1>1, <1>3 DEF OpenCalls
<1>5. x.open => OpenCalls(P) = {n + 1}
  BY <1>1, <1>3 DEF OpenCalls
<1>6. x.open => LastCall(P) = n + 1
  <2>1. n + 1 <= n + 1
    BY <1>1
  <2> QED BY <1>5, <2>1 DEF LastCall
<1> QED BY <1>1, <1>2, <1>4, <1>5, <1>6 DEF n, Last

(* A change of the last part leaves the parts before it.                   *)
LEMMA LastChanged ==
  ASSUME NEW F \in Seq(PartSet), NEW x \in PartSet, NEW y \in PartSet, NEW P, P = Append(F, x)
  PROVE  [P EXCEPT ![Len(F) + 1] = y] = Append(F, y)
<1> DEFINE n == Len(F)
           Q == [P EXCEPT ![Len(F) + 1] = y]
           R == Append(F, y)
<1>1. P \in Seq(PartSet) /\ Len(P) = n + 1 /\ n \in Nat /\ P[n + 1] = x /\ \A i \in 1..n : P[i] = F[i]
  OBVIOUS
<1>2. R \in Seq(PartSet) /\ Len(R) = n + 1 /\ R[n + 1] = y /\ \A i \in 1..n : R[i] = F[i]
  OBVIOUS
<1> HIDE DEF n, R
<1>3. Q \in Seq(PartSet) /\ Len(Q) = n + 1 /\ Q[n + 1] = y /\ \A i \in 1..n : Q[i] = P[i]
  <2> DEFINE k == n + 1
  <2>5. k \in Nat /\ k \in 1..k /\ \A i \in 1..n : i \in 1..k /\ i # k
    BY <1>1
  <2>6. Len(P) = k
    BY <1>1
  <2>2. Q = [P EXCEPT ![k] = y]
    BY DEF n
  <2> HIDE DEF k
  <2>7. P \in [1..Len(P) -> PartSet]
    BY <1>1, LenProperties
  <2>1. P \in [1..k -> PartSet] /\ k \in Nat /\ k \in 1..k /\ \A i \in 1..n : i \in 1..k /\ i # k
    BY <2>5, <2>6, <2>7
  <2> HIDE DEF Q
  <2>3. Q \in [1..k -> PartSet] /\ Q[k] = y /\ \A i \in 1..n : Q[i] = P[i]
    BY <2>1, <2>2
  <2>4. Q \in Seq(PartSet) /\ Len(Q) = k
    BY <2>1, <2>3
  <2> QED BY <2>3, <2>4 DEF k
<1> HIDE DEF Q
<1>4. \A i \in 1..(n + 1) : Q[i] = R[i]
  BY <1>1, <1>2, <1>3
<1>5. Q = R
  BY <1>2, <1>3, <1>4, SeqEqual
<1> QED BY <1>5 DEF Q, R

(* The first k + 1 tokens are the first k and one more.                    *)
LEMMA OneMore ==
  ASSUME NEW S \in Seq(TokenSet), NEW k \in Nat, k + 1 <= Len(S), NEW s, s = SubSeq(S, 1, k)
  PROVE  s \o <<S[k + 1]>> = SubSeq(S, 1, k + 1) /\ s \in Seq(TokenSet) /\ S[k + 1] \in TokenSet
<1>1. s \in Seq(TokenSet) /\ Len(s) = k /\ \A i \in 1..k : s[i] = S[i]
  OBVIOUS
<1>2. S[k + 1] \in TokenSet
  OBVIOUS
<1> DEFINE t == S[k + 1]
           u == s \o <<t>>
           r == SubSeq(S, 1, k + 1)
<1>3. u \in Seq(TokenSet) /\ Len(u) = k + 1 /\ u[k + 1] = t /\ \A i \in 1..k : u[i] = S[i]
  <2>1. t \in TokenSet
    BY <1>2
  <2> HIDE DEF t
  <2>2. u \in Seq(TokenSet) /\ Len(u) = k + 1
    BY <1>1, <2>1
  <2>3. u[k + 1] = t
    BY <1>1, <2>1
  <2>4. \A i \in 1..k : u[i] = s[i]
    BY <1>1, <2>1
  <2> QED BY <1>1, <2>2, <2>3, <2>4
<1>4. r \in Seq(TokenSet) /\ Len(r) = k + 1 /\ \A i \in 1..(k + 1) : r[i] = S[i]
  OBVIOUS
<1> HIDE DEF u, r
<1>5. \A i \in 1..(k + 1) : u[i] = r[i]
  BY <1>3, <1>4
<1>6. u = r
  BY <1>3, <1>4, <1>5, SeqEqual
<1> QED BY <1>1, <1>2, <1>6 DEF t, u, r

(* The whole of what is assembled, and what is kept of it.                 *)
WholeIs(F, P, X, S, a) ==
  /\ P \in Seq(PartSet) /\ Tokens(P) = SubSeq(S, 1, a.n)
  /\ Calls(Kept(P)) = X
  /\ a.call => Kept(P) = F
  /\ ~a.call => /\ Kept(P) = P /\ Calls(P) = X
                /\ \A i \in 1..Len(P) : ~P[i].open

(* What a reply cut at this place would be.                                *)
LEMMA BuiltIs ==
  ASSUME NEW S, NEW F, NEW x, NEW X, NEW a, Built(F, x, X, S, a), NEW P, P = Append(F, x)
  PROVE  WholeIs(F, P, X, S, a)
<1>1. F \in Seq(PartSet) /\ x \in PartSet /\ x.open = a.call /\ Kept(F) = F /\ X = Calls(F) \o LastCalls(x)
  BY DEF Built
<1>2. P \in Seq(PartSet)
  BY <1>1
<1>3. Tokens(P) = SubSeq(S, 1, a.n)
  BY <1>1, TokensAppend DEF Built
<1>4. Kept(P) = F \o ClosedOf(x)
  BY <1>1, KeptAppend
<1>5. CASE a.call
  <2>1. ClosedOf(x) = <<>> /\ LastCalls(x) = <<>>
    BY <1>1, <1>5 DEF ClosedOf, LastCalls
  <2>2. Kept(P) = F
    BY <1>1, <1>4, <2>1
  <2>3. Calls(F) \in Seq(Seq(TokenSet))
    BY <1>1, CallsAppend
  <2>4. Calls(F) = X
    <3> DEFINE cs == Calls(F)
    <3>1. cs \in Seq(Seq(TokenSet)) /\ X = cs \o <<>>
      BY <1>1, <2>1, <2>3
    <3> HIDE DEF cs
    <3>2. cs = X
      BY <3>1
    <3> QED BY <3>2 DEF cs
  <2> QED BY <1>2, <1>3, <1>5, <2>2, <2>4 DEF WholeIs
<1>6. CASE ~a.call
  <2>1. ClosedOf(x) = <<x>> /\ LastCalls(x) = CallOf(x)
    BY <1>1, <1>6 DEF ClosedOf, LastCalls, CallOf
  <2>2. Kept(P) = P
    BY <1>1, <1>4, <2>1
  <2>3. Calls(P) = X
    BY <1>1, <2>1, CallsAppend
  <2>4. \A i \in 1..Len(P) : ~P[i].open
    BY <1>1, <1>6 DEF Built
  <2> QED BY <1>2, <1>3, <1>6, <2>2, <2>3, <2>4 DEF WholeIs
<1> QED BY <1>5, <1>6

(* A part after those that are closed.                                     *)
LEMMA GoesOn ==
  ASSUME NEW S \in Seq(TokenSet), NEW P, NEW X, NEW a, Assembly(P, X, S, a), ~a.call,
         NEW b \in PlaceSet, NEW kind \in {"call", "text"}, NEW t, Brings(t, a, b, S), b.call <=> kind = "call"
  PROVE  Assembly(Append(P, Part(kind, t)), X, S, b)
<1> DEFINE y == Part(kind, t)
<1>1. a \in PlaceSet /\ a.n \in Nat /\ b.n = a.n + 1 /\ b.n <= Len(S) /\ t = S[a.n + 1]
  BY DEF Assembly, Brings, PlaceSet
<1>2. t \in TokenSet /\ <<t>> \in Seq(TokenSet)
  BY <1>1
<1>3. /\ y \in PartSet /\ y.tokens = <<t>> /\ y.open = b.call /\ (y.open => y.kind = "call")
      /\ LastCalls(y) = <<>>
  <2>1. y.kind = kind /\ y.tokens = <<t>> /\ y.open = (kind = "call")
        /\ y = [kind |-> kind, tokens |-> <<t>>, open |-> kind = "call"]
    BY DEF Part
  <2>2. <<t>> \in Seq(TokenSet) /\ b.call \in BOOLEAN
    BY <1>2 DEF PlaceSet
  <2> HIDE DEF y
  <2>3. y.open = b.call
    BY <2>1, <2>2
  <2>4. y \in PartSet
    BY <2>1, <2>2 DEF PartSet
  <2>5. y.open => y.kind = "call"
    BY <2>1
  <2>6. LastCalls(y) = <<>>
    BY <2>1 DEF LastCalls
  <2> QED BY <2>1, <2>3, <2>4, <2>5, <2>6
<1> HIDE DEF y
<1>4. /\ SubSeq(S, 1, a.n) \o <<t>> = SubSeq(S, 1, b.n)
      /\ SubSeq(S, 1, a.n) \in Seq(TokenSet)
  BY <1>1, OneMore
<1>5. CASE P = <<>> /\ X = <<>> /\ a.n = 0
  <2>1. P \in Seq(PartSet) /\ Kept(P) = P /\ (\A i \in 1..Len(P) : ~P[i].open) /\ Len(P) = 0
    BY <1>5, NothingAssembled
  <2>2. Tokens(P) \o y.tokens = SubSeq(S, 1, b.n)
    <3>1. Tokens(P) = <<>> /\ SubSeq(S, 1, a.n) = <<>>
      BY <1>5, NothingAssembled
    <3> QED BY <1>3, <1>4, <3>1
  <2>3. X = Calls(P) \o LastCalls(y)
    BY <1>3, <1>5, NothingAssembled
  <2>4. Built(P, y, X, S, b)
    BY <1>3, <2>1, <2>2, <2>3 DEF Built
  <2> QED BY <1>1, <2>4 DEF Assembly, y
<1>6. ASSUME NEW F, NEW x, P = Append(F, x), Built(F, x, X, S, a) PROVE Assembly(Append(P, y), X, S, b)
  <2>1. /\ P \in Seq(PartSet) /\ Tokens(P) = SubSeq(S, 1, a.n) /\ Kept(P) = P
        /\ Calls(P) = X /\ \A i \in 1..Len(P) : ~P[i].open
    <3>1. WholeIs(F, P, X, S, a)
      BY <1>6, BuiltIs
    <3> QED BY <3>1 DEF WholeIs
  <2>2. Tokens(P) \o y.tokens = SubSeq(S, 1, b.n)
    BY <1>3, <1>4, <2>1
  <2>3. X = Calls(P) \o LastCalls(y)
    <3>1. X \in Seq(Seq(TokenSet))
      BY <1>3, <2>1, CallsAppend
    <3> QED BY <1>3, <2>1, <3>1
  <2>4. Built(P, y, X, S, b)
    BY <1>3, <2>1, <2>2, <2>3 DEF Built
  <2> QED BY <1>1, <2>4 DEF Assembly
<1> QED BY <1>5, <1>6 DEF Assembly, y

(* A token more in the last part.                                          *)
LEMMA Widens ==
  ASSUME NEW S \in Seq(TokenSet), NEW X, NEW a \in PlaceSet, NEW F, NEW x, Built(F, x, X, S, a),
         x.open \/ x.kind = "text",
         NEW b \in PlaceSet, b.call = a.call, NEW t, Brings(t, a, b, S), NEW P, P = Append(F, x)
  PROVE  /\ [P EXCEPT ![Len(F) + 1].tokens = Append(@, t)] = Append(F, [x EXCEPT !.tokens = Append(@, t)])
         /\ Assembly([P EXCEPT ![Len(F) + 1].tokens = Append(@, t)], X, S, b)
<1> DEFINE y == [x EXCEPT !.tokens = Append(@, t)]
           Q == [P EXCEPT ![Len(F) + 1].tokens = Append(@, t)]
<1>1. a.n \in Nat /\ b.n = a.n + 1 /\ b.n <= Len(S) /\ t = S[a.n + 1]
  BY DEF Brings, PlaceSet
<1>2. t \in TokenSet /\ F \in Seq(PartSet) /\ x \in PartSet /\ x.tokens \in Seq(TokenSet)
  BY <1>1 DEF Built, PartSet
<1>3. y \in PartSet /\ y.tokens = x.tokens \o <<t>> /\ y.open = x.open /\ y.kind = x.kind
  <2>1. Append(x.tokens, t) \in Seq(TokenSet) /\ Append(x.tokens, t) = x.tokens \o <<t>>
    <3> DEFINE u == x.tokens
    <3>1. u \in Seq(TokenSet) /\ t \in TokenSet
      BY <1>2
    <3> HIDE DEF u
    <3>2. Append(u, t) \in Seq(TokenSet) /\ Append(u, t) = u \o <<t>>
      BY <3>1, AppendProperties, AppendIsConcat
    <3> QED BY <3>2 DEF u
  <2>2. y = [x EXCEPT !.tokens = Append(x.tokens, t)]
    OBVIOUS
  <2> HIDE DEF y
  <2> QED BY <1>2, <2>1, <2>2 DEF PartSet
<1>4. Q = [P EXCEPT ![Len(F) + 1] = y]
  <2>1. P[Len(F) + 1] = x
    BY <1>2
  <2> QED BY <2>1
<1> HIDE DEF y, Q
<1>5. Q = Append(F, y)
  BY <1>2, <1>3, <1>4, LastChanged
<1>6. Tokens(F) \o y.tokens = SubSeq(S, 1, b.n)
  <2>1. SubSeq(S, 1, a.n) \o <<t>> = SubSeq(S, 1, b.n)
    BY <1>1, OneMore
  <2>2. Tokens(F) \in Seq(TokenSet) /\ Tokens(F) \o x.tokens = SubSeq(S, 1, a.n)
    BY <1>2, TokensAppend DEF Built
  <2> DEFINE ts == Tokens(F)
             xs == x.tokens
  <2>3. ts \in Seq(TokenSet) /\ xs \in Seq(TokenSet) /\ <<t>> \in Seq(TokenSet)
    BY <1>2, <2>2
  <2> HIDE DEF ts, xs
  <2>4. ts \o (xs \o <<t>>) = (ts \o xs) \o <<t>>
    BY <2>3, ConcatAssociative
  <2> QED BY <1>3, <2>1, <2>2, <2>4 DEF ts, xs
<1>7. LastCalls(y) = LastCalls(x)
  BY <1>3 DEF LastCalls
<1>8. Built(F, y, X, S, b)
  BY <1>2, <1>3, <1>6, <1>7 DEF Built
<1>9. Assembly(Q, X, S, b)
  BY <1>1, <1>5, <1>8 DEF Assembly
<1> QED BY <1>5, <1>9 DEF y, Q

(* The call that is open is complete.                                      *)
LEMMA EndsCall ==
  ASSUME NEW S \in Seq(TokenSet), NEW X, NEW a, NEW F, NEW x, Built(F, x, X, S, a), a.call, a.n <= Len(S),
         NEW b \in PlaceSet, ~b.call, b.n = a.n, NEW P, P = Append(F, x)
  PROVE  Assembly([P EXCEPT ![Len(F) + 1].open = FALSE], X \o <<x.tokens>>, S, b)
<1> DEFINE y == [x EXCEPT !.open = FALSE]
           Q == [P EXCEPT ![Len(F) + 1].open = FALSE]
           Y == X \o <<x.tokens>>
<1>1. F \in Seq(PartSet) /\ x \in PartSet /\ x.open /\ x.kind = "call"
  BY DEF Built
<1>2. y \in PartSet /\ y.tokens = x.tokens /\ y.open = FALSE /\ y.kind = "call"
  BY <1>1 DEF PartSet
<1>3. Q = [P EXCEPT ![Len(F) + 1] = y]
  <2>1. P[Len(F) + 1] = x
    BY <1>1
  <2> QED BY <2>1
<1> HIDE DEF y, Q
<1>4. Q = Append(F, y)
  BY <1>1, <1>2, <1>3, LastChanged
<1>5. Y = Calls(F) \o LastCalls(y)
  <2>1. LastCalls(x) = <<>> /\ LastCalls(y) = <<x.tokens>>
    BY <1>1, <1>2 DEF LastCalls
  <2> DEFINE cs == Calls(F)
  <2>2. cs \in Seq(Seq(TokenSet)) /\ X = cs \o <<>>
    BY <1>1, <2>1, CallsAppend DEF Built
  <2> HIDE DEF cs
  <2>3. X = cs
    BY <2>2
  <2> QED BY <2>1, <2>3 DEF cs
<1> HIDE DEF Y
<1>6. Built(F, y, Y, S, b)
  <2>1. b.call = FALSE
    BY DEF PlaceSet
  <2> QED BY <1>1, <1>2, <1>5, <2>1 DEF Built
<1>7. Assembly(Q, Y, S, b)
  BY <1>4, <1>6 DEF Assembly
<1> QED BY <1>7 DEF Q, Y

(* So a delta that is handed on leads from place to place.                 *)
LEMMA PushAssembles ==
  ASSUME NEW S \in Seq(TokenSet), NEW P, NEW X, NEW w, NEW a, Assembly(P, X, S, a),
         NEW b \in PlaceSet, NEW d, Hands(S, w, a, d, b), d.d \notin {"error", "stop"}
  PROVE  Assembly(Push(P, d), IF d.d \in {"start", "end"} THEN X \o Completed(P) ELSE X, S, b)
<1>1. a \in PlaceSet
  BY DEF Assembly
<1>2. \/ P = <<>> /\ X = <<>> /\ a.n = 0 /\ ~a.call
      \/ \E F, x : P = Append(F, x) /\ Built(F, x, X, S, a)
  BY DEF Assembly
<1>3. ~a.call => OpenCalls(P) = {} /\ CloseCall(P) = P /\ Completed(P) = <<>> /\ X \o Completed(P) = X
  <2>1. SUFFICES ASSUME ~a.call PROVE OpenCalls(P) = {} /\ X \o <<>> = X
    BY DEF CloseCall, Completed
  <2>2. CASE P = <<>> /\ X = <<>>
    BY <2>2 DEF OpenCalls
  <2>3. ASSUME NEW F, NEW x, P = Append(F, x), Built(F, x, X, S, a) PROVE OpenCalls(P) = {} /\ X \o <<>> = X
    <3>1. F \in Seq(PartSet) /\ x \in PartSet /\ ~x.open /\ \A i \in 1..Len(F) : ~F[i].open
      BY <2>1, <2>3 DEF Built
    <3>2. OpenCalls(P) = {}
      BY <2>3, <3>1, LastOpen
    <3>3. X = Calls(P) /\ P \in Seq(PartSet)
      <4>1. WholeIs(F, P, X, S, a)
        BY <2>3, BuiltIs
      <4> QED BY <2>1, <4>1 DEF WholeIs
    <3>4. X \in Seq(Seq(TokenSet))
      BY <3>1, <3>3, CallsAppend
    <3> QED BY <3>2, <3>4
  <2> QED BY <1>2, <2>1, <2>2, <2>3
<1>4. CASE d.d = "text" /\ ~a.call /\ ~b.call /\ Brings(d.token, a, b, S)
  <2>1. CASE P # <<>> /\ Last(P).kind = "text"
    <3>1. PICK F, x : P = Append(F, x) /\ Built(F, x, X, S, a)
      BY <1>2, <2>1
    <3>2. F \in Seq(PartSet) /\ x \in PartSet /\ \A i \in 1..Len(F) : ~F[i].open
      BY <3>1 DEF Built
    <3>3. Last(P) = x /\ Len(P) = Len(F) + 1
      BY <3>1, <3>2, LastOpen
    <3>4. Push(P, d) = [P EXCEPT ![Len(F) + 1].tokens = Append(@, d.token)]
      BY <1>4, <2>1, <3>3 DEF Push
    <3>5. a.call = b.call /\ x.kind = "text"
      BY <1>1, <1>4, <2>1, <3>3 DEF PlaceSet
    <3>6. Assembly([P EXCEPT ![Len(F) + 1].tokens = Append(@, d.token)], X, S, b)
      BY <1>1, <1>4, <3>1, <3>5, Widens
    <3> QED BY <1>4, <3>4, <3>6
  <2>2. CASE ~(P # <<>> /\ Last(P).kind = "text")
    <3>1. Push(P, d) = Append(P, Part("text", d.token))
      BY <1>4, <2>2 DEF Push
    <3>2. b.call <=> "text" = "call"
      BY <1>4 DEF PlaceSet
    <3>3. Assembly(Append(P, Part("text", d.token)), X, S, b)
      BY <1>4, <3>2, GoesOn
    <3> QED BY <1>4, <3>1, <3>3
  <2> QED BY <2>1, <2>2
<1>5. CASE d.d = "start" /\ ~a.call /\ b.call /\ Brings(d.token, a, b, S)
  <2>1. Push(P, d) = Append(P, Part("call", d.token))
    BY <1>3, <1>5 DEF Push
  <2>2. b.call <=> "call" = "call"
    BY <1>5 DEF PlaceSet
  <2>3. Assembly(Append(P, Part("call", d.token)), X, S, b)
    BY <1>5, <2>2, GoesOn
  <2> QED BY <1>3, <1>5, <2>1, <2>3
<1>6. CASE a.call /\ d.d \in {"input", "end"}
  <2>1. PICK F, x : P = Append(F, x) /\ Built(F, x, X, S, a)
    BY <1>2, <1>6
  <2>2. F \in Seq(PartSet) /\ x \in PartSet /\ x.open /\ \A i \in 1..Len(F) : ~F[i].open
    BY <1>6, <2>1 DEF Built
  <2>3. OpenCalls(P) # {} /\ LastCall(P) = Len(F) + 1 /\ P[Len(F) + 1] = x
    BY <2>1, <2>2, LastOpen
  <2>4. CASE d.d = "input" /\ b.call /\ Brings(d.token, a, b, S)
    <3>1. Push(P, d) = [P EXCEPT ![Len(F) + 1].tokens = Append(@, d.token)]
      BY <2>3, <2>4 DEF Push
    <3>2. b.call = a.call
      BY <1>1, <1>6, <2>4 DEF PlaceSet
    <3>3. Assembly([P EXCEPT ![Len(F) + 1].tokens = Append(@, d.token)], X, S, b)
      BY <1>1, <2>1, <2>2, <2>4, <3>2, Widens
    <3> QED BY <2>4, <3>1, <3>3
  <2>5. CASE d.d = "end" /\ ~b.call /\ b.n = a.n
    <3>1. Push(P, d) = [P EXCEPT ![Len(F) + 1].open = FALSE]
      BY <2>3, <2>5 DEF Push, CloseCall
    <3>2. Completed(P) = <<x.tokens>>
      BY <2>3 DEF Completed
    <3>3. a.n <= Len(S)
      BY DEF Assembly
    <3>4. Assembly([P EXCEPT ![Len(F) + 1].open = FALSE], X \o <<x.tokens>>, S, b)
      BY <1>6, <2>1, <2>5, <3>3, EndsCall
    <3> QED BY <2>5, <3>1, <3>2, <3>4
  <2> QED BY <1>6, <2>4, <2>5 DEF Hands
<1> QED BY <1>4, <1>5, <1>6 DEF Hands

-----------------------------------------------------------------------------
(* DeltaSet in a row.                                                        *)
LEMMA LeadsNone ==
  ASSUME NEW S, NEW w, NEW a \in PlaceSet, NEW D, D = <<>>
  PROVE  Leads(S, w, a, D, a) /\ \A c : Leads(S, w, a, D, c) => c = a
<1> DEFINE q == [i \in 0..0 |-> a]
<1>1. Len(D) = 0
  OBVIOUS
<1>2. q \in [0..0 -> PlaceSet] /\ q[0] = a
  OBVIOUS
<1> HIDE DEF q
<1>3. Row(S, w, D, q)
  BY <1>1, <1>2 DEF Row
<1> QED BY <1>1, <1>2, <1>3 DEF Leads

(* One delta leads where it hands on,                                      *)
LEMMA LeadsOne ==
  ASSUME NEW S, NEW w, NEW a \in PlaceSet, NEW b \in PlaceSet, NEW d, Hands(S, w, a, d, b), NEW D, D = <<d>>
  PROVE  Leads(S, w, a, D, b)
<1> DEFINE q == [i \in 0..1 |-> IF i = 0 THEN a ELSE b]
<1>1. Len(D) = 1 /\ D[1] = d
  OBVIOUS
<1>2. q \in [0..1 -> PlaceSet] /\ q[0] = a /\ q[1] = b
  OBVIOUS
<1> HIDE DEF q
<1>3. \A i \in 1..1 : Hands(S, w, q[i - 1], D[i], q[i])
  <2>1. TAKE i \in 1..1
  <2>2. i = 1 /\ i - 1 = 0
    OBVIOUS
  <2> QED BY <1>1, <1>2, <2>2
<1>4. Row(S, w, D, q)
  BY <1>1, <1>2, <1>3 DEF Row
<1> QED BY <1>1, <1>2, <1>4 DEF Leads

(* and two, one after the other.                                           *)
LEMMA LeadsTwo ==
  ASSUME NEW S, NEW w, NEW a \in PlaceSet, NEW b \in PlaceSet, NEW c \in PlaceSet, NEW d, Hands(S, w, a, d, b),
         NEW e, Hands(S, w, b, e, c), NEW D, D = <<d, e>>
  PROVE  Leads(S, w, a, D, c)
<1> DEFINE q == [i \in 0..2 |-> IF i = 0 THEN a ELSE IF i = 1 THEN b ELSE c]
<1>1. Len(D) = 2 /\ D[1] = d /\ D[2] = e
  OBVIOUS
<1>2. q \in [0..2 -> PlaceSet] /\ q[0] = a /\ q[1] = b /\ q[2] = c
  OBVIOUS
<1> HIDE DEF q
<1>3. \A i \in 1..2 : Hands(S, w, q[i - 1], D[i], q[i])
  <2>1. TAKE i \in 1..2
  <2>2. (i = 1 /\ i - 1 = 0) \/ (i = 2 /\ i - 1 = 1)
    OBVIOUS
  <2>3. CASE i = 1 /\ i - 1 = 0
    BY <1>1, <1>2, <2>3
  <2>4. CASE i = 2 /\ i - 1 = 1
    BY <1>1, <1>2, <2>4
  <2> QED BY <2>2, <2>3, <2>4
<1>4. Row(S, w, D, q)
  BY <1>1, <1>2, <1>3 DEF Row
<1> QED BY <1>1, <1>2, <1>4 DEF Leads

(* The tail of a sequence, element by element.                             *)
LEMMA TailIs ==
  ASSUME NEW T, NEW D \in Seq(T), D # <<>>
  PROVE  /\ Tail(D) \in Seq(T) /\ Head(D) = D[1] /\ Head(D) \in T
         /\ Len(D) \in Nat /\ Len(D) >= 1 /\ Len(Tail(D)) = Len(D) - 1
         /\ \A i \in 1..(Len(D) - 1) : Tail(D)[i] = D[i + 1]
OBVIOUS

(* The first delta leads to a place, and the others on from there.         *)
LEMMA LeadsFirst ==
  ASSUME NEW S, NEW w, NEW a, NEW c, NEW T, NEW D \in Seq(T), D # <<>>, Leads(S, w, a, D, c)
  PROVE  \E b \in PlaceSet : Hands(S, w, a, Head(D), b) /\ Leads(S, w, b, Tail(D), c)
<1> DEFINE n == Len(D)
           E == Tail(D)
<1>1. Head(D) = D[1] /\ n \in Nat /\ n >= 1 /\ Len(E) = n - 1 /\ \A i \in 1..(n - 1) : E[i] = D[i + 1]
  BY TailIs
<1>2. PICK q : Row(S, w, D, q) /\ a = q[0] /\ c = q[n]
  BY DEF Leads
<1> HIDE DEF n, E
<1>3. q \in [0..n -> PlaceSet] /\ \A i \in 1..n : Hands(S, w, q[i - 1], D[i], q[i])
  BY <1>2 DEF Row, n
<1> DEFINE r == [i \in 0..(n - 1) |-> q[i + 1]]
<1>4. r \in [0..(n - 1) -> PlaceSet]
  BY <1>1, <1>3
<1>5. ASSUME NEW i \in 1..(n - 1) PROVE Hands(S, w, r[i - 1], E[i], r[i])
  <2>1. r[i] = q[i + 1] /\ r[i - 1] = q[i] /\ i + 1 \in 1..n /\ (i + 1) - 1 = i
    BY <1>1
  <2> QED BY <1>1, <1>3, <2>1
<1>6. r[0] = q[1] /\ r[n - 1] = q[n]
  BY <1>1
<1> HIDE DEF r
<1>7. Row(S, w, E, r)
  BY <1>1, <1>4, <1>5 DEF Row
<1>8. Leads(S, w, q[1], E, c)
  BY <1>1, <1>2, <1>6, <1>7 DEF Leads
<1>9. Hands(S, w, a, Head(D), q[1]) /\ q[1] \in PlaceSet
  <2>1. 1 \in 1..n /\ 1 - 1 = 0 /\ 1 \in 0..n
    BY <1>1
  <2> QED BY <1>1, <1>2, <1>3, <2>1
<1> QED BY <1>8, <1>9 DEF E

-----------------------------------------------------------------------------
(* The server goes on, and says one token more or none.                    *)
Grows(S, w, R, u) ==
  /\ w.left # "content" => u.left # "content"
  /\ R = S \/ (w.left = "content" /\ \E t \in TokenSet : R = Append(S, t))

(* The server says something more, or nothing: what it has said stays.     *)
LEMMA Longer ==
  ASSUME NEW S \in Seq(TokenSet), NEW w, NEW R, NEW u, Grows(S, w, R, u)
  PROVE  /\ R \in Seq(TokenSet) /\ Len(S) \in Nat /\ Len(R) \in Nat /\ Len(S) <= Len(R)
         /\ \A i \in 1..Len(S) : R[i] = S[i]
         /\ \A k \in Nat : k <= Len(S) => SubSeq(R, 1, k) = SubSeq(S, 1, k)
         /\ w.left # "content" => R = S
<1>1. CASE R = S
  BY <1>1
<1>2. CASE w.left = "content" /\ \E t \in TokenSet : R = Append(S, t)
  <2>1. PICK t \in TokenSet : R = Append(S, t)
    BY <1>2
  <2>2. R \in Seq(TokenSet) /\ Len(R) = Len(S) + 1 /\ Len(S) \in Nat /\ \A i \in 1..Len(S) : R[i] = S[i]
    BY <2>1
  <2>3. ASSUME NEW k \in Nat, k <= Len(S) PROVE SubSeq(R, 1, k) = SubSeq(S, 1, k)
    <3> DEFINE x == SubSeq(R, 1, k)
               y == SubSeq(S, 1, k)
    <3>1. x \in Seq(TokenSet) /\ Len(x) = k /\ \A i \in 1..k : x[i] = R[i]
      <4> HIDE DEF x
      <4> QED BY <2>2, <2>3 DEF x
    <3>2. y \in Seq(TokenSet) /\ Len(y) = k /\ \A i \in 1..k : y[i] = S[i]
      BY <2>3
    <3> HIDE DEF x, y
    <3>3. \A i \in 1..k : x[i] = y[i]
      BY <2>2, <2>3, <3>1, <3>2
    <3>4. x = y
      BY <3>1, <3>2, <3>3, SeqEqual
    <3> QED BY <3>4 DEF x, y
  <2> QED BY <1>2, <2>2, <2>3
<1> QED BY <1>1, <1>2 DEF Grows

(* A token that brought the answer on still does,                          *)
LEMMA BringsStill ==
  ASSUME NEW S \in Seq(TokenSet), NEW w, NEW R, NEW u, Grows(S, w, R, u), NEW a, NEW b, a.n \in Nat,
         NEW t, Brings(t, a, b, S)
  PROVE  Brings(t, a, b, R)
<1>1. Len(S) \in Nat /\ Len(R) \in Nat /\ Len(S) <= Len(R) /\ \A i \in 1..Len(S) : R[i] = S[i]
  BY Longer
<1> QED BY <1>1 DEF Brings

(* what is assembled stays the beginning of the answer,                    *)
LEMMA AssemblyGrows ==
  ASSUME NEW S \in Seq(TokenSet), NEW w, NEW R, NEW u, Grows(S, w, R, u), NEW P, NEW X, NEW a,
         Assembly(P, X, S, a)
  PROVE  Assembly(P, X, R, a)
<1>1. a.n \in Nat /\ a.n <= Len(S) /\ a \in PlaceSet
  BY DEF Assembly, PlaceSet
<1>2. Len(S) \in Nat /\ Len(R) \in Nat /\ Len(S) <= Len(R) /\ SubSeq(R, 1, a.n) = SubSeq(S, 1, a.n)
  BY <1>1, Longer
<1>3. a.n <= Len(R)
  BY <1>1, <1>2
<1>4. ASSUME NEW F, NEW x, Built(F, x, X, S, a) PROVE Built(F, x, X, R, a)
  BY <1>2, <1>4 DEF Built
<1> QED BY <1>1, <1>3, <1>4 DEF Assembly

(* the deltas lead where they led,                                         *)
LEMMA LeadsGrows ==
  ASSUME NEW S \in Seq(TokenSet), NEW w, NEW R, NEW u, Grows(S, w, R, u),
         NEW D \in Seq(DeltaSet), NEW a, NEW c, Leads(S, w, a, D, c)
  PROVE  Leads(R, u, a, D, c)
<1>1. PICK q : Row(S, w, D, q) /\ a = q[0] /\ c = q[Len(D)]
  BY DEF Leads
<1>2. Len(D) \in Nat
  OBVIOUS
<1>3. q \in [0..Len(D) -> PlaceSet] /\ \A i \in 1..Len(D) : Hands(S, w, q[i - 1], D[i], q[i])
  BY <1>1 DEF Row
<1>4. ASSUME NEW i \in 1..Len(D) PROVE Hands(R, u, q[i - 1], D[i], q[i])
  <2> DEFINE b == q[i - 1]
             e == q[i]
             d == D[i]
  <2>1. b \in PlaceSet /\ e \in PlaceSet
    BY <1>2, <1>3
  <2>2. Hands(S, w, b, d, e)
    BY <1>3
  <2> HIDE DEF b, e, d
  <2>3. b.n \in Nat
    BY <2>1 DEF PlaceSet
  <2>4. \A t : Brings(t, b, e, S) => Brings(t, b, e, R)
    BY <2>3, BringsStill
  <2>5. w.left # "content" => R = S /\ u.left # "content"
    BY Longer DEF Grows
  <2>6. Hands(R, u, b, d, e)
    BY <2>2, <2>4, <2>5 DEF Hands
  <2> QED BY <2>6 DEF b, d, e
<1>5. Row(R, u, D, q)
  BY <1>3, <1>4 DEF Row
<1> QED BY <1>1, <1>5 DEF Leads

(* from what is assembled,                                                 *)
LEMMA HandedGrows ==
  ASSUME NEW S \in Seq(TokenSet), NEW w, NEW R, NEW u, Grows(S, w, R, u),
         NEW D \in Seq(DeltaSet), NEW P, NEW X, NEW c, Handed(P, X, S, w, D, c)
  PROVE  Handed(P, X, R, u, D, c)
<1>1. PICK a : Assembly(P, X, S, a) /\ Leads(S, w, a, D, c)
  BY DEF Handed
<1>2. Assembly(P, X, R, a)
  BY <1>1, AssemblyGrows
<1>3. Leads(R, u, a, D, c)
  BY <1>1, LeadsGrows
<1> QED BY <1>2, <1>3 DEF Handed

(* and an event takes the server from stage to stage as before.            *)
LEMMA AdvancesStill ==
  ASSUME NEW v, NEW S \in Seq(TokenSet), NEW w, NEW R, NEW u, Grows(S, w, R, u),
         NEW a \in StageSet, NEW b, NEW e, Advances(v, S, a, e, b)
  PROVE  Advances(v, R, a, e, b)
<1>1. a.n \in Nat
  BY DEF StageSet
<1>2. \A t : Brings(t, a, b, S) => Brings(t, a, b, R)
  BY <1>1, BringsStill
<1>3. Opens(v, S, a, e, b) => Opens(v, R, a, e, b)
  BY <1>2 DEF Opens
<1>4. Extends(v, S, a, e, b) => Extends(v, R, a, e, b)
  BY <1>2 DEF Extends
<1> QED BY <1>3, <1>4 DEF Advances

(* A server that has concluded says nothing more.                          *)
LEMMA AllSaidStill ==
  ASSUME NEW S \in Seq(TokenSet), NEW w, NEW R, NEW u, Grows(S, w, R, u), NEW a, AllSaid(a, S, w)
  PROVE  AllSaid(a, R, u)
<1>1. w.left # "content" => R = S /\ u.left # "content"
  BY Longer DEF Grows
<1> QED BY <1>1 DEF AllSaid

(* The server's step, whatever stage its last event has led to: what it    *)
(* sends, if anything, leads on from there.                                *)
Sending(v, S, w, R, u, e) ==
  \A a \in StageSet :
    Abreast(v, S, w, a) /\ AllSaid(a, S, w) =>
      \E b \in StageSet : Advances(v, R, a, e, b) /\ AllSaid(b, R, u) /\ Abreast(v, R, u, b)
Turning(v, S, w, R, u) == \A a \in StageSet : Abreast(v, S, w, a) /\ AllSaid(a, S, w) => Abreast(v, R, u, a)

(* A server that turns without an event leaves the wire a way.             *)
LEMMA ComingTurns ==
  ASSUME NEW v, NEW S \in Seq(TokenSet), NEW w, NEW R, NEW u, Grows(S, w, R, u), Turning(v, S, w, R, u),
         NEW W \in Seq(EventSet), NEW m, NEW c, Coming(v, S, w, W, m, c)
  PROVE  Coming(v, R, u, W, m, c)
<1>1. PICK p : Way(v, S, w, W, p) /\ MapperAt(m, p[0]) /\ c = PlaceOf(p[0])
  BY DEF Coming
<1>2. Len(W) \in Nat
  OBVIOUS
<1>3. /\ p \in [0..Len(W) -> StageSet]
      /\ \A i \in 1..Len(W) : Advances(v, S, p[i - 1], W[i], p[i])
      /\ \A i \in 0..Len(W) : AllSaid(p[i], S, w)
      /\ Abreast(v, S, w, p[Len(W)])
  BY <1>1 DEF Way
<1>4. ASSUME NEW i \in 1..Len(W) PROVE Advances(v, R, p[i - 1], W[i], p[i])
  <2>1. p[i - 1] \in StageSet
    BY <1>2, <1>3
  <2> QED BY <1>3, <2>1, AdvancesStill
<1>5. ASSUME NEW i \in 0..Len(W) PROVE AllSaid(p[i], R, u)
  BY <1>3, AllSaidStill
<1>6. Abreast(v, R, u, p[Len(W)])
  <2>1. Len(W) \in 0..Len(W) /\ p[Len(W)] \in StageSet
    BY <1>2, <1>3
  <2> QED BY <1>3, <2>1 DEF Turning
<1>7. Way(v, R, u, W, p)
  BY <1>3, <1>4, <1>5, <1>6 DEF Way
<1> QED BY <1>1, <1>7 DEF Coming

(* The event a server sends extends the way by a stage.                    *)
LEMMA ComingSends ==
  ASSUME NEW v, NEW S \in Seq(TokenSet), NEW w, NEW R, NEW u, Grows(S, w, R, u),
         NEW e \in EventSet, Sending(v, S, w, R, u, e),
         NEW W \in Seq(EventSet), NEW m, NEW c, Coming(v, S, w, W, m, c)
  PROVE  Coming(v, R, u, Append(W, e), m, c)
<1> DEFINE n == Len(W)
           V == Append(W, e)
<1>1. PICK p : Way(v, S, w, W, p) /\ MapperAt(m, p[0]) /\ c = PlaceOf(p[0])
  BY DEF Coming
<1>2. n \in Nat /\ Len(V) = n + 1 /\ V[n + 1] = e /\ \A i \in 1..n : V[i] = W[i]
  OBVIOUS
<1>3. /\ p \in [0..n -> StageSet]
      /\ \A i \in 1..n : Advances(v, S, p[i - 1], W[i], p[i])
      /\ \A i \in 0..n : AllSaid(p[i], S, w)
      /\ Abreast(v, S, w, p[n])
  BY <1>1 DEF Way
<1> HIDE DEF n, V
<1>4. p[n] \in StageSet /\ AllSaid(p[n], S, w)
  <2>1. n \in 0..n
    BY <1>2
  <2> QED BY <1>3, <2>1
<1>5. PICK b \in StageSet : Advances(v, R, p[n], e, b) /\ AllSaid(b, R, u) /\ Abreast(v, R, u, b)
  BY <1>3, <1>4 DEF Sending
<1> DEFINE r == [i \in 0..(n + 1) |-> IF i = n + 1 THEN b ELSE p[i]]
<1>6. r \in [0..(n + 1) -> StageSet]
  BY <1>2, <1>3
<1>7. r[n + 1] = b /\ r[0] = p[0] /\ \A i \in 0..n : r[i] = p[i]
  BY <1>2
<1> HIDE DEF r
<1>8. ASSUME NEW i \in 1..(n + 1) PROVE Advances(v, R, r[i - 1], V[i], r[i])
  <2>1. CASE i = n + 1
    <3>1. i - 1 = n /\ n \in 0..n
      BY <1>2, <2>1
    <3> QED BY <1>2, <1>5, <1>7, <2>1, <3>1
  <2>2. CASE i # n + 1
    <3>1. i \in 1..n /\ i - 1 \in 0..n /\ i \in 0..n
      BY <1>2, <2>2
    <3>2. Advances(v, S, p[i - 1], W[i], p[i]) /\ p[i - 1] \in StageSet
      BY <1>3, <3>1
    <3>3. Advances(v, R, p[i - 1], W[i], p[i])
      BY <3>2, AdvancesStill
    <3> QED BY <1>2, <1>7, <3>1, <3>3
  <2> QED BY <2>1, <2>2
<1>9. ASSUME NEW i \in 0..(n + 1) PROVE AllSaid(r[i], R, u)
  <2>1. CASE i = n + 1
    BY <1>5, <1>7, <2>1
  <2>2. CASE i # n + 1
    <3>1. i \in 0..n
      BY <1>2, <2>2
    <3>2. AllSaid(p[i], R, u)
      BY <1>3, <3>1, AllSaidStill
    <3> QED BY <1>7, <3>1, <3>2
  <2> QED BY <2>1, <2>2
<1>10. Way(v, R, u, V, r)
  BY <1>2, <1>5, <1>6, <1>7, <1>8, <1>9 DEF Way
<1>11. Coming(v, R, u, V, m, c)
  BY <1>1, <1>7, <1>10 DEF Coming
<1> QED BY <1>11 DEF V

(* Read, an event takes the mapper to the next stage of the way.           *)
LEMMA ComingFirst ==
  ASSUME NEW v, NEW S, NEW w, NEW W \in Seq(EventSet), W # <<>>, NEW m, NEW c, Coming(v, S, w, W, m, c)
  PROVE  \E a \in StageSet, b \in StageSet :
           /\ MapperAt(m, a) /\ c = PlaceOf(a) /\ AllSaid(a, S, w) /\ Advances(v, S, a, Head(W), b)
           /\ \A k : MapperAt(k, b) => Coming(v, S, w, Tail(W), k, PlaceOf(b))
<1> DEFINE n == Len(W)
           V == Tail(W)
<1>1. PICK p : Way(v, S, w, W, p) /\ MapperAt(m, p[0]) /\ c = PlaceOf(p[0])
  BY DEF Coming
<1>2. n \in Nat /\ n >= 1 /\ Len(V) = n - 1 /\ Head(W) = W[1] /\ \A i \in 1..(n - 1) : V[i] = W[i + 1]
  BY TailIs
<1>3. /\ p \in [0..n -> StageSet]
      /\ \A i \in 1..n : Advances(v, S, p[i - 1], W[i], p[i])
      /\ \A i \in 0..n : AllSaid(p[i], S, w)
      /\ Abreast(v, S, w, p[n])
  BY <1>1 DEF Way
<1> HIDE DEF n, V
<1>4. p[0] \in StageSet /\ p[1] \in StageSet /\ AllSaid(p[0], S, w) /\ Advances(v, S, p[0], Head(W), p[1])
  <2>1. 0 \in 0..n /\ 1 \in 0..n /\ 1 \in 1..n /\ 1 - 1 = 0
    BY <1>2
  <2> QED BY <1>2, <1>3, <2>1
<1> DEFINE r == [i \in 0..(n - 1) |-> p[i + 1]]
<1>5. r \in [0..(n - 1) -> StageSet] /\ r[0] = p[1] /\ r[n - 1] = p[n]
      /\ \A i \in 0..(n - 1) : r[i] = p[i + 1] /\ i + 1 \in 0..n
  BY <1>2, <1>3
<1> HIDE DEF r
<1>6. ASSUME NEW i \in 1..(n - 1) PROVE Advances(v, S, r[i - 1], V[i], r[i])
  <2>1. i \in 0..(n - 1) /\ i - 1 \in 0..(n - 1) /\ (i - 1) + 1 = i /\ i + 1 \in 1..n /\ (i + 1) - 1 = i
    BY <1>2
  <2>2. r[i] = p[i + 1] /\ r[i - 1] = p[i]
    BY <1>5, <2>1
  <2> QED BY <1>2, <1>3, <2>1, <2>2
<1>7. Way(v, S, w, V, r)
  BY <1>2, <1>3, <1>5, <1>6 DEF Way
<1>8. \A k : MapperAt(k, p[1]) => Coming(v, S, w, V, k, PlaceOf(p[1]))
  BY <1>5, <1>7 DEF Coming
<1> QED BY <1>1, <1>4, <1>8 DEF V

-----------------------------------------------------------------------------
(* An event takes a mapper from stage to stage, and its deltas lead        *)
(* between the places there.                                               *)
MapOf(v, m, e) ==
  IF m.finished THEN Gives(m, <<>>)
  ELSE IF e.e = "error" THEN Gives(Finished(m), <<Error(e.retryable)>>)
  ELSE IF v = "anthropic" THEN Anthropic(m, e) ELSE OpenAi(m, e)

Ending(D) == D # <<>> /\ D[Len(D)].d \in {"stop", "error"}
Maps(S, w, a, b, k, D) ==
  /\ k \in Mappers /\ D \in Seq(DeltaSet)
  /\ IF k.finished THEN Ending(D) /\ \E c \in PlaceSet : Leads(S, w, PlaceOf(a), D, c)
                   ELSE MapperAt(k, b) /\ Leads(S, w, PlaceOf(a), D, PlaceOf(b))

(* The place of a stage.                                                   *)
LEMMA PlaceOfIs ==
  ASSUME NEW a \in StageSet
  PROVE  PlaceOf(a) \in PlaceSet /\ PlaceOf(a).n = a.n /\ PlaceOf(a).call = (a.open = "call") /\ a.n \in Nat
BY DEF PlaceOf, PlaceSet, StageSet

(* A token brings the place on when it brings the stage on.                *)
LEMMA BringsPlace ==
  ASSUME NEW S, NEW a \in StageSet, NEW b \in StageSet, NEW t, Brings(t, a, b, S)
  PROVE  Brings(t, PlaceOf(a), PlaceOf(b), S)
BY PlaceOfIs DEF Brings

(* A mapper may give no delta,                                             *)
LEMMA MapsNone ==
  ASSUME NEW S, NEW w, NEW a \in StageSet, NEW b \in StageSet, NEW k \in Mappers, ~k.finished, MapperAt(k, b),
         PlaceOf(a) = PlaceOf(b), NEW D, D = <<>>
  PROVE  Maps(S, w, a, b, k, D)
<1>1. PlaceOf(a) \in PlaceSet
  BY PlaceOfIs
<1>2. Leads(S, w, PlaceOf(a), D, PlaceOf(b))
  BY <1>1, LeadsNone
<1>3. D \in Seq(DeltaSet)
  OBVIOUS
<1> QED BY <1>2, <1>3 DEF Maps

(* one,                                                                    *)
LEMMA MapsOne ==
  ASSUME NEW S, NEW w, NEW a \in StageSet, NEW b \in StageSet, NEW k \in Mappers, ~k.finished, MapperAt(k, b),
         NEW d \in DeltaSet, Hands(S, w, PlaceOf(a), d, PlaceOf(b)), NEW D, D = <<d>>
  PROVE  Maps(S, w, a, b, k, D)
<1>1. PlaceOf(a) \in PlaceSet /\ PlaceOf(b) \in PlaceSet
  BY PlaceOfIs
<1>2. Leads(S, w, PlaceOf(a), D, PlaceOf(b))
  BY <1>1, LeadsOne
<1>3. D \in Seq(DeltaSet)
  OBVIOUS
<1> QED BY <1>2, <1>3 DEF Maps

(* The end of a call, and another delta.                                   *)
LEMMA MapsTwo ==
  ASSUME NEW S, NEW w, NEW a \in StageSet, NEW b \in StageSet, NEW k \in Mappers, ~k.finished, MapperAt(k, b),
         a.open = "call", NEW d \in DeltaSet, NEW D, D = <<End, d>>,
         Hands(S, w, [call |-> FALSE, n |-> a.n], d, PlaceOf(b))
  PROVE  Maps(S, w, a, b, k, D)
<1> DEFINE x == [call |-> FALSE, n |-> a.n]
<1>1. PlaceOf(a) \in PlaceSet /\ PlaceOf(b) \in PlaceSet /\ PlaceOf(a).n = a.n
      /\ PlaceOf(a).call = TRUE /\ a.n \in Nat
  BY PlaceOfIs
<1>2. x \in PlaceSet /\ x.call = FALSE /\ x.n = a.n
  BY <1>1 DEF PlaceSet
<1>3. End \in DeltaSet /\ End.d = "end"
  BY DEF End, DeltaSet
<1> HIDE DEF x
<1>4. Hands(S, w, PlaceOf(a), End, x)
  BY <1>1, <1>2, <1>3 DEF Hands
<1>5. Hands(S, w, x, d, PlaceOf(b))
  BY DEF x
<1>6. Leads(S, w, PlaceOf(a), D, PlaceOf(b))
  BY <1>1, <1>2, <1>4, <1>5, LeadsTwo
<1>7. D \in Seq(DeltaSet)
  BY <1>3
<1> QED BY <1>6, <1>7 DEF Maps

(* A delta that is the last ends the mapper.                               *)
LEMMA MapsLast ==
  ASSUME NEW S, NEW w, NEW a \in StageSet, NEW b, NEW k \in Mappers, k.finished,
         NEW d \in DeltaSet, d.d \in {"stop", "error"}, Hands(S, w, PlaceOf(a), d, PlaceOf(a)), NEW D, D = <<d>>
  PROVE  Maps(S, w, a, b, k, D)
<1>1. PlaceOf(a) \in PlaceSet
  BY PlaceOfIs
<1>2. Leads(S, w, PlaceOf(a), D, PlaceOf(a))
  BY <1>1, LeadsOne
<1>3. D \in Seq(DeltaSet) /\ Ending(D)
  <2>1. D \in Seq(DeltaSet) /\ Len(D) = 1 /\ D[1] = d /\ D # <<>>
    OBVIOUS
  <2> QED BY <2>1 DEF Ending
<1> QED BY <1>1, <1>2, <1>3 DEF Maps

(* Every delta is of one of the kinds.                                     *)
LEMMA DeltaKinds ==
  /\ \A t \in TokenSet : /\ Text(t) \in DeltaSet /\ Text(t).d = "text" /\ Text(t).token = t
                      /\ Begin(t) \in DeltaSet /\ Begin(t).d = "start" /\ Begin(t).token = t
                      /\ Input(t) \in DeltaSet /\ Input(t).d = "input" /\ Input(t).token = t
  /\ End \in DeltaSet /\ End.d = "end"
  /\ Stop \in DeltaSet /\ Stop.d = "stop"
  /\ \A r \in BOOLEAN : Error(r) \in DeltaSet /\ Error(r).d = "error"
  /\ Cut \in DeltaSet /\ Cut.d = "error"
BY DEF Text, Begin, Input, End, Stop, Error, Cut, DeltaSet

(* A token that brings the answer on is one the server has said.           *)
LEMMA BringsWord ==
  ASSUME NEW S \in Seq(TokenSet), NEW a \in StageSet, NEW b, NEW t, Brings(t, a, b, S)
  PROVE  t \in TokenSet
BY DEF Brings, StageSet

(* The fields of what a mapper gives.                                      *)
LEMMA GivesIs == \A k, D : Gives(k, D).mapper = k /\ Gives(k, D).deltas = D
BY DEF Gives

(* The fields of a mapper after it has opened, closed or finished.         *)
LEMMA MapperFields ==
  ASSUME NEW m \in Mappers
  PROVE  /\ Finished(m) \in Mappers /\ Finished(m).finished = TRUE
         /\ Closed(m) \in Mappers /\ Closed(m).open = {} /\ Closed(m).stop = m.stop
            /\ Closed(m).finished = m.finished
BY DEF Mappers, Finished, Closed

(* Anthropic's mapper follows every event of the way.                      *)
LEMMA AnthropicMaps ==
  ASSUME NEW S \in Seq(TokenSet), NEW w, NEW a \in StageSet, NEW b \in StageSet, NEW m \in Mappers, ~m.finished,
         MapperAt(m, a), AllSaid(a, S, w), NEW e, e.e # "error", Advances("anthropic", S, a, e, b),
         NEW g, g = Anthropic(m, e)
  PROVE  Maps(S, w, a, b, g.mapper, g.deltas)
<1>1. /\ PlaceOf(a).n = a.n /\ PlaceOf(a).call = (a.open = "call") /\ PlaceOf(b).n = b.n
         /\ PlaceOf(b).call = (b.open = "call")
      /\ a.block \in Nat /\ b.block \in Nat
  BY PlaceOfIs DEF StageSet
<1>2. CASE Opens("anthropic", S, a, e, b)
  <2>1. /\ e.e = "open" /\ a.left = "content" /\ a.open = "none" /\ b.open = e.kind
           /\ b.block = e.block /\ b.left = "content"
    BY <1>2 DEF Opens
  <2>2. m.open = {} /\ ~m.stop
    BY <2>1 DEF MapperAt
  <2>3. CASE e.kind = "call" /\ Brings(e.token, a, b, S)
    <3> DEFINE k == [m EXCEPT !.open = @ \cup {e.block}]
    <3>1. g = Gives(k, <<Begin(e.token)>>)
      BY <2>1, <2>3 DEF Anthropic
    <3>2. k \in Mappers /\ k.open = {b.block} /\ k.stop = m.stop /\ k.finished = m.finished
      BY <1>1, <2>1, <2>2 DEF Mappers
    <3> HIDE DEF k
    <3>3. MapperAt(k, b)
      BY <2>1, <2>2, <2>3, <3>2 DEF MapperAt
    <3>4. Begin(e.token) \in DeltaSet /\ Begin(e.token).d = "start" /\ Begin(e.token).token = e.token
      BY <2>3, BringsWord, DeltaKinds
    <3>5. Hands(S, w, PlaceOf(a), Begin(e.token), PlaceOf(b))
      BY <1>1, <2>1, <2>3, <3>4, BringsPlace DEF Hands
    <3>6. Maps(S, w, a, b, k, <<Begin(e.token)>>)
      BY <3>2, <3>3, <3>4, <3>5, MapsOne
    <3> QED BY <3>1, <3>6, GivesIs
  <2>4. CASE e.kind = "text" /\ b.n = a.n
    <3>1. g = Gives(m, <<>>)
      BY <2>1, <2>4 DEF Anthropic
    <3>2. MapperAt(m, b)
      BY <2>1, <2>2, <2>4 DEF MapperAt
    <3>3. PlaceOf(a) = PlaceOf(b)
      BY <2>1, <2>4 DEF PlaceOf
    <3>4. Maps(S, w, a, b, m, <<>>)
      BY <3>2, <3>3, MapsNone
    <3> QED BY <3>1, <3>4, GivesIs
  <2> QED BY <1>2, <2>3, <2>4 DEF Opens
<1>3. CASE Extends("anthropic", S, a, e, b)
  <2>1. e.e = "delta" /\ a.left = "content" /\ b.left = "content" /\ Brings(e.token, a, b, S)
        /\ e.token \in TokenSet
    BY <1>3, BringsWord DEF Extends
  <2>2. ~m.stop
    BY <2>1 DEF MapperAt
  <2>3. CASE e.kind = "input" /\ a.open = "call" /\ e.block = a.block /\ b.open = "call" /\ b.block = a.block
    <3>1. m.open = {e.block}
      BY <2>3 DEF MapperAt
    <3>2. g = Gives(m, <<Input(e.token)>>)
      BY <2>1, <2>3, <3>1 DEF Anthropic
    <3>3. MapperAt(m, b)
      BY <2>2, <2>3, <3>1 DEF MapperAt
    <3>4. Hands(S, w, PlaceOf(a), Input(e.token), PlaceOf(b))
      BY <1>1, <2>1, <2>3, DeltaKinds, BringsPlace DEF Hands
    <3>5. Maps(S, w, a, b, m, <<Input(e.token)>>)
      BY <2>1, <3>3, <3>4, MapsOne, DeltaKinds
    <3> QED BY <3>2, <3>5, GivesIs
  <2>4. CASE e.kind = "text" /\ b.open = "text" /\ a.open = "text"
    <3>1. g = Gives(m, <<Text(e.token)>>)
      BY <2>1, <2>4 DEF Anthropic
    <3>2. MapperAt(m, b)
      BY <2>2, <2>4 DEF MapperAt
    <3>3. Hands(S, w, PlaceOf(a), Text(e.token), PlaceOf(b))
      BY <1>1, <2>1, <2>4, DeltaKinds, BringsPlace DEF Hands
    <3>4. Maps(S, w, a, b, m, <<Text(e.token)>>)
      BY <2>1, <3>2, <3>3, MapsOne, DeltaKinds
    <3> QED BY <3>1, <3>4, GivesIs
  <2> QED BY <1>3, <2>3, <2>4 DEF Extends
<1>4. CASE Closes("anthropic", a, e, b)
  <2>1. e.e = "close" /\ a.left = "content" /\ b.left = "content"
        /\ (a.open = "call" => e.block = a.block) /\ b.open = "none" /\ b.n = a.n
    BY <1>4 DEF Closes
  <2> DEFINE k == [m EXCEPT !.open = @ \ {e.block}]
  <2>2. g = Gives(k, IF e.block \in m.open THEN <<End>> ELSE <<>>)
    BY <2>1 DEF Anthropic
  <2>3. k \in Mappers /\ k.open = {} /\ k.stop = m.stop /\ k.finished = m.finished
    <3>1. m.open \ {e.block} = {}
      BY <2>1 DEF MapperAt
    <3> QED BY <3>1 DEF Mappers
  <2>4. ~m.stop
    BY <2>1 DEF MapperAt
  <2> HIDE DEF k
  <2>5. MapperAt(k, b)
    BY <2>1, <2>3, <2>4 DEF MapperAt
  <2>6. CASE a.open = "call"
    <3>1. e.block \in m.open
      BY <2>1, <2>6 DEF MapperAt
    <3>2. Hands(S, w, PlaceOf(a), End, PlaceOf(b))
      BY <1>1, <2>1, <2>6, DeltaKinds DEF Hands
    <3>3. Maps(S, w, a, b, k, <<End>>)
      BY <2>3, <2>5, <3>2, MapsOne, DeltaKinds
    <3> QED BY <2>2, <3>1, <3>3, GivesIs
  <2>7. CASE a.open # "call"
    <3>1. e.block \notin m.open
      BY <2>7 DEF MapperAt
    <3>2. PlaceOf(a) = PlaceOf(b)
      BY <2>1, <2>7 DEF PlaceOf
    <3>3. Maps(S, w, a, b, k, <<>>)
      BY <2>3, <2>5, <3>2, MapsNone
    <3> QED BY <2>2, <3>1, <3>3, GivesIs
  <2> QED BY <2>6, <2>7
<1>5. CASE e.e = "stopping" /\ b.open = "none" /\ b.n = a.n /\ a.left = "content" /\ b.left = "stop"
      /\ a.open = "none"
  <2>1. g = Gives(m, <<>>)
    BY <1>5 DEF Anthropic
  <2>2. MapperAt(m, b) /\ PlaceOf(a) = PlaceOf(b)
    BY <1>5 DEF MapperAt, PlaceOf
  <2>3. Maps(S, w, a, b, m, <<>>)
    BY <2>2, MapsNone
  <2> QED BY <2>1, <2>3, GivesIs
<1>6. CASE e.e = "stop" /\ a.left = "stop"
  <2>1. g = Gives(Finished(m), <<Stop>>)
    BY <1>6 DEF Anthropic
  <2>2. a.open = "none" /\ a.n = Len(S) /\ w.left # "content"
    BY <1>6 DEF AllSaid
  <2>3. Hands(S, w, PlaceOf(a), Stop, PlaceOf(a))
    BY <1>1, <2>2, DeltaKinds DEF Hands
  <2>4. Maps(S, w, a, b, Finished(m), <<Stop>>)
    BY <2>3, MapsLast, MapperFields, DeltaKinds
  <2> QED BY <2>1, <2>4, GivesIs
<1>7. CASE e.e = "end"
  <2>1. g = Gives(Finished(m), <<Cut>>)
    BY <1>7 DEF Anthropic
  <2>2. Hands(S, w, PlaceOf(a), Cut, PlaceOf(a))
    BY DeltaKinds DEF Hands
  <2>3. Maps(S, w, a, b, Finished(m), <<Cut>>)
    BY <2>2, MapsLast, MapperFields, DeltaKinds
  <2> QED BY <2>1, <2>3, GivesIs
<1> QED BY <1>2, <1>3, <1>4, <1>5, <1>6, <1>7 DEF Advances, Concludes, Breaks

(* Two deltas, one after the other.                                        *)
LEMMA PairIs ==
  ASSUME NEW x, NEW y
  PROVE  <<x>> \o <<y>> = <<x, y>>
<1> DEFINE T == {x, y}
           p == <<x>> \o <<y>>
           q == <<x, y>>
<1>1. x \in T /\ y \in T
  OBVIOUS
<1> HIDE DEF T
<1>2. p \in Seq(T) /\ Len(p) = 2 /\ p[1] = x /\ p[2] = y
  BY <1>1
<1>3. q \in Seq(T) /\ Len(q) = 2 /\ q[1] = x /\ q[2] = y
  BY <1>1
<1> HIDE DEF p, q
<1>4. \A i \in 1..2 : p[i] = q[i]
  BY <1>2, <1>3
<1>5. p = q
  BY <1>2, <1>3, <1>4, SeqEqual
<1> QED BY <1>5 DEF p, q

(* OpenAI's mapper first ends the call that is open, if there is one.      *)
LEMMA CloseThen ==
  ASSUME NEW S, NEW w, NEW a \in StageSet, NEW b \in StageSet, NEW m \in Mappers, MapperAt(m, a),
         NEW k \in Mappers, ~k.finished,
         MapperAt(k, b), NEW d \in DeltaSet, Hands(S, w, [call |-> FALSE, n |-> a.n], d, PlaceOf(b)),
         NEW D, D = CloseTool(m) \o <<d>>
  PROVE  Maps(S, w, a, b, k, D)
<1>1. CASE a.open = "call"
  <2>1. CloseTool(m) = <<End>>
    BY <1>1 DEF CloseTool, MapperAt
  <2>2. D = <<End, d>>
    BY <2>1, PairIs
  <2> QED BY <1>1, <2>2, MapsTwo
<1>2. CASE a.open # "call"
  <2>1. CloseTool(m) = <<>>
    BY <1>2 DEF CloseTool, MapperAt
  <2>2. D = <<d>>
    BY <2>1
  <2>3. PlaceOf(a) = [call |-> FALSE, n |-> a.n]
    BY <1>2 DEF PlaceOf
  <2> QED BY <2>2, <2>3, MapsOne
<1> QED BY <1>1, <1>2

(* OpenAI's mapper stops where everything is said,                         *)
LEMMA TerminalMaps ==
  ASSUME NEW S, NEW w, NEW a \in StageSet, NEW b, NEW m \in Mappers, MapperAt(m, a), AllSaid(a, S, w),
         a.left = "stop",
         NEW g, g = Terminal(m)
  PROVE  Maps(S, w, a, b, g.mapper, g.deltas)
<1>1. a.open = "none" /\ a.n = Len(S) /\ w.left # "content"
  BY DEF AllSaid
<1>2. CloseTool(m) \o <<Stop>> = <<Stop>>
  BY <1>1 DEF CloseTool, MapperAt
<1>3. g = Gives(Finished(Closed(m)), <<Stop>>)
  BY <1>2 DEF Terminal
<1>4. Hands(S, w, PlaceOf(a), Stop, PlaceOf(a))
  BY <1>1, PlaceOfIs, DeltaKinds DEF Hands
<1>5. Finished(Closed(m)) \in Mappers /\ Finished(Closed(m)).finished
  BY MapperFields
<1>6. Maps(S, w, a, b, Finished(Closed(m)), <<Stop>>)
  BY <1>4, <1>5, MapsLast, DeltaKinds
<1> QED BY <1>3, <1>6, GivesIs

(* and follows every event of the way.                                     *)
LEMMA OpenAiMaps ==
  ASSUME NEW S \in Seq(TokenSet), NEW w, NEW a \in StageSet, NEW b \in StageSet, NEW m \in Mappers, ~m.finished,
         MapperAt(m, a), AllSaid(a, S, w), NEW e, e.e # "error", Advances("openai", S, a, e, b),
         NEW g, g = OpenAi(m, e)
  PROVE  Maps(S, w, a, b, g.mapper, g.deltas)
<1> DEFINE x == [call |-> FALSE, n |-> a.n]
<1>1. /\ PlaceOf(a).n = a.n /\ PlaceOf(a).call = (a.open = "call") /\ PlaceOf(b).n = b.n
         /\ PlaceOf(b).call = (b.open = "call")
      /\ a.block \in Nat /\ b.block \in Nat
  BY PlaceOfIs DEF StageSet
<1>8. x.call = FALSE /\ x.n = a.n /\ \A t : Brings(t, a, b, S) => Brings(t, x, PlaceOf(b), S)
  BY <1>1 DEF Brings
<1> HIDE DEF x
<1>2. CASE Opens("openai", S, a, e, b)
  <2>1. /\ e.e = "open" /\ a.left = "content" /\ b.open = "call" /\ e.kind = "call"
           /\ b.block = e.block /\ b.left = "content"
        /\ Brings(e.token, a, b, S) /\ e.token \in TokenSet
    BY <1>2, BringsWord DEF Opens
  <2>2. ~m.stop
    BY <2>1 DEF MapperAt
  <2> DEFINE k == [m EXCEPT !.open = {e.block}]
  <2>3. g = Gives(k, CloseTool(m) \o <<Begin(e.token)>>)
    BY <2>1 DEF OpenAi
  <2>4. k \in Mappers /\ k.open = {b.block} /\ k.stop = m.stop /\ k.finished = m.finished
    BY <1>1, <2>1 DEF Mappers
  <2> HIDE DEF k
  <2>5. MapperAt(k, b)
    BY <2>1, <2>2, <2>4 DEF MapperAt
  <2>6. Hands(S, w, x, Begin(e.token), PlaceOf(b))
    BY <1>1, <1>8, <2>1, DeltaKinds DEF Hands
  <2>7. Maps(S, w, a, b, k, CloseTool(m) \o <<Begin(e.token)>>)
    BY <2>1, <2>4, <2>5, <2>6, CloseThen, DeltaKinds DEF x
  <2> QED BY <2>3, <2>7, GivesIs
<1>3. CASE Extends("openai", S, a, e, b)
  <2>1. e.e = "delta" /\ a.left = "content" /\ b.left = "content" /\ Brings(e.token, a, b, S)
        /\ e.token \in TokenSet
    BY <1>3, BringsWord DEF Extends
  <2>2. ~m.stop
    BY <2>1 DEF MapperAt
  <2>3. CASE e.kind = "input" /\ a.open = "call" /\ e.block = a.block /\ b.open = "call" /\ b.block = a.block
    <3>1. g = Gives(m, <<Input(e.token)>>)
      BY <2>1, <2>3 DEF OpenAi
    <3>2. MapperAt(m, b)
      BY <2>2, <2>3 DEF MapperAt
    <3>3. Hands(S, w, PlaceOf(a), Input(e.token), PlaceOf(b))
      BY <1>1, <2>1, <2>3, DeltaKinds, BringsPlace DEF Hands
    <3>4. Maps(S, w, a, b, m, <<Input(e.token)>>)
      BY <2>1, <3>2, <3>3, MapsOne, DeltaKinds
    <3> QED BY <3>1, <3>4, GivesIs
  <2>4. CASE e.kind = "text" /\ b.open = "text"
    <3>1. g = Gives(Closed(m), CloseTool(m) \o <<Text(e.token)>>)
      BY <2>1, <2>4 DEF OpenAi
    <3>2. MapperAt(Closed(m), b)
      BY <2>2, <2>4, MapperFields DEF MapperAt
    <3>3. Hands(S, w, x, Text(e.token), PlaceOf(b))
      BY <1>1, <1>8, <2>1, <2>4, DeltaKinds DEF Hands
    <3>4. Maps(S, w, a, b, Closed(m), CloseTool(m) \o <<Text(e.token)>>)
      BY <2>1, <3>2, <3>3, CloseThen, DeltaKinds, MapperFields DEF x
    <3> QED BY <3>1, <3>4, GivesIs
  <2> QED BY <1>3, <2>3, <2>4 DEF Extends
<1>5. CASE e.e = "stopping" /\ b.open = "none" /\ b.n = a.n /\ a.left = "content" /\ b.left = "stop"
  <2> DEFINE k == [Closed(m) EXCEPT !.stop = TRUE]
  <2>1. g = Gives(k, CloseTool(m))
    BY <1>5 DEF OpenAi
  <2>2. k \in Mappers /\ k.open = {} /\ k.stop = TRUE /\ k.finished = m.finished
    BY DEF Mappers, Closed
  <2> HIDE DEF k
  <2>3. MapperAt(k, b)
    BY <1>5, <2>2 DEF MapperAt
  <2>4. CASE a.open = "call"
    <3>1. CloseTool(m) = <<End>>
      BY <2>4 DEF CloseTool, MapperAt
    <3>2. Hands(S, w, PlaceOf(a), End, PlaceOf(b))
      BY <1>1, <1>5, <2>4, DeltaKinds DEF Hands
    <3>3. Maps(S, w, a, b, k, <<End>>)
      BY <2>2, <2>3, <3>2, MapsOne, DeltaKinds
    <3> QED BY <2>1, <3>1, <3>3, GivesIs
  <2>5. CASE a.open # "call"
    <3>1. CloseTool(m) = <<>>
      BY <2>5 DEF CloseTool, MapperAt
    <3>2. PlaceOf(a) = PlaceOf(b)
      BY <1>5, <2>5 DEF PlaceOf
    <3>3. Maps(S, w, a, b, k, <<>>)
      BY <2>2, <2>3, <3>2, MapsNone
    <3> QED BY <2>1, <3>1, <3>3, GivesIs
  <2> QED BY <2>4, <2>5
<1>6. CASE e.e = "stop" /\ a.left = "stop"
  <2>1. g = Terminal(m)
    BY <1>6 DEF OpenAi
  <2> QED BY <1>6, <2>1, TerminalMaps
<1>7. CASE e.e = "end"
  <2>1. CASE m.stop
    <3>1. g = Terminal(m)
      BY <1>7, <2>1 DEF OpenAi
    <3>2. a.left = "stop"
      BY <2>1 DEF MapperAt
    <3> QED BY <3>1, <3>2, TerminalMaps
  <2>2. CASE ~m.stop
    <3>1. g = Gives(Finished(m), <<Cut>>)
      BY <1>7, <2>2 DEF OpenAi
    <3>2. Hands(S, w, PlaceOf(a), Cut, PlaceOf(a))
      BY DeltaKinds DEF Hands
    <3>3. Maps(S, w, a, b, Finished(m), <<Cut>>)
      BY <3>2, MapsLast, MapperFields, DeltaKinds
    <3> QED BY <3>1, <3>3, GivesIs
  <2> QED BY <2>1, <2>2
<1> QED BY <1>2, <1>3, <1>5, <1>6, <1>7 DEF Advances, Closes, Concludes, Breaks

(* So does the mapper of either vendor, an error included.                 *)
LEMMA EventMaps ==
  ASSUME NEW v \in {"anthropic", "openai"}, NEW S \in Seq(TokenSet), NEW w, NEW a \in StageSet,
         NEW b \in StageSet,
         NEW m \in Mappers, ~m.finished, MapperAt(m, a), AllSaid(a, S, w),
         NEW e \in EventSet, Advances(v, S, a, e, b), NEW g, g = MapOf(v, m, e)
  PROVE  Maps(S, w, a, b, g.mapper, g.deltas)
<1>1. CASE e.e = "error"
  <2>1. g = Gives(Finished(m), <<Error(e.retryable)>>)
    BY <1>1 DEF MapOf
  <2>2. e.retryable \in BOOLEAN
    BY <1>1 DEF EventSet
  <2>3. Hands(S, w, PlaceOf(a), Error(e.retryable), PlaceOf(a))
    BY <2>2, DeltaKinds DEF Hands
  <2>4. Maps(S, w, a, b, Finished(m), <<Error(e.retryable)>>)
    BY <2>2, <2>3, MapsLast, MapperFields, DeltaKinds
  <2> QED BY <2>1, <2>4, GivesIs
<1>2. CASE e.e # "error" /\ v = "anthropic"
  BY <1>2, AnthropicMaps DEF MapOf
<1>3. CASE e.e # "error" /\ v = "openai"
  BY <1>3, OpenAiMaps DEF MapOf
<1> QED BY <1>1, <1>2, <1>3

-----------------------------------------------------------------------------
(* The server's steps.                                                     *)
ServerGoes(v, S, w, W, R, u, V) ==
  /\ u \in Servers /\ (u.left \in {"stop", "end"} => u.open = "none")
  /\ Grows(S, w, R, u)
  /\ \/ V = W /\ Turning(v, S, w, R, u)
     \/ \E e \in EventSet : V = Append(W, e) /\ Sending(v, S, w, R, u, e)

(* A server that opens a block.                                            *)
LEMMA ServerOpens ==
  ASSUME NEW w \in Servers, NEW k \in {"call", "text"}, NEW u,
         u = [w EXCEPT !.open = k, !.blocks = w.blocks + 1]
  PROVE  u \in Servers /\ u.left = w.left /\ u.open = k /\ u.blocks = w.blocks + 1 /\ w.blocks \in Nat
<1> DEFINE x == [w EXCEPT !.open = k]
<1>1. x \in Servers /\ x.left = w.left /\ x.open = k /\ x.blocks = w.blocks /\ w.blocks \in Nat
  BY DEF Servers
<1>2. u = [x EXCEPT !.blocks = w.blocks + 1]
  OBVIOUS
<1> HIDE DEF x
<1>3. w.blocks + 1 \in Nat
  BY <1>1
<1> QED BY <1>1, <1>2, <1>3 DEF Servers

(* Opening a call,                                                         *)
LEMMA OpenCallServes ==
  ASSUME NEW v, NEW S \in Seq(TokenSet), NEW w \in Servers, w.left = "content", w.open = "none" \/ v = "openai",
         NEW t \in TokenSet, NEW u, u = [w EXCEPT !.open = "call", !.blocks = w.blocks + 1],
         NEW e, e = [e |-> "open", kind |-> "call", block |-> w.blocks + 1, token |-> t], NEW W
  PROVE  ServerGoes(v, S, w, W, Append(S, t), u, Append(W, e))
<1> DEFINE R == Append(S, t)
<1>1. u \in Servers /\ u.left = "content" /\ u.open = "call" /\ u.blocks = w.blocks + 1 /\ w.blocks \in Nat
  BY ServerOpens
<1>2. e \in EventSet /\ e.e = "open" /\ e.kind = "call" /\ e.block = w.blocks + 1 /\ e.token = t
  BY <1>1 DEF EventSet
<1>3. Len(S) \in Nat /\ Len(R) = Len(S) + 1 /\ R[Len(S) + 1] = t
  OBVIOUS
<1>4. Grows(S, w, R, u)
  BY DEF Grows
<1> HIDE DEF R
<1>5. ASSUME NEW a \in StageSet, Abreast(v, S, w, a)
      PROVE  \E b \in StageSet : Advances(v, R, a, e, b) /\ AllSaid(b, R, u) /\ Abreast(v, R, u, b)
  <2> DEFINE b == [open |-> "call", block |-> w.blocks + 1, n |-> a.n + 1, left |-> "content"]
  <2>1. a.n = Len(S) /\ a.left = "content" /\ (a.open = w.open \/ v = "openai")
    BY <1>5 DEF Abreast
  <2>2. b \in StageSet /\ b.open = "call" /\ b.block = w.blocks + 1 /\ b.n = a.n + 1 /\ b.left = "content"
    BY <1>1 DEF StageSet
  <2> HIDE DEF b
  <2>3. Brings(t, a, b, R)
    BY <1>3, <2>1, <2>2 DEF Brings
  <2>4. Opens(v, R, a, e, b)
    BY <1>2, <2>1, <2>2, <2>3 DEF Opens
  <2>5. AllSaid(b, R, u) /\ Abreast(v, R, u, b)
    BY <1>1, <1>3, <2>1, <2>2 DEF AllSaid, Abreast
  <2> QED BY <2>2, <2>4, <2>5 DEF Advances
<1>6. Sending(v, S, w, R, u, e)
  BY <1>5 DEF Sending
<1> QED BY <1>1, <1>2, <1>4, <1>6 DEF ServerGoes, R

(* or text,                                                                *)
LEMMA OpenTextServes ==
  ASSUME NEW v \in {"anthropic", "openai"}, NEW S \in Seq(TokenSet), NEW w \in Servers,
         w.left = "content", w.open = "none" \/ v = "openai",
         NEW u, u = [w EXCEPT !.open = "text", !.blocks = w.blocks + 1],
         NEW W, NEW V,
         V = IF v = "openai" THEN W ELSE Append(W, [e |-> "open", kind |-> "text", block |-> w.blocks + 1])
  PROVE  ServerGoes(v, S, w, W, S, u, V)
<1>1. u \in Servers /\ u.left = "content" /\ u.open = "text" /\ u.blocks = w.blocks + 1 /\ w.blocks \in Nat
  BY ServerOpens
<1>2. Grows(S, w, S, u)
  BY DEF Grows
<1>3. CASE v = "openai"
  <2>1. Turning(v, S, w, S, u)
    BY <1>1, <1>3 DEF Turning, Abreast
  <2> QED BY <1>1, <1>2, <1>3, <2>1 DEF ServerGoes
<1>4. CASE v = "anthropic"
  <2> DEFINE e == [e |-> "open", kind |-> "text", block |-> w.blocks + 1]
  <2>1. e \in EventSet /\ e.e = "open" /\ e.kind = "text" /\ e.block = w.blocks + 1
    BY <1>1 DEF EventSet
  <2>2. V = Append(W, e)
    BY <1>4
  <2> HIDE DEF e
  <2>3. ASSUME NEW a \in StageSet, Abreast(v, S, w, a)
        PROVE  \E b \in StageSet : Advances(v, S, a, e, b) /\ AllSaid(b, S, u) /\ Abreast(v, S, u, b)
    <3> DEFINE b == [open |-> "text", block |-> w.blocks + 1, n |-> a.n, left |-> "content"]
    <3>1. a.n = Len(S) /\ a.left = "content" /\ a.open = "none"
      BY <1>4, <2>3 DEF Abreast
    <3>2. b \in StageSet /\ b.open = "text" /\ b.block = w.blocks + 1 /\ b.n = a.n /\ b.left = "content"
      BY <1>1 DEF StageSet
    <3> HIDE DEF b
    <3>3. Opens(v, S, a, e, b)
      BY <1>4, <2>1, <3>1, <3>2 DEF Opens
    <3>4. AllSaid(b, S, u) /\ Abreast(v, S, u, b)
      BY <1>1, <3>1, <3>2 DEF AllSaid, Abreast
    <3> QED BY <3>2, <3>3, <3>4 DEF Advances
  <2>4. Sending(v, S, w, S, u, e)
    BY <2>3 DEF Sending
  <2> QED BY <1>1, <1>2, <2>1, <2>2, <2>4 DEF ServerGoes
<1> QED BY <1>3, <1>4

(* a token,                                                                *)
LEMMA SpeakServes ==
  ASSUME NEW v, NEW S \in Seq(TokenSet), NEW w \in Servers, w.left = "content", w.open # "none",
         NEW kind, kind = (IF w.open = "call" THEN "input" ELSE "text"), NEW t \in TokenSet,
         NEW e, e = [e |-> "delta", kind |-> kind, block |-> w.blocks, token |-> t], NEW W
  PROVE  ServerGoes(v, S, w, W, Append(S, t), w, Append(W, e))
<1> DEFINE R == Append(S, t)
<1>1. w.blocks \in Nat /\ w.open \in {"call", "text"}
  BY DEF Servers
<1>2. e \in EventSet /\ e.e = "delta" /\ e.kind = kind /\ e.block = w.blocks /\ e.token = t
  BY <1>1 DEF EventSet
<1>3. Len(S) \in Nat /\ Len(R) = Len(S) + 1 /\ R[Len(S) + 1] = t
  OBVIOUS
<1>4. Grows(S, w, R, w)
  BY DEF Grows
<1> HIDE DEF R
<1>5. ASSUME NEW a \in StageSet, Abreast(v, S, w, a)
      PROVE  \E b \in StageSet : Advances(v, R, a, e, b) /\ AllSaid(b, R, w) /\ Abreast(v, R, w, b)
  <2> DEFINE b == [open |-> w.open, block |-> w.blocks, n |-> a.n + 1, left |-> "content"]
  <2>1. /\ a.n = Len(S) /\ a.left = "content"
        /\ \/ a.open = w.open /\ (a.open = "call" => a.block = w.blocks)
           \/ v = "openai" /\ w.open = "text"
    BY <1>5 DEF Abreast
  <2>2. b \in StageSet /\ b.open = w.open /\ b.block = w.blocks /\ b.n = a.n + 1 /\ b.left = "content"
    BY <1>1 DEF StageSet
  <2> HIDE DEF b
  <2>3. Brings(t, a, b, R)
    BY <1>3, <2>1, <2>2 DEF Brings
  <2>4. Extends(v, R, a, e, b)
    BY <1>1, <1>2, <2>1, <2>2, <2>3 DEF Extends
  <2>5. AllSaid(b, R, w) /\ Abreast(v, R, w, b)
    BY <1>1, <1>3, <2>1, <2>2 DEF AllSaid, Abreast
  <2> QED BY <2>2, <2>4, <2>5 DEF Advances
<1>6. Sending(v, S, w, R, w, e)
  BY <1>5 DEF Sending
<1> QED BY <1>1, <1>2, <1>4, <1>6 DEF ServerGoes, R

(* the end of a block,                                                     *)
LEMMA CloseServes ==
  ASSUME NEW v, v = "anthropic", NEW S \in Seq(TokenSet), NEW w \in Servers, w.left = "content",
         w.open # "none", NEW u, u = [w EXCEPT !.open = "none"],
         NEW e, e = [e |-> "close", block |-> w.blocks], NEW W
  PROVE  ServerGoes(v, S, w, W, S, u, Append(W, e))
<1>1. u \in Servers /\ u.left = "content" /\ u.open = "none" /\ u.blocks = w.blocks /\ w.blocks \in Nat
  BY DEF Servers
<1>2. e \in EventSet /\ e.e = "close" /\ e.block = w.blocks
  BY <1>1 DEF EventSet
<1>3. Grows(S, w, S, u)
  BY DEF Grows
<1>4. ASSUME NEW a \in StageSet, Abreast(v, S, w, a)
      PROVE  \E b \in StageSet : Advances(v, S, a, e, b) /\ AllSaid(b, S, u) /\ Abreast(v, S, u, b)
  <2> DEFINE b == [open |-> "none", block |-> w.blocks, n |-> a.n, left |-> "content"]
  <2>1. a.n = Len(S) /\ a.left = "content" /\ a.open = w.open /\ (a.open = "call" => a.block = w.blocks)
    BY <1>4 DEF Abreast
  <2>2. b \in StageSet /\ b.open = "none" /\ b.n = a.n /\ b.left = "content"
    BY <1>1 DEF StageSet
  <2> HIDE DEF b
  <2>3. Closes(v, a, e, b)
    BY <1>2, <2>1, <2>2 DEF Closes
  <2>4. AllSaid(b, S, u) /\ Abreast(v, S, u, b)
    BY <1>1, <2>1, <2>2 DEF AllSaid, Abreast
  <2> QED BY <2>2, <2>3, <2>4 DEF Advances
<1>5. Sending(v, S, w, S, u, e)
  BY <1>4 DEF Sending
<1> QED BY <1>1, <1>2, <1>3, <1>5 DEF ServerGoes

(* the end of the answer,                                                  *)
LEMMA ConcludeServes ==
  ASSUME NEW v, NEW S \in Seq(TokenSet), NEW w \in Servers, w.open = "none" \/ v = "openai",
         NEW l, NEW u, u = [Serving EXCEPT !.left = l], NEW e, NEW W,
         \/ w.left = "content" /\ e = [e |-> "stopping"] /\ l = "stop"
         \/ w.left = "stop" /\ w.open = "none" /\ e = [e |-> "stop"] /\ l = "end"
  PROVE  ServerGoes(v, S, w, W, S, u, Append(W, e))
<1>1. u \in Servers /\ u.left = l /\ u.open = "none" /\ l \in {"stop", "end"}
  BY DEF Servers, Serving
<1>2. e \in EventSet /\ e.e = (IF l = "stop" THEN "stopping" ELSE "stop")
  BY DEF EventSet
<1>3. Grows(S, w, S, u)
  BY <1>1 DEF Grows
<1>4. ASSUME NEW a \in StageSet, Abreast(v, S, w, a)
      PROVE  \E b \in StageSet : Advances(v, S, a, e, b) /\ AllSaid(b, S, u) /\ Abreast(v, S, u, b)
  <2> DEFINE b == [open |-> "none", block |-> 0, n |-> a.n, left |-> l]
  <2>1. a.n = Len(S) /\ a.left = w.left /\ (a.open = w.open \/ (v = "openai" /\ w.open = "text"))
    BY <1>4 DEF Abreast
  <2>2. b \in StageSet /\ b.open = "none" /\ b.n = a.n /\ b.left = l
    BY <1>1 DEF StageSet
  <2> HIDE DEF b
  <2>3. Concludes(v, a, e, b)
    BY <1>2, <2>1, <2>2 DEF Concludes
  <2>4. AllSaid(b, S, u) /\ Abreast(v, S, u, b)
    BY <1>1, <2>1, <2>2 DEF AllSaid, Abreast
  <2> QED BY <2>2, <2>3, <2>4 DEF Advances
<1>5. Sending(v, S, w, S, u, e)
  BY <1>4 DEF Sending
<1> QED BY <1>1, <1>2, <1>3, <1>5 DEF ServerGoes

(* and a failure are all moves of the server.                              *)
LEMMA BreakServes ==
  ASSUME NEW v, NEW S \in Seq(TokenSet), NEW w \in Servers, NEW u \in Servers, u.left = "nothing",
         NEW e \in EventSet, e.e \in {"end", "error"}, NEW W
  PROVE  ServerGoes(v, S, w, W, S, u, Append(W, e))
<1>1. Grows(S, w, S, u)
  BY DEF Grows
<1>2. ASSUME NEW a \in StageSet
      PROVE  \E b \in StageSet : Advances(v, S, a, e, b) /\ AllSaid(b, S, u) /\ Abreast(v, S, u, b)
  <2> DEFINE b == [open |-> "none", block |-> 0, n |-> 0, left |-> "nothing"]
  <2>1. b \in StageSet /\ b.left = "nothing"
    BY DEF StageSet
  <2> HIDE DEF b
  <2>2. AllSaid(b, S, u) /\ Abreast(v, S, u, b)
    BY <2>1 DEF AllSaid, Abreast
  <2> QED BY <2>1, <2>2 DEF Advances, Breaks
<1>3. Sending(v, S, w, S, u, e)
  BY <1>2 DEF Sending
<1> QED BY <1>1, <1>3 DEF ServerGoes

-----------------------------------------------------------------------------
(* What each kind of step makes of one session.                            *)
LEMMA ServesFaithful ==
  ASSUME NEW v, NEW em, NEW w, NEW S, NEW W, NEW m, NEW D, NEW P, NEW X, NEW rp,
         Faithful(v, "streaming", em, w, S, W, m, D, P, X, rp),
         NEW R, NEW u, NEW V, ServerGoes(v, S, w, W, R, u, V)
  PROVE  Faithful(v, "streaming", em, u, R, V, m, D, P, X, rp)
<1>1. /\ w \in Servers /\ S \in Seq(TokenSet) /\ W \in Seq(EventSet) /\ m \in Mappers /\ D \in Seq(DeltaSet)
      /\ rp = "none" /\ (~em => P = <<>> /\ X = <<>>) /\ OpenStream(v, w, S, W, m, D, P, X)
  BY DEF Faithful
<1>2. u \in Servers /\ (u.left \in {"stop", "end"} => u.open = "none") /\ Grows(S, w, R, u)
  BY DEF ServerGoes
<1>3. R \in Seq(TokenSet)
  BY <1>1, <1>2, Longer
<1>4. V \in Seq(EventSet) /\ \A c : Coming(v, S, w, W, m, c) => Coming(v, R, u, V, m, c)
  <2>1. CASE V = W /\ Turning(v, S, w, R, u)
    BY <1>1, <1>2, <2>1, ComingTurns
  <2>2. ASSUME NEW e \in EventSet, V = Append(W, e), Sending(v, S, w, R, u, e)
        PROVE  V \in Seq(EventSet) /\ \A c : Coming(v, S, w, W, m, c) => Coming(v, R, u, V, m, c)
    <3>1. V \in Seq(EventSet)
      BY <1>1, <2>2
    <3>2. ASSUME NEW c, Coming(v, S, w, W, m, c) PROVE Coming(v, R, u, V, m, c)
      BY <1>1, <1>2, <2>2, <3>2, ComingSends
    <3> QED BY <3>1, <3>2
  <2> QED BY <2>1, <2>2 DEF ServerGoes
<1>5. OpenStream(v, u, R, V, m, D, P, X)
  <2>1. PICK c \in PlaceSet :
          /\ Handed(P, X, S, w, D, c)
          /\ IF m.finished THEN D # <<>> /\ D[Len(D)].d \in {"stop", "error"} ELSE Coming(v, S, w, W, m, c)
    BY <1>1 DEF OpenStream
  <2>2. Handed(P, X, R, u, D, c)
    BY <1>1, <1>2, <2>1, HandedGrows
  <2> QED BY <1>4, <2>1, <2>2 DEF OpenStream
<1> QED BY <1>1, <1>2, <1>3, <1>4, <1>5 DEF Faithful

(* Reading an event keeps the stream faithful,                             *)
LEMMA ReadsFaithful ==
  ASSUME NEW v \in {"anthropic", "openai"}, NEW em, NEW w, NEW S, NEW W, NEW m, NEW D, D = <<>>, NEW P,
         NEW X, NEW rp,
         Faithful(v, "streaming", em, w, S, W, m, D, P, X, rp), W # <<>>, NEW g, g = MapOf(v, m, Head(W))
  PROVE  Faithful(v, "streaming", em, w, S, Tail(W), g.mapper, g.deltas, P, X, rp)
<1>1. /\ w \in Servers /\ S \in Seq(TokenSet) /\ W \in Seq(EventSet) /\ m \in Mappers
      /\ rp = "none" /\ (~em => P = <<>> /\ X = <<>>) /\ (w.left \in {"stop", "end"} => w.open = "none")
      /\ OpenStream(v, w, S, W, m, D, P, X)
  BY DEF Faithful
<1>2. PICK c \in PlaceSet :
        /\ Handed(P, X, S, w, D, c)
        /\ IF m.finished THEN D # <<>> /\ D[Len(D)].d \in {"stop", "error"} ELSE Coming(v, S, w, W, m, c)
  BY <1>1 DEF OpenStream
<1>3. ~m.finished /\ Coming(v, S, w, W, m, c)
  BY <1>2
<1>4. PICK a \in StageSet, b \in StageSet :
        /\ MapperAt(m, a) /\ c = PlaceOf(a) /\ AllSaid(a, S, w) /\ Advances(v, S, a, Head(W), b)
        /\ \A k : MapperAt(k, b) => Coming(v, S, w, Tail(W), k, PlaceOf(b))
  BY <1>1, <1>3, ComingFirst
<1>5. Head(W) \in EventSet /\ Tail(W) \in Seq(EventSet)
  BY <1>1, TailIs
<1>6. Maps(S, w, a, b, g.mapper, g.deltas)
  BY <1>1, <1>3, <1>4, <1>5, EventMaps
<1>7. Assembly(P, X, S, c)
  <2>1. PICK x : Assembly(P, X, S, x) /\ Leads(S, w, x, D, c)
    BY <1>2 DEF Handed
  <2>2. x \in PlaceSet
    BY <2>1 DEF Assembly
  <2> QED BY <2>1, <2>2, LeadsNone
<1>8. g.mapper \in Mappers /\ g.deltas \in Seq(DeltaSet)
  BY <1>6 DEF Maps
<1>9. OpenStream(v, w, S, Tail(W), g.mapper, g.deltas, P, X)
  <2> DEFINE k == g.mapper
             E == g.deltas
  <2>1. Maps(S, w, a, b, k, E)
    BY <1>6
  <2> HIDE DEF k, E
  <2>2. CASE k.finished
    <3>1. PICK d \in PlaceSet : Leads(S, w, c, E, d)
      BY <1>4, <2>1, <2>2 DEF Maps
    <3>2. Handed(P, X, S, w, E, d)
      BY <1>7, <3>1 DEF Handed
    <3>3. E # <<>> /\ E[Len(E)].d \in {"stop", "error"}
      BY <2>1, <2>2 DEF Maps, Ending
    <3>4. OpenStream(v, w, S, Tail(W), k, E, P, X)
      BY <2>2, <3>1, <3>2, <3>3 DEF OpenStream
    <3> QED BY <3>4 DEF k, E
  <2>3. CASE ~k.finished
    <3>1. MapperAt(k, b) /\ Leads(S, w, c, E, PlaceOf(b))
      BY <1>4, <2>1, <2>3 DEF Maps
    <3>2. Handed(P, X, S, w, E, PlaceOf(b))
      BY <1>7, <3>1 DEF Handed
    <3>3. PlaceOf(b) \in PlaceSet
      BY PlaceOfIs
    <3>4. Coming(v, S, w, Tail(W), k, PlaceOf(b))
      BY <1>4, <3>1
    <3>5. OpenStream(v, w, S, Tail(W), k, E, P, X)
      BY <2>3, <3>2, <3>3, <3>4 DEF OpenStream
    <3> QED BY <3>5 DEF k, E
  <2> QED BY <2>2, <2>3
<1> QED BY <1>1, <1>5, <1>8, <1>9 DEF Faithful

(* and so does handing on a delta.                                         *)
LEMMA HandsOnFaithful ==
  ASSUME NEW v, NEW em, NEW w, NEW S, NEW W, NEW m, NEW D, D # <<>>, NEW P, NEW X, NEW rp,
         Faithful(v, "streaming", em, w, S, W, m, D, P, X, rp),
         NEW d, d = Head(D), d.d \notin {"error", "stop"},
         NEW Y, Y = (IF d.d \in {"start", "end"} THEN X \o Completed(P) ELSE X)
  PROVE  Faithful(v, "streaming", TRUE, w, S, W, m, Tail(D), Push(P, d), Y, rp)
<1>1. /\ w \in Servers /\ S \in Seq(TokenSet) /\ W \in Seq(EventSet) /\ m \in Mappers /\ D \in Seq(DeltaSet)
      /\ rp = "none" /\ (w.left \in {"stop", "end"} => w.open = "none")
      /\ OpenStream(v, w, S, W, m, D, P, X)
  BY DEF Faithful
<1>2. PICK c \in PlaceSet :
        /\ Handed(P, X, S, w, D, c)
        /\ IF m.finished THEN D # <<>> /\ D[Len(D)].d \in {"stop", "error"} ELSE Coming(v, S, w, W, m, c)
  BY <1>1 DEF OpenStream
<1>3. PICK a : Assembly(P, X, S, a) /\ Leads(S, w, a, D, c)
  BY <1>2 DEF Handed
<1>4. PICK b \in PlaceSet : Hands(S, w, a, d, b) /\ Leads(S, w, b, Tail(D), c)
  BY <1>1, <1>3, LeadsFirst
<1>5. Assembly(Push(P, d), Y, S, b)
  BY <1>1, <1>3, <1>4, PushAssembles
<1>6. Handed(Push(P, d), Y, S, w, Tail(D), c)
  BY <1>4, <1>5 DEF Handed
<1>7. /\ Tail(D) \in Seq(DeltaSet) /\ Head(D) = D[1] /\ Len(D) \in Nat /\ Len(D) >= 1
         /\ Len(Tail(D)) = Len(D) - 1
      /\ \A i \in 1..(Len(D) - 1) : Tail(D)[i] = D[i + 1]
  BY <1>1, TailIs
<1>8. ASSUME m.finished PROVE Tail(D) # <<>> /\ Tail(D)[Len(Tail(D))].d \in {"stop", "error"}
  <2> DEFINE E == Tail(D)
             n == Len(D)
  <2>1. D[n].d \in {"stop", "error"}
    BY <1>2, <1>8
  <2>2. n # 1
    BY <1>7, <2>1
  <2>3. E \in Seq(DeltaSet) /\ n \in Nat /\ n >= 2 /\ Len(E) = n - 1 /\ E[n - 1] = D[(n - 1) + 1]
        /\ (n - 1) + 1 = n
    BY <1>7, <2>2
  <2> HIDE DEF E, n
  <2>4. E[Len(E)] = D[n] /\ Len(E) # 0
    BY <2>3
  <2>5. E # <<>>
    BY <2>4
  <2> QED BY <2>1, <2>4, <2>5 DEF E
<1>9. OpenStream(v, w, S, W, m, Tail(D), Push(P, d), Y)
  BY <1>2, <1>6, <1>8 DEF OpenStream
<1> QED BY <1>1, <1>7, <1>9 DEF Faithful

(* A request that has not begun, or starts over.                           *)
LEMMA FreshFaithful ==
  ASSUME NEW v, NEW ph, NEW em, ~em
  PROVE  Faithful(v, ph, em, Serving, <<>>, <<>>, NewMapper, <<>>, <<>>, <<>>, "none")
<1>1. /\ Serving \in Servers /\ Serving.left = "content" /\ Serving.open = "none"
      /\ NewMapper \in Mappers /\ NewMapper.finished = FALSE /\ NewMapper.open = {} /\ NewMapper.stop = FALSE
  BY DEF Serving, Servers, NewMapper, Mappers
<1> DEFINE a == [open |-> "none", block |-> 0, n |-> 0, left |-> "content"]
           p == [i \in 0..0 |-> a]
           c == [call |-> FALSE, n |-> 0]
<1>2. a \in StageSet /\ a.open = "none" /\ a.n = 0 /\ a.left = "content" /\ PlaceOf(a) = c
      /\ c \in PlaceSet /\ c.call = FALSE /\ c.n = 0
  BY DEF StageSet, PlaceOf, PlaceSet
<1> HIDE DEF a, c
<1>3. p \in [0..0 -> StageSet] /\ p[0] = a /\ Len(<<>>) = 0 /\ <<>> \in Seq(TokenSet)
      /\ <<>> \in Seq(EventSet) /\ <<>> \in Seq(DeltaSet)
  BY <1>2
<1> HIDE DEF p
<1>4. AllSaid(a, <<>>, Serving) /\ Abreast(v, <<>>, Serving, a)
  BY <1>1, <1>2, <1>3 DEF AllSaid, Abreast
<1>5. Way(v, <<>>, Serving, <<>>, p)
  BY <1>3, <1>4 DEF Way
<1>6. MapperAt(NewMapper, a)
  BY <1>1, <1>2 DEF MapperAt
<1>7. Coming(v, <<>>, Serving, <<>>, NewMapper, c)
  BY <1>2, <1>3, <1>5, <1>6 DEF Coming
<1>8. Assembly(<<>>, <<>>, <<>>, c)
  BY <1>2, <1>3 DEF Assembly
<1>9. Leads(<<>>, Serving, c, <<>>, c)
  BY <1>2, LeadsNone
<1>10. OpenStream(v, Serving, <<>>, <<>>, NewMapper, <<>>, <<>>, <<>>)
  BY <1>1, <1>2, <1>7, <1>8, <1>9 DEF OpenStream, Handed
<1> QED BY <1>1, <1>3, <1>10 DEF Faithful, Fresh

(* The request is over; or it waits to be sent again.                      *)
LEMMA OverFaithful ==
  ASSUME NEW v, NEW kind
  PROVE  Faithful(v, "ended", FALSE, Serving, <<>>, <<>>, NewMapper, <<>>, <<>>, <<>>, kind)
<1>1. Faithful(v, "ended", FALSE, Serving, <<>>, <<>>, NewMapper, <<>>, <<>>, <<>>, "none")
  BY FreshFaithful
<1> QED BY <1>1 DEF Faithful

(* An attempt is given up only when nothing of it has been handed on,      *)
LEMMA BackoffFaithful ==
  ASSUME NEW v, NEW em, ~em, NEW w, NEW S, NEW W, NEW m, NEW D, NEW P, NEW X, NEW rp,
         Faithful(v, "streaming", em, w, S, W, m, D, P, X, rp)
  PROVE  Faithful(v, "backoff", em, Serving, S, <<>>, NewMapper, <<>>, P, X, rp)
<1>1. Faithful(v, "idle", FALSE, Serving, <<>>, <<>>, NewMapper, <<>>, <<>>, <<>>, "none")
  BY FreshFaithful
<1>2. Serving \in Servers /\ (Serving.left \in {"stop", "end"} => Serving.open = "none")
      /\ <<>> \in Seq(EventSet) /\ NewMapper \in Mappers /\ <<>> \in Seq(DeltaSet)
  BY <1>1 DEF Faithful
<1>3. S \in Seq(TokenSet) /\ rp = "none" /\ P = <<>> /\ X = <<>>
  BY DEF Faithful
<1> QED BY <1>2, <1>3 DEF Faithful, Fresh

(* the next begins with nothing said,                                      *)
LEMMA ResendFaithful ==
  ASSUME NEW v, NEW em, NEW w, NEW S, NEW W, NEW m, NEW D, NEW P, NEW X, NEW rp,
         Faithful(v, "backoff", em, w, S, W, m, D, P, X, rp)
  PROVE  Faithful(v, "streaming", em, w, <<>>, W, m, D, P, X, rp)
<1>1. ~em /\ Fresh(w, W, m, D) /\ rp = "none" /\ P = <<>> /\ X = <<>>
  BY DEF Faithful
<1> QED BY <1>1, FreshFaithful DEF Fresh

(* and a request that has not begun may begin.                             *)
LEMMA AcquireFaithful ==
  ASSUME NEW v, NEW em, NEW w, NEW S, NEW W, NEW m, NEW D, NEW P, NEW X, NEW rp,
         NEW ph \in {"idle", "waiting"}, Faithful(v, ph, em, w, S, W, m, D, P, X, rp), NEW now
  PROVE  Faithful(v, now, em, w, S, W, m, D, P, X, rp)
<1>1. ~em /\ Fresh(w, W, m, D) /\ S = <<>> /\ rp = "none" /\ P = <<>> /\ X = <<>>
  BY DEF Faithful
<1> QED BY <1>1, FreshFaithful DEF Fresh

-----------------------------------------------------------------------------
(* A step of one session, and the others.                                  *)
Only(f, g, s) == DOMAIN g = Sessions /\ \A t \in Sessions : t # s => g[t] = f[t]
Moves(s) ==
  /\ attempt' \in [Sessions -> Nat]
  /\ Only(phase, phase', s) /\ Only(emitted, emitted', s)
  /\ Only(vendor, vendor', s) /\ Only(said, said', s) /\ Only(wire, wire', s) /\ Only(mapper, mapper', s)
  /\ Only(deltas, deltas', s) /\ Only(parts, parts', s) /\ Only(streamed, streamed', s)
     /\ Only(reply, reply', s)

(* What is unchanged changes for this session only,                        *)
LEMMA OnlySame   == ASSUME NEW f, DOMAIN f = Sessions, NEW s PROVE Only(f, f, s)
BY DEF Only

(* and so does what changes at this session.                               *)
LEMMA OnlyExcept ==
  ASSUME NEW f, DOMAIN f = Sessions, NEW s \in Sessions, NEW x, NEW g, g = [f EXCEPT ![s] = x]
  PROVE  Only(f, g, s) /\ g[s] = x
BY DEF Only

(* A step of one session keeps the others faithful,                        *)
LEMMA MovesKeep ==
  ASSUME RepliesInv, NEW s \in Sessions, Moves(s), FaithfulAt(s)'
  PROVE  RepliesInv'
<1>1. Families'
  BY DEF Families, Moves, Only
<1>2. ASSUME NEW t \in Sessions, t # s PROVE FaithfulAt(t)'
  <2>1. /\ phase'[t] = phase[t] /\ emitted'[t] = emitted[t] /\ vendor'[t] = vendor[t]
           /\ said'[t] = said[t] /\ wire'[t] = wire[t]
        /\ mapper'[t] = mapper[t] /\ deltas'[t] = deltas[t] /\ parts'[t] = parts[t]
           /\ streamed'[t] = streamed[t] /\ reply'[t] = reply[t]
    BY <1>2 DEF Moves, Only
  <2>2. FaithfulAt(t)
    BY DEF RepliesInv
  <2> QED BY <2>1, <2>2 DEF FaithfulAt
<1> QED BY <1>1, <1>2 DEF RepliesInv

Counts(s) ==
  phase'[s] # phase[s] => /\ reply'[s] = "ok" => Whole(s)
                          /\ reply'[s] = "interrupted" => Beginning(s)
AllCount == \A s \in Sessions : Counts(s)

(* and ends the reply of no other.                                         *)
LEMMA MovesCount ==
  ASSUME NEW s \in Sessions, Moves(s), Counts(s)
  PROVE  AllCount
<1>1. ASSUME NEW t \in Sessions, t # s PROVE phase'[t] = phase[t]
  BY <1>1 DEF Moves, Only
<1> QED BY <1>1 DEF AllCount, Counts

(* What the invariant says of one session.                                 *)
LEMMA SessionIs ==
  ASSUME RepliesInv, NEW s \in Sessions
  PROVE  /\ Families /\ FaithfulAt(s) /\ Vendor[s] \in {"anthropic", "openai"} /\ attempt[s] \in Nat
         /\ said[s] \in Seq(TokenSet) /\ vendor[s] \in Servers
            /\ (vendor[s].left \in {"stop", "end"} => vendor[s].open = "none")
         /\ phase[s] # "ended" => reply[s] = "none"
BY StreamAssumption DEF RepliesInv, Families, FaithfulAt, Faithful

-----------------------------------------------------------------------------
(* A move of the server is such a step.                                    *)
LEMMA ServerSteps ==
  ASSUME RepliesInv, NEW s \in Sessions, Streaming(s), UNCHANGED Rest,
         Only(vendor, vendor', s), Only(said, said', s), Only(wire, wire', s),
         ServerGoes(Vendor[s], said[s], vendor[s], wire[s], said'[s], vendor'[s], wire'[s])
  PROVE  RepliesInv' /\ AllCount
<1>1. Families /\ FaithfulAt(s)
  BY SessionIs
<1>2. Moves(s)
  BY <1>1, OnlySame DEF Moves, Rest, Families
<1>3. Faithful(Vendor[s], "streaming", emitted[s], vendor'[s], said'[s], wire'[s], mapper[s], deltas[s], parts[s], streamed[s], reply[s])
  BY <1>1, ServesFaithful DEF FaithfulAt, Streaming
<1>4. FaithfulAt(s)'
  BY <1>3 DEF FaithfulAt, Streaming, Rest
<1>5. Counts(s)
  BY DEF Counts, Rest
<1> QED BY <1>2, <1>4, <1>5, MovesKeep, MovesCount

(* One lemma for each action: the server opens a block,                    *)
LEMMA OpenBlockInv ==
  ASSUME RepliesInv, NEW s \in Sessions, NEW kind \in {"text", "call"}, OpenBlock(s, kind)
  PROVE  RepliesInv' /\ AllCount
<1> DEFINE v == Vendor[s]
           w == vendor[s]
           S == said[s]
           W == wire[s]
           t == Token(s, "call")
           block == w.blocks + 1
           u == [w EXCEPT !.open = kind, !.blocks = block]
<1>1. /\ Families /\ v \in {"anthropic", "openai"} /\ attempt[s] \in Nat /\ S \in Seq(TokenSet) /\ w \in Servers
      /\ DOMAIN vendor = Sessions /\ DOMAIN said = Sessions /\ DOMAIN wire = Sessions
  BY SessionIs DEF Families
<1>2. t \in TokenSet
  BY <1>1 DEF Token, TokenSet
<1>3. Streaming(s) /\ w.left = "content" /\ (w.open = "none" \/ v = "openai") /\ UNCHANGED Rest
      /\ vendor' = [vendor EXCEPT ![s] = u]
  BY DEF OpenBlock, Answering, Serves
<1>4. Only(vendor, vendor', s) /\ vendor'[s] = u
  <2> HIDE DEF u
  <2> QED BY <1>1, <1>3, OnlyExcept
<1>5. CASE kind = "call"
  <2> DEFINE e == [e |-> "open", kind |-> "call", block |-> block, token |-> t]
  <2>1. said' = [said EXCEPT ![s] = Append(S, t)] /\ wire' = [wire EXCEPT ![s] = Append(W, e)]
    BY <1>5 DEF OpenBlock, Says, Emits
  <2>2. ServerGoes(v, S, w, W, Append(S, t), u, Append(W, e))
    <3> HIDE DEF v, w, S, W, t
    <3> QED BY <1>1, <1>2, <1>3, <1>5, OpenCallServes
  <2> HIDE DEF t, e
  <2>3. Only(said, said', s) /\ said'[s] = Append(S, t) /\ Only(wire, wire', s) /\ wire'[s] = Append(W, e)
    BY <1>1, <2>1, OnlyExcept
  <2> QED BY <1>3, <1>4, <2>2, <2>3, ServerSteps
<1>6. CASE kind = "text"
  <2> DEFINE e == [e |-> "open", kind |-> "text", block |-> block]
             V == IF v = "openai" THEN W ELSE Append(W, e)
  <2>1. said' = said /\ IF v = "openai" THEN wire' = wire ELSE wire' = [wire EXCEPT ![s] = Append(W, e)]
    BY <1>6 DEF OpenBlock, Emits
  <2>2. ServerGoes(v, S, w, W, S, u, V)
    <3> HIDE DEF v, w, S, W
    <3> QED BY <1>1, <1>3, <1>6, OpenTextServes
  <2> HIDE DEF e
  <2>3. Only(said, said', s) /\ said'[s] = S
    BY <1>1, <2>1, OnlySame
  <2>4. Only(wire, wire', s) /\ wire'[s] = V
    <3>1. CASE v = "openai"
      BY <1>1, <2>1, <3>1, OnlySame
    <3>2. CASE v # "openai"
      BY <1>1, <2>1, <3>2, OnlyExcept
    <3> QED BY <3>1, <3>2
  <2> HIDE DEF V
  <2> QED BY <1>3, <1>4, <2>2, <2>3, <2>4, ServerSteps
<1> QED BY <1>5, <1>6

(* says a token,                                                           *)
LEMMA SpeakInv == ASSUME RepliesInv, NEW s \in Sessions, Speak(s) PROVE RepliesInv' /\ AllCount
<1> DEFINE w == vendor[s]
           S == said[s]
           W == wire[s]
           kind == IF w.open = "call" THEN "input" ELSE "text"
           t == Token(s, kind)
           e == [e |-> "delta", kind |-> kind, block |-> w.blocks, token |-> t]
<1>1. /\ Families /\ attempt[s] \in Nat /\ S \in Seq(TokenSet) /\ w \in Servers
         /\ (w.left \in {"stop", "end"} => w.open = "none")
      /\ DOMAIN vendor = Sessions /\ DOMAIN said = Sessions /\ DOMAIN wire = Sessions
  BY SessionIs DEF Families
<1>2. t \in TokenSet
  BY <1>1 DEF Token, TokenSet
<1>3. /\ Streaming(s) /\ w.left # "nothing" /\ w.open # "none" /\ UNCHANGED Rest /\ vendor' = vendor
      /\ said' = [said EXCEPT ![s] = Append(S, t)] /\ wire' = [wire EXCEPT ![s] = Append(W, e)]
  BY DEF Speak, Answering, Says, Emits
<1>4. w.left = "content"
  BY <1>1, <1>3 DEF Servers
<1>5. ServerGoes(Vendor[s], S, w, W, Append(S, t), w, Append(W, e))
  <2> HIDE DEF w, S, W, t
  <2> QED BY <1>1, <1>2, <1>3, <1>4, SpeakServes
<1> HIDE DEF t, e
<1>6. /\ Only(said, said', s) /\ said'[s] = Append(S, t) /\ Only(wire, wire', s) /\ wire'[s] = Append(W, e)
      /\ Only(vendor, vendor', s) /\ vendor'[s] = w
  BY <1>1, <1>3, OnlyExcept, OnlySame
<1> QED BY <1>3, <1>5, <1>6, ServerSteps

(* closes the block.                                                       *)
LEMMA CloseBlockInv == ASSUME RepliesInv, NEW s \in Sessions, CloseBlock(s) PROVE RepliesInv' /\ AllCount
<1> DEFINE v == Vendor[s]
           w == vendor[s]
           S == said[s]
           W == wire[s]
           u == [w EXCEPT !.open = "none"]
           e == [e |-> "close", block |-> w.blocks]
<1>1. /\ Families /\ S \in Seq(TokenSet) /\ w \in Servers /\ (w.left \in {"stop", "end"} => w.open = "none")
      /\ DOMAIN vendor = Sessions /\ DOMAIN said = Sessions /\ DOMAIN wire = Sessions
  BY SessionIs DEF Families
<1>2. /\ Streaming(s) /\ w.left # "nothing" /\ w.open # "none" /\ v = "anthropic" /\ UNCHANGED Rest
      /\ said' = said /\ wire' = [wire EXCEPT ![s] = Append(W, e)] /\ vendor' = [vendor EXCEPT ![s] = u]
  BY DEF CloseBlock, Answering, Serves, Emits
<1>3. w.left = "content"
  BY <1>1, <1>2 DEF Servers
<1>4. ServerGoes(v, S, w, W, S, u, Append(W, e))
  <2> HIDE DEF v, w, S, W
  <2> QED BY <1>1, <1>2, <1>3, CloseServes
<1> HIDE DEF u, e
<1>5. /\ Only(said, said', s) /\ said'[s] = S /\ Only(wire, wire', s) /\ wire'[s] = Append(W, e)
      /\ Only(vendor, vendor', s) /\ vendor'[s] = u
  BY <1>1, <1>2, OnlyExcept, OnlySame
<1> QED BY <1>2, <1>4, <1>5, ServerSteps

(* An event, and where the server is then.                                 *)
LEMMA EventInv ==
  ASSUME RepliesInv, NEW s \in Sessions, Streaming(s), UNCHANGED <<said, Rest>>, NEW e, NEW u,
         Emits(s, e), Serves(s, u),
         ServerGoes(Vendor[s], said[s], vendor[s], wire[s], said[s], u, Append(wire[s], e))
  PROVE  RepliesInv' /\ AllCount
<1>1. DOMAIN vendor = Sessions /\ DOMAIN said = Sessions /\ DOMAIN wire = Sessions
  BY SessionIs DEF Families
<1>2. said' = said /\ UNCHANGED Rest /\ wire' = [wire EXCEPT ![s] = Append(wire[s], e)]
      /\ vendor' = [vendor EXCEPT ![s] = u]
  BY DEF Emits, Serves
<1>3. /\ Only(said, said', s) /\ Only(wire, wire', s) /\ wire'[s] = Append(wire[s], e)
      /\ Only(vendor, vendor', s) /\ vendor'[s] = u
  BY <1>1, <1>2, OnlyExcept, OnlySame
<1> QED BY <1>2, <1>3, ServerSteps

(* The server concludes,                                                   *)
LEMMA ConcludeInv == ASSUME RepliesInv, NEW s \in Sessions, Conclude(s) PROVE RepliesInv' /\ AllCount
<1> DEFINE v == Vendor[s]
           w == vendor[s]
           S == said[s]
           W == wire[s]
           last == [Serving EXCEPT !.left = "nothing"]
<1>1. S \in Seq(TokenSet) /\ w \in Servers /\ (w.left \in {"stop", "end"} => w.open = "none")
  BY SessionIs
<1>2. /\ Streaming(s) /\ (w.open = "none" \/ v = "openai") /\ UNCHANGED <<said, Rest>>
      /\ CASE w.left = "content" -> Emits(s, [e |-> "stopping"]) /\ Serves(s, [Serving EXCEPT !.left = "stop"])
           [] w.left = "stop" ->
                \/ Emits(s, [e |-> "stop"]) /\ Serves(s, [Serving EXCEPT !.left = "end"])
                \/ v = "openai" /\ Emits(s, [e |-> "end"]) /\ Serves(s, last)
           [] OTHER -> Emits(s, [e |-> "end"]) /\ Serves(s, last)
  BY DEF Conclude, Answering
<1>3. CASE w.left = "content" /\ Emits(s, [e |-> "stopping"]) /\ Serves(s, [Serving EXCEPT !.left = "stop"])
  <2>1. ServerGoes(v, S, w, W, S, [Serving EXCEPT !.left = "stop"], Append(W, [e |-> "stopping"]))
    <3> HIDE DEF v, w, S, W
    <3> QED BY <1>1, <1>2, <1>3, ConcludeServes
  <2> QED BY <1>2, <1>3, <2>1, EventInv
<1>4. CASE w.left = "stop" /\ Emits(s, [e |-> "stop"]) /\ Serves(s, [Serving EXCEPT !.left = "end"])
  <2>1. ServerGoes(v, S, w, W, S, [Serving EXCEPT !.left = "end"], Append(W, [e |-> "stop"]))
    <3> HIDE DEF v, w, S, W
    <3> QED BY <1>1, <1>2, <1>4, ConcludeServes
  <2> QED BY <1>2, <1>4, <2>1, EventInv
<1>5. CASE Emits(s, [e |-> "end"]) /\ Serves(s, last)
  <2>1. last \in Servers /\ last.left = "nothing"
    BY DEF Serving, Servers
  <2>2. [e |-> "end"] \in EventSet /\ [e |-> "end"].e = "end"
    BY DEF EventSet
  <2>3. ServerGoes(v, S, w, W, S, last, Append(W, [e |-> "end"]))
    <3> HIDE DEF v, w, S, W, last
    <3> QED BY <1>1, <2>1, <2>2, BreakServes
  <2> HIDE DEF last
  <2> QED BY <1>2, <1>5, <2>3, EventInv
<1> QED BY <1>2, <1>3, <1>4, <1>5

(* or breaks off.                                                          *)
LEMMA BreakInv == ASSUME RepliesInv, NEW s \in Sessions, Break(s) PROVE RepliesInv' /\ AllCount
<1> DEFINE v == Vendor[s]
           w == vendor[s]
           S == said[s]
           W == wire[s]
           u == [w EXCEPT !.left = "nothing"]
<1>1. S \in Seq(TokenSet) /\ w \in Servers
  BY SessionIs
<1>2. Streaming(s) /\ UNCHANGED <<said, Rest>> /\ Serves(s, u)
  BY DEF Break, Answering
<1>3. PICK e \in {[e |-> "error", retryable |-> r] : r \in BOOLEAN} \cup {[e |-> "end"]} : Emits(s, e)
  BY DEF Break
<1>4. e \in EventSet /\ e.e \in {"end", "error"}
  BY <1>3 DEF EventSet
<1>5. u \in Servers /\ u.left = "nothing"
  BY <1>1 DEF Servers
<1>6. ServerGoes(v, S, w, W, S, u, Append(W, e))
  <2> HIDE DEF v, w, S, W, u
  <2> QED BY <1>1, <1>4, <1>5, BreakServes
<1> HIDE DEF u
<1> QED BY <1>2, <1>3, <1>6, EventInv

(* The mapper reads an event,                                              *)
LEMMA ReadEventInv == ASSUME RepliesInv, NEW s \in Sessions, ReadEvent(s) PROVE RepliesInv' /\ AllCount
<1> DEFINE v == Vendor[s]
           W == wire[s]
           m == mapper[s]
           g == MapOf(v, m, Head(W))
<1>1. /\ Families /\ FaithfulAt(s) /\ v \in {"anthropic", "openai"} /\ attempt \in [Sessions -> Nat]
      /\ DOMAIN phase = Sessions /\ DOMAIN emitted = Sessions /\ DOMAIN vendor = Sessions
         /\ DOMAIN said = Sessions
      /\ DOMAIN wire = Sessions /\ DOMAIN mapper = Sessions /\ DOMAIN deltas = Sessions
      /\ DOMAIN parts = Sessions /\ DOMAIN streamed = Sessions /\ DOMAIN reply = Sessions
  BY SessionIs DEF Families
<1>2. Mapped(s, Head(W)) = g
  BY DEF Mapped, MapOf
<1>3. /\ phase[s] = "streaming" /\ deltas[s] = <<>> /\ W # <<>>
      /\ UNCHANGED <<phase, queue, free, attempt, emitted, vendor, said, parts, streamed, reply>>
      /\ wire' = [wire EXCEPT ![s] = Tail(W)]
      /\ mapper' = [mapper EXCEPT ![s] = Mapped(s, Head(W)).mapper]
         /\ deltas' = [deltas EXCEPT ![s] = Mapped(s, Head(W)).deltas]
  BY DEF ReadEvent, Streaming
<1>4. Faithful(v, "streaming", emitted[s], vendor[s], said[s], Tail(W), g.mapper, g.deltas, parts[s], streamed[s], reply[s])
  <2>1. Faithful(v, "streaming", emitted[s], vendor[s], said[s], W, m, deltas[s], parts[s], streamed[s], reply[s])
    BY <1>1, <1>3 DEF FaithfulAt
  <2> DEFINE D == deltas[s]
  <2>2. D = <<>>
    BY <1>3
  <2> HIDE DEF v, W, m
  <2> QED BY <1>1, <1>3, <2>1, <2>2, ReadsFaithful
<1> HIDE DEF g
<1>5. /\ Only(wire, wire', s) /\ wire'[s] = Tail(W) /\ Only(mapper, mapper', s) /\ mapper'[s] = g.mapper
      /\ Only(deltas, deltas', s) /\ deltas'[s] = g.deltas
  BY <1>1, <1>2, <1>3, OnlyExcept
<1>6. Moves(s)
  BY <1>1, <1>3, <1>5, OnlySame DEF Moves
<1>7. FaithfulAt(s)'
  BY <1>3, <1>4, <1>5 DEF FaithfulAt
<1>8. Counts(s)
  BY <1>3 DEF Counts
<1> QED BY <1>6, <1>7, <1>8, MovesKeep, MovesCount

(* the assembler takes a delta.                                            *)
LEMMA HandOnInv == ASSUME RepliesInv, NEW s \in Sessions, HandOn(s) PROVE RepliesInv' /\ AllCount
<1> DEFINE v == Vendor[s]
           D == deltas[s]
           P == parts[s]
           X == streamed[s]
           d == Head(D)
           Y == IF d.d \in {"start", "end"} THEN X \o Completed(P) ELSE X
<1>1. /\ Families /\ FaithfulAt(s) /\ v \in {"anthropic", "openai"} /\ attempt \in [Sessions -> Nat]
      /\ DOMAIN phase = Sessions /\ DOMAIN emitted = Sessions /\ DOMAIN vendor = Sessions
         /\ DOMAIN said = Sessions
      /\ DOMAIN wire = Sessions /\ DOMAIN mapper = Sessions /\ DOMAIN deltas = Sessions
      /\ DOMAIN parts = Sessions /\ DOMAIN streamed = Sessions /\ DOMAIN reply = Sessions
  BY SessionIs DEF Families
<1>2. /\ phase[s] = "streaming" /\ D # <<>> /\ d.d \notin {"error", "stop"}
      /\ UNCHANGED <<phase, queue, free, attempt, vendor, said, wire, mapper, reply>>
      /\ parts' = [parts EXCEPT ![s] = Push(P, d)] /\ streamed' = [streamed EXCEPT ![s] = Y]
      /\ emitted' = [emitted EXCEPT ![s] = TRUE] /\ deltas' = [deltas EXCEPT ![s] = Tail(D)]
  BY DEF HandOn, Streaming
<1>3. Faithful(v, "streaming", emitted[s], vendor[s], said[s], wire[s], mapper[s], D, P, X, reply[s])
  BY <1>1, <1>2 DEF FaithfulAt
<1>4. Faithful(v, "streaming", TRUE, vendor[s], said[s], wire[s], mapper[s], Tail(D), Push(P, d), Y, reply[s])
  <2> HIDE DEF v, D, P, X
  <2> QED BY <1>2, <1>3, HandsOnFaithful
<1> HIDE DEF Y
<1>5. /\ Only(parts, parts', s) /\ parts'[s] = Push(P, d) /\ Only(streamed, streamed', s) /\ streamed'[s] = Y
      /\ Only(emitted, emitted', s) /\ emitted'[s] = TRUE /\ Only(deltas, deltas', s) /\ deltas'[s] = Tail(D)
  <2> DEFINE pushed == Push(P, d)
             rest == Tail(D)
  <2> HIDE DEF pushed, rest
  <2>1. Only(parts, parts', s) /\ parts'[s] = pushed
    <3>1. DOMAIN parts = Sessions /\ parts' = [parts EXCEPT ![s] = pushed]
      BY <1>1, <1>2 DEF pushed, rest
    <3> QED BY <3>1, OnlyExcept
  <2>2. Only(streamed, streamed', s) /\ streamed'[s] = Y
    <3>1. DOMAIN streamed = Sessions /\ streamed' = [streamed EXCEPT ![s] = Y]
      BY <1>1, <1>2 DEF pushed, rest
    <3> QED BY <3>1, OnlyExcept
  <2>3. Only(emitted, emitted', s) /\ emitted'[s] = TRUE
    <3>1. DOMAIN emitted = Sessions /\ emitted' = [emitted EXCEPT ![s] = TRUE]
      BY <1>1, <1>2 DEF pushed, rest
    <3> QED BY <3>1, OnlyExcept
  <2>4. Only(deltas, deltas', s) /\ deltas'[s] = rest
    <3>1. DOMAIN deltas = Sessions /\ deltas' = [deltas EXCEPT ![s] = rest]
      BY <1>1, <1>2 DEF pushed, rest
    <3> QED BY <3>1, OnlyExcept
  <2> QED BY <2>1, <2>2, <2>3, <2>4 DEF pushed, rest
<1>6. Moves(s)
  BY <1>1, <1>2, <1>5, OnlySame DEF Moves
<1>7. FaithfulAt(s)'
  BY <1>2, <1>4, <1>5 DEF FaithfulAt
<1>8. Counts(s)
  BY <1>2 DEF Counts
<1> QED BY <1>6, <1>7, <1>8, MovesKeep, MovesCount

(* A request that ends as it may leaves a fresh stream.                    *)
LEMMA OverInv ==
  ASSUME RepliesInv, NEW s \in Sessions, NEW kind, Over(s, kind),
         kind = "ok" => Whole(s), kind = "interrupted" => Beginning(s)
  PROVE  RepliesInv' /\ AllCount
<1>1. /\ attempt \in [Sessions -> Nat]
      /\ DOMAIN phase = Sessions /\ DOMAIN emitted = Sessions /\ DOMAIN vendor = Sessions
         /\ DOMAIN said = Sessions
      /\ DOMAIN wire = Sessions /\ DOMAIN mapper = Sessions /\ DOMAIN deltas = Sessions
      /\ DOMAIN parts = Sessions /\ DOMAIN streamed = Sessions /\ DOMAIN reply = Sessions
  BY SessionIs DEF Families
<1>2. /\ phase' = [phase EXCEPT ![s] = "ended"] /\ reply' = [reply EXCEPT ![s] = kind]
         /\ said' = [said EXCEPT ![s] = <<>>]
      /\ parts' = [parts EXCEPT ![s] = <<>>] /\ streamed' = [streamed EXCEPT ![s] = <<>>]
      /\ attempt' = [attempt EXCEPT ![s] = 0] /\ emitted' = [emitted EXCEPT ![s] = FALSE]
      /\ vendor' = [vendor EXCEPT ![s] = Serving] /\ wire' = [wire EXCEPT ![s] = <<>>]
      /\ mapper' = [mapper EXCEPT ![s] = NewMapper] /\ deltas' = [deltas EXCEPT ![s] = <<>>]
  BY DEF Over, Reset
<1>3. attempt' \in [Sessions -> Nat]
  BY <1>1, <1>2
<1>4. /\ Only(phase, phase', s) /\ phase'[s] = "ended" /\ Only(reply, reply', s) /\ reply'[s] = kind
      /\ Only(said, said', s) /\ said'[s] = <<>> /\ Only(parts, parts', s) /\ parts'[s] = <<>>
  BY <1>1, <1>2, OnlyExcept
<1>5. /\ Only(streamed, streamed', s) /\ streamed'[s] = <<>> /\ Only(emitted, emitted', s)
         /\ emitted'[s] = FALSE
      /\ Only(vendor, vendor', s) /\ vendor'[s] = Serving
  BY <1>1, <1>2, OnlyExcept
<1>6. /\ Only(wire, wire', s) /\ wire'[s] = <<>> /\ Only(mapper, mapper', s) /\ mapper'[s] = NewMapper
      /\ Only(deltas, deltas', s) /\ deltas'[s] = <<>>
  BY <1>1, <1>2, OnlyExcept
<1>7. Moves(s)
  BY <1>3, <1>4, <1>5, <1>6 DEF Moves
<1>8. FaithfulAt(s)'
  BY <1>4, <1>5, <1>6, OverFaithful DEF FaithfulAt
<1>9. Counts(s)
  BY <1>4 DEF Counts
<1> QED BY <1>7, <1>8, <1>9, MovesKeep, MovesCount

(* An error ends the request or is tried again.                            *)
LEMMA FailsInv == ASSUME RepliesInv, NEW s \in Sessions, Fails(s) PROVE RepliesInv' /\ AllCount
<1>1. /\ FaithfulAt(s) /\ attempt \in [Sessions -> Nat] /\ attempt[s] \in Nat /\ reply[s] = "none"
      /\ DOMAIN phase = Sessions /\ DOMAIN emitted = Sessions /\ DOMAIN vendor = Sessions
         /\ DOMAIN said = Sessions
      /\ DOMAIN wire = Sessions /\ DOMAIN mapper = Sessions /\ DOMAIN deltas = Sessions
      /\ DOMAIN parts = Sessions /\ DOMAIN streamed = Sessions /\ DOMAIN reply = Sessions
  BY SessionIs DEF Families, Fails, Streaming
<1>2. CASE Retries(s, Head(deltas[s]))
  <2>1. /\ phase[s] = "streaming" /\ ~emitted[s] /\ UNCHANGED <<free, emitted, said, parts, streamed, reply>>
        /\ phase' = [phase EXCEPT ![s] = "backoff"] /\ attempt' = [attempt EXCEPT ![s] = attempt[s] + 1]
        /\ vendor' = [vendor EXCEPT ![s] = Serving] /\ wire' = [wire EXCEPT ![s] = <<>>]
        /\ mapper' = [mapper EXCEPT ![s] = NewMapper] /\ deltas' = [deltas EXCEPT ![s] = <<>>]
    BY <1>2 DEF Fails, Retries, Reset, Streaming
  <2>2. attempt' \in [Sessions -> Nat]
    BY <1>1, <2>1
  <2>3. /\ Only(phase, phase', s) /\ phase'[s] = "backoff" /\ Only(vendor, vendor', s) /\ vendor'[s] = Serving
        /\ Only(wire, wire', s) /\ wire'[s] = <<>> /\ Only(mapper, mapper', s) /\ mapper'[s] = NewMapper
        /\ Only(deltas, deltas', s) /\ deltas'[s] = <<>>
    BY <1>1, <2>1, OnlyExcept
  <2>4. Moves(s)
    BY <1>1, <2>1, <2>2, <2>3, OnlySame DEF Moves
  <2>5. Faithful(Vendor[s], "streaming", emitted[s], vendor[s], said[s], wire[s], mapper[s], deltas[s], parts[s], streamed[s], reply[s])
    BY <1>1, <2>1 DEF FaithfulAt
  <2>6. Faithful(Vendor[s], "backoff", emitted[s], Serving, said[s], <<>>, NewMapper, <<>>, parts[s], streamed[s], reply[s])
    BY <2>1, <2>5, BackoffFaithful
  <2>7. FaithfulAt(s)'
    BY <2>1, <2>3, <2>6 DEF FaithfulAt
  <2>8. Counts(s)
    BY <1>1, <2>1 DEF Counts
  <2> QED BY <2>4, <2>7, <2>8, MovesKeep, MovesCount
<1>3. CASE ~Retries(s, Head(deltas[s]))
  <2>1. Over(s, "failed")
    BY <1>3 DEF Fails
  <2> QED BY <2>1, OverInv
<1> QED BY <1>2, <1>3

(* What there is of a stream: all of it before a stop, else a beginning.   *)
LEMMA NoLength == ASSUME NEW S \in Seq(TokenSet), Len(S) = 0 PROVE S = <<>>
OBVIOUS

(* At the Stop, everything said is assembled, every call handed over.      *)
LEMMA WholeAtStop ==
  ASSUME RepliesInv, NEW s \in Sessions, phase[s] = "streaming", deltas[s] # <<>>, Head(deltas[s]).d = "stop"
  PROVE  Whole(s)
<1> DEFINE S == said[s]
           D == deltas[s]
           P == parts[s]
           X == streamed[s]
           w == vendor[s]
<1>1. D \in Seq(DeltaSet) /\ OpenStream(Vendor[s], w, S, wire[s], mapper[s], D, P, X) /\ S \in Seq(TokenSet)
  BY SessionIs DEF FaithfulAt, Faithful
<1>2. PICK c : Handed(P, X, S, w, D, c)
  BY <1>1 DEF OpenStream
<1>3. PICK a : Assembly(P, X, S, a) /\ Leads(S, w, a, D, c)
  BY <1>2 DEF Handed
<1>4. PICK b \in PlaceSet : Hands(S, w, a, Head(D), b)
  BY <1>1, <1>3, LeadsFirst
<1>5. a \in PlaceSet /\ ~a.call /\ a.n = Len(S)
  BY <1>3, <1>4 DEF Hands, Assembly
<1> HIDE DEF S, D, P, X, w
<1>6. Tokens(Kept(P)) = S /\ Calls(Kept(P)) = X
  <2>1. CASE P = <<>> /\ X = <<>> /\ a.n = 0
    <3>1. S \in Seq(TokenSet) /\ Len(S) = 0
      BY <1>1, <1>5, <2>1
    <3>2. S = <<>>
      BY <3>1, NoLength
    <3> QED BY <2>1, <3>2, NothingAssembled
  <2>2. ASSUME NEW F, NEW x, P = Append(F, x), Built(F, x, X, S, a)
        PROVE  Tokens(Kept(P)) = S /\ Calls(Kept(P)) = X
    <3>1. WholeIs(F, P, X, S, a)
      BY <2>2, BuiltIs
    <3>2. SubSeq(S, 1, Len(S)) = S
      BY <1>1, SubSeqFull
    <3> QED BY <1>5, <3>1, <3>2 DEF WholeIs
  <2> QED BY <1>3, <2>1, <2>2 DEF Assembly
<1> QED BY <1>6 DEF Whole, Assembled, S, P, X

(* What comes first in a beginning is a beginning.                         *)
LEMMA PrefixOfPart ==
  ASSUME NEW S \in Seq(TokenSet), NEW k \in Nat, k <= Len(S), NEW p \in Seq(TokenSet),
         NEW r \in Seq(TokenSet), p \o r = SubSeq(S, 1, k)
  PROVE  IsPrefix(p, S)
<1> DEFINE n == Len(p)
           t == SubSeq(S, 1, k)
           x == SubSeq(p, 1, n)
           y == SubSeq(S, 1, n)
<1>1. t \in Seq(TokenSet) /\ Len(t) = k /\ \A i \in 1..k : t[i] = S[i]
  OBVIOUS
<1>2. n \in Nat /\ Len(p \o r) = n + Len(r) /\ Len(r) \in Nat /\ \A i \in 1..n : (p \o r)[i] = p[i]
  OBVIOUS
<1> HIDE DEF n, t
<1>3. n <= k /\ n <= Len(S) /\ \A i \in 1..n : p[i] = S[i]
  BY <1>1, <1>2 DEF t
<1>4. x \in Seq(TokenSet) /\ Len(x) = n /\ \A i \in 1..n : x[i] = p[i]
  BY <1>2 DEF n
<1>5. y \in Seq(TokenSet) /\ Len(y) = n /\ \A i \in 1..n : y[i] = S[i]
  BY <1>2, <1>3
<1> HIDE DEF x, y
<1>6. \A i \in 1..n : x[i] = y[i]
  BY <1>3, <1>4, <1>5
<1>7. x = y
  BY <1>4, <1>5, <1>6, SeqEqual
<1> QED BY <1>3, <1>7 DEF IsPrefix, n, x, y

(* Everything is a beginning of itself,                                    *)
LEMMA PrefixSelf == ASSUME NEW T, NEW x \in Seq(T) PROVE IsPrefix(x, x)
<1>1. Len(x) <= Len(x)
  OBVIOUS
<1> QED BY <1>1 DEF IsPrefix

(* and nothing of everything.                                              *)
LEMMA PrefixNothing == ASSUME NEW T, NEW x \in Seq(T) PROVE IsPrefix(<<>>, x)
<1>1. Len(<<>>) = 0 /\ 0 <= Len(x) /\ SubSeq(x, 1, 0) = <<>> /\ SubSeq(<<>>, 1, 0) = <<>>
  OBVIOUS
<1> QED BY <1>1 DEF IsPrefix

(* At any time, what is assembled is the beginning of what was said.       *)
LEMMA BeginningEver ==
  ASSUME RepliesInv, NEW s \in Sessions, phase[s] \in {"waiting", "streaming", "backoff"}
  PROVE  Beginning(s)
<1> DEFINE S == said[s]
           D == deltas[s]
           P == parts[s]
           X == streamed[s]
           w == vendor[s]
<1>1. S \in Seq(TokenSet) /\ FaithfulAt(s)
  BY SessionIs
<1>2. ASSUME P = <<>>, X = <<>> PROVE IsPrefix(Tokens(Kept(P)), S) /\ IsPrefix(Calls(Kept(P)), X)
  <2>1. Tokens(Kept(P)) = <<>> /\ Calls(Kept(P)) = <<>>
    BY <1>2, NothingAssembled
  <2>2. IsPrefix(<<>>, S)
    BY <1>1, PrefixNothing
  <2>3. IsPrefix(<<>>, <<>>)
    <3>1. <<>> \in Seq(TokenSet)
      OBVIOUS
    <3> QED BY <3>1, PrefixNothing
  <2> QED BY <1>2, <2>1, <2>2, <2>3
<1>3. CASE phase[s] \in {"waiting", "backoff"}
  <2>1. P = <<>> /\ X = <<>>
    BY <1>1, <1>3 DEF FaithfulAt, Faithful
  <2> QED BY <1>2, <2>1 DEF Beginning, Assembled
<1>4. CASE phase[s] = "streaming"
  <2>1. OpenStream(Vendor[s], w, S, wire[s], mapper[s], D, P, X)
    BY <1>1, <1>4 DEF FaithfulAt, Faithful
  <2>2. PICK c : Handed(P, X, S, w, D, c)
    BY <2>1 DEF OpenStream
  <2>3. PICK a : Assembly(P, X, S, a)
    BY <2>2 DEF Handed
  <2>4. ASSUME NEW F, NEW x, P = Append(F, x), Built(F, x, X, S, a)
        PROVE  IsPrefix(Tokens(Kept(P)), S) /\ IsPrefix(Calls(Kept(P)), X)
    <3> HIDE DEF S, P, X
    <3>1. WholeIs(F, P, X, S, a)
      BY <2>4, BuiltIs
    <3>2. a.n \in Nat /\ a.n <= Len(S)
      BY <2>3 DEF Assembly, PlaceSet
    <3>3. F \in Seq(PartSet) /\ x \in PartSet /\ x.tokens \in Seq(TokenSet)
          /\ Tokens(F) \o x.tokens = SubSeq(S, 1, a.n)
      BY <2>4 DEF Built, PartSet
    <3>4. Tokens(F) \in Seq(TokenSet) /\ P \in Seq(PartSet)
      BY <3>1, <3>3, TokensAppend DEF WholeIs
    <3>5. IsPrefix(Tokens(Kept(P)), S)
      <4>1. CASE a.call
        <5>1. Kept(P) = F
          BY <3>1, <4>1 DEF WholeIs
        <5> QED BY <1>1, <3>2, <3>3, <3>4, <5>1, PrefixOfPart
      <4>2. CASE ~a.call
        <5>1. Kept(P) = P /\ Tokens(P) = SubSeq(S, 1, a.n)
          BY <3>1, <4>2 DEF WholeIs
        <5>2. Tokens(P) \in Seq(TokenSet)
          BY <3>3, <3>4, TokensAppend
        <5> DEFINE q == Tokens(P)
        <5>3. q \in Seq(TokenSet) /\ <<>> \in Seq(TokenSet) /\ q = SubSeq(S, 1, a.n)
          BY <5>1, <5>2
        <5> HIDE DEF q
        <5>4. q \o <<>> = q
          BY <5>3
        <5>5. IsPrefix(q, S)
          BY <1>1, <3>2, <5>3, <5>4, PrefixOfPart
        <5> QED BY <5>1, <5>5 DEF q
      <4> QED BY <4>1, <4>2
    <3>6. IsPrefix(Calls(Kept(P)), X)
      <4>1. Calls(Kept(P)) = X
        BY <3>1 DEF WholeIs
      <4>2. Kept(P) \in Seq(PartSet)
        BY <3>3, <3>4, KeptAppend
      <4>3. Calls(Kept(P)) \in Seq(Seq(TokenSet))
        BY <3>3, <4>2, CallsAppend
      <4> QED BY <4>1, <4>3, PrefixSelf
    <3> QED BY <3>5, <3>6
  <2>5. IsPrefix(Tokens(Kept(P)), S) /\ IsPrefix(Calls(Kept(P)), X)
    BY <1>2, <2>3, <2>4 DEF Assembly
  <2> QED BY <2>5 DEF Beginning, Assembled
<1> QED BY <1>3, <1>4

(* The reply ends at the Stop,                                             *)
LEMMA FinishInv == ASSUME RepliesInv, NEW s \in Sessions, Finish(s) PROVE RepliesInv' /\ AllCount
<1>1. Over(s, "ok") /\ phase[s] = "streaming" /\ deltas[s] # <<>> /\ Head(deltas[s]).d = "stop"
  BY DEF Finish, Streaming
<1>2. Whole(s)
  BY <1>1, WholeAtStop
<1> QED BY <1>1, <1>2, OverInv

(* or at an interrupt, anywhere.                                           *)
LEMMA InterruptedInv == ASSUME RepliesInv, NEW s \in Sessions, Interrupted(s) PROVE RepliesInv' /\ AllCount
<1>1. Over(s, "interrupted") /\ phase[s] \in {"waiting", "streaming", "backoff"}
  BY DEF Interrupted
<1>2. Beginning(s)
  BY <1>1, BeginningEver
<1> QED BY <1>1, <1>2, OverInv

(* The steps that only move on to the next phase.                          *)
LEMMA PhaseInv ==
  ASSUME RepliesInv, NEW s \in Sessions, phase[s] # "ended", NEW now, phase' = [phase EXCEPT ![s] = now],
         UNCHANGED <<attempt, emitted, vendor, wire, mapper, deltas, parts, streamed, reply>>,
         NEW S, Only(said, said', s), said'[s] = S,
         Faithful(Vendor[s], now, emitted[s], vendor[s], S, wire[s], mapper[s], deltas[s], parts[s], streamed[s], reply[s])
  PROVE  RepliesInv' /\ AllCount
<1>1. /\ attempt \in [Sessions -> Nat] /\ reply[s] = "none"
      /\ DOMAIN phase = Sessions /\ DOMAIN emitted = Sessions /\ DOMAIN vendor = Sessions
         /\ DOMAIN said = Sessions
      /\ DOMAIN wire = Sessions /\ DOMAIN mapper = Sessions /\ DOMAIN deltas = Sessions
      /\ DOMAIN parts = Sessions /\ DOMAIN streamed = Sessions /\ DOMAIN reply = Sessions
  BY SessionIs DEF Families
<1>2. Only(phase, phase', s) /\ phase'[s] = now /\ Only(said, said', s) /\ said'[s] = S
  BY <1>1, OnlyExcept
<1>3. Moves(s)
  BY <1>1, <1>2, OnlySame DEF Moves
<1>4. FaithfulAt(s)'
  BY <1>2 DEF FaithfulAt
<1>5. Counts(s)
  BY <1>1 DEF Counts
<1> QED BY <1>3, <1>4, <1>5, MovesKeep, MovesCount

(* A request starts and gets its permit,                                   *)
LEMMA StartInv == ASSUME RepliesInv, NEW s \in Sessions, Start(s) \/ Acquire(s) PROVE RepliesInv' /\ AllCount
<1> DEFINE now == IF phase[s] = "idle" THEN "waiting" ELSE "streaming"
<1>1. /\ phase[s] \in {"idle", "waiting"} /\ phase' = [phase EXCEPT ![s] = now] /\ said' = said
      /\ UNCHANGED <<attempt, emitted, vendor, wire, mapper, deltas, parts, streamed, reply>>
  BY DEF Start, Acquire, port
<1>2. FaithfulAt(s)
  BY SessionIs
<1> HIDE DEF now
<1>3. Faithful(Vendor[s], now, emitted[s], vendor[s], said[s], wire[s], mapper[s], deltas[s], parts[s], streamed[s], reply[s])
  BY <1>1, <1>2, AcquireFaithful DEF FaithfulAt
<1>4. Only(said, said', s) /\ said'[s] = said[s]
  <2>1. DOMAIN said = Sessions
    BY SessionIs DEF Families
  <2> QED BY <1>1, <2>1, OnlySame
<1>5. phase[s] # "ended"
  BY <1>1
<1> QED BY <1>1, <1>3, <1>4, <1>5, PhaseInv

(* and is sent again.                                                      *)
LEMMA ResendInv == ASSUME RepliesInv, NEW s \in Sessions, Resend(s) PROVE RepliesInv' /\ AllCount
<1>1. /\ phase[s] = "backoff" /\ phase' = [phase EXCEPT ![s] = "streaming"] /\ said' = [said EXCEPT ![s] = <<>>]
      /\ UNCHANGED <<attempt, emitted, vendor, wire, mapper, deltas, parts, streamed, reply>>
  BY DEF Resend
<1>2. FaithfulAt(s)
  BY SessionIs
<1>3. Faithful(Vendor[s], "streaming", emitted[s], vendor[s], <<>>, wire[s], mapper[s], deltas[s], parts[s], streamed[s], reply[s])
  BY <1>1, <1>2, ResendFaithful DEF FaithfulAt
<1>4. phase[s] # "ended"
  BY <1>1
<1>5. Only(said, said', s) /\ said'[s] = <<>>
  <2>1. DOMAIN said = Sessions
    BY SessionIs DEF Families
  <2> QED BY <1>1, <2>1, OnlyExcept
<1> QED BY <1>1, <1>3, <1>4, <1>5, PhaseInv

-----------------------------------------------------------------------------
(* The invariant holds at the start,                                       *)
LEMMA InitStream == ModelInit => RepliesInv
<1> SUFFICES ASSUME ModelInit PROVE RepliesInv
  OBVIOUS
<1>1. Families
  BY DEF ModelInit, Families
<1>2. ASSUME NEW s \in Sessions PROVE FaithfulAt(s)
  <2>1. /\ phase[s] = "idle" /\ emitted[s] = FALSE /\ vendor[s] = Serving /\ said[s] = <<>> /\ wire[s] = <<>>
        /\ mapper[s] = NewMapper /\ deltas[s] = <<>> /\ parts[s] = <<>> /\ streamed[s] = <<>>
           /\ reply[s] = "none"
    BY DEF ModelInit
  <2> QED BY <2>1, FreshFaithful DEF FaithfulAt
<1> QED BY <1>1, <1>2 DEF RepliesInv

(* and every step keeps it and ends replies as it may.                     *)
LEMMA NextStream == ASSUME RepliesInv, [ModelNext]_modelVars PROVE RepliesInv' /\ [AllCount]_modelVars
<1>1. CASE UNCHANGED modelVars
  BY <1>1 DEF modelVars, port, RepliesInv, Families, FaithfulAt
<1>2. CASE ModelNext
  <2>1. PICK s \in Sessions :
          \/ Start(s) \/ Acquire(s) \/ Interrupted(s)
          \/ \E kind \in {"text", "call"} : OpenBlock(s, kind)
          \/ Speak(s) \/ CloseBlock(s) \/ Conclude(s) \/ Break(s)
          \/ ReadEvent(s) \/ HandOn(s) \/ Fails(s) \/ Resend(s) \/ Finish(s)
    BY <1>2 DEF ModelNext
  <2>2. RepliesInv' /\ AllCount
    BY <2>1, StartInv, InterruptedInv, OpenBlockInv, SpeakInv, CloseBlockInv, ConcludeInv, BreakInv,
       ReadEventInv, HandOnInv, FailsInv, ResendInv, FinishInv
  <2> QED BY <2>2
<1> QED BY <1>1, <1>2

(***************************************************************************)
(* A reply that ends well is what one attempt of the model said, whole and *)
(* in order, and its calls are exactly those the kernel was handed while   *)
(* it streamed; one cut by an interrupt is the beginning of that: for any  *)
(* sessions, vendors, permits, retries and bounds.  Retry tries again only *)
(* while no delta was handed on (adapters/src/model/layers.rs), the        *)
(* mappers close a call before anything follows it, and the Assembler      *)
(* drops a call that is open.                                              *)
(***************************************************************************)
THEOREM RepliesAreFaithful == ModelSpec => ReplyFaithful
<1>1. [ModelNext]_modelVars /\ RepliesInv => RepliesInv' /\ [AllCount]_modelVars
  BY NextStream
<1>2. ModelSpec => [][AllCount]_modelVars
  BY <1>1, InitStream, PTL DEF ModelSpec
<1> QED BY <1>2 DEF ReplyFaithful, AllCount, Counts
=============================================================================
