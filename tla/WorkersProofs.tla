---------------------------- MODULE WorkersProofs ----------------------------
(***************************************************************************)
(* What holds of sub-agents and background tasks for any number of them,   *)
(* and of kills, interrupts, rewinds and crashes.                          *)
(***************************************************************************)
EXTENDS Workers, SequenceTheorems, TLAPS

ChildType == [state : {"none", "open", "running", "ended"}, turns : Nat, up : BOOLEAN,
              q : {"none", "open", "answered"}, outcome : {"none", "done", "failed", "interrupted"}]
FollowType == [at : {"none", "start", "pending", "watching", "gone", "dropped"}, fresh : BOOLEAN,
               forwarded : BOOLEAN, interrupted : BOOLEAN, feed : Seq({"asked", "answered", "ended"})]
TaskType == [state : {"none", "running", "killing", "timing", "storing"} \cup Final, cancel : BOOLEAN,
             body : {"none", "running", "ok", "err", "dropped"}]

TypeOK ==
    /\ call \in [Calls -> {"none", "outstanding", "started", "done", "error", "cancelled"}]
    /\ child \in [Children -> ChildType]
    /\ follow \in [Children -> FollowType]
    /\ task \in [Tasks -> TaskType]
    /\ restore \in [at : {"none", "stopping", "restoring"}, waits : SUBSET Tasks]

(* A sub-agent that works or has ended has been given its task; one that   *)
(* is about to be has not.  Whoever says that it has ended (its events,    *)
(* its call, the body of its task) says so after it has; as long as its    *)
(* follower is there the body of its task has not ended.                   *)
ChildOK(c) ==
    /\ child[c].turns = IF child[c].state \in {"running", "ended"} THEN 1 ELSE 0
    /\ follow[c].at = "start" /\ follow[c].fresh => child[c].turns = 0
    /\ \A i \in 1..Len(follow[c].feed) : follow[c].feed[i] = "ended" => child[c].state = "ended"
    /\ call[c] \in {"done", "error"} => child[c].state = "ended" /\ call[c] = ResultOf(child[c].outcome)
    /\ c \in Back /\ task[c].body \in {"ok", "err"} => child[c].state = "ended"
    /\ c \in Back /\ follow[c].at \in {"start", "pending", "watching"} => task[c].body = "running"

(* A task is not over before its body is, unless it is slow.               *)
TaskOK(k) ==
    /\ task[k].state \in {"none"} \cup Final => task[k].body # "running"
    /\ task[k].state = "storing" => task[k].body = "ok"
    /\ task[k].state \in Final /\ k \notin Slow => BodyEnded(k)

(* From the moment a rewind begins no call is under way that could start a *)
(* task, and every task it does not wait for is over.                      *)
RestoreOK ==
    /\ restore.at # "none" => \A c \in Calls : call[c] # "outstanding"
    /\ restore.at # "none" => \A k \in Tasks : k \in restore.waits \/ task[k].state \in {"none"} \cup Final
    /\ restore.at = "restoring" => restore.waits = {}

WorkersInv == TypeOK /\ (\A c \in Children : ChildOK(c)) /\ (\A k \in Tasks : TaskOK(k)) /\ RestoreOK

-----------------------------------------------------------------------------
LEMMA Names ==
  /\ Fore \subseteq Children /\ Back \subseteq Children /\ Back \subseteq Tasks /\ Cmds \subseteq Tasks
  /\ Children \subseteq Calls /\ Cmds \subseteq Calls /\ \A c \in Children : c \notin Cmds
  /\ \A c \in Children : c \in Fore <=> c \notin Back
  /\ \A k \in Tasks : k \in Back <=> k \notin Cmds
BY WorkersAssumption DEF Children, Tasks, Calls

LEMMA InitWorkers == ASSUME Init PROVE WorkersInv
<1>1. NoFollow \in FollowType /\ NoFollow.feed = <<>> /\ NoFollow.at = "none" BY DEF NoFollow, FollowType
<1>2. NoTask \in TaskType /\ NoTask.state = "none" /\ NoTask.body = "none" BY DEF NoTask, TaskType, Final
<1>3. TypeOK BY <1>1, <1>2 DEF Init, TypeOK, ChildType, NoRestore
<1>4. \A c \in Children : ChildOK(c) BY <1>1, <1>2, Names DEF Init, ChildOK
<1>5. \A k \in Tasks : TaskOK(k) BY <1>2 DEF Init, TaskOK, Final
<1>6. RestoreOK BY DEF Init, RestoreOK, NoRestore
<1> QED BY <1>3, <1>4, <1>5, <1>6 DEF WorkersInv

LEMMA DispatchInv == ASSUME WorkersInv, NEW c \in Calls, Dispatch(c) PROVE WorkersInv'
BY DEF WorkersInv, TypeOK, ChildOK, TaskOK, RestoreOK, Dispatch, BodyEnded

LEMMA LaunchInv == ASSUME WorkersInv, NEW k \in Cmds, Launch(k) PROVE WorkersInv'
<1>1. NewTask \in TaskType /\ NewTask.state = "running" /\ NewTask.body = "running" BY DEF NewTask, TaskType, Final
<1> QED BY <1>1, Names DEF WorkersInv, TypeOK, ChildOK, TaskOK, RestoreOK, Launch, BodyEnded, Final

LEMMA CommandEndsInv == ASSUME WorkersInv, NEW k \in Tasks, CommandEnds(k) PROVE WorkersInv'
BY Names DEF WorkersInv, TypeOK, ChildOK, TaskOK, RestoreOK, CommandEnds, BodyEnded, Final, TaskType

-----------------------------------------------------------------------------
(* A step about one sub-agent leaves the others alone.                     *)
About(c) ==
    \A d \in Children \ {c} :
        child'[d] = child[d] /\ follow'[d] = follow[d] /\ call'[d] = call[d] /\ (d \in Back => task'[d] = task[d])

LEMMA AboutOne ==
  ASSUME WorkersInv, NEW c \in Children, About(c), ChildOK(c)'
  PROVE  (\A d \in Children : ChildOK(d))'
BY DEF WorkersInv, About, ChildOK

(* An event for whoever follows a sub-agent is one more in its feed.       *)
Hears(f, g, e) ==
    /\ g \in FollowType /\ g.at = f.at /\ g.fresh = f.fresh
    /\ \A i \in 1..Len(g.feed) : g.feed[i] = "ended" => e = "ended" \/ (i \in 1..Len(f.feed) /\ f.feed[i] = "ended")

LEMMA FeedsOne ==
  ASSUME WorkersInv, NEW c \in Children, NEW e \in {"asked", "answered", "ended"}
  PROVE  /\ Feeds(c, e) \in [Children -> FollowType]
         /\ Hears(follow[c], Feeds(c, e)[c], e)
         /\ \A d \in Children \ {c} : Feeds(c, e)[d] = follow[d]
<1> DEFINE g == [follow[c] EXCEPT !.feed = Append(@, e)]
<1>1. follow \in [Children -> FollowType] /\ follow[c] \in FollowType BY DEF WorkersInv, TypeOK
<1>2. follow[c].feed \in Seq({"asked", "answered", "ended"}) BY <1>1 DEF FollowType
<1>3. Append(follow[c].feed, e) \in Seq({"asked", "answered", "ended"}) BY <1>2
<1>4. /\ g.feed = Append(follow[c].feed, e) /\ g \in FollowType
      /\ g.at = follow[c].at /\ g.fresh = follow[c].fresh
  BY <1>1, <1>3 DEF FollowType
<1>5. ASSUME NEW i \in 1..Len(g.feed), g.feed[i] = "ended"
      PROVE  e = "ended" \/ (i \in 1..Len(follow[c].feed) /\ follow[c].feed[i] = "ended")
  BY <1>2, <1>4, <1>5
<1>6. Feeds(c, e) = [follow EXCEPT ![c] = g] \/ Feeds(c, e) = follow BY <1>1 DEF Feeds
<1>7. Hears(follow[c], g, e) BY <1>4, <1>5 DEF Hears
<1>8. Hears(follow[c], follow[c], e) BY <1>1 DEF Hears
<1> HIDE DEF g
<1> QED BY <1>1, <1>4, <1>6, <1>7, <1>8

(* The sub-agent works: it asks, is answered, ends its turn.               *)
LEMMA ChildWorks ==
  ASSUME WorkersInv, NEW c \in Children, NEW e \in {"asked", "answered", "ended"},
         NEW new \in ChildType, child' = [child EXCEPT ![c] = new], follow' = Feeds(c, e),
         child[c].state = "running", new.turns = child[c].turns, new.state \in {"running", "ended"},
         e = "ended" => new.state = "ended",
         UNCHANGED <<call, task, restore>>
  PROVE  WorkersInv'
<1>1. TypeOK' BY FeedsOne DEF WorkersInv, TypeOK
<1>2. Hears(follow[c], follow'[c], e) /\ About(c) /\ child'[c] = new BY FeedsOne DEF WorkersInv, TypeOK, About
<1>3. ChildOK(c)
  BY DEF WorkersInv
<1>4. ChildOK(c)'
  <2>1. follow'[c].at = follow[c].at /\ follow'[c].fresh = follow[c].fresh BY <1>2 DEF Hears
  <2>2. \A i \in 1..Len(follow'[c].feed) : follow'[c].feed[i] = "ended" => new.state = "ended"
    BY <1>2, <1>3 DEF ChildOK, Hears
  <2> QED BY <1>2, <1>3, <2>1, <2>2 DEF ChildOK
<1>5. (\A k \in Tasks : TaskOK(k))' /\ RestoreOK' BY DEF WorkersInv, TaskOK, RestoreOK, BodyEnded
<1> QED BY <1>1, <1>2, <1>4, <1>5, AboutOne DEF WorkersInv

LEMMA AskInv == ASSUME WorkersInv, NEW c \in Children, Ask(c) PROVE WorkersInv'
<1> DEFINE new == [child[c] EXCEPT !.q = "open"]
<1>1. child[c] \in ChildType BY DEF WorkersInv, TypeOK
<1>2. new \in ChildType /\ new.turns = child[c].turns /\ new.state = child[c].state BY <1>1 DEF ChildType
<1>3. child' = [child EXCEPT ![c] = new] BY DEF Ask, WorkersInv, TypeOK
<1> HIDE DEF new
<1> QED BY <1>2, <1>3, ChildWorks DEF Ask, Running

LEMMA AnswerInv == ASSUME WorkersInv, NEW c \in Children, AnswerChild(c) \/ Relay(c) PROVE WorkersInv'
<1> DEFINE new == [child[c] EXCEPT !.q = "answered"]
<1>1. child[c] \in ChildType BY DEF WorkersInv, TypeOK
<1>2. new \in ChildType /\ new.turns = child[c].turns /\ new.state = child[c].state BY <1>1 DEF ChildType
<1>3. child' = [child EXCEPT ![c] = new] BY DEF AnswerChild, Relay, WorkersInv, TypeOK
<1> HIDE DEF new
<1> QED BY <1>2, <1>3, ChildWorks DEF AnswerChild, Relay, Running

LEMMA EndTurnInv == ASSUME WorkersInv, NEW c \in Children, EndTurn(c) PROVE WorkersInv'
<1>1. PICK outcome \in {"done", "failed"} : child' = Ends(c, outcome) BY DEF EndTurn
<1> DEFINE new == [child[c] EXCEPT !.state = "ended", !.q = "none", !.outcome = outcome]
<1>2. child[c] \in ChildType BY DEF WorkersInv, TypeOK
<1>3. new \in ChildType /\ new.turns = child[c].turns /\ new.state = "ended" BY <1>2 DEF ChildType
<1>4. child' = [child EXCEPT ![c] = new] BY <1>1 DEF Ends, WorkersInv, TypeOK
<1> HIDE DEF new
<1> QED BY <1>3, <1>4, ChildWorks DEF EndTurn, Running

LEMMA QuietInv == ASSUME WorkersInv, UNCHANGED <<call, child, follow, task, restore>> PROVE WorkersInv'
BY DEF WorkersInv, TypeOK, ChildOK, TaskOK, RestoreOK, BodyEnded

LEMMA FollowPendingInv == ASSUME WorkersInv, NEW c \in Children, FollowPending(c) PROVE WorkersInv'
<1> DEFINE g == [follow[c] EXCEPT !.at = "watching", !.forwarded = child[c].q = "open"]
<1>1. follow[c] \in FollowType BY DEF WorkersInv, TypeOK
<1>2. g \in FollowType /\ g.at = "watching" /\ g.feed = follow[c].feed BY <1>1 DEF FollowType
<1>3. follow' = [follow EXCEPT ![c] = g] /\ UNCHANGED <<call, child, task, restore>>
  BY DEF FollowPending, WorkersInv, TypeOK
<1> HIDE DEF g
<1>4. TypeOK' BY <1>2, <1>3 DEF WorkersInv, TypeOK
<1>5. ChildOK(c)'
  <2>1. follow[c].at = "pending" /\ follow'[c] = g BY <1>3 DEF FollowPending, WorkersInv, TypeOK
  <2>2. ChildOK(c) BY DEF WorkersInv
  <2> QED BY <1>2, <1>3, <2>1, <2>2 DEF ChildOK
<1>6. About(c) BY <1>3 DEF WorkersInv, TypeOK, About
<1>7. (\A k \in Tasks : TaskOK(k))' /\ RestoreOK' BY <1>3 DEF WorkersInv, TaskOK, RestoreOK, BodyEnded
<1> QED BY <1>4, <1>5, <1>6, <1>7, AboutOne DEF WorkersInv

(* Whoever cancels has the sub-agent interrupted.                          *)
LEMMA InterruptsInv == ASSUME WorkersInv, NEW c \in Children, Interrupts(c) PROVE WorkersInv'
<1>1. follow[c] \in FollowType /\ child[c] \in ChildType BY DEF WorkersInv, TypeOK
<1>2. CASE child[c].state = "running"
  <2> DEFINE new == [child[c] EXCEPT !.state = "ended", !.q = "none", !.outcome = "interrupted"]
             g == [Feeds(c, "ended")[c] EXCEPT !.interrupted = TRUE]
  <2>1. new \in ChildType /\ new.turns = child[c].turns /\ new.state = "ended" BY <1>1 DEF ChildType
  <2>2. child' = [child EXCEPT ![c] = new] BY <1>2 DEF Interrupts, Ends, WorkersInv, TypeOK
  <2>3. Hears(follow[c], g, "ended")
    <3> DEFINE h == Feeds(c, "ended")[c]
    <3>1. Hears(follow[c], h, "ended") BY FeedsOne
    <3> HIDE DEF h
    <3>2. [h EXCEPT !.interrupted = TRUE] \in FollowType BY <3>1 DEF Hears, FollowType
    <3>3. /\ [h EXCEPT !.interrupted = TRUE].at = h.at /\ [h EXCEPT !.interrupted = TRUE].fresh = h.fresh
          /\ [h EXCEPT !.interrupted = TRUE].feed = h.feed
      BY <3>1 DEF Hears, FollowType
    <3> QED BY <3>1, <3>2, <3>3 DEF Hears, h
  <2>4. follow' = [Feeds(c, "ended") EXCEPT ![c] = g] BY <1>2, FeedsOne DEF Interrupts
  <2>5. UNCHANGED <<call, task, restore>> BY DEF Interrupts
  <2> HIDE DEF new, g
  <2>6. TypeOK' BY <2>1, <2>2, <2>3, <2>4, <2>5, FeedsOne DEF WorkersInv, TypeOK, Hears
  <2>7. About(c) /\ child'[c] = new /\ follow'[c] = g
    BY <2>2, <2>4, <2>5, FeedsOne DEF WorkersInv, TypeOK, About
  <2>8. ChildOK(c) BY DEF WorkersInv
  <2>9. ChildOK(c)' BY <1>2, <2>1, <2>3, <2>5, <2>7, <2>8 DEF ChildOK, Hears
  <2>10. (\A k \in Tasks : TaskOK(k))' /\ RestoreOK' BY <2>5 DEF WorkersInv, TaskOK, RestoreOK, BodyEnded
  <2> QED BY <2>6, <2>7, <2>9, <2>10, AboutOne DEF WorkersInv
<1>3. CASE child[c].state # "running"
  <2> DEFINE g == [follow[c] EXCEPT !.interrupted = TRUE]
  <2>1. g \in FollowType /\ g.at = follow[c].at /\ g.fresh = follow[c].fresh /\ g.feed = follow[c].feed
    BY <1>1 DEF FollowType
  <2>2. follow' = [follow EXCEPT ![c] = g] /\ UNCHANGED <<call, child, task, restore>>
    BY <1>3 DEF Interrupts, WorkersInv, TypeOK
  <2> HIDE DEF g
  <2>3. TypeOK' BY <2>1, <2>2 DEF WorkersInv, TypeOK
  <2>4. ChildOK(c)' BY <2>1, <2>2 DEF WorkersInv, TypeOK, ChildOK
  <2>5. About(c) BY <2>2 DEF WorkersInv, TypeOK, About
  <2>6. (\A k \in Tasks : TaskOK(k))' /\ RestoreOK' BY <2>2 DEF WorkersInv, TaskOK, RestoreOK, BodyEnded
  <2> QED BY <2>3, <2>4, <2>5, <2>6, AboutOne DEF WorkersInv
<1> QED BY <1>2, <1>3

(* The tool opens the session of the sub-agent.                            *)
LEMMA DelegateInv == ASSUME WorkersInv, NEW c \in Children, Delegate(c) PROVE WorkersInv'
<1> DEFINE opened == [child[c] EXCEPT !.up = TRUE, !.state = IF @ = "none" THEN "open" ELSE @]
           g == [NoFollow EXCEPT !.at = "start", !.fresh = ResumeState(child[c]) = "fresh"]
<1>1. child[c] \in ChildType BY DEF WorkersInv, TypeOK
<1>2. /\ opened \in ChildType /\ opened.turns = child[c].turns /\ opened.outcome = child[c].outcome
      /\ opened.state \in {"running", "ended"} <=> child[c].state \in {"running", "ended"}
      /\ child[c].state = "ended" => opened.state = "ended"
  BY <1>1 DEF ChildType
<1>3. g \in FollowType /\ g.at = "start" /\ (g.fresh <=> child[c].turns = 0) /\ g.feed = <<>>
  <2> DEFINE b == ResumeState(child[c]) = "fresh"
  <2>1. b <=> child[c].turns = 0 BY DEF ResumeState
  <2>2. b \in BOOLEAN OBVIOUS
  <2>3. NoFollow \in FollowType /\ NoFollow.feed = <<>> BY DEF NoFollow, FollowType
  <2> HIDE DEF b
  <2>4. [NoFollow EXCEPT !.at = "start", !.fresh = b] \in FollowType BY <2>2, <2>3 DEF FollowType
  <2>5. /\ [NoFollow EXCEPT !.at = "start", !.fresh = b].at = "start"
        /\ [NoFollow EXCEPT !.at = "start", !.fresh = b].fresh = b
        /\ [NoFollow EXCEPT !.at = "start", !.fresh = b].feed = <<>>
    BY <2>3 DEF FollowType
  <2> QED BY <2>1, <2>4, <2>5 DEF b
<1>4. NewTask \in TaskType /\ NewTask.state = "running" /\ NewTask.body = "running" BY DEF NewTask, TaskType, Final
<1>5. /\ child' = [child EXCEPT ![c] = opened] /\ call[c] = "outstanding" /\ UNCHANGED restore
      /\ \/ /\ ResumeState(child[c]) = "ended" /\ UNCHANGED <<follow, task>>
            /\ call' = [call EXCEPT ![c] = ResultOf(child[c].outcome)]
         \/ /\ ResumeState(child[c]) # "ended" /\ follow' = [follow EXCEPT ![c] = g]
            /\ \/ c \in Fore /\ UNCHANGED <<call, task>>
               \/ /\ c \in Back /\ task' = [task EXCEPT ![c] = NewTask]
                  /\ call' = [call EXCEPT ![c] = "started"]
  <2>1. child' = [child EXCEPT ![c] = opened] /\ call[c] = "outstanding" /\ UNCHANGED restore BY DEF Delegate
  <2>2. CASE ResumeState(child[c]) = "ended" BY <2>2 DEF Delegate
  <2>3. CASE ResumeState(child[c]) # "ended"
    <3>1. follow' = [follow EXCEPT ![c] = g] BY <2>3, Zenon DEF Delegate
    <3> HIDE DEF g
    <3> QED BY <2>1, <2>3, <3>1 DEF Delegate, Children
  <2> QED BY <2>1, <2>2, <2>3
<1>6. ResumeState(child[c]) = "ended" => child[c].state = "ended" BY DEF ResumeState
<1>7. ResultOf(child[c].outcome) \in {"done", "error"} BY DEF ResultOf
<1> HIDE DEF opened, g
<1>8. TypeOK' BY <1>2, <1>3, <1>4, <1>5, <1>7, Names DEF WorkersInv, TypeOK
<1>9. About(c) BY <1>5, Names DEF WorkersInv, TypeOK, About
<1>10. ChildOK(c)' BY <1>2, <1>3, <1>4, <1>5, <1>6, Names DEF WorkersInv, TypeOK, ChildOK
<1>11. (\A k \in Tasks : TaskOK(k))' BY <1>4, <1>5, Names DEF WorkersInv, TypeOK, TaskOK, BodyEnded, Final
<1>12. RestoreOK' BY <1>5, Names DEF WorkersInv, TypeOK, RestoreOK
<1> QED BY <1>8, <1>9, <1>10, <1>11, <1>12, AboutOne DEF WorkersInv

-----------------------------------------------------------------------------
(* What the follower returns, the sub-agent having ended: the call's       *)
(* result, or what its task has to report.                                 *)
LEMMA ReturnsInv ==
  ASSUME WorkersInv, NEW c \in Children, Returns(c, child[c].outcome), UNCHANGED <<child, restore>>,
         child[c].state = "ended", follow[c].at \in {"start", "watching"},
         follow' = [follow EXCEPT ![c] = [NoFollow EXCEPT !.at = "gone"]]
  PROVE  WorkersInv'
<1> DEFINE g == [NoFollow EXCEPT !.at = "gone"]
           b == IF child[c].outcome = "done" THEN "ok" ELSE "err"
           t == [task[c] EXCEPT !.body = b]
<1>1. g \in FollowType /\ g.at = "gone" /\ g.feed = <<>>
  <2>1. NoFollow \in FollowType /\ NoFollow.feed = <<>> BY DEF NoFollow, FollowType
  <2> QED BY <2>1 DEF FollowType
<1>2. c \in Back => t \in TaskType /\ t.state = task[c].state /\ t.body \in {"ok", "err"}
  <2>1. c \in Back => task[c] \in TaskType BY Names DEF WorkersInv, TypeOK
  <2>2. b \in {"ok", "err"} OBVIOUS
  <2> HIDE DEF b
  <2> QED BY <2>1, <2>2 DEF TaskType
<1>3. /\ follow' = [follow EXCEPT ![c] = g]
      /\ \/ c \in Fore /\ UNCHANGED task /\ call' = [call EXCEPT ![c] = ResultOf(child[c].outcome)]
         \/ c \in Back /\ UNCHANGED call /\ task' = [task EXCEPT ![c] = t]
  <2>1. c \in Fore => UNCHANGED task /\ call' = [call EXCEPT ![c] = ResultOf(child[c].outcome)] BY DEF Returns
  <2>2. c \notin Fore => UNCHANGED call /\ task' = [task EXCEPT ![c] = t] BY Names DEF Returns, WorkersInv, TypeOK
  <2> HIDE DEF t
  <2> QED BY <2>1, <2>2 DEF Children
<1>4. ResultOf(child[c].outcome) \in {"done", "error"} BY DEF ResultOf
<1> HIDE DEF g, t, b
<1>5. TypeOK' BY <1>1, <1>2, <1>3, <1>4, Names DEF WorkersInv, TypeOK
<1>6. About(c) BY <1>3, Names DEF WorkersInv, TypeOK, About
<1>7. ChildOK(c)' BY <1>1, <1>2, <1>3, <1>4, Names DEF WorkersInv, TypeOK, ChildOK
<1>8. (\A k \in Tasks : TaskOK(k))'
  <2>1. c \in Back => task[c].body = "running" BY DEF WorkersInv, ChildOK
  <2> QED BY <1>2, <1>3, <2>1, Names DEF WorkersInv, TypeOK, TaskOK, BodyEnded
<1>9. RestoreOK'
  <2>1. restore'.at # "none" => \A d \in Calls : call'[d] # "outstanding"
    BY <1>3, <1>4, Names DEF WorkersInv, TypeOK, RestoreOK
  <2>2. restore'.at # "none" => \A k \in Tasks : k \in restore'.waits \/ task'[k].state \in {"none"} \cup Final
    BY <1>2, <1>3, Names DEF WorkersInv, TypeOK, RestoreOK
  <2> QED BY <2>1, <2>2 DEF WorkersInv, RestoreOK
<1> QED BY <1>5, <1>6, <1>7, <1>8, <1>9, AboutOne DEF WorkersInv

LEMMA FollowStartInv == ASSUME WorkersInv, NEW c \in Children, FollowStart(c) PROVE WorkersInv'
<1>1. follow[c] \in FollowType /\ child[c] \in ChildType /\ follow[c].at = "start" /\ UNCHANGED restore
  BY DEF FollowStart, WorkersInv, TypeOK
<1> DEFINE g == [follow[c] EXCEPT !.at = "pending"]
           new == [child[c] EXCEPT !.state = "running", !.turns = @ + 1]
<1>2. g \in FollowType /\ g.at = "pending" /\ g.feed = follow[c].feed BY <1>1 DEF FollowType
<1>3. CASE follow[c].fresh
  <2>1. new \in ChildType /\ new.state = "running" /\ new.turns = child[c].turns + 1
    <3> DEFINE n == child[c].turns + 1
    <3>1. n \in Nat BY <1>1 DEF ChildType
    <3> HIDE DEF n
    <3>2. [child[c] EXCEPT !.state = "running", !.turns = n] \in ChildType BY <1>1, <3>1 DEF ChildType
    <3>3. /\ [child[c] EXCEPT !.state = "running", !.turns = n].state = "running"
          /\ [child[c] EXCEPT !.state = "running", !.turns = n].turns = n
      BY <1>1 DEF ChildType
    <3> QED BY <3>2, <3>3 DEF n
  <2>2. child' = [child EXCEPT ![c] = new] /\ follow' = [follow EXCEPT ![c] = g] /\ UNCHANGED <<call, task>>
    BY <1>3 DEF FollowStart, WorkersInv, TypeOK
  <2> HIDE DEF g, new
  <2>3. TypeOK' BY <1>1, <1>2, <2>1, <2>2 DEF WorkersInv, TypeOK
  <2>4. About(c) BY <2>2 DEF WorkersInv, TypeOK, About
  <2>5. ChildOK(c) /\ child[c].turns = 0 BY <1>1, <1>3 DEF WorkersInv, ChildOK
  <2>6. ChildOK(c)'
    <3>1. child'[c] = new /\ follow'[c] = g /\ child[c].state \notin {"running", "ended"}
      BY <2>2, <2>5 DEF WorkersInv, TypeOK, ChildOK
    <3>2. c \in Back => task[c].body = "running" BY <1>1, <2>5 DEF ChildOK
    <3>3. \A i \in 1..Len(follow'[c].feed) : follow'[c].feed[i] # "ended" BY <1>2, <2>5, <3>1 DEF ChildOK
    <3>4. call[c] \notin {"done", "error"} BY <2>5, <3>1 DEF ChildOK
    <3> QED BY <1>2, <2>1, <2>2, <2>5, <3>1, <3>2, <3>3, <3>4 DEF ChildOK
  <2>7. (\A k \in Tasks : TaskOK(k))' /\ RestoreOK' BY <1>1, <2>2 DEF WorkersInv, TaskOK, RestoreOK, BodyEnded
  <2> QED BY <2>3, <2>4, <2>6, <2>7, AboutOne DEF WorkersInv
<1>4. CASE ~follow[c].fresh /\ child[c].state = "ended"
  BY <1>1, <1>4, ReturnsInv DEF FollowStart
<1>5. CASE ~follow[c].fresh /\ child[c].state # "ended"
  <2>1. follow' = [follow EXCEPT ![c] = g] /\ UNCHANGED <<call, task, child>>
    BY <1>5 DEF FollowStart, WorkersInv, TypeOK
  <2> HIDE DEF g
  <2>2. TypeOK' BY <1>1, <1>2, <2>1 DEF WorkersInv, TypeOK
  <2>3. About(c) BY <2>1 DEF WorkersInv, TypeOK, About
  <2>4. ChildOK(c)' BY <1>1, <1>2, <2>1 DEF WorkersInv, TypeOK, ChildOK
  <2>5. (\A k \in Tasks : TaskOK(k))' /\ RestoreOK' BY <1>1, <2>1 DEF WorkersInv, TaskOK, RestoreOK, BodyEnded
  <2> QED BY <2>2, <2>3, <2>4, <2>5, AboutOne DEF WorkersInv
<1> QED BY <1>3, <1>4, <1>5

(* The follower sees the next event.                                       *)
LEMMA SeesEventInv == ASSUME WorkersInv, NEW c \in Children, SeesEvent(c) PROVE WorkersInv'
<1> DEFINE f == follow[c]
<1>1. /\ f \in FollowType /\ f.at = "watching" /\ f.feed # <<>> /\ UNCHANGED <<child, restore>>
  BY DEF SeesEvent, WorkersInv, TypeOK
<1>2. f.feed \in Seq({"asked", "answered", "ended"}) BY <1>1 DEF FollowType
<1>3. Tail(f.feed) \in Seq({"asked", "answered", "ended"}) /\ Head(f.feed) = f.feed[1] /\ 1 \in 1..Len(f.feed)
  BY <1>1, <1>2
<1>4. \A i \in 1..Len(Tail(f.feed)) : i + 1 \in 1..Len(f.feed) /\ Tail(f.feed)[i] = f.feed[i + 1] BY <1>1, <1>2
<1>5. CASE Head(f.feed) = "ended"
  <2>1. child[c].state = "ended" BY <1>3, <1>5 DEF WorkersInv, ChildOK
  <2> QED BY <1>1, <1>5, <2>1, ReturnsInv DEF SeesEvent
<1>6. CASE Head(f.feed) # "ended"
  <2> DEFINE g(b) == [[f EXCEPT !.feed = Tail(@)] EXCEPT !.forwarded = b]
  <2>1. ASSUME NEW b \in BOOLEAN
        PROVE  g(b) \in FollowType /\ g(b).at = f.at /\ g(b).fresh = f.fresh /\ g(b).feed = Tail(f.feed)
    BY <1>1, <1>3 DEF FollowType
  <2>2. PICK b \in BOOLEAN : follow' = [follow EXCEPT ![c] = g(b)] BY <1>6 DEF SeesEvent
  <2>3. UNCHANGED <<call, task>> BY <1>6 DEF SeesEvent
  <2> HIDE DEF g
  <2>4. TypeOK' BY <1>1, <2>1, <2>2, <2>3 DEF WorkersInv, TypeOK
  <2>5. About(c) BY <1>1, <2>2, <2>3 DEF WorkersInv, TypeOK, About
  <2>6. ChildOK(c)'
    <3>1. follow'[c] = g(b) BY <2>2 DEF WorkersInv, TypeOK
    <3>2. follow'[c].at = follow[c].at /\ follow'[c].fresh = follow[c].fresh /\ follow'[c].feed = Tail(follow[c].feed)
      BY <2>1, <3>1
    <3>3. ChildOK(c) BY DEF WorkersInv
    <3>4. \A i \in 1..Len(follow'[c].feed) : follow'[c].feed[i] = "ended" => child[c].state = "ended"
      BY <1>4, <3>2, <3>3 DEF ChildOK
    <3> QED BY <1>1, <2>3, <3>2, <3>3, <3>4 DEF ChildOK
  <2>7. (\A k \in Tasks : TaskOK(k))' /\ RestoreOK' BY <1>1, <2>3 DEF WorkersInv, TaskOK, RestoreOK, BodyEnded
  <2> QED BY <2>4, <2>5, <2>6, <2>7, AboutOne DEF WorkersInv
<1> QED BY <1>5, <1>6

-----------------------------------------------------------------------------
(* The registry moves a task that is not over, and may drop whoever runs   *)
(* it.                                                                     *)
Moves(k, t) ==
    /\ task[k].state \notin {"none"} \cup Final
    /\ t \in TaskType /\ t.state # "none"
    /\ t.body = task[k].body \/ t.body = "dropped"
    /\ t.state \in Final => t.body # "running" /\ (k \in Slow \/ t.body \in {"ok", "err"})
    /\ t.state = "storing" => t.body = "ok"

Drops(k, t) ==
    /\ \A d \in Children : follow'[d] = follow[d] \/ (follow'[d].at = "dropped" /\ follow'[d].feed = <<>>)
    /\ k \in Back /\ t.body # task[k].body => follow'[k].at = "dropped"

LEMMA DroppedFollow ==
  LET g == [NoFollow EXCEPT !.at = "dropped"] IN g \in FollowType /\ g.at = "dropped" /\ g.feed = <<>>
<1>1. NoFollow \in FollowType /\ NoFollow.feed = <<>> BY DEF NoFollow, FollowType
<1> QED BY <1>1 DEF FollowType

LEMMA TaskMoves ==
  ASSUME WorkersInv, NEW k \in Tasks, NEW t, Moves(k, t), task' = [task EXCEPT ![k] = t],
         follow' \in [Children -> FollowType], Drops(k, t), UNCHANGED <<call, child, restore>>
  PROVE  WorkersInv'
<1>1. TypeOK' BY DEF WorkersInv, TypeOK, Moves
<1>2. task' \in [Tasks -> TaskType] /\ task'[k] = t /\ \A j \in Tasks \ {k} : task'[j] = task[j]
  BY DEF WorkersInv, TypeOK, Moves
<1>3. ASSUME NEW d \in Children PROVE ChildOK(d)'
  <2>1. ChildOK(d) BY DEF WorkersInv
  <2>2. d \in Back => (task'[d].body \in {"ok", "err"} => task[d].body \in {"ok", "err"})
    BY <1>2, Names DEF Moves
  <2>3. CASE follow'[d] = follow[d]
    <3>1. d \in Back /\ follow[d].at \in {"start", "pending", "watching"} => task'[d].body = "running"
      BY <2>1, <2>3, <1>2, Names DEF ChildOK, Moves, Drops
    <3> QED BY <2>1, <2>2, <2>3, <3>1 DEF ChildOK
  <2>4. CASE follow'[d].at = "dropped" /\ follow'[d].feed = <<>> BY <2>1, <2>2, <2>4 DEF ChildOK
  <2> QED BY <2>3, <2>4 DEF Drops
<1>4. (\A j \in Tasks : TaskOK(j))' BY <1>2 DEF WorkersInv, TaskOK, BodyEnded, Moves
<1>5. RestoreOK' BY <1>2 DEF WorkersInv, RestoreOK, Moves
<1> QED BY <1>1, <1>3, <1>4, <1>5 DEF WorkersInv

(* Steps of the registry that leave whoever runs the task alone.           *)
LEMMA TaskProceeds ==
  ASSUME WorkersInv, NEW k \in Tasks,
         \/ TaskCancelled(k) \/ TaskDeadline(k) \/ TaskEnds(k) \/ TaskStored(k) \/ Kill(k)
  PROVE  WorkersInv'
<1>1. task \in [Tasks -> TaskType] /\ task[k] \in TaskType BY DEF WorkersInv, TypeOK
<1>2. UNCHANGED <<call, child, follow, restore>>
  BY DEF TaskCancelled, TaskDeadline, TaskEnds, TaskStored, Kill
<1>3. /\ follow' \in [Children -> FollowType]
      /\ \A t : t.body = task[k].body => Drops(k, t)
  BY <1>2 DEF Drops, WorkersInv, TypeOK
<1>4. ASSUME NEW state \in {"killing", "timing", "storing"}, NEW cancel \in BOOLEAN, Proceeds(k, state, cancel),
             task[k].state = "running", state = "storing" => task[k].body = "ok"
      PROVE  WorkersInv'
  <2> DEFINE t == [task[k] EXCEPT !.state = state, !.cancel = cancel]
  <2>1. t \in TaskType /\ t.state = state /\ t.body = task[k].body BY <1>1 DEF TaskType
  <2>2. task' = [task EXCEPT ![k] = t] BY <1>1, <1>4 DEF Proceeds
  <2> HIDE DEF t
  <2>3. Moves(k, t) BY <1>4, <2>1 DEF Moves, Final
  <2> QED BY <1>2, <1>3, <2>1, <2>2, <2>3, TaskMoves
<1>5. ASSUME NEW state \in {"done", "failed"}, NEW body \in {"ok", "err"}, Finish(k, state, body),
             task[k].state \in {"running", "storing"}, body = task[k].body
      PROVE  WorkersInv'
  <2> DEFINE t == [task[k] EXCEPT !.state = state, !.body = body]
  <2>1. t \in TaskType /\ t.state = state /\ t.body = body BY <1>1 DEF TaskType, Final
  <2>2. task' = [task EXCEPT ![k] = t] BY <1>1, <1>5 DEF Finish
  <2> HIDE DEF t
  <2>3. Moves(k, t) BY <1>5, <2>1 DEF Moves, Final
  <2> QED BY <1>2, <1>3, <1>5, <2>1, <2>2, <2>3, TaskMoves
<1>6. CASE TaskCancelled(k) BY <1>4, <1>6 DEF TaskCancelled
<1>7. CASE TaskDeadline(k) BY <1>4, <1>7 DEF TaskDeadline
<1>8. CASE TaskEnds(k) BY <1>4, <1>5, <1>8 DEF TaskEnds
<1>9. CASE TaskStored(k)
  <2>1. PICK state \in {"done", "failed"} : Finish(k, state, "ok") BY <1>9 DEF TaskStored
  <2>2. task[k].state = "storing" /\ task[k].body = "ok" BY <1>9 DEF TaskStored, WorkersInv, TaskOK, BodyEnded
  <2> QED BY <1>5, <2>1, <2>2
<1>10. CASE Kill(k)
  <2> DEFINE t == [task[k] EXCEPT !.cancel = TRUE]
  <2>1. t \in TaskType /\ t.state = task[k].state /\ t.body = task[k].body BY <1>1 DEF TaskType
  <2>2. task' = [task EXCEPT ![k] = t] /\ task[k].state \notin {"none"} \cup Final BY <1>1, <1>10 DEF Kill
  <2> HIDE DEF t
  <2>3. Moves(k, t) BY <2>1, <2>2 DEF Moves, WorkersInv, TaskOK, BodyEnded
  <2> QED BY <1>2, <1>3, <2>1, <2>2, <2>3, TaskMoves
<1> QED BY <1>6, <1>7, <1>8, <1>9, <1>10

LEMMA TaskStopsInv == ASSUME WorkersInv, NEW k \in Tasks, TaskStops(k) PROVE WorkersInv'
<1> DEFINE g == [NoFollow EXCEPT !.at = "dropped"]
           state == IF task[k].state = "killing" THEN "killed" ELSE "timedout"
           body == IF BodyEnded(k) THEN task[k].body ELSE "dropped"
           t == [task[k] EXCEPT !.state = state, !.body = body]
<1>1. task \in [Tasks -> TaskType] /\ task[k] \in TaskType /\ follow \in [Children -> FollowType]
  BY DEF WorkersInv, TypeOK
<1>2. /\ task[k].state \in {"killing", "timing"} /\ (BodyEnded(k) \/ k \in Slow)
      /\ task' = [task EXCEPT ![k] = t] /\ UNCHANGED <<call, child, restore>>
      /\ follow' = IF k \in Back /\ ~BodyEnded(k) THEN [follow EXCEPT ![k] = g] ELSE follow
  <2>1. Finish(k, state, body) BY DEF TaskStops
  <2>2. task' = [task EXCEPT ![k] = t] BY <1>1, <2>1 DEF Finish
  <2> HIDE DEF t, state, body
  <2> QED BY <2>2 DEF TaskStops
<1>3. g \in FollowType /\ g.at = "dropped" /\ g.feed = <<>> BY DroppedFollow
<1>4. state \in {"killed", "timedout"} /\ body \in {"ok", "err", "dropped"}
      /\ (body = task[k].body \/ (body = "dropped" /\ ~BodyEnded(k))) /\ (BodyEnded(k) => body \in {"ok", "err"})
  BY DEF BodyEnded
<1> HIDE DEF g, state, body
<1>5. t \in TaskType /\ t.state = state /\ t.body = body BY <1>1, <1>4 DEF TaskType, Final
<1> HIDE DEF t
<1>6. Moves(k, t) BY <1>2, <1>4, <1>5 DEF Moves, Final
<1>7. follow' \in [Children -> FollowType] BY <1>1, <1>2, <1>3, Names
<1>8. Drops(k, t) BY <1>1, <1>2, <1>3, <1>4, <1>5, Names DEF Drops
<1> QED BY <1>2, <1>6, <1>7, <1>8, TaskMoves

-----------------------------------------------------------------------------
(* Interrupts, rewinds and crashes.                                        *)
LEMMA HardInterruptInv == ASSUME WorkersInv, HardInterrupt PROVE WorkersInv'
<1> DEFINE cut == {c \in Calls : call[c] = "outstanding"}
           g == [NoFollow EXCEPT !.at = "dropped"]
<1>1. g \in FollowType /\ g.at = "dropped" /\ g.feed = <<>> BY DroppedFollow
<1>2. /\ call' = [c \in Calls |-> IF c \in cut THEN "cancelled" ELSE call[c]]
      /\ follow' = [c \in Children |-> IF c \in cut THEN g ELSE follow[c]]
      /\ UNCHANGED <<child, task, restore>> /\ cut # {}
  BY DEF HardInterrupt
<1> HIDE DEF g
<1>3. TypeOK' BY <1>1, <1>2 DEF WorkersInv, TypeOK
<1>4. ASSUME NEW c \in Children PROVE ChildOK(c)'
  <2>1. ChildOK(c) /\ c \in Calls BY Names DEF WorkersInv
  <2>2. CASE c \in cut
    <3>1. call'[c] = "cancelled" /\ follow'[c] = g BY <1>2, <2>1, <2>2
    <3> QED BY <1>1, <1>2, <2>1, <3>1 DEF ChildOK
  <2>3. CASE c \notin cut
    <3>1. call'[c] = call[c] /\ follow'[c] = follow[c] BY <1>2, <2>1, <2>3
    <3> QED BY <1>2, <2>1, <3>1 DEF ChildOK
  <2> QED BY <2>2, <2>3
<1>5. (\A k \in Tasks : TaskOK(k))' BY <1>2 DEF WorkersInv, TaskOK, BodyEnded
<1>6. RestoreOK' BY <1>2 DEF WorkersInv, RestoreOK
<1> QED BY <1>3, <1>4, <1>5, <1>6 DEF WorkersInv

(* A rewind waits for every task that is not over.                         *)
LEMMA RewindInv == ASSUME WorkersInv, Rewind PROVE WorkersInv'
<1>1. /\ restore' = [at |-> "stopping", waits |-> Writers] /\ (\A c \in Calls : call[c] # "outstanding")
      /\ task' = [k \in Tasks |-> IF k \in Writers THEN [task[k] EXCEPT !.cancel = TRUE] ELSE task[k]]
      /\ UNCHANGED <<call, child, follow>>
  BY DEF Rewind
<1>2. ASSUME NEW k \in Tasks
      PROVE  task'[k] \in TaskType /\ task'[k].state = task[k].state /\ task'[k].body = task[k].body
  <2>1. task[k] \in TaskType BY DEF WorkersInv, TypeOK
  <2> DEFINE t == [task[k] EXCEPT !.cancel = TRUE]
  <2>2. t \in TaskType /\ t.state = task[k].state /\ t.body = task[k].body BY <2>1 DEF TaskType
  <2> HIDE DEF t
  <2>3. task'[k] = t \/ task'[k] = task[k] BY <1>1 DEF t
  <2> QED BY <2>1, <2>2, <2>3
<1>3. TypeOK'
  <2>1. task' \in [Tasks -> TaskType] BY <1>1, <1>2
  <2>2. Writers \subseteq Tasks BY DEF Writers
  <2> QED BY <1>1, <2>1, <2>2 DEF WorkersInv, TypeOK
<1>4. (\A c \in Children : ChildOK(c))' BY <1>1, <1>2, Names DEF WorkersInv, ChildOK
<1>5. (\A k \in Tasks : TaskOK(k))' BY <1>2 DEF WorkersInv, TaskOK, BodyEnded
<1>6. RestoreOK' BY <1>1, <1>2 DEF RestoreOK, Writers
<1> QED BY <1>3, <1>4, <1>5, <1>6 DEF WorkersInv

(* It restores when none is left.                                          *)
LEMMA RestoresInv == ASSUME WorkersInv, Restores \/ Restored PROVE WorkersInv'
<1>1. UNCHANGED <<call, child, follow, task>> BY DEF Restores, Restored
<1>2. \/ restore' = [at |-> "restoring", waits |-> {}] /\ restore.at = "stopping"
         /\ \A k \in restore.waits : Finished(k)
      \/ restore' = [at |-> "none", waits |-> {}]
  BY DEF Restores, Restored, NoRestore
<1>3. TypeOK' BY <1>1, <1>2 DEF WorkersInv, TypeOK
<1>4. (\A c \in Children : ChildOK(c))' /\ (\A k \in Tasks : TaskOK(k))'
  BY <1>1 DEF WorkersInv, ChildOK, TaskOK, BodyEnded
<1>5. RestoreOK' BY <1>1, <1>2 DEF WorkersInv, RestoreOK, Finished
<1> QED BY <1>3, <1>4, <1>5 DEF WorkersInv

LEMMA CrashInv == ASSUME WorkersInv, Crash PROVE WorkersInv'
<1>1. NoFollow \in FollowType /\ NoFollow.feed = <<>> /\ NoFollow.at = "none" BY DEF NoFollow, FollowType
<1>2. NoTask \in TaskType /\ NoTask.state = "none" /\ NoTask.body = "none" BY DEF NoTask, TaskType, Final
<1>3. /\ call' = [c \in Calls |-> IF c \in Cmds /\ call[c] = "outstanding" THEN "error" ELSE call[c]]
      /\ child' = [c \in Children |-> [child[c] EXCEPT !.up = FALSE]]
      /\ follow' = [c \in Children |-> NoFollow] /\ task' = [k \in Tasks |-> NoTask]
      /\ restore' = IF restore.at = "none" THEN NoRestore ELSE [at |-> "stopping", waits |-> {}]
  BY DEF Crash
<1>4. ASSUME NEW c \in Children
      PROVE  /\ child'[c] \in ChildType /\ child'[c].turns = child[c].turns
             /\ child'[c].state = child[c].state /\ child'[c].outcome = child[c].outcome
  <2>1. child[c] \in ChildType BY DEF WorkersInv, TypeOK
  <2> DEFINE h == [child[c] EXCEPT !.up = FALSE]
  <2>2. h \in ChildType /\ h.turns = child[c].turns /\ h.state = child[c].state /\ h.outcome = child[c].outcome
    BY <2>1 DEF ChildType
  <2> HIDE DEF h
  <2>3. child'[c] = h BY <1>3 DEF h
  <2> QED BY <2>2, <2>3
<1>5. TypeOK'
  <2>1. child' \in [Children -> ChildType] BY <1>3, <1>4
  <2> QED BY <1>1, <1>2, <1>3, <2>1 DEF WorkersInv, TypeOK, NoRestore
<1>6. ASSUME NEW c \in Children PROVE ChildOK(c)'
  <2>1. ChildOK(c) /\ c \in Calls /\ c \notin Cmds BY Names DEF WorkersInv
  <2>2. call'[c] = call[c] /\ follow'[c] = NoFollow BY <1>3, <2>1
  <2>3. c \in Back => task'[c].body = "none" BY <1>2, <1>3, Names
  <2> QED BY <1>1, <1>4, <2>1, <2>2, <2>3 DEF ChildOK
<1>7. (\A k \in Tasks : TaskOK(k))' BY <1>2, <1>3 DEF TaskOK, Final
<1>8. RestoreOK'
  <2>1. restore'.at = "none" \/ (restore'.at = "stopping" /\ restore.at # "none") BY <1>3 DEF NoRestore
  <2>2. restore.at # "none" => \A c \in Calls : call[c] # "outstanding" BY DEF WorkersInv, RestoreOK
  <2> QED BY <1>2, <1>3, <2>1, <2>2 DEF RestoreOK
<1> QED BY <1>5, <1>6, <1>7, <1>8 DEF WorkersInv

-----------------------------------------------------------------------------
LEMMA StepInv == ASSUME WorkersInv, Next PROVE WorkersInv'
<1>1. CASE \E c \in Calls : Dispatch(c) BY <1>1, DispatchInv
<1>2. CASE \E c \in Children : Follows(c)
  BY <1>2, DelegateInv, FollowStartInv, FollowPendingInv, SeesEventInv, InterruptsInv DEF Follows
<1>3. CASE \E c \in Children : Ask(c) \/ AnswerChild(c) \/ EndTurn(c) \/ Relay(c)
  BY <1>3, AskInv, AnswerInv, EndTurnInv
<1>4. CASE \E c \in Children : AnswerForwarded(c) BY <1>4, QuietInv DEF AnswerForwarded
<1>5. CASE \E k \in Cmds : Launch(k) \/ CommandEnds(k) BY <1>5, LaunchInv, CommandEndsInv, Names
<1>6. CASE \E k \in Tasks : Supervises(k) \/ TaskDeadline(k) \/ Kill(k)
  BY <1>6, TaskProceeds, TaskStopsInv DEF Supervises
<1>7. CASE HardInterrupt \/ Rewind \/ Restores \/ Restored \/ Crash
  BY <1>7, HardInterruptInv, RewindInv, RestoresInv, CrashInv
<1> QED BY <1>1, <1>2, <1>3, <1>4, <1>5, <1>6, <1>7 DEF Next

(* The invariant of the sub-agents and tasks, with what it says of types:  *)
(* it holds through every kill, interrupt, rewind and crash.               *)
THEOREM WorkersInvariant == Spec => []WorkersInv
<1>1. Init => WorkersInv BY InitWorkers
<1>2. WorkersInv /\ [Next]_vars => WorkersInv'
  <2>1. CASE UNCHANGED vars BY <2>1, QuietInv DEF vars
  <2> QED BY <2>1, StepInv
<1> QED BY <1>1, <1>2, PTL DEF Spec

(* A sub-agent is given its task once, and what its call returns is how    *)
(* that turn ended, whatever crashes run the call again.                   *)
THEOREM TasksGivenOnce == Spec => []TaskOnce
<1>1. WorkersInv => TaskOnce BY DEF WorkersInv, ChildOK, TaskOnce
<1> QED BY <1>1, WorkersInvariant, PTL

(* While the workspace is restored no command of a task runs and no        *)
(* background sub-agent works, except one that is slow to stop: the        *)
(* registry gives those up after the grace, and the restore goes on.       *)
QuietButForSlow ==
    restore.at = "restoring" =>
        \A k \in Tasks :
            /\ task[k].body # "running"
            /\ k \in Back \ Slow /\ task[k].state # "none" => ~Running(k)

LEMMA InvQuiet == ASSUME WorkersInv PROVE QuietButForSlow
<1> SUFFICES ASSUME restore.at = "restoring", NEW k \in Tasks
             PROVE  /\ task[k].body # "running"
                    /\ k \in Back \ Slow /\ task[k].state # "none" => ~Running(k)
  BY DEF QuietButForSlow
<1>1. task[k].state \in {"none"} \cup Final BY DEF WorkersInv, RestoreOK
<1>2. TaskOK(k) BY DEF WorkersInv
<1>3. ASSUME k \in Back \ Slow, task[k].state # "none" PROVE ~Running(k)
  <2>1. task[k].body \in {"ok", "err"} BY <1>1, <1>2, <1>3 DEF TaskOK, BodyEnded
  <2>2. child[k].state = "ended" BY <1>3, <2>1, Names DEF WorkersInv, ChildOK
  <2> QED BY <2>2 DEF Running
<1> QED BY <1>1, <1>2, <1>3 DEF TaskOK

THEOREM RewindsAreQuietButForSlow == Spec => []QuietButForSlow
BY WorkersInvariant, InvQuiet, PTL

(* While the workspace is restored nothing that the registry knows of      *)
(* writes to it, provided that every background sub-agent stops within the *)
(* grace.  A command may be slow: its process is killed as it is dropped.  *)
THEOREM RewindsAreQuiet == ASSUME Slow \cap Back = {} PROVE Spec => []RewindQuiet
<1>1. QuietButForSlow => RewindQuiet BY DEF QuietButForSlow, RewindQuiet
<1> QED BY <1>1, RewindsAreQuietButForSlow, PTL
=============================================================================
