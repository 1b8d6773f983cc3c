------------------------------ MODULE Workers ------------------------------
(* What a session leaves running: sub-agents it waits for or runs in the   *)
(* background, and background commands.  The registry stops, times out and *)
(* reports tasks; a sub-agent is a session of its own, which its caller    *)
(* follows and whose questions it passes on; a rewind stops the tasks that *)
(* write; the process may crash at any point.                              *)
EXTENDS Integers, Sequences, FiniteSets

CONSTANTS Fore,        \* calls of sub-agents the session waits for
          Back,        \* calls of sub-agents it runs in the background
          Cmds,        \* calls that start a command in the background
          Askers,      \* sub-agents that ask questions
          Slow,        \* tasks that may not stop within the grace
          MaxInputs    \* kills, interrupts, rewinds and crashes

Children == Fore \cup Back
Tasks == Back \cup Cmds
Calls == Fore \cup Back \cup Cmds

ASSUME WorkersAssumption ==
    /\ Fore \cap Back = {} /\ Children \cap Cmds = {}
    /\ Slow \subseteq Tasks /\ Askers \subseteq Children /\ MaxInputs \in Nat

VARIABLES call,     \* of each call: what its session knows of it
          child,    \* of each sub-agent: its journal, and whether it is driven
          follow,   \* whoever follows it
          task,     \* the registry's entries, each with its body
          board,    \* the question of a sub-agent on the board of its parent
          restore,  \* the restore of a rewind, and what it waits for
          inputs
vars == <<call, child, follow, task, board, restore, inputs>>

NoTask == [state |-> "none", cancel |-> FALSE, body |-> "none"]
NewTask == [state |-> "running", cancel |-> FALSE, body |-> "running"]
NoFollow == [at |-> "none", fresh |-> FALSE, forwarded |-> FALSE, interrupted |-> FALSE, feed |-> <<>>]
NoRestore == [at |-> "none", waits |-> {}]
Input == inputs < MaxInputs /\ inputs' = inputs + 1

Final == {"done", "failed", "killed", "timedout"}
Finished(k) == task[k].state \in Final

Init ==
    /\ call = [c \in Calls |-> "none"]
    /\ child = [c \in Children |-> [state |-> "none", turns |-> 0, up |-> FALSE, q |-> "none", outcome |-> "none"]]
    /\ follow = [c \in Children |-> NoFollow]
    /\ task = [k \in Tasks |-> NoTask]
    /\ board = [c \in Children |-> "none"]
    /\ restore = NoRestore
    /\ inputs = 0

-----------------------------------------------------------------------------
(* Calls.                                                                  *)
Dispatch(c) ==
    /\ call[c] = "none" /\ restore.at = "none"
    /\ call' = [call EXCEPT ![c] = "outstanding"]
    /\ UNCHANGED <<child, follow, task, board, restore, inputs>>

(* Mutant of ResumeState: the task is always sent.                         *)
ResumeFresh(ch) == "fresh"

(* Where a sub-agent stands by its journal.                                *)
ResumeState(ch) ==
    IF ch.turns = 0 THEN "fresh" ELSE IF ch.state = "ended" THEN "ended" ELSE "running"

ResultOf(outcome) == IF outcome = "done" THEN "done" ELSE "error"

(* The tool opens the session of the sub-agent, new or again; one that has *)
(* ended gives its result, any other is followed, in the call or in a task.*)
Delegate(c) ==
    LET resume == ResumeState(child[c])
        opened == [child[c] EXCEPT !.up = TRUE, !.state = IF @ = "none" THEN "open" ELSE @]
    IN /\ call[c] = "outstanding" /\ follow[c].at = "none"
       /\ child' = [child EXCEPT ![c] = opened]
       /\ \/ /\ resume = "ended"
             /\ call' = [call EXCEPT ![c] = ResultOf(child[c].outcome)]
             /\ UNCHANGED <<follow, task>>
          \/ /\ resume # "ended"
             /\ follow' = [follow EXCEPT ![c] = [NoFollow EXCEPT !.at = "start", !.fresh = resume = "fresh"]]
             /\ IF c \in Fore THEN UNCHANGED <<call, task>>
                ELSE /\ task' = [task EXCEPT ![c] = NewTask]
                     /\ call' = [call EXCEPT ![c] = "started"]
       /\ UNCHANGED <<board, restore, inputs>>

(* A command starts as a task that declares that it may write, as a        *)
(* sub-agent does.                                                         *)
Launch(k) ==
    /\ call[k] = "outstanding"
    /\ task' = [task EXCEPT ![k] = NewTask]
    /\ call' = [call EXCEPT ![k] = "started"]
    /\ UNCHANGED <<child, follow, board, restore, inputs>>

-----------------------------------------------------------------------------
(* The sub-agent's own session.  Its events reach whoever subscribed.      *)
Feeds(c, e) ==
    IF follow[c].at \in {"pending", "watching"} THEN [follow EXCEPT ![c].feed = Append(@, e)] ELSE follow
Running(c) == child[c].up /\ child[c].state = "running"

Ask(c) ==
    /\ c \in Askers /\ Running(c) /\ child[c].q = "none"
    /\ child' = [child EXCEPT ![c].q = "open"]
    /\ follow' = Feeds(c, "asked")
    /\ UNCHANGED <<call, task, board, restore, inputs>>

(* Its own clients may answer.                                             *)
AnswerChild(c) ==
    /\ Running(c) /\ child[c].q = "open"
    /\ child' = [child EXCEPT ![c].q = "answered"]
    /\ follow' = Feeds(c, "answered")
    /\ UNCHANGED <<call, task, board, restore, inputs>>

Ends(c, outcome) == [child EXCEPT ![c].state = "ended", ![c].q = "none", ![c].outcome = outcome]

EndTurn(c) ==
    /\ Running(c) /\ child[c].q # "open"
    /\ \E outcome \in {"done", "failed"} : child' = Ends(c, outcome)
    /\ follow' = Feeds(c, "ended")
    /\ UNCHANGED <<call, task, board, restore, inputs>>

-----------------------------------------------------------------------------
(* Following a sub-agent.                                                  *)

(* What the follower returns is the call's result, or the task's output.   *)
Returns(c, outcome) ==
    IF c \in Fore THEN /\ call' = [call EXCEPT ![c] = ResultOf(outcome)]
                       /\ UNCHANGED task
    ELSE /\ task' = [task EXCEPT ![c].body = IF outcome = "done" THEN "ok" ELSE "err"]
         /\ UNCHANGED call

(* Subscribe, then send the task.                                          *)
FollowStart(c) ==
    /\ follow[c].at = "start"
    /\ \/ /\ follow[c].fresh
          /\ child' = [child EXCEPT ![c].state = "running", ![c].turns = @ + 1]
          /\ follow' = [follow EXCEPT ![c].at = "pending"]
          /\ UNCHANGED <<call, task>>
       \/ /\ ~follow[c].fresh /\ child[c].state = "ended"
          /\ follow' = [follow EXCEPT ![c] = [NoFollow EXCEPT !.at = "gone"]]
          /\ Returns(c, child[c].outcome)
          /\ UNCHANGED child
       \/ /\ ~follow[c].fresh /\ child[c].state # "ended"
          /\ follow' = [follow EXCEPT ![c].at = "pending"]
          /\ UNCHANGED <<call, task, child>>
    /\ UNCHANGED <<board, restore, inputs>>

(* Mutant of FollowPending: only questions to come are passed on.          *)
FollowPendingLive(c) ==
    /\ follow[c].at = "pending"
    /\ follow' = [follow EXCEPT ![c].at = "watching"]
    /\ UNCHANGED <<call, child, task, board, restore, inputs>>

(* Questions asked before it subscribed are passed on first.               *)
FollowPending(c) ==
    /\ follow[c].at = "pending"
    /\ follow' = [follow EXCEPT ![c].at = "watching", ![c].forwarded = child[c].q = "open"]
    /\ board' = IF child[c].q = "open" THEN [board EXCEPT ![c] = "open"] ELSE board
    /\ UNCHANGED <<call, child, task, restore, inputs>>

(* The events of the sub-agent, one by one.                                *)
SeesEvent(c) ==
    LET f    == follow[c]
        rest == [f EXCEPT !.feed = Tail(@)]
        e    == Head(f.feed)
    IN /\ f.at = "watching" /\ f.feed # <<>>
       /\ \/ /\ e = "asked"
             /\ follow' = [follow EXCEPT ![c] = [rest EXCEPT !.forwarded = TRUE]]
             /\ board' = IF f.forwarded THEN board ELSE [board EXCEPT ![c] = "open"]
             /\ UNCHANGED <<call, task>>
          \/ /\ e = "answered"
             /\ follow' = [follow EXCEPT ![c] = [rest EXCEPT !.forwarded = FALSE]]
             /\ board' = IF f.forwarded THEN [board EXCEPT ![c] = "none"] ELSE board
             /\ UNCHANGED <<call, task>>
          \/ /\ e = "ended"
             /\ follow' = [follow EXCEPT ![c] = [NoFollow EXCEPT !.at = "gone"]]
             /\ board' = IF f.forwarded THEN [board EXCEPT ![c] = "none"] ELSE board
             /\ Returns(c, child[c].outcome)
       /\ UNCHANGED <<child, restore, inputs>>

(* Whoever cancels a task has its sub-agent interrupted, once.             *)
Interrupts(c) ==
    /\ c \in Back /\ follow[c].at = "watching" /\ task[c].cancel /\ ~follow[c].interrupted
    /\ IF child[c].state = "running"
       THEN /\ child' = Ends(c, "interrupted")
            /\ follow' = [Feeds(c, "ended") EXCEPT ![c].interrupted = TRUE]
       ELSE /\ follow' = [follow EXCEPT ![c].interrupted = TRUE]
            /\ UNCHANGED child
    /\ UNCHANGED <<call, task, board, restore, inputs>>

(* A client of the parent answers, and that is relayed to the sub-agent.   *)
AnswerForwarded(c) ==
    /\ board[c] = "open"
    /\ board' = [board EXCEPT ![c] = "answered"]
    /\ UNCHANGED <<call, child, follow, task, restore, inputs>>
Relay(c) ==
    /\ board[c] = "answered" /\ Running(c) /\ child[c].q = "open"
    /\ child' = [child EXCEPT ![c].q = "answered"]
    /\ follow' = Feeds(c, "answered")
    /\ UNCHANGED <<call, task, board, restore, inputs>>

-----------------------------------------------------------------------------
(* The registry.                                                           *)
Finish(k, state, body) == task' = [task EXCEPT ![k].state = state, ![k].body = body]
Proceeds(k, state, cancel) == task' = [task EXCEPT ![k].state = state, ![k].cancel = cancel]
BodyEnded(k) == task[k].body \in {"ok", "err"}

(* The command of a task ends, by itself or because it is killed.          *)
CommandEnds(k) ==
    /\ k \in Cmds /\ task[k].body = "running"
    /\ \E body \in {"ok", "err"} : task' = [task EXCEPT ![k].body = body]
    /\ UNCHANGED <<call, child, follow, board, restore, inputs>>

(* Being cancelled comes before the end of the time, and that before the   *)
(* end of the body.                                                        *)
TaskCancelled(k) ==
    /\ task[k].state = "running" /\ task[k].cancel
    /\ Proceeds(k, "killing", TRUE)
    /\ UNCHANGED <<call, child, follow, board, restore, inputs>>
TaskDeadline(k) ==
    /\ k \in Cmds /\ task[k].state = "running" /\ ~task[k].cancel
    /\ Proceeds(k, "timing", TRUE)
    /\ UNCHANGED <<call, child, follow, board, restore, inputs>>
TaskEnds(k) ==
    /\ task[k].state = "running" /\ ~task[k].cancel /\ BodyEnded(k)
    /\ \/ task[k].body = "ok" /\ Proceeds(k, "storing", FALSE)
       \/ task[k].body = "ok" /\ Finish(k, "done", "ok")
       \/ task[k].body = "err" /\ Finish(k, "failed", "err")
    /\ UNCHANGED <<call, child, follow, board, restore, inputs>>
TaskStored(k) ==
    /\ task[k].state = "storing"
    /\ \E state \in {"done", "failed"} : Finish(k, state, "ok")
    /\ UNCHANGED <<call, child, follow, board, restore, inputs>>

(* Mutant of TaskStops: it waits for the body.                             *)
TaskStopsPatiently(k) ==
    /\ task[k].state \in {"killing", "timing"} /\ BodyEnded(k)
    /\ Finish(k, IF task[k].state = "killing" THEN "killed" ELSE "timedout", task[k].body)
    /\ UNCHANGED <<call, child, follow, board, restore, inputs>>

(* The body stops in time, or is dropped when the grace is over.           *)
TaskStops(k) ==
    /\ task[k].state \in {"killing", "timing"} /\ (BodyEnded(k) \/ k \in Slow)
    /\ Finish(k, IF task[k].state = "killing" THEN "killed" ELSE "timedout",
              IF BodyEnded(k) THEN task[k].body ELSE "dropped")
    /\ follow' = IF k \in Back /\ ~BodyEnded(k) THEN [follow EXCEPT ![k] = [NoFollow EXCEPT !.at = "dropped"]] ELSE follow
    /\ UNCHANGED <<call, child, board, restore, inputs>>

Kill(k) ==
    /\ Input /\ task[k].state \notin {"none"} \cup Final
    /\ task' = [task EXCEPT ![k].cancel = TRUE]
    /\ UNCHANGED <<call, child, follow, board, restore>>

-----------------------------------------------------------------------------
(* Interrupts, rewinds and crashes.                                        *)

(* A hard interrupt drops the calls in flight where they stand, with them  *)
(* whoever follows a sub-agent; the sub-agent, and the task that relays an *)
(* answer to it, go on.                                                    *)
HardInterrupt ==
    LET cut == {c \in Calls : call[c] = "outstanding"}
    IN /\ Input /\ cut # {}
       /\ call' = [c \in Calls |-> IF c \in cut THEN "cancelled" ELSE call[c]]
       /\ follow' = [c \in Children |-> IF c \in cut THEN [NoFollow EXCEPT !.at = "dropped"] ELSE follow[c]]
       /\ UNCHANGED <<child, task, board, restore>>

Writers == {k \in Tasks : task[k].state \notin {"none"} \cup Final}

(* Mutant of Rewind: the tasks are told to stop, and not waited for.       *)
RewindHastily ==
    /\ Input /\ restore.at = "none" /\ \A c \in Calls : call[c] # "outstanding"
    /\ restore' = [at |-> "stopping", waits |-> {}]
    /\ task' = [k \in Tasks |-> IF k \in Writers THEN [task[k] EXCEPT !.cancel = TRUE] ELSE task[k]]
    /\ UNCHANGED <<call, child, follow, board>>

(* A rewind of an idle session stops the tasks that write ...              *)
Rewind ==
    /\ Input /\ restore.at = "none" /\ \A c \in Calls : call[c] # "outstanding"
    /\ restore' = [at |-> "stopping", waits |-> Writers]
    /\ task' = [k \in Tasks |-> IF k \in Writers THEN [task[k] EXCEPT !.cancel = TRUE] ELSE task[k]]
    /\ UNCHANGED <<call, child, follow, board>>

(* ... and restores the workspace when they have.                          *)
Restores ==
    /\ restore.at = "stopping" /\ \A k \in restore.waits : Finished(k)
    /\ restore' = [at |-> "restoring", waits |-> {}]
    /\ UNCHANGED <<call, child, follow, task, board, inputs>>
Restored ==
    /\ restore.at = "restoring"
    /\ restore' = NoRestore
    /\ UNCHANGED <<call, child, follow, task, board, inputs>>

(* A crash leaves the journals.  The session recovers: calls of sub-agents *)
(* are run again, those that start a command are not, a restore is.        *)
Crash ==
    /\ Input
    /\ call' = [c \in Calls |-> IF c \in Cmds /\ call[c] = "outstanding" THEN "error" ELSE call[c]]
    /\ child' = [c \in Children |-> [child[c] EXCEPT !.up = FALSE]]
    /\ follow' = [c \in Children |-> NoFollow]
    /\ task' = [k \in Tasks |-> NoTask]
    /\ board' = [c \in Children |-> "none"]
    /\ restore' = IF restore.at = "none" THEN NoRestore ELSE [at |-> "stopping", waits |-> {}]

-----------------------------------------------------------------------------
Follows(c) == Delegate(c) \/ FollowStart(c) \/ FollowPending(c) \/ SeesEvent(c) \/ Interrupts(c)
Supervises(k) == TaskCancelled(k) \/ TaskEnds(k) \/ TaskStored(k) \/ TaskStops(k)

Next ==
    \/ \E c \in Calls : Dispatch(c)
    \/ \E c \in Children : \/ Follows(c) \/ Ask(c) \/ AnswerChild(c) \/ EndTurn(c)
                           \/ AnswerForwarded(c) \/ Relay(c)
    \/ \E k \in Cmds : Launch(k) \/ CommandEnds(k)
    \/ \E k \in Tasks : Supervises(k) \/ TaskDeadline(k) \/ Kill(k)
    \/ HardInterrupt \/ Rewind \/ Restores \/ Restored \/ Crash

Spec == Init /\ [][Next]_vars

(* Tasks of the process run on; sub-agents, users and commands may take as *)
(* long as they like.                                                      *)
LiveSpec ==
    /\ Spec
    /\ \A c \in Children : WF_vars(Follows(c)) /\ WF_vars(Relay(c))
    /\ \A k \in Tasks : WF_vars(Supervises(k))

-----------------------------------------------------------------------------
(* A sub-agent is given its task once, although its call is run again      *)
(* after every crash, and the call's result is the outcome of that turn.   *)
TaskOnce ==
    \A c \in Children :
        /\ child[c].turns <= 1
        /\ call[c] \in {"done", "error"} => child[c].state = "ended" /\ call[c] = ResultOf(child[c].outcome)

(* While the workspace is restored nothing writes to it that the registry  *)
(* knows of.                                                               *)
RewindQuiet ==
    restore.at = "restoring" =>
        \A k \in Tasks : task[k].body # "running" /\ ~(k \in Back /\ task[k].state # "none" /\ Running(k))

(* A question of a sub-agent reaches the board of its parent, as long as   *)
(* somebody follows it.                                                    *)
AsksShown ==
    \A c \in Askers :
        (follow[c].at = "watching" /\ child[c].q = "open")
            ~> (board[c] # "none" \/ child[c].q # "open" \/ follow[c].at # "watching")

(* Who kills a task, or has it time out, sees it end.                      *)
KillsEnd == \A k \in Tasks : task[k].cancel ~> (Finished(k) \/ task[k] = NoTask)

(* No sub-agent works that nobody follows.                                 *)
NoOrphans == \A c \in Children : Running(c) => follow[c].at \in {"start", "pending", "watching"}
=============================================================================
