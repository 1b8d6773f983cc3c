------------------------------- MODULE Kernel -------------------------------
(***************************************************************************)
(* The kernel (kernel/src/state.rs, decide.rs): a deterministic function   *)
(* from the session's state and one input to the next state and the        *)
(* effects to dispatch.                                                    *)
(*                                                                         *)
(* In the code `decide' drafts events, folds each with `evolve' into a     *)
(* clone of the state, and ends by stepping until nothing can be done      *)
(* without an input; the driver then journals the drafts and folds them    *)
(* again.  Here Decide(s, input) is that folded clone, with the effects to *)
(* dispatch in its field `out'.                                            *)
(*                                                                         *)
(* Effect ids are the numbers of State::next_n, which are never reused;    *)
(* the interrupt epoch in an EffectId adds nothing to them, because a hard *)
(* interrupt also clears `issued'.  Tool calls are numbers, in the order   *)
(* in which a reply lists them.                                            *)
(***************************************************************************)
EXTENDS Integers, FiniteSets, Sequences, FiniteSetsExt, SequencesExt, TLC

CONSTANTS
  Calls,             \* tool calls the model may make (positive numbers)
  Attr,              \* what each call is: see CallAttributes
  Hooked,            \* KernelConfig::hooked
  Unattended,        \* KernelConfig::unattended is set
  Disposable,        \* SecurityConfig::disposable_env
  MaxContinuations,  \* Budgets::max_continuations
  RewriteLimit,      \* rewrites after which a call is denied (3 in the code)
  StepLimit          \* steps that may follow one input (10000 in the code)

(* class: the effect class; reads, writes: the declared accesses;          *)
(* rings: the verdict of rings 1 to 3, where "policy" and "invariant" are  *)
(* Asks of that level; sandboxed: gate::runs_in_sandbox.                   *)
CallAttributes ==
  [class : {"pure", "local_write", "opaque", "network", "irreversible"},
   reads : SUBSET {"a", "b"}, writes : SUBSET {"a", "b"},
   rings : {"allow", "policy", "invariant", "deny"},
   sandboxed : BOOLEAN]

HookPoints == {"SessionStart", "UserSubmit", "PreSample", "PreTool", "PostTool", "Stop"}

ASSUME KernelAssumption ==
  /\ Calls \subseteq Nat \ {0} /\ IsFiniteSet(Calls)
  /\ Attr \in [Calls -> CallAttributes]
  /\ Hooked \subseteq HookPoints
  /\ {Unattended, Disposable} \subseteq BOOLEAN
  /\ {MaxContinuations, RewriteLimit} \subseteq Nat
  /\ StepLimit \in Nat \ {0}

-----------------------------------------------------------------------------
(* State.                                                                  *)

NoId == 0

(* Turn; cause "none" stands for State::turn = None.  pre_ckpt is an       *)
(* effect id while the checkpoint is pending.                              *)
NewTurn(cause) ==
  [cause |-> cause, sample |-> NoId, reply |-> "none", slots |-> <<>>,
   soft |-> FALSE, suspended |-> FALSE,
   submit |-> "none", presample |-> "none", stop |-> "none",
   pre_ckpt |-> "none", pre_ckpt_id |-> NoId, sp_ckpt |-> FALSE, executed_step |-> FALSE]

(* Slot.  `asked' is the level of the Ask a gate still carries, `approver' *)
(* (not in the code) who let the present form of the call through ring 5.  *)
NewSlot(c, in_reply) ==
  [call |-> c, gate |-> "unchecked", asked |-> "none", exec |-> "idle",
   rewrites |-> 0, in_reply |-> in_reply, result |-> FALSE, post |-> NoId,
   deferred |-> FALSE, approver |-> "none"]

(* State.  `pairs' stands for the context: tool_uses minus tool_results of *)
(* a call.  Of the last decision, `out' is Decision::effects, `outcome' how *)
(* a turn ended in it and `finish' whether the Finish effect is dispatched. *)
InitState ==
  [n |-> 1, issued |-> <<>>, held |-> {}, paused |-> FALSE,
   turn |-> NewTurn("none"), mailbox |-> {}, queue |-> <<>>,
   continuations |-> 0, questions |-> {}, restoring |-> NoId,
   session_gate |-> "none", spent |-> FALSE,
   pairs |-> [c \in Calls |-> 0], out |-> <<>>, finish |-> "none", outcome |-> "none"]

HasTurn(s) == s.turn.cause # "none"
Idle(s)    == ~HasTurn(s) /\ s.restoring = NoId

(* Calls of the recorded reply that have no result yet.                    *)
Open(s) == {c \in DOMAIN s.turn.slots : s.turn.slots[c].in_reply /\ ~s.turn.slots[c].result}

Busy(sl) == sl.exec = "running" \/ sl.post # NoId
Running(s) == \E c \in DOMAIN s.turn.slots : Busy(s.turn.slots[c])

SideEffecting(c) == Attr[c].class # "pure" \/ Attr[c].writes # {}

(* sched::conflicts, over the accesses of the calls in the two slots.      *)
Conflicts(c, d) ==
  LET a == Attr[c]
      b == Attr[d]
  IN \/ "opaque" \in {a.class, b.class}
     \/ /\ SideEffecting(c) /\ SideEffecting(d)
        /\ a.reads \cup a.writes = {} \/ b.reads \cup b.writes = {}
     \/ a.writes \cap (b.reads \cup b.writes) # {}
     \/ b.writes \cap a.reads # {}

NeedsCheckpoint(c) == Attr[c].class \in {"local_write", "opaque"} \/ Attr[c].writes # {}

-----------------------------------------------------------------------------
(* evolve: the events.                                                     *)

(* f, and g where f says nothing.                                          *)
Over(f, g) == [x \in DOMAIN f \cup DOMAIN g |-> IF x \in DOMAIN f THEN f[x] ELSE g[x]]

(* An effect: its kind, the point and ring of a gate (or what a checkpoint *)
(* is for), the calls it concerns and the level of the question it asks.   *)
Effect(kind, point, calls, level) ==
  [kind |-> kind, point |-> point, calls |-> calls, level |-> level]

Sample         == Effect("sample", "none", {}, "none")
Restore        == Effect("restore", "none", {}, "none")
Execute(calls) == Effect("execute", "none", calls, "none")
Checkpoint(of, calls) == Effect("checkpoint", of, calls, "none")
Hook(point, calls)         == Effect("hook", point, calls, "none")
Human(point, calls, level) == Effect("human", point, calls, level)

(* on_issued, for an effect already numbered `id'.                         *)
OnSample(s, id) ==
  [s EXCEPT !.turn = [@ EXCEPT !.sample = id, !.reply = "none", !.slots = <<>>,
                               !.presample = "none", !.stop = "none", !.sp_ckpt = FALSE,
                               !.pre_ckpt = "none", !.pre_ckpt_id = NoId, !.executed_step = FALSE]]

OnExecute(s, e) ==
  LET slots == s.turn.slots
      run   == [c \in e.calls |->
                  [IF c \in DOMAIN slots THEN slots[c] ELSE NewSlot(c, FALSE)
                     EXCEPT !.gate = "permitted", !.exec = "running"]]
  IN [s EXCEPT !.turn = [@ EXCEPT !.pre_ckpt = "none", !.pre_ckpt_id = NoId,
                                  !.executed_step = TRUE, !.slots = Over(run, slots)]]

OnCheckpoint(s, id, e) ==
  IF e.point = "safe_point"
    THEN [s EXCEPT !.turn.sp_ckpt = TRUE]
    ELSE [s EXCEPT !.turn = [@ EXCEPT !.pre_ckpt = "pending", !.pre_ckpt_id = id]]

(* The calls of a gate wait for its verdict; the questions it asks know it.*)
Awaiting(s, cs, gate) ==
  [s EXCEPT !.turn.slots = Over([c \in cs |-> [@[c] EXCEPT !.gate = gate]], @)]

Posting(s, id, cs) ==
  [s EXCEPT !.turn.slots = Over([c \in cs |-> [@[c] EXCEPT !.post = id, !.exec = "done"]], @)]

Asked(s, id, cs) ==
  [s EXCEPT !.questions = {[q EXCEPT !.gate = IF q.call \in cs THEN id ELSE @] : q \in @}]

OnGate(s, id, e) ==
  CASE e.point = "SessionStart" -> [s EXCEPT !.session_gate = "waiting"]
    [] e.point = "UserSubmit"   -> [s EXCEPT !.turn.submit = "waiting"]
    [] e.point = "PreSample"    -> Asked([s EXCEPT !.turn.presample = "waiting"], id, {NoId})
    [] e.point = "Stop"         -> [s EXCEPT !.turn.stop = "waiting"]
    [] e.point = "PostTool"     -> Posting(s, id, e.calls)
    [] e.point = "PreTool"      ->
         IF e.kind = "hook" THEN Awaiting(s, e.calls, "await_hook")
         ELSE Asked(Awaiting(s, e.calls, "await_human"), id, e.calls)

OnIssued(s, id, e) ==
  CASE e.kind = "restore"    -> [s EXCEPT !.restoring = id]
    [] e.kind = "sample"     -> OnSample(s, id)
    [] e.kind = "execute"    -> OnExecute(s, e)
    [] e.kind = "checkpoint" -> OnCheckpoint(s, id, e)
    [] e.kind \in {"hook", "human"} -> OnGate(s, id, e)

(* Cx::issue: journal the effect; dispatch it unless paused.               *)
Issue(s, e) ==
  LET id  == s.n
      one == [x \in {id} |-> e]
  IN OnIssued([s EXCEPT !.n = id + 1, !.issued = Over(one, @),
                        !.held = IF s.paused THEN @ \cup {id} ELSE @,
                        !.out = IF s.paused THEN @ ELSE Over(one, @)], id, e)

Forget(s, ids) ==
  [s EXCEPT !.issued = Restrict(@, DOMAIN @ \ ids), !.held = @ \ ids]

(* Mutant of Settle: the batch goes on waiting for its checkpoint.         *)
SettleIssuedOnly(s, id) ==
  [Forget(s, {id}) EXCEPT !.restoring = IF @ = id THEN NoId ELSE @,
                          !.turn.sample = IF @ = id THEN NoId ELSE @]

(* EffectSettled.                                                          *)
Settle(s, id) ==
  LET f == Forget(s, {id})
  IN [f EXCEPT !.restoring = IF @ = id THEN NoId ELSE @,
               !.turn.sample = IF @ = id THEN NoId ELSE @,
               !.turn.pre_ckpt = IF s.turn.pre_ckpt_id = id THEN "done" ELSE @,
               !.turn.pre_ckpt_id = IF @ = id THEN NoId ELSE @]

(* ToolResulted: the result of an early call waits for its reply.          *)
Resulted(sl) ==
  [sl EXCEPT !.result = TRUE, !.exec = "done", !.post = NoId, !.deferred = ~sl.in_reply]

ToolsResulted(s, cs) ==
  LET slots == s.turn.slots
  IN [s EXCEPT !.turn.slots = [c \in DOMAIN slots |-> IF c \in cs THEN Resulted(slots[c]) ELSE slots[c]],
               !.pairs = [c \in Calls |-> IF c \in cs /\ slots[c].in_reply THEN @[c] - 1 ELSE @[c]]]

ToolResulted(s, c) == ToolsResulted(s, {c})

CloseOpen(s) == ToolsResulted(s, Open(s))

(* TurnEnded, then the Finish effect: numbered, but neither outstanding    *)
(* nor held.                                                               *)
Finish(s, outcome) ==
  [s EXCEPT !.n = @ + 1, !.outcome = outcome, !.finish = IF s.paused THEN "kept" ELSE "sent"]

EndTurn(s, outcome) ==
  LET gone == {id \in DOMAIN s.issued : s.issued[id].kind \notin {"checkpoint", "restore"}}
      over == [Forget(s, gone) EXCEPT !.turn = NewTurn("none"), !.questions = {},
                 !.session_gate = IF @ = "waiting" THEN "none" ELSE @]
  IN Finish(over, outcome)

Suspend(s) == Finish([s EXCEPT !.turn.suspended = TRUE], "suspended")

FailTurn(s) == EndTurn(CloseOpen(s), "failed")

(* Interrupted { hard: true }.                                             *)
Stopped(sl) == [sl EXCEPT !.post = NoId, !.exec = IF @ = "running" THEN "idle" ELSE @]

StoppedTurn(t) ==
  [t EXCEPT !.sample = NoId, !.soft = TRUE, !.slots = [c \in DOMAIN @ |-> Stopped(@[c])]]

HardInterrupted(s) ==
  [Forget(s, DOMAIN s.issued) EXCEPT
     !.questions = {},
     !.session_gate = IF @ = "waiting" THEN "none" ELSE @,
     !.turn = IF HasTurn(s) THEN StoppedTurn(@) ELSE @]

(* on_turn_started.                                                        *)
Without(q, item) == LET at == SelectInSeq(q, LAMBDA x : x = item)
                    IN IF at = 0 THEN q ELSE RemoveAt(q, at)

Reopened(sl) ==
  IF ~sl.result /\ sl.gate \in {"deferred", "await_nobody", "need_human"}
    THEN [sl EXCEPT !.gate = "unchecked"] ELSE sl

TurnStarted(s, cause) ==
  IF cause = "continuation" /\ s.turn.suspended
    THEN [s EXCEPT !.turn.suspended = FALSE,
                   !.turn.slots = [c \in DOMAIN @ |-> Reopened(@[c])],
                   !.questions = {q \in @ : q.gate # NoId}]
    ELSE [s EXCEPT !.turn = NewTurn(cause), !.questions = {},
                   !.continuations = IF cause \in {"user", "queued"} THEN 0 ELSE @ + 1,
                   !.queue = CASE cause = "queued" -> Without(@, "user")
                               [] cause = "wake" -> Without(@, "wake")
                               [] OTHER -> @]

(* Mutant of OnReply: a result that came early is not written.             *)
OnReplyForgetful(s, calls, interrupted) ==
  LET slots == s.turn.slots
  IN [s EXCEPT !.turn.sample = NoId,
               !.turn.reply = IF interrupted THEN "interrupted" ELSE IF calls = {} THEN "text" ELSE "calls",
               !.turn.slots = [c \in calls |-> IF c \in DOMAIN slots
                                                 THEN [slots[c] EXCEPT !.in_reply = TRUE] ELSE NewSlot(c, TRUE)],
               !.pairs = [c \in Calls |-> IF c \in calls THEN @[c] + 1 ELSE @[c]]]

(* on_reply: the reply's calls get their slots, early calls it does not    *)
(* contain are forgotten, and results that came early enter the context.   *)
OnReply(s, calls, interrupted) ==
  LET slots == s.turn.slots
      slot(c) == IF c \in DOMAIN slots
                   THEN [slots[c] EXCEPT !.in_reply = TRUE, !.deferred = FALSE]
                   ELSE NewSlot(c, TRUE)
      early(c) == c \in DOMAIN slots /\ slots[c].deferred
  IN [s EXCEPT !.turn.sample = NoId,
               !.turn.reply = CASE interrupted -> "interrupted"
                                [] ~interrupted /\ calls # {} -> "calls"
                                [] ~interrupted /\ calls = {} -> "text",
               !.turn.slots = [c \in calls |-> slot(c)],
               !.pairs = [c \in Calls |-> IF c \in calls /\ ~early(c) THEN @[c] + 1 ELSE @[c]]]

(* on_verdict for a call: rings 1 to 3, a PreTool hook, a human.           *)
RingsVerdict(sl, verdict) ==
  LET hooked == "PreTool" \in Hooked
  IN CASE verdict = "deny"  -> [sl EXCEPT !.gate = "closed"]
       [] verdict = "allow" -> [sl EXCEPT !.gate = IF hooked THEN "need_hook" ELSE "permitted",
                                          !.asked = "none"]
       [] OTHER             -> [sl EXCEPT !.gate = IF hooked THEN "need_hook" ELSE "need_human",
                                          !.asked = verdict]

(* Mutant of Rewritten: what a rewrite proposes is not judged again.       *)
RewrittenUnjudged(sl, call) ==
  [sl EXCEPT !.call = call, !.rewrites = @ + 1, !.gate = "permitted"]

Rewritten(sl, call) ==
  [sl EXCEPT !.call = call, !.rewrites = @ + 1, !.gate = "unchecked", !.approver = "none"]

HookVerdict(sl, v) ==
  CASE v.tag = "deny"    -> [sl EXCEPT !.gate = "closed"]
    [] v.tag = "defer"   -> [sl EXCEPT !.gate = "deferred"]
    [] v.tag = "rewrite" -> Rewritten(sl, v.call)
    [] v.tag = "ask"     -> [sl EXCEPT !.gate = "need_human",
                                       !.asked = IF @ = "none" THEN "policy" ELSE @]
    [] v.tag = "allow"   -> [sl EXCEPT !.gate = IF sl.asked = "none" THEN "permitted" ELSE "need_human"]

HumanVerdict(sl, v) ==
  CASE v.tag = "allow"   -> [sl EXCEPT !.gate = "permitted", !.approver = v.by]
    [] v.tag = "deny"    -> [sl EXCEPT !.gate = "closed"]
    [] v.tag = "defer"   -> [sl EXCEPT !.gate = "deferred"]
    [] v.tag = "rewrite" -> Rewritten(sl, v.call)

(* A verdict about a call that already has its result changes nothing.     *)
Unresulted(s, cs) == {c \in cs \cap DOMAIN s.turn.slots : ~s.turn.slots[c].result}

Judged(s, e, v) ==
  LET slots == s.turn.slots
      op(sl) == IF e.kind = "hook" THEN HookVerdict(sl, v) ELSE HumanVerdict(sl, v)
  IN [s EXCEPT !.turn.slots =
        [c \in DOMAIN slots |-> IF c \in Unresulted(s, e.calls) THEN op(slots[c]) ELSE slots[c]]]

-----------------------------------------------------------------------------
(* advance: what the kernel does without a further input.                  *)

Slot(s, c) == s.turn.slots[c]

(* gate::evaluate, on the facts the kernel has of a call.                  *)
Evaluate(s, sl) ==
  IF sl.rewrites > RewriteLimit \/ s.spent THEN "deny" ELSE Attr[sl.call].rings

Question(c, level) == [call |-> c, level |-> level, gate |-> NoId]

(* Ring 5: ask, unless nobody is there to answer at invariant level.       *)
HumanGate(s, c) ==
  LET sl     == Slot(s, c)
      nobody == Unattended /\ sl.asked = "invariant"
      asked  == [s EXCEPT !.questions = @ \cup {Question(c, sl.asked)},
                          !.turn.slots[c].gate = "await_nobody"]
  IN CASE nobody /\ Disposable /\ Attr[sl.call].sandboxed ->
            [s EXCEPT !.turn.slots[c] = HumanVerdict(@, [tag |-> "allow", by |-> "env"])]
       [] nobody /\ ~(Disposable /\ Attr[sl.call].sandboxed) -> Suspend(asked)
       [] ~nobody -> Issue(asked, Human("PreTool", {c}, sl.asked))

GateStep(s, c) ==
  LET sl == Slot(s, c)
  IN CASE sl.gate = "unchecked"  -> [s EXCEPT !.turn.slots[c] = RingsVerdict(@, Evaluate(s, sl))]
       [] sl.gate = "need_hook"  -> Issue(s, Hook("PreTool", {c}))
       [] sl.gate = "need_human" -> HumanGate(s, c)
       [] sl.gate = "closed"     -> ToolResulted(s, c)

(* An interrupted turn: close what is not running, wait for the rest.      *)
WindDown(s) ==
  LET idle == {c \in Open(s) : ~Busy(Slot(s, c))}
  IN CASE idle # {} -> ToolResulted(s, Min(idle))
       [] idle = {} /\ (s.turn.sample # NoId \/ Running(s)) -> s
       [] OTHER -> EndTurn(s, "interrupted")

(* Mutant of NextBatch: the whole reply runs at once.                      *)
WholeReply(s, ready) == ready

(* sched::next_batch: a call joins unless it conflicts with an earlier one.*)
NextBatch(s, ready) ==
  {c \in ready : \A d \in ready : d < c => ~Conflicts(Slot(s, c).call, Slot(s, d).call)}

(* Mutant of RunBatch: the checkpoint is taken, but not waited for.        *)
RunBatchMeanwhile(s, batch) ==
  IF (\E c \in batch : NeedsCheckpoint(Slot(s, c).call)) /\ s.turn.pre_ckpt = "none"
    THEN Issue(s, Checkpoint("batch", batch))
    ELSE Issue(s, Execute(batch))

RunBatch(s, batch) ==
  IF \E c \in batch : NeedsCheckpoint(Slot(s, c).call)
    THEN CASE s.turn.pre_ckpt = "pending" -> s
           [] s.turn.pre_ckpt = "none"    -> Issue(s, Checkpoint("batch", batch))
           [] s.turn.pre_ckpt = "done"    -> Issue(s, Execute(batch))
    ELSE Issue(s, Execute(batch))

StopStep(s) ==
  CASE "Stop" \in Hooked /\ s.turn.stop = "none"    -> Issue(s, Hook("Stop", {}))
    [] "Stop" \in Hooked /\ s.turn.stop = "waiting" -> s
    [] OTHER -> EndTurn(s, "done")

(* Safe point: deliver the mailbox, checkpoint, check the budget, sample.  *)
PrepareAndSample(s) ==
  LET t == s.turn
      delivered == [s EXCEPT !.mailbox = {}]
      safe == IF t.executed_step /\ ~t.sp_ckpt
                THEN Issue(delivered, Checkpoint("safe_point", {})) ELSE delivered
  IN CASE "SessionStart" \in Hooked /\ s.session_gate = "none" ->
            Issue(s, Hook("SessionStart", {}))
       [] /\ ~("SessionStart" \in Hooked /\ s.session_gate = "none")
          /\ "UserSubmit" \in Hooked /\ t.cause \in {"user", "queued"} /\ t.submit = "none" ->
            Issue(s, Hook("UserSubmit", {}))
       [] OTHER ->
            IF safe.spent THEN EndTurn(safe, "budget")
            ELSE IF "PreSample" \in Hooked /\ t.presample = "none"
              THEN Issue(safe, Hook("PreSample", {}))
            ELSE Issue(safe, Sample)

(* Mutant of IdleStep: a wake without budget waits.                        *)
IdleStepWaiting(s) ==
  LET next == SelectInSeq(s.queue, LAMBDA item : item = "user" \/ s.continuations < MaxContinuations)
  IN IF next = 0 THEN s ELSE TurnStarted(s, IF s.queue[next] = "user" THEN "queued" ELSE "wake")

(* Between turns: drop a wake nothing can give a budget to, else start the *)
(* first item of the queue that may start.                                 *)
IdleStep(s) ==
  LET can_wake == s.continuations < MaxContinuations
      next == SelectInSeq(s.queue, LAMBDA item : item = "user" \/ can_wake)
  IN CASE next # 0 -> TurnStarted(s, IF s.queue[next] = "user" THEN "queued" ELSE "wake")
       [] next = 0 -> [s EXCEPT !.queue = Without(@, "wake")]

(* Some call without a result waits for a hook, a human, or is deferred.   *)
GateIn(s, tags) == \E c \in DOMAIN s.turn.slots : ~Slot(s, c).result /\ Slot(s, c).gate \in tags

AwaitsVerdict(s) == GateIn(s, {"await_hook", "await_human", "await_nobody"})

(* The model has answered without calls, and no steer of the user waits.   *)
Finishing(s) == s.turn.reply = "text" /\ "steer" \notin s.mailbox

(* One step; a state it does not change is quiescent.                      *)
Step(s) ==
  LET t     == s.turn
      togate == {c \in Open(s) : Slot(s, c).gate \in {"unchecked", "need_hook", "need_human", "closed"}}
      ready == {c \in Open(s) : Slot(s, c).gate = "permitted" /\ Slot(s, c).exec = "idle"}
  IN IF s.restoring # NoId \/ t.suspended THEN s
     ELSE IF ~HasTurn(s) THEN IdleStep(s)
     ELSE IF t.soft \/ t.reply = "interrupted" THEN WindDown(s)
     ELSE IF togate # {} THEN GateStep(s, Min(togate))
     ELSE IF t.sample # NoId THEN s
     ELSE IF "waiting" \in {t.submit, t.presample, t.stop, s.session_gate} THEN s
     ELSE IF GateIn(s, {"deferred"}) THEN Suspend(s)
     ELSE IF AwaitsVerdict(s) THEN s
     ELSE IF ready # {} THEN (IF Running(s) THEN s ELSE RunBatch(s, NextBatch(s, ready)))
     ELSE IF Running(s) THEN s
     ELSE IF Finishing(s) THEN StopStep(s)
     ELSE PrepareAndSample(s)

(* Steps until one changes nothing, at most StepLimit.                     *)
Advance(s) ==
  LET run[i \in 0..StepLimit] ==
        IF i = 0 THEN [at |-> s, moves |-> TRUE]
        ELSE LET last == run[i - 1]
                 next == Step(last.at)
             IN IF last.moves THEN [at |-> next, moves |-> next # last.at] ELSE last
  IN run[StepLimit].at

-----------------------------------------------------------------------------
(* Signals and controls.                                                   *)

Pending(s, sig) ==
  CASE sig \in {"submit", "queue"} -> [s EXCEPT !.queue = Append(@, "user")]
    [] sig = "wake"                -> [s EXCEPT !.queue = Append(@, "wake")]
    [] sig \in {"steer", "notify"} -> [s EXCEPT !.mailbox = @ \cup {sig}]

(* A wake without continuation budget is rejected.                         *)
Rejected(s, sig) == sig = "wake" /\ Idle(s) /\ s.continuations >= MaxContinuations

Signal(s, sig) ==
  CASE Idle(s) /\ sig \in {"submit", "queue", "steer"} -> TurnStarted(s, "user")
    [] Idle(s) /\ sig = "wake" -> TurnStarted(s, "wake")
    [] sig = "submit" /\ s.turn.suspended -> TurnStarted(CloseOpen(s), "user")
    [] OTHER -> Pending(s, sig)

SoftInterrupt(s) ==
  IF HasTurn(s) /\ ~s.turn.suspended THEN [s EXCEPT !.turn.soft = TRUE] ELSE s

HardInterrupt(s) ==
  CASE s.restoring # NoId -> s
    [] s.restoring = NoId /\ ~HasTurn(s) -> HardInterrupted(s)
    [] s.restoring = NoId /\ HasTurn(s)  -> EndTurn(CloseOpen(HardInterrupted(s)), "interrupted")

Pause(s) == [s EXCEPT !.paused = TRUE]

Resume(s) ==
  CASE s.paused -> [s EXCEPT !.paused = FALSE, !.held = {},
                             !.out = Restrict(s.issued, s.held \cap DOMAIN s.issued)]
    [] ~s.paused /\ s.turn.suspended -> TurnStarted(s, "continuation")
    [] OTHER -> s

(* Rewind: only between turns.                                             *)
Rewind(s) == IF Idle(s) THEN Issue(s, Restore) ELSE s

-----------------------------------------------------------------------------
(* Completions.                                                            *)

(* An invariant-level approval needs someone who may give it.              *)
CheckHuman(s, e, v) ==
  LET ok == \/ v.by = "human"
            \/ v.by = "env" /\ \A c \in e.calls : Attr[Slot(s, c).call].sandboxed
            \/ v.by = "code" /\ ~Unattended
  IN IF e.kind = "human" /\ e.level = "invariant" /\ ~ok THEN [v EXCEPT !.tag = "deny"] ELSE v

(* after_turn_verdict, with what on_verdict folds for a turn's gate.       *)
TurnVerdict(s, e, v) ==
  LET again == s.continuations < MaxContinuations
  IN CASE e.point = "SessionStart" -> [s EXCEPT !.session_gate = "passed"]
       [] e.point = "UserSubmit" ->
            IF v.tag = "deny" THEN EndTurn(s, "failed") ELSE [s EXCEPT !.turn.submit = "passed"]
       [] e.point = "PreSample" ->
            (CASE v.tag = "allow" -> [s EXCEPT !.turn.presample = "passed"]
               [] v.tag = "ask" /\ e.kind = "hook" ->
                    Issue([s EXCEPT !.questions = @ \cup {Question(NoId, "policy")}],
                          Human("PreSample", {}, "policy"))
               [] OTHER -> FailTurn(s))
       [] e.point = "Stop" ->
            IF v.tag \in {"continue", "deny"} /\ again
              THEN [s EXCEPT !.turn.stop = "passed", !.turn.reply = "none", !.continuations = @ + 1]
              ELSE [s EXCEPT !.turn.stop = "passed"]

Gated(s, e, verdict) ==
  LET v == CheckHuman(s, e, verdict)
      asked == {q \in s.questions : q.call \in e.calls \/ (e.calls = {} /\ q.call = NoId)}
      a == IF e.kind = "human" THEN [s EXCEPT !.questions = @ \ asked] ELSE s
  IN CASE e.point = "PreTool"  -> Judged(a, e, v)
       [] e.point = "PostTool" -> ToolsResulted(a, Unresulted(a, e.calls))
       [] OTHER -> TurnVerdict(a, e, v)

(* The results of a batch, through the PostTool hook if there is one.      *)
Executed(s, e) ==
  LET open == Unresulted(s, e.calls)
      last == Max({0} \cup open)
      delivered[c \in 0..last] ==
        IF c = 0 THEN s
        ELSE IF c \in open THEN Issue(delivered[c - 1], Hook("PostTool", {c}))
        ELSE delivered[c - 1]
  IN IF "PostTool" \in Hooked /\ ~s.turn.soft THEN delivered[last] ELSE ToolsResulted(s, open)

OnFailed(s, e) ==
  CASE e.kind = "execute" ->
         FailTurn(ToolsResulted(s, Unresulted(s, e.calls)))
    [] e.kind = "sample" -> FailTurn(s)
    [] e.kind \in {"hook", "human"} ->
         Gated(s, e, [tag |-> IF e.point \in {"PreSample", "PreTool"} THEN "deny" ELSE "allow",
                      by |-> "kernel", call |-> NoId])
    [] e.kind \in {"checkpoint", "restore"} -> s

(* The completion of an effect that is no longer outstanding is ignored.   *)
Completed(s, id, r) ==
  LET e == s.issued[id]
      d == Settle(s, id)
  IN CASE r.tag = "failed" -> OnFailed(d, e)
       [] r.tag = "sampled" -> OnReply([d EXCEPT !.spent = @ \/ r.spent], r.calls, r.interrupted)
       [] r.tag = "executed" -> Executed(d, e)
       [] r.tag = "gated" -> Gated(d, e, r.verdict)
       [] r.tag \in {"checkpointed", "restored"} -> d

(* A call block finished while the reply still streams: it may start early *)
(* if it is read-only and nobody has to be asked.                          *)
MayStartEarly(s, id, c) ==
  /\ HasTurn(s) /\ s.turn.sample = id /\ ~s.turn.soft /\ ~s.turn.suspended
  /\ c \notin DOMAIN s.turn.slots
  /\ ~SideEffecting(c)
  /\ "PreTool" \notin Hooked
  /\ Evaluate(s, NewSlot(c, FALSE)) = "allow"

-----------------------------------------------------------------------------
(* decide: one input, then everything that follows from it.                *)

Decide(s, input) ==
  LET fresh == [s EXCEPT !.out = <<>>, !.finish = "none", !.outcome = "none"]
  IN Advance(
       CASE input.tag = "signal"   -> Signal(fresh, input.signal)
         [] input.tag = "soft"     -> SoftInterrupt(fresh)
         [] input.tag = "hard"     -> HardInterrupt(fresh)
         [] input.tag = "pause"    -> Pause(fresh)
         [] input.tag = "resume"   -> Resume(fresh)
         [] input.tag = "rewind"   -> Rewind(fresh)
         [] input.tag = "streamed" -> Issue(fresh, Execute({input.call}))
         [] OTHER                  -> Completed(fresh, input.id, input))
=============================================================================
