------------------------------ MODULE Context ------------------------------
(* The model's context: what of the journal the next request shows, how it *)
(* is shortened (trims, summaries, the way out of an overflow), and what    *)
(* model switches, configuration changes, rewinds and erasures do to it.    *)
(* One turn at a time; gates, batches and the rest of a turn are Kernel's.  *)
EXTENDS Integers, SequencesExt, FiniteSetsExt, Functions, TLC

CONSTANTS Calls,        \* calls a reply may make
          Files,        \* instruction files, numbered broadest first
          Models,       \* the configured model and its fallbacks, in order
          Sources,      \* sources of untrusted tool output
          Hooked,       \* is there a PreCompact hook?
          MidSequence,  \* does the model take updates within a sequence?
          Window,       \* of the model, in tokens
          Pressure,     \* usage above it is relieved before sampling
          KeepRecent,   \* tokens of the verbatim tail
          FileBudget,   \* files of instructions that fit
          Skew,         \* by how much the provider counts more than the estimate
          ResultTokens, \* of an untrimmed tool result; 1 when trimmed
          Inputs,       \* kinds of inputs the users of this instance send
          MaxSeq, MaxInputs

ASSUME ContextAssumption ==
    /\ Calls \subseteq Nat /\ IsFiniteSet(Calls) /\ Files \in Nat
    /\ Models \in Seq(STRING) /\ Models # <<>>
    /\ {Window, Pressure, KeepRecent, FileBudget, Skew, MaxSeq, MaxInputs} \subseteq Nat
    /\ ResultTokens \in {1, 2} /\ {Hooked, MidSequence} \subseteq BOOLEAN

VARIABLES k,         \* the kernel's state, as far as it concerns the context
          was,       \* the context right after each event (for the properties)
          refused    \* the request last refused as too long, in this turn
vars == <<k, was, refused>>

Paths == 1..Files
NoTurn == [on |-> FALSE, cause |-> "user", out |-> "none", plan |-> <<0, 0, 0>>, overflows |-> FALSE, relief |-> FALSE,
           overflow |-> FALSE, compacted |-> FALSE, pre |-> "none", open |-> {}, early |-> <<>>]
NewTurn(cause) == [NoTurn EXCEPT !.on = TRUE, !.cause = cause]
NotRefused == [tokens |-> 0, added |-> 0]
NoConfig == [model |-> "none", static |-> 0]

(***************************************************************************)
(* Entries and the projection.                                             *)
(*                                                                         *)
(* An entry shows the bodies of the events in text; covers are the events  *)
(* it stands for.  A tool result that came before its reply has the        *)
(* smaller number and the later place.                                     *)
(***************************************************************************)
Entry(s, kind, opens, closes, tokens, labels) ==
    [seq |-> s.seq, id |-> s.seq, kind |-> kind, opens |-> opens, closes |-> closes, tokens |-> tokens,
     format |-> s.head.model, text |-> {s.seq}, covers |-> {s.seq}, labels |-> labels,
     source |-> TRUE, trimmed |-> FALSE, erased |-> FALSE]

EraseEntry(e) == [e EXCEPT !.text = {}, !.source = FALSE, !.trimmed = TRUE, !.erased = TRUE]

InRange(e, rep) == rep.lo <= e.seq /\ e.seq <= rep.hi
OneToOne(rep, removed) == rep.kind \in {"rerender", "trim"} /\ Len(rep.content) = Len(removed)

(* The entry in place of e.                                                *)
Redone(e, rep, r) ==
    [e EXCEPT !.tokens = r.tokens, !.format = r.format, !.text = r.text,
              !.source = @ /\ rep.kind = "rerender", !.trimmed = @ \/ rep.kind # "rerender"]

(* The summary in place of the removed entries.                            *)
Summarised(id, rep, removed) ==
    [i \in 1..Len(rep.content) |->
        [seq |-> rep.lo, id |-> id, kind |-> "summary",
         opens |-> {}, closes |-> {}, tokens |-> rep.content[i].tokens, format |-> rep.content[i].format,
         text |-> rep.content[i].text, covers |-> UNION {removed[j].covers : j \in DOMAIN removed},
         labels |-> rep.labels, source |-> FALSE, trimmed |-> TRUE, erased |-> FALSE]]

ApplyReplacement(ctx, id, rep) ==
    LET idxs    == {i \in DOMAIN ctx : InRange(ctx[i], rep)}
        removed == SelectSeq(ctx, LAMBDA e : InRange(e, rep))
        rest    == SelectSeq(ctx, LAMBDA e : ~InRange(e, rep))
        new     == IF OneToOne(rep, removed)
                   THEN [i \in DOMAIN removed |-> Redone(removed[i], rep, rep.content[i])]
                   ELSE Summarised(id, rep, removed)
    IN IF idxs = {} THEN ctx
       ELSE SubSeq(rest, 1, Min(idxs) - 1) \o new \o SubSeq(rest, Min(idxs), Len(rest))

Step(ctx, op) == IF op.replace THEN ApplyReplacement(ctx, op.seq, op.rep) ELSE Append(ctx, op.entry)

(* The context as the operations up to an event and off the abandoned      *)
(* branches make it.                                                       *)
Project(s, until) ==
    LET live == SelectSeq(s.ops, LAMBDA op : op.seq \notin s.gone /\ op.seq <= until)
        ctx  == FoldLeft(Step, <<>>, live)
    IN [i \in DOMAIN ctx |-> IF ctx[i].id \in s.erased /\ ~ctx[i].erased THEN EraseEntry(ctx[i]) ELSE ctx[i]]

Appended(s, e) ==
    [s EXCEPT !.ops = Append(@, [replace |-> FALSE, seq |-> e.seq, entry |-> e]), !.ctx = Append(@, e)]
Visible(s, kind, opens, closes, tokens, labels) ==
    [Appended(s, Entry(s, kind, opens, closes, tokens, labels)) EXCEPT !.seq = @ + 1]

Replaced(s, rep) ==
    [s EXCEPT !.ops = Append(@, [replace |-> TRUE, seq |-> s.seq, rep |-> rep]),
              !.ctx = ApplyReplacement(@, s.seq, rep), !.seq = @ + 1, !.skew = 0,
              !.turn.relief = s.turn.on, !.turn.compacted = @ \/ (s.turn.on /\ rep.kind = "summary")]

(***************************************************************************)
(* Planning a shorter context.  A result belongs to the group before it.   *)
(***************************************************************************)
Tokens(ctx, a, b) == FoldFunctionOnSet(+, 0, [i \in DOMAIN ctx |-> ctx[i].tokens], a..b)
Usage(s) == Tokens(s.ctx, 1, Len(s.ctx)) + s.skew
Groups(ctx) == {i \in DOMAIN ctx : ctx[i].kind # "result" \/ i = 1}

(* Where the verbatim tail starts; the last group is always in it.         *)
TailStart(ctx, keep) ==
    IF ctx = <<>> THEN 1
    ELSE Min({Max(Groups(ctx))} \cup {g \in Groups(ctx) : Tokens(ctx, g, Len(ctx)) <= keep})

Superseded(ctx, i) == ctx[i].kind = "snapshot" /\ \E j \in i+1..Len(ctx) : ctx[j].kind = "snapshot"
Trimmable(ctx, i) == ctx[i].kind = "result" /\ ~ctx[i].trimmed /\ ctx[i].tokens > 1
OwnSeq(ctx, i) == \A j \in DOMAIN ctx \ {i} : ctx[j].seq # ctx[i].seq

TrimOf(e) == [kind |-> "trim", lo |-> e.seq, hi |-> e.seq, sources |-> {e.id}, labels |-> e.labels,
              content |-> IF e.kind = "snapshot" THEN <<>>
                          ELSE <<[tokens |-> 1, format |-> e.format, text |-> e.text]>>]
PlanTrims(s, forced) ==
    LET end  == IF s.ctx = <<>> THEN 1 ELSE IF forced THEN Max(Groups(s.ctx)) ELSE TailStart(s.ctx, KeepRecent)
        idxs == {i \in 1..end-1 : OwnSeq(s.ctx, i) /\ (Superseded(s.ctx, i) \/ Trimmable(s.ctx, i))}
    IN [i \in 1..Cardinality(idxs) |-> TrimOf(s.ctx[SetToSortSeq(idxs, <)[i]])]

(* A plan is <<lo, hi, entries>>: the first entries of the context, by the *)
(* range of their numbers.                                                 *)
NoPlan == <<0, 0, 0>>

(* Mutant of PlanFrom: the range runs from the first to the last entry.    *)
PlanFromEnds(ctx, upto) ==
    IF upto = 0 THEN NoPlan ELSE <<ctx[1].seq, ctx[upto].seq, upto>>

PlanFrom(ctx, upto) ==
    IF upto = 0 \/ (upto = 1 /\ ctx[1].kind = "summary") THEN NoPlan
    ELSE LET seqs == {ctx[i].seq : i \in 1..upto} IN <<Min(seqs), Max(seqs), upto>>

PlanSummary(s) == PlanFrom(s.ctx, TailStart(s.ctx, KeepRecent) - 1)
PlanAll(s)     == PlanFrom(s.ctx, Len(s.ctx))

(* The earliest segment: groups up to half a window, never the last.       *)
PlanOverflowSegment(s) ==
    LET ends == {g - 1 : g \in Groups(s.ctx) \ {1}}
    IN IF ends = {} THEN NoPlan
       ELSE PlanFrom(s.ctx, Max({Min(ends)} \cup {e \in ends : Tokens(s.ctx, 1, e) <= Window \div 2}))

(***************************************************************************)
(* Request sequences, models and the configuration.                        *)
(***************************************************************************)
Rerender(s) ==
    [kind |-> "rerender", lo |-> Min({s.ctx[i].seq : i \in DOMAIN s.ctx}), hi |-> Max({s.ctx[i].seq : i \in DOMAIN s.ctx}),
     sources |-> {s.ctx[i].id : i \in DOMAIN s.ctx}, labels |-> UNION {s.ctx[i].labels : i \in DOMAIN s.ctx},
     content |-> [i \in DOMAIN s.ctx |->
                    [tokens |-> s.ctx[i].tokens, text |-> s.ctx[i].text,
                     format |-> IF s.ctx[i].source THEN s.head.model ELSE s.ctx[i].format]]]

OpenSequence(s, rerender) ==
    LET opened == [s EXCEPT !.head = [model |-> s.model, static |-> s.config.static], !.skew = 0]
    IN IF rerender /\ s.ctx # <<>> THEN Replaced(opened, Rerender(opened)) ELSE opened

SwitchTo(s, model) == OpenSequence([s EXCEPT !.model = model], TRUE)

ApplyConfig(s, new) ==
    LET set == [s EXCEPT !.config = new, !.model = new.model, !.pending = NoConfig]
    IN CASE new.model # s.head.model -> OpenSequence(set, TRUE)
         [] new.model = s.head.model /\ new.static # s.head.static /\ ~MidSequence -> OpenSequence(set, FALSE)
         [] new.model = s.head.model /\ new.static # s.head.static /\ MidSequence
                /\ new.static # s.config.static -> Visible(set, "other", {}, {}, 1, {})
         [] OTHER -> set

Position(model) == IF \E i \in DOMAIN Models : Models[i] = model
                   THEN CHOOSE i \in DOMAIN Models : Models[i] = model ELSE 0
HasFallback(s) == Position(s.model) < Len(Models)
NextFallback(s) == Models[Position(s.model) + 1]

(***************************************************************************)
(* The safe point before a request.                                        *)
(***************************************************************************)
InContext(s, id) == \E i \in DOMAIN s.ctx : s.ctx[i].id = id
Lost(s) == {p \in Paths : s.instr[p].known /\ ~s.instr[p].pending /\ s.instr[p].event # 0 /\ ~InContext(s, s.instr[p].event)}
Inject(s, p) == [Visible(s, "other", {}, {}, 1, {}) EXCEPT
                    !.instr[p] = [known |-> TRUE, pending |-> FALSE, event |-> s.seq], !.added = @ + 1]
Omit(s, p) == [s EXCEPT !.instr[p] = [known |-> TRUE, pending |-> FALSE, event |-> 0]]

(* Files compaction removed come back; the broadest pending ones are       *)
(* omitted until the others fit.                                           *)
InjectInstructions(s) ==
    LET again   == FoldLeft(Inject, s, SetToSortSeq(Lost(s), <))
        pending == SetToSortSeq({p \in Paths : s.instr[p].pending}, <)
        used    == {p \in Paths : again.instr[p].event # 0 /\ ~again.instr[p].pending /\ InContext(again, again.instr[p].event)}
        left    == Max({0, FileBudget - Cardinality(used)})
        kept    == Min({left, Len(pending)})
        omitted == FoldLeft(Omit, again, SubSeq(pending, 1, Len(pending) - kept))
    IN FoldLeft(Inject, omitted, SubSeq(pending, Len(pending) - kept + 1, Len(pending)))

Snapshots(s) ==
    IF s.silent = s.snap THEN s
    ELSE [Visible(s, "snapshot", {}, {}, 1, {}) EXCEPT !.snap = s.silent, !.added = @ + 1, !.silents = (s.seq :> s.silent) @@ @]

EndTurn(s) ==
    LET idle == [s EXCEPT !.turn = NoTurn] IN IF idle.pending # NoConfig THEN ApplyConfig(idle, idle.pending) ELSE idle
CloseOpen(s) == FoldLeft(LAMBDA t, c : Visible(t, "result", {}, {c}, 1, {}), s, SetToSortSeq(s.turn.open, <))
FailTurn(s) == EndTurn(CloseOpen(s))

Await(s, out) == [s EXCEPT !.turn.out = out]
PreCompactGate(s) == [Await(s, "gate") EXCEPT !.turn.pre = "waiting"]
IssueCompact(s, plan, overflow) ==
    [Await(s, "compact") EXCEPT !.turn.plan = plan, !.turn.overflows = overflow, !.turn.relief = TRUE, !.turn.pre = IF @ = "ready" THEN "done" ELSE @]
Sample(s) ==
    [Await(s, "sample") EXCEPT !.turn.relief = FALSE, !.turn.overflow = FALSE, !.turn.pre = "none",
                               !.turn.open = {}, !.turn.early = <<>>]

ManualCompactStep(s) ==
    CASE s.turn.compacted \/ s.turn.relief -> EndTurn(s)
      [] ~s.turn.compacted /\ ~s.turn.relief /\ s.turn.pre = "none" /\ Hooked -> PreCompactGate(s)
      [] OTHER -> IF PlanAll(s) = NoPlan THEN EndTurn(s) ELSE IssueCompact(s, PlanAll(s), FALSE)

(* What the hook was asked about is compacted now.                         *)
ReadyStep(s) ==
    LET plan == IF s.turn.overflow THEN PlanOverflowSegment(s) ELSE PlanSummary(s)
    IN IF plan # NoPlan THEN IssueCompact(s, plan, s.turn.overflow)
       ELSE IF s.turn.overflow THEN FailTurn(s) ELSE Sample(s)

PressureStep(s) ==
    LET trimmed == FoldLeft(Replaced, s, PlanTrims(s, FALSE))
        plan    == PlanSummary(trimmed)
    IN IF Usage(trimmed) > Pressure /\ plan # NoPlan
       THEN IF Hooked THEN PreCompactGate(trimmed) ELSE IssueCompact(trimmed, plan, FALSE)
       ELSE Sample(trimmed)

PrepareAndSample(s0) ==
    LET s == Snapshots(InjectInstructions(Await(s0, "none")))
    IN CASE s.turn.cause = "compact" -> ManualCompactStep(s)
         [] s.turn.cause # "compact" /\ s.turn.pre = "ready" -> ReadyStep(s)
         [] s.turn.cause # "compact" /\ s.turn.pre # "ready" /\ ~s.turn.relief /\ Usage(s) > Pressure -> PressureStep(s)
         [] OTHER -> Sample(s)

(***************************************************************************)
(* Erasure: bodies disappear from the operations, so also from whatever a  *)
(* later rewind projects again, and with them the summaries made of them.  *)
(***************************************************************************)
Cascade(s, erased) ==
    FoldLeft(LAMBDA ids, op : IF op.replace /\ op.rep.kind = "summary" /\ op.rep.sources \cap ids # {}
                              THEN ids \cup {op.seq} ELSE ids, erased, s.ops)

(* The content of a replacement, whose entries align with what it replaced *)
(* unless it is on an abandoned branch.                                    *)
ScrubContent(op, removed, aligned, fresh) ==
    [i \in DOMAIN op.rep.content |->
        IF ~aligned \/ removed[i].id \in fresh THEN [op.rep.content[i] EXCEPT !.text = {}] ELSE op.rep.content[i]]

ScrubOp(s, ctx, op, fresh) ==
    IF ~op.replace THEN IF op.entry.id \in fresh THEN [op EXCEPT !.entry = EraseEntry(@)] ELSE op
    ELSE LET removed == SelectSeq(ctx, LAMBDA e : InRange(e, op.rep))
             aligned == op.seq \notin s.gone \cup fresh /\ Len(removed) = Len(op.rep.content)
             touched == op.seq \in fresh \/ (op.rep.kind # "summary" /\ op.rep.sources \cap fresh # {})
         IN IF touched THEN [op EXCEPT !.rep.content = ScrubContent(op, removed, aligned, fresh)] ELSE op

(* Mutant of ScrubOps: only the bodies themselves go, not their rewritings.*)
ScrubEntries(s, fresh) ==
    [i \in DOMAIN s.ops |->
        IF ~s.ops[i].replace /\ s.ops[i].entry.id \in fresh THEN [s.ops[i] EXCEPT !.entry = EraseEntry(@)] ELSE s.ops[i]]

ScrubOps(s, fresh) ==
    FoldLeft(LAMBDA acc, op :
                LET new == ScrubOp(s, acc.ctx, op, fresh)
                IN [ops |-> Append(acc.ops, new), ctx |-> IF op.seq \in s.gone THEN acc.ctx ELSE Step(acc.ctx, new)],
             [ops |-> <<>>, ctx |-> <<>>], s.ops).ops

OnTombstone(s, target) ==
    LET erased == Cascade(s, s.erased \cup {target})
        fresh  == erased \ s.erased
        done   == [s EXCEPT !.erased = erased, !.ops = ScrubOps(s, fresh), !.skew = 0, !.seq = @ + 1,
                            !.turn.early = [i \in DOMAIN @ |-> IF @[i].id \in fresh THEN EraseEntry(@[i]) ELSE @[i]],
                            !.asked = @ \cup (IF s.turn.out = "compact" THEN fresh ELSE {})]
    IN [done EXCEPT !.ctx = Project(done, s.seq)]

(***************************************************************************)
(* Actions.                                                                *)
(***************************************************************************)
Become(s) ==
    /\ k' = s
    /\ was' = (s.seq - 1 :> s.ctx) @@ was
Told(s) == Become(s) /\ refused' = IF s.turn.on THEN refused ELSE NotRefused

Sends(kind) == kind \in Inputs /\ k.inputs < MaxInputs /\ k.seq < MaxSeq
Counted == [k EXCEPT !.inputs = @ + 1]

Submit ==
    /\ Sends("submit") /\ ~k.turn.on
    /\ Told(PrepareAndSample(Visible([Counted EXCEPT !.turn = NewTurn("user")], "user", {}, {}, 1, {})))

CompactNow ==
    /\ Sends("compact") /\ ~k.turn.on
    /\ Told(PrepareAndSample([Counted EXCEPT !.turn = NewTurn("compact")]))

(* A tool found an instruction file, or none (0).                          *)
Found(s, p) == IF p = 0 \/ s.instr[p].known THEN s ELSE [s EXCEPT !.instr[p].pending = TRUE]
Finds == {0} \cup {p \in Paths : ~k.instr[p].known /\ ~k.instr[p].pending}

(* A call of the reply that still streams has its result.                  *)
Streamed == {e.closes : e \in ToSet(k.turn.early)}
EarlyResult(c, labels, p) ==
    /\ k.turn.out = "sample" /\ k.seq < MaxSeq /\ {c} \notin Streamed
    /\ Told(Found([k EXCEPT !.seq = @ + 1,
                            !.turn.early = Append(@, Entry(k, "result", {}, {c}, ResultTokens, labels))], p))

(* The reply: results that came before it follow it, of calls that it does *)
(* not make none do.                                                       *)
Reply(called) ==
    LET replied  == Visible(k, "reply", called, {}, 1, {})
        early    == SelectSeq(k.turn.early, LAMBDA e : e.closes \subseteq called)
        deferred == FoldLeft(Appended, [replied EXCEPT !.skew = Skew, !.used = @ \cup called \cup UNION Streamed], early)
        open     == {c \in called : {c} \notin Streamed}
        s        == [deferred EXCEPT !.turn.open = open, !.turn.early = <<>>, !.turn.out = "calls"]
    IN /\ k.turn.out = "sample"
       /\ called # {} => k.seq < MaxSeq
       /\ Become(IF called = {} THEN EndTurn(s) ELSE IF open = {} THEN PrepareAndSample(s) ELSE s)
       /\ refused' = NotRefused

Result(c, labels, p) ==
    LET s == Found([Visible(k, "result", {}, {c}, ResultTokens, labels) EXCEPT !.turn.open = @ \ {c}], p)
    IN /\ k.turn.out = "calls" /\ c = Min(k.turn.open)
       /\ Told(IF s.turn.open = {} THEN PrepareAndSample(s) ELSE s)

Refusal == [tokens |-> Tokens(k.ctx, 1, Len(k.ctx)), added |-> k.added]

(* Mutant of Overflow: the request is sent again however little changed.   *)
OverflowAgain ==
    LET trimmed == FoldLeft(Replaced, [k EXCEPT !.turn.overflow = TRUE], PlanTrims(k, TRUE))
    IN /\ k.turn.out = "sample"
       /\ Become(IF PlanOverflowSegment(trimmed) # NoPlan
                 THEN IssueCompact(trimmed, PlanOverflowSegment(trimmed), TRUE) ELSE PrepareAndSample(trimmed))
       /\ refused' = Refusal

(* The provider refuses the request as too long.                           *)
Overflow ==
    LET trims   == PlanTrims(k, TRUE)
        trimmed == FoldLeft(Replaced, [k EXCEPT !.turn.overflow = TRUE], trims)
        plan    == PlanOverflowSegment(trimmed)
    IN /\ k.turn.out = "sample"
       /\ Become(CASE plan # NoPlan /\ Hooked  -> PreCompactGate(trimmed)
                   [] plan # NoPlan /\ ~Hooked -> IssueCompact(trimmed, plan, TRUE)
                   [] plan = NoPlan /\ trims # <<>> -> PrepareAndSample(trimmed)
                   [] OTHER -> FailTurn(trimmed))
       /\ refused' = IF plan = NoPlan /\ trims = <<>> THEN NotRefused ELSE Refusal

Unavailable ==
    /\ k.turn.out = "sample"
    /\ Told(IF HasFallback(k) THEN PrepareAndSample(SwitchTo(k, NextFallback(k))) ELSE FailTurn(k))

(* The summary arrives; labels are those of what it replaces.              *)
Compacted(tokens) ==
    LET plan    == k.turn.plan
        range   == [lo |-> plan[1], hi |-> plan[2]]
        entries == {k.ctx[i] : i \in {j \in DOMAIN k.ctx : InRange(k.ctx[j], range)}}
        rep     == [kind |-> "summary", lo |-> plan[1], hi |-> plan[2], sources |-> {e.id : e \in entries},
                    labels |-> UNION {e.labels : e \in entries},
                    content |-> <<[tokens |-> tokens, format |-> k.head.model,
                                   text |-> UNION {e.text : e \in entries} \cup (k.asked \cap UNION {e.covers : e \in entries})]>>]
        done    == Replaced(k, rep)
        opened  == IF done.head.static # done.config.static THEN OpenSequence(done, FALSE) ELSE done
        next    == PlanOverflowSegment(opened)
        s       == IF tokens >= MapThenSumSet(LAMBDA e : e.tokens, entries)
                   THEN IF k.turn.overflows THEN FailTurn(k) ELSE PrepareAndSample(k)
                   ELSE IF k.turn.overflows /\ Usage(opened) > Window /\ next # NoPlan
                        THEN IssueCompact(opened, next, TRUE) ELSE PrepareAndSample(opened)
    IN /\ k.turn.out = "compact" /\ entries # {}
       /\ Told(s)

CompactFailed ==
    /\ k.turn.out = "compact"
    /\ Told(IF k.turn.overflows THEN FailTurn(k) ELSE PrepareAndSample(k))

GateAnswers ==
    /\ k.turn.out = "gate"
    /\ Told(PrepareAndSample([k EXCEPT !.turn.pre = "ready"]))

Interrupt ==
    /\ Sends("interrupt") /\ k.turn.on
    /\ Told(FailTurn(Counted))

SwitchModel(model) ==
    /\ Sends("switch") /\ model # k.model
    /\ Told(SwitchTo(Counted, model))

Reconfigure(new) ==
    /\ Sends("reconfigure") /\ new # k.config
    /\ Told(IF k.turn.on THEN [Counted EXCEPT !.pending = new] ELSE ApplyConfig(Counted, new))

Silent(value) ==
    /\ Sends("silent") /\ value # k.silent
    /\ Told([Counted EXCEPT !.silent = value])

LastSnapshot(ctx) ==
    LET shown == SelectSeq(ctx, LAMBDA e : e.kind = "snapshot" /\ e.source)
    IN IF shown = <<>> THEN 0 ELSE k.silents[Last(shown).id]

WellPaired(ctx) ==
    \A i \in DOMAIN ctx :
        /\ \A c \in ctx[i].opens : \E j \in i+1..Len(ctx) : c \in ctx[j].closes
        /\ \A c \in ctx[i].closes : \E j \in 1..i-1 : c \in ctx[j].opens

(* Mutant of Rewind: it goes back to just before the event.                *)
RewindBefore(to) ==
    LET s == [Counted EXCEPT !.gone = @ \cup (to..k.seq-1), !.seq = @ + 1, !.back = <<k.seq, to>>, !.skew = 0]
    IN /\ Sends("rewind") /\ ~k.turn.on /\ to \notin k.gone /\ WellPaired(Project(k, to))
       /\ Told(OpenSequence([s EXCEPT !.ctx = Project(s, k.seq), !.snap = LastSnapshot(Project(s, k.seq))], FALSE))

(* Planned, restored and completed: what came after the target is gone,    *)
(* the context is projected again.                                         *)
Rewind(to) ==
    LET s == [Counted EXCEPT !.gone = @ \cup (to+1..k.seq-1), !.seq = @ + 1, !.back = <<k.seq, to>>, !.skew = 0]
    IN /\ Sends("rewind") /\ ~k.turn.on /\ to \notin k.gone /\ WellPaired(Project(k, to))
       /\ Told(OpenSequence([s EXCEPT !.ctx = Project(s, k.seq), !.snap = LastSnapshot(Project(s, k.seq))], FALSE))

(* Events with a body of their own: entries and summaries.                 *)
Bodies == {op.seq : op \in {o \in ToSet(k.ops) : ~o.replace \/ o.rep.kind = "summary"}}
Erase(target) ==
    /\ Sends("erase") /\ target \notin k.erased /\ target \in Bodies
    /\ Told(OnTombstone(Counted, target))

Init ==
    /\ k = [seq |-> 1, ops |-> <<>>, ctx |-> <<>>, gone |-> {}, erased |-> {}, asked |-> {}, model |-> Models[1],
            head |-> [model |-> Models[1], static |-> 1], config |-> [model |-> Models[1], static |-> 1],
            pending |-> NoConfig, skew |-> 0, silent |-> 0, snap |-> 0, silents |-> <<>>, added |-> 0, inputs |-> 0,
            used |-> {}, back |-> <<0, 0>>, turn |-> NoTurn,
            instr |-> [p \in Paths |-> [known |-> FALSE, pending |-> FALSE, event |-> 0]]]
    /\ was = (0 :> <<>>)
    /\ refused = NotRefused

Fresh == {c \in Calls : c \notin k.used}
Labels == {{}} \cup {{l} : l \in Sources}
Beginnings(set) == {{c \in set : c < n} : n \in set \cup {Max(set \cup {0}) + 1}}

Reports ==
    \/ \E called \in Beginnings(Fresh) : Reply(called)
    \/ \E c \in Calls, labels \in Labels, p \in Finds : Result(c, labels, p)
    \/ Overflow
    \/ Unavailable
    \/ \E tokens \in {1, 2} : Compacted(tokens)
    \/ CompactFailed
    \/ GateAnswers

Next ==
    \/ Submit
    \/ CompactNow
    \/ \E c \in Fresh, labels \in Labels, p \in Finds : EarlyResult(c, labels, p)
    \/ Reports
    \/ Interrupt
    \/ \E model \in ToSet(Models) : SwitchModel(model)
    \/ \E model \in {Models[1]}, static \in {1, 2} : Reconfigure([model |-> model, static |-> static])
    \/ \E value \in {0, 1} : Silent(value)
    \/ \E to \in 0..k.seq-1 : Rewind(to)
    \/ \E target \in 1..k.seq-1 : Erase(target)

Spec == Init /\ [][Next]_vars

-----------------------------------------------------------------------------
(* Every request shows the whole branch: each event that the model may see *)
(* and no rewind has abandoned is in it exactly once, itself or in a       *)
(* summary, in the order in which they entered, with the labels of its     *)
(* untrusted content; and every tool use has its result.                   *)
Live == SelectSeq(k.ops, LAMBDA op : ~op.replace /\ op.seq \notin k.gone)
Covering(id) == {i \in DOMAIN k.ctx : id \in k.ctx[i].covers}
SupersededOp(n) == Live[n].entry.kind = "snapshot" /\ \E m \in n+1..Len(Live) : Live[m].entry.kind = "snapshot"
Whole ==
    /\ \A n \in DOMAIN Live :
         \/ \E i \in DOMAIN k.ctx : Covering(Live[n].seq) = {i} /\ Live[n].entry.labels \subseteq k.ctx[i].labels
         \/ Covering(Live[n].seq) = {} /\ SupersededOp(n)
    /\ \A n, m \in DOMAIN Live : \A i \in Covering(Live[n].seq), j \in Covering(Live[m].seq) : n < m => i <= j
    /\ \A i \in DOMAIN k.ctx : k.ctx[i].covers \subseteq {Live[n].seq : n \in DOMAIN Live}
Requested == IF k.turn.out = "compact" THEN SubSeq(k.ctx, 1, Min({Len(k.ctx), k.turn.plan[3]})) ELSE k.ctx
RequestWhole == k.turn.out \in {"sample", "compact"} => Whole /\ WellPaired(Requested)

(* A request refused as too long is followed only by shorter ones, unless  *)
(* instructions or snapshots were put (back) into the context meanwhile.   *)
Shorter ==
    k.turn.out = "sample" /\ refused.tokens > 0 /\ k.added = refused.added =>
        Tokens(k.ctx, 1, Len(k.ctx)) < refused.tokens

(* A rewind brings back the context as it was right after its target, with *)
(* what was trimmed and summarised since, whatever was rewound before.     *)
SameEntry(e, f) == e.id = f.id /\ e.covers = f.covers /\ (e.erased \/ (e.tokens = f.tokens /\ e.text = f.text))
RewindExact ==
    [][k'.back # k.back /\ k'.back[2] \in DOMAIN was =>
           LET then == was[k'.back[2]]
           IN Len(k'.ctx) = Len(then) /\ \A i \in DOMAIN then : SameEntry(k'.ctx[i], then[i])]_vars

(* What was erased is nowhere, neither in the context nor in what it is    *)
(* projected from, and stays so; only a summary that was being written     *)
(* when its source was erased may still tell of it.                        *)
Texts(op) == IF op.replace THEN UNION {op.rep.content[i].text : i \in DOMAIN op.rep.content} ELSE op.entry.text
Erased ==
    /\ \A n \in DOMAIN k.ops : Texts(k.ops[n]) \cap (k.erased \ k.asked) = {}
    /\ \A i \in DOMAIN k.ctx : k.ctx[i].text \cap (k.erased \ k.asked) = {}
    /\ \A i \in DOMAIN k.turn.early : k.turn.early[i].text \cap k.erased = {}
=============================================================================
