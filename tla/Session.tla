------------------------------ MODULE Session ------------------------------
(***************************************************************************)
(* One session as its user sees it: the kernel (Kernel) driven by the      *)
(* actor task of runtime/src/driver.rs.                                    *)
(*                                                                         *)
(* The actor takes one message at a time, so a step is the handling of one *)
(* signal, control, streamed call or completion: decide, commit, dispatch. *)
(* What may be interleaved is everything that runs outside the actor: the  *)
(* effects in flight, the humans and hooks that answer them, the user's    *)
(* inputs, and the death of the process.  The commit itself is the subject *)
(* of Journal: here what was decided is what recovery finds.               *)
(***************************************************************************)
EXTENDS Kernel

CONSTANTS
  Signals,      \* signals a user or a task may send
  Controls,     \* controls a user may send
  HookTags,     \* verdicts hooks give
  HumanTags,    \* verdicts given to the questions of ring 5
  Responders,   \* who gives them
  Failures,     \* TRUE: an effect may report a failure
  Budgeted,     \* TRUE: a reply may use up the token budget
  MaxInputs,    \* bound on signals and controls
  MaxRestarts   \* bound on process deaths

ASSUME SessionAssumption ==
  /\ Signals \subseteq {"submit", "queue", "steer", "notify", "wake"}
  /\ Controls \subseteq {"soft", "hard", "pause", "resume", "rewind"}
  /\ HookTags \subseteq {"allow", "deny", "ask", "defer", "rewrite", "continue"}
  /\ HumanTags \subseteq {"allow", "deny", "defer", "rewrite"}
  /\ Responders \subseteq {"human", "code", "auto", "env"}
  /\ {Failures, Budgeted} \subseteq BOOLEAN
  /\ MaxInputs \in Nat /\ MaxRestarts \in Nat

VARIABLES
  k,         \* the kernel state: what the journal folds to
  inflight,  \* Actor::inflight: the running effects, by id
  used,      \* calls made so far (call ids are not reused)
  streamed,  \* calls the running sample has started early
  fired,     \* how often each call was started though a re-run would repeat its effects
  unheard,   \* the last turn ended without its Finish reaching a waiter
  inputs,    \* signals and controls so far (bounds the model)
  restarts   \* process deaths so far (bounds the model)

vars == <<k, inflight, used, streamed, fired, unheard, inputs, restarts>>

-----------------------------------------------------------------------------
Init ==
  /\ k = InitState
  /\ inflight = <<>>
  /\ used = {}
  /\ streamed = {}
  /\ fired = [c \in Calls |-> 0]
  /\ unheard = FALSE
  /\ inputs = 0
  /\ restarts = 0

(* What a call does, given the state in which it was issued: a rewrite     *)
(* replaces it in its slot.                                                *)
Content(s, c) == IF c \in DOMAIN s.turn.slots THEN Slot(s, c).call ELSE c

Repeatable(call) == Attr[call].class \in {"pure", "local_write"}

ExecutedBy(effects) == UNION {effects[id].calls : id \in {j \in DOMAIN effects : effects[j].kind = "execute"}}

(* Actor::apply: commit what was decided, dispatch its effects next to     *)
(* those still running, and tell the waiters that the turn has ended.      *)
(* `calls' are those the model has made in this step.                      *)
Apply(d, running, calls) ==
  /\ k' = [d EXCEPT !.out = <<>>, !.finish = "none"]
  /\ inflight' = Over(d.out, running)
  /\ fired' = [c \in Calls |->
                 IF c \in ExecutedBy(d.out) /\ ~Repeatable(Content(d, c)) THEN fired[c] + 1 ELSE fired[c]]
  /\ unheard' = CASE d.finish = "none" -> unheard
                  [] d.finish = "sent" -> FALSE
                  [] d.finish = "kept" -> TRUE
  /\ used' = used \cup calls
  /\ streamed' = IF d.turn.sample = k.turn.sample THEN streamed \cup calls ELSE {}

(***************************************************************************)
(* Inputs.                                                                 *)
(***************************************************************************)
Send(signal) ==
  /\ inputs < MaxInputs
  /\ ~Rejected(k, signal)
  /\ Apply(Decide(k, [tag |-> "signal", signal |-> signal]), inflight, {})
  /\ inputs' = inputs + 1
  /\ UNCHANGED restarts

Control(control) ==
  /\ inputs < MaxInputs
  /\ Apply(Decide(k, [tag |-> control]), inflight, {})
  /\ inputs' = inputs + 1
  /\ UNCHANGED restarts

(* What a reply may contain: the calls it has started early and new ones.  *)
(* (After a restart the model is asked again, and answers with new calls.) *)
Replies == {streamed \cup calls : calls \in SUBSET (Calls \ used)}

(* Actor::hard_interrupt: everything in flight is cancelled but a restore; *)
(* the reply received so far is applied as a completion, whose effects are *)
(* not dispatched; then the control itself.                                *)
HardInterruptAll ==
  LET running  == Restrict(inflight, {id \in DOMAIN inflight : inflight[id].kind = "restore"})
      sampling == DOMAIN inflight \cap {id \in DOMAIN k.issued : k.issued[id].kind = "sample"}
  IN /\ inputs < MaxInputs
     /\ inputs' = inputs + 1
     /\ \/ /\ sampling = {}
           /\ Apply(Decide(k, [tag |-> "hard"]), running, {})
        \/ \E id \in sampling, calls \in Replies :
              LET partial == Decide(k, [tag |-> "sampled", id |-> id, calls |-> calls,
                                        interrupted |-> TRUE, spent |-> FALSE])
                  d == Decide(partial, [tag |-> "hard"])
              IN Apply(IF d.finish = "none" /\ partial.finish # "none"
                         THEN [d EXCEPT !.finish = "kept"] ELSE d, running, calls)
     /\ UNCHANGED restarts

(***************************************************************************)
(* What comes back from the effects in flight.                             *)
(***************************************************************************)
(* A call block of the streaming reply is complete.                        *)
Streamed(id, c) ==
  /\ id \in DOMAIN inflight
  /\ c \in Calls \ used
  /\ MayStartEarly(k, id, c)
  /\ Apply(Decide(k, [tag |-> "streamed", id |-> id, call |-> c]), inflight, {c})
  /\ UNCHANGED <<inputs, restarts>>

Verdicts(tags, by) ==
  {v \in [tag : tags, by : by, call : Calls \cup {NoId}] : v.call # NoId <=> v.tag = "rewrite"}

HookTagsAt(point) ==
  CASE point = "PreTool"    -> HookTags \cap {"allow", "deny", "ask", "defer", "rewrite"}
    [] point = "PreSample"  -> HookTags \cap {"allow", "deny", "ask"}
    [] point = "UserSubmit" -> HookTags \cap {"allow", "deny"}
    [] point = "Stop"       -> HookTags \cap {"allow", "continue"}
    [] OTHER                -> HookTags \cap {"allow"}

Sampled(id, calls, spent) ==
  [tag |-> "sampled", id |-> id, calls |-> calls, interrupted |-> FALSE, spent |-> spent]

(* The results an effect may report, other than a reply.                   *)
Results(id, e) ==
  (CASE e.kind = "execute"    -> {[tag |-> "executed", id |-> id]}
     [] e.kind = "checkpoint" -> {[tag |-> "checkpointed", id |-> id]}
     [] e.kind = "restore"    -> {[tag |-> "restored", id |-> id]}
     [] e.kind = "sample"     -> {}
     [] e.kind = "hook"  -> {[tag |-> "gated", id |-> id, verdict |-> v] :
                               v \in Verdicts(HookTagsAt(e.point), {"hook"})}
     [] e.kind = "human" -> {[tag |-> "gated", id |-> id, verdict |-> v] :
                               v \in {w \in Verdicts(HumanTags, Responders) :
                                        e.point = "PreSample" => w.tag # "rewrite"}})
  \cup (IF Failures THEN {[tag |-> "failed", id |-> id]} ELSE {})

Landed(id) == Restrict(inflight, DOMAIN inflight \ {id})

(* Msg::Completed of an effect that is outstanding: a reply, or another    *)
(* result.                                                                 *)
Replied(id) ==
  /\ id \in DOMAIN k.issued
  /\ inflight[id].kind = "sample"
  /\ \E calls \in Replies, spent \in (IF Budgeted THEN BOOLEAN ELSE {FALSE}) :
        Apply(Decide(k, Sampled(id, calls, spent)), Landed(id), calls)
  /\ UNCHANGED <<inputs, restarts>>

Reported(id) ==
  /\ id \in DOMAIN k.issued
  /\ \E r \in Results(id, inflight[id]) : Apply(Decide(k, r), Landed(id), {})
  /\ UNCHANGED <<inputs, restarts>>

(* One that its turn or an interrupt has dropped: the kernel ignores it.   *)
Stale(id) ==
  /\ id \notin DOMAIN k.issued
  /\ inflight' = Landed(id)
  /\ UNCHANGED <<k, used, streamed, fired, unheard, inputs, restarts>>

Complete == \E id \in DOMAIN inflight : Replied(id) \/ Reported(id) \/ Stale(id)

(* Mutant of Restart: every call outstanding is run again.                 *)
RestartRerunning ==
  /\ restarts < MaxRestarts
  /\ restarts' = restarts + 1
  /\ inflight' = k.issued
  /\ unheard' = FALSE
  /\ streamed' = {}
  /\ fired' = [c \in Calls |-> IF c \in ExecutedBy(k.issued) /\ ~Repeatable(Content(k, c))
                                  THEN fired[c] + 1 ELSE fired[c]]
  /\ UNCHANGED <<k, used, inputs>>

(* The process dies and the session is resumed: all that was in flight is  *)
(* gone, and everything the journal has outstanding is dispatched, calls   *)
(* that must not be repeated as an error result only (recover_batch).      *)
Restart ==
  /\ restarts < MaxRestarts
  /\ restarts' = restarts + 1
  /\ inflight' = k.issued
  /\ unheard' = FALSE
  /\ streamed' = {}
  /\ UNCHANGED <<k, used, fired, inputs>>

Next ==
  \/ \E signal \in Signals : Send(signal)
  \/ \E control \in Controls \ {"hard"} : Control(control)
  \/ "hard" \in Controls /\ HardInterruptAll
  \/ \E id \in DOMAIN inflight, c \in Calls : Streamed(id, c)
  \/ Complete
  \/ Restart

Spec == Init /\ [][Next]_vars

(* Every effect in flight reports in the end (models and tools time out,   *)
(* whoever is asked answers) unless it is cancelled: weak fairness of      *)
(* Lands, which is enabled while anything is in flight, written out.       *)
Lands == \E id \in DOMAIN inflight : id \notin DOMAIN inflight'

LiveSpec == Spec /\ ([]<>(inflight = <<>>) \/ []<><<Lands>>_vars)

-----------------------------------------------------------------------------
(* Properties.                                                             *)

InTurn(s)     == HasTurn(s) /\ ~s.turn.suspended
RunningSlots  == {c \in DOMAIN k.turn.slots : Slot(k, c).exec = "running"}
FlyingWriters == {c \in ExecutedBy(inflight) : SideEffecting(Content(k, c))}

TypeOK ==
  /\ k.n \in Nat /\ k.continuations \in Nat
  /\ DOMAIN k.issued \subseteq 1..(k.n - 1) /\ DOMAIN inflight \subseteq 1..(k.n - 1)
  /\ k.held \subseteq DOMAIN k.issued
  /\ k.pairs \in [Calls -> -1..2]
  /\ streamed \subseteq used /\ used \subseteq Calls
  /\ fired \in [Calls -> Nat]
  /\ unheard \in BOOLEAN
  /\ inputs \in 0..MaxInputs /\ restarts \in 0..MaxRestarts

(* Every tool call in the context has exactly one result whenever a        *)
(* request is built from it or nothing of a turn is left: through early    *)
(* starts, denials, rewrites, interrupts, failures and superseded          *)
(* questions.                                                              *)
WellPaired ==
  \A c \in DOMAIN k.pairs :
     /\ k.pairs[c] \in {0, 1}
     /\ k.pairs[c] = 1 => c \in Open(k)
     /\ k.turn.sample # NoId => k.pairs[c] = 0

(* A call runs only in the form that was let through: never one the rules  *)
(* deny, never one they question without an approval of this very form by  *)
(* somebody who may give it.                                               *)
LetThrough(sl) ==
  LET by == sl.approver
  IN CASE Attr[sl.call].rings = "allow"  -> TRUE
       [] Attr[sl.call].rings = "deny"   -> FALSE
       [] Attr[sl.call].rings = "policy" -> by # "none"
       [] Attr[sl.call].rings = "invariant" ->
            \/ by = "human"
            \/ by = "env" /\ Attr[sl.call].sandboxed
            \/ by = "code" /\ ~Unattended

Approved == \A c \in RunningSlots : LetThrough(Slot(k, c))

(* No two calls that write run together if their accesses conflict; an     *)
(* opaque call conflicts with all.                                         *)
WritersApart ==
  \A c, d \in FlyingWriters : c # d => ~Conflicts(Content(k, c), Content(k, d))

(* A batch that may write starts in the very step in which the checkpoint  *)
(* taken for exactly that batch has completed.                             *)
CheckpointStep ==
  \A id \in DOMAIN k'.issued \ DOMAIN k.issued :
     LET e == k'.issued[id]
     IN e.kind = "execute" /\ (\E c \in e.calls : NeedsCheckpoint(Content(k', c))) =>
           \E j \in DOMAIN k.issued \ DOMAIN k'.issued :
              k.issued[j] = Checkpoint("batch", e.calls)
CheckpointFirst == [][CheckpointStep]_vars

(* Continuations the user did not initiate share one counter, which stays  *)
(* within its budget; between turns nothing is left in the queue.          *)
QueueServed ==
  /\ k.continuations <= MaxContinuations
  /\ Idle(k) => k.queue = <<>>

(* A call that must not be repeated is started at most once.               *)
NotRepeated == \A c \in Calls : fired[c] <= 1

(* A waiter for the end of the turn is told of it.  It is false of the     *)
(* code: hard_interrupt drops the Finish a partial reply brings about, and *)
(* a pause the one issued under it.                                        *)
FinishHeard == Idle(k) /\ ~k.paused => ~unheard

(* A turn that runs comes to an end, unless it is suspended or paused.     *)
Halted     == k.paused \/ k.turn.suspended
TurnsEnd   == InTurn(k) ~> (~HasTurn(k) \/ Halted)
=============================================================================
