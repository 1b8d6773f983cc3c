---------------------------- MODULE SessionProofs ----------------------------
(***************************************************************************)
(* What holds of a session for any calls, hooks, rules, number of inputs   *)
(* and of restarts, and any budget of continuations.                       *)
(*                                                                         *)
(* The inductive invariant is SessionInv: the invariant K of the kernel,   *)
(* in the context of the calls the driver has used and started and of the  *)
(* effects in flight.  The lemmas named K... show that one operator of the *)
(* kernel keeps K; Upwards carries them through the kernel's loop.         *)
(***************************************************************************)
EXTENDS Session, FiniteSetTheorems, WellFoundedInduction, TLAPS

(* Types of the kernel's state: see state.rs for the fields. *)
Gatings == {"unchecked", "need_hook", "await_hook", "need_human", "await_human",
            "await_nobody", "deferred", "closed", "permitted"}
Levels  == {"none", "policy", "invariant"}
Waits   == {"none", "waiting", "passed"}

SlotType ==
  [call : Calls, gate : Gatings, asked : Levels, exec : {"idle", "running", "done"},
   rewrites : Nat, in_reply : BOOLEAN, result : BOOLEAN, post : Nat, deferred : BOOLEAN,
   approver : {"none", "hook", "kernel", "env"} \cup Responders]
SlotMap == UNION {[cs -> SlotType] : cs \in SUBSET Calls}

EffectType ==
  {e \in [kind : {"sample", "restore", "execute", "checkpoint", "hook", "human"},
          point : HookPoints \cup {"none", "safe_point", "batch"},
          calls : SUBSET Calls, level : Levels] :
     e.kind \in {"hook", "human"} => e.point \in HookPoints}
EffectMap == UNION {[ids -> EffectType] : ids \in SUBSET Nat}

TurnType ==
  [cause : {"none", "user", "queued", "wake"}, sample : Nat,
   reply : {"none", "text", "calls", "interrupted"}, slots : SlotMap,
   soft : BOOLEAN, suspended : BOOLEAN, submit : Waits, presample : Waits, stop : Waits,
   pre_ckpt : {"none", "pending", "done"}, pre_ckpt_id : Nat,
   sp_ckpt : BOOLEAN, executed_step : BOOLEAN]

QuestionType == [call : Calls \cup {NoId}, level : Levels, gate : Nat]

StateType ==
  [n : Nat \ {0}, issued : EffectMap, held : SUBSET Nat, paused : BOOLEAN,
   turn : TurnType, mailbox : SUBSET {"steer", "notify"}, queue : Seq({"user", "wake"}),
   continuations : Nat, questions : SUBSET QuestionType, restoring : Nat,
   session_gate : Waits, spent : BOOLEAN, pairs : [Calls -> Int], out : EffectMap,
   finish : {"none", "sent", "kept"},
   outcome : {"none", "done", "failed", "interrupted", "budget", "suspended"}]

(* A map of effects is a function from some identifiers to effects. *)
LEMMA InEffectMap ==
  ASSUME NEW f \in EffectMap
  PROVE  /\ f = [x \in DOMAIN f |-> f[x]] /\ DOMAIN f \subseteq Nat
         /\ \A x \in DOMAIN f : f[x] \in EffectType
BY DEF EffectMap

(* And every such function is one. *)
LEMMA IsEffectMap ==
  ASSUME NEW ids \in SUBSET Nat, NEW f, f \in [ids -> EffectType]
  PROVE  f \in EffectMap
BY DEF EffectMap

(* A map of slots is a function from some calls to slots. *)
LEMMA InSlotMap ==
  ASSUME NEW f \in SlotMap
  PROVE  /\ f = [x \in DOMAIN f |-> f[x]] /\ DOMAIN f \subseteq Calls
         /\ \A x \in DOMAIN f : f[x] \in SlotType
BY DEF SlotMap

(* And every such function is one. *)
LEMMA IsSlotMap ==
  ASSUME NEW cs \in SUBSET Calls, NEW f, f \in [cs -> SlotType]
  PROVE  f \in SlotMap
BY DEF SlotMap

(* The fields of a state of the kernel. *)
LEMMA StateIs ==
  ASSUME NEW s \in StateType
  PROVE  /\ s.n \in Nat /\ s.n # 0 /\ s.issued \in EffectMap /\ s.held \subseteq Nat /\ s.paused \in BOOLEAN
         /\ s.turn \in TurnType /\ s.continuations \in Nat /\ s.questions \subseteq QuestionType
         /\ s.restoring \in Nat /\ s.session_gate \in Waits /\ s.spent \in BOOLEAN
         /\ s.pairs \in [Calls -> Int] /\ s.out \in EffectMap /\ s.queue \in Seq({"user", "wake"})
         /\ s.mailbox \subseteq {"steer", "notify"}
         /\ s.turn.slots \in SlotMap /\ s.turn.sample \in Nat /\ s.turn.suspended \in BOOLEAN
         /\ s.turn.submit \in Waits /\ s.turn.soft \in BOOLEAN /\ s.turn.pre_ckpt_id \in Nat
BY DEF StateType, TurnType

(* Effects that settle or die leave a map of effects. *)
LEMMA RestrictedMap ==
  ASSUME NEW f \in EffectMap, NEW ids
  PROVE  Restrict(f, DOMAIN f \ ids) \in EffectMap
<1>1. Restrict(f, DOMAIN f \ ids) \in [DOMAIN f \ ids -> EffectType]
  BY InEffectMap DEF Restrict
<1> QED BY <1>1, InEffectMap, IsEffectMap

(* The map of one effect. *)
One(id, e) == [x \in {id} |-> e]

(* Two maps of effects laid over each other are a map of effects. *)
LEMMA OverMap ==
  ASSUME NEW f \in EffectMap, NEW g \in EffectMap
  PROVE  Over(f, g) \in EffectMap
<1>1. Over(f, g) \in [DOMAIN f \cup DOMAIN g -> EffectType]
  BY InEffectMap DEF Over
<1> QED BY <1>1, InEffectMap, IsEffectMap

(* One effect under its identifier is a map of effects. *)
LEMMA OneMap ==
  ASSUME NEW id \in Nat, NEW e \in EffectType
  PROVE  One(id, e) \in EffectMap
BY IsEffectMap DEF One

(* What Issue does whatever the effect. *)
Numbered(s, e) ==
  [s EXCEPT !.n = s.n + 1, !.issued = Over(One(s.n, e), @),
            !.held = IF s.paused THEN @ \cup {s.n} ELSE @,
            !.out = IF s.paused THEN @ ELSE Over(One(s.n, e), @)]

(* Issuing is numbering and then what the effect of that kind does to the  *)
(* turn.                                                                   *)
LEMMA IssueIs == \A s, e : Issue(s, e) = OnIssued(Numbered(s, e), s.n, e)
BY DEF Issue, Numbered, One


(* What numbering changes, and that nothing else changes. *)
LEMMA NumberedIs ==
  ASSUME NEW s \in StateType, NEW e \in EffectType, NEW r, r = Numbered(s, e)
  PROVE  /\ r \in StateType
         /\ r.n = s.n + 1 /\ r.issued = Over(One(s.n, e), s.issued)
         /\ r.held = (IF s.paused THEN s.held \cup {s.n} ELSE s.held)
         /\ r.out = (IF s.paused THEN s.out ELSE Over(One(s.n, e), s.out))
         /\ r.paused = s.paused /\ r.turn = s.turn /\ r.pairs = s.pairs
         /\ r.continuations = s.continuations
<1> DEFINE m == s.n + 1
           a == Over(One(s.n, e), s.issued)
           h == IF s.paused THEN s.held \cup {s.n} ELSE s.held
           o == IF s.paused THEN s.out ELSE Over(One(s.n, e), s.out)
<1>1. a \in EffectMap /\ o \in EffectMap BY StateIs, OverMap, OneMap
<1>2. h \subseteq Nat /\ m \in Nat \ {0} BY StateIs
<1>3. r = [s EXCEPT !.n = m, !.issued = a, !.held = h, !.out = o] BY DEF Numbered
<1> HIDE DEF m, a, h, o
<1>4. r \in StateType BY <1>1, <1>2, <1>3, ZenonT(60) DEF StateType
<1>5. /\ r.n = m /\ r.issued = a /\ r.held = h /\ r.out = o
      /\ r.paused = s.paused /\ r.turn = s.turn /\ r.pairs = s.pairs
      /\ r.continuations = s.continuations BY <1>3 DEF StateType
<1> QED BY <1>4, <1>5 DEF m, a, h, o

(* The books of the session after an effect was issued. *)
Booked(s, r, e) ==
  /\ r \in StateType
  /\ r.n = s.n + 1 /\ r.issued = Over(One(s.n, e), s.issued)
  /\ r.held = (IF s.paused THEN s.held \cup {s.n} ELSE s.held)
  /\ r.out = (IF s.paused THEN s.out ELSE Over(One(s.n, e), s.out))
  /\ r.paused = s.paused /\ r.pairs = s.pairs /\ r.continuations = s.continuations

SameTurn(s, r) ==
  /\ r.turn.cause = s.turn.cause /\ r.turn.sample = s.turn.sample
  /\ r.turn.suspended = s.turn.suspended /\ r.turn.soft = s.turn.soft

Inert(e) ==
  \/ e.kind \in {"restore", "checkpoint"}
  \/ e.kind = "hook" /\ e.point \in {"SessionStart", "UserSubmit", "PreSample", "Stop"}
  \/ e.kind = "human" /\ e.point = "PreSample"

(* The fields of an effect. *)
LEMMA EffectIs ==
  ASSUME NEW e \in EffectType
  PROVE  /\ e.kind \in {"sample", "restore", "execute", "checkpoint", "hook", "human"}
         /\ e.point \in HookPoints \cup {"none", "safe_point", "batch"}
         /\ e.calls \subseteq Calls /\ e.level \in Levels
         /\ (e.kind \in {"hook", "human"} => e.point \in HookPoints)
BY DEF EffectType

Books(s, r) ==
  /\ r.n = s.n /\ r.issued = s.issued /\ r.held = s.held /\ r.out = s.out /\ r.paused = s.paused
  /\ r.pairs = s.pairs /\ r.continuations = s.continuations

(* A new turn leaves the books alone. *)
LEMMA SetTurn ==
  ASSUME NEW s \in StateType, NEW t \in TurnType, NEW r, r = [s EXCEPT !.turn = t]
  PROVE  r \in StateType /\ r.turn = t /\ Books(s, r) /\ r.questions = s.questions
<1>1. r \in StateType BY DEF StateType
<1> QED BY <1>1 DEF StateType, Books

(* So do a new turn and new questions. *)
LEMMA SetAsked ==
  ASSUME NEW s \in StateType, NEW t \in TurnType, NEW q \in SUBSET QuestionType,
         NEW r, r = [s EXCEPT !.turn = t, !.questions = q]
  PROVE  r \in StateType /\ r.turn = t /\ Books(s, r) /\ r.questions = q
<1>1. r \in StateType BY DEF StateType
<1> QED BY <1>1 DEF StateType, Books

(* The fields of a turn. *)
LEMMA TurnIs ==
  ASSUME NEW t \in TurnType
  PROVE  /\ t.cause \in {"none", "user", "queued", "wake"} /\ t.sample \in Nat
         /\ t.reply \in {"none", "text", "calls", "interrupted"} /\ t.slots \in SlotMap
         /\ t.soft \in BOOLEAN /\ t.suspended \in BOOLEAN /\ t.submit \in Waits
         /\ t.presample \in Waits /\ t.stop \in Waits /\ t.pre_ckpt_id \in Nat
BY DEF TurnType

(* To ask questions leaves the turn and the books alone. *)
LEMMA AskedIs ==
  ASSUME NEW s \in StateType, NEW id \in Nat, NEW cs, NEW r, r = Asked(s, id, cs)
  PROVE  r \in StateType /\ r.turn = s.turn /\ Books(s, r)
<1> DEFINE qs == {[q EXCEPT !.gate = IF q.call \in cs THEN id ELSE @] : q \in s.questions}
<1>1. qs \in SUBSET QuestionType BY StateIs DEF QuestionType
<1>2. r = [s EXCEPT !.questions = qs] BY DEF Asked
<1> HIDE DEF qs
<1>3. r \in StateType BY <1>1, <1>2 DEF StateType
<1> QED BY <1>2, <1>3 DEF StateType, Books

(* An effect no slot waits for (a checkpoint, a restore, a hook of the     *)
(* turn) changes the books and no slot; the hook on a submitted message    *)
(* makes the turn wait.                                                    *)
LEMMA IssueInert ==
  ASSUME NEW s \in StateType, NEW e \in EffectType, Inert(e), NEW r, r = Issue(s, e)
  PROVE  /\ Booked(s, r, e) /\ SameTurn(s, r) /\ r.turn.slots = s.turn.slots
         /\ r.turn.submit = IF e.kind = "hook" /\ e.point = "UserSubmit" THEN "waiting" ELSE s.turn.submit
<1> DEFINE m == Numbered(s, e)
           id == s.n
<1>1. /\ m \in StateType
      /\ m.n = s.n + 1 /\ m.issued = Over(One(s.n, e), s.issued)
      /\ m.held = (IF s.paused THEN s.held \cup {s.n} ELSE s.held)
      /\ m.out = (IF s.paused THEN s.out ELSE Over(One(s.n, e), s.out))
      /\ m.paused = s.paused /\ m.turn = s.turn /\ m.pairs = s.pairs
      /\ m.continuations = s.continuations
  BY NumberedIs
<1>2. r = OnIssued(m, id, e) BY IssueIs
<1>3. id \in Nat /\ m.turn \in TurnType BY <1>1, StateIs
<1> HIDE DEF m, id
<1>4. SUFFICES /\ r \in StateType /\ Books(m, r)
               /\ SameTurn(m, r) /\ r.turn.slots = m.turn.slots
               /\ r.turn.submit = IF e.kind = "hook" /\ e.point = "UserSubmit"
                                    THEN "waiting" ELSE m.turn.submit
  BY <1>1 DEF Booked, SameTurn, Books
<1>w. "waiting" \in Waits BY DEF Waits
<1>5. CASE e.kind = "restore"
  <2>1. r = [m EXCEPT !.restoring = id] BY <1>2, <1>5 DEF OnIssued
  <2>2. r \in StateType BY <2>1, <1>1, <1>3 DEF StateType
  <2>3. r.turn = m.turn /\ Books(m, r) BY <2>1, <1>1, <1>3 DEF StateType, Books
  <2> QED BY <2>2, <2>3, <1>5 DEF SameTurn
<1>6. CASE e.kind = "checkpoint" /\ e.point = "safe_point"
  <2> DEFINE t == [m.turn EXCEPT !.sp_ckpt = TRUE]
  <2>1. r = [m EXCEPT !.turn = t] BY <1>2, <1>6 DEF OnIssued, OnCheckpoint
  <2>2. /\ t \in TurnType /\ t.slots = m.turn.slots /\ t.cause = m.turn.cause /\ t.sample = m.turn.sample
        /\ t.suspended = m.turn.suspended /\ t.soft = m.turn.soft /\ t.submit = m.turn.submit
    BY <1>3, <1>w DEF TurnType
  <2> HIDE DEF t
  <2>3. r \in StateType /\ r.turn = t /\ Books(m, r) BY <2>1, <2>2, <1>1, SetTurn
  <2> QED BY <2>2, <2>3, <1>6 DEF SameTurn
<1>7. CASE e.kind = "checkpoint" /\ e.point # "safe_point"
  <2> DEFINE t == [m.turn EXCEPT !.pre_ckpt = "pending", !.pre_ckpt_id = id]
  <2>1. r = [m EXCEPT !.turn = t] BY <1>2, <1>7 DEF OnIssued, OnCheckpoint
  <2>2. /\ t \in TurnType /\ t.slots = m.turn.slots /\ t.cause = m.turn.cause /\ t.sample = m.turn.sample
        /\ t.suspended = m.turn.suspended /\ t.soft = m.turn.soft /\ t.submit = m.turn.submit
    BY <1>3, <1>w DEF TurnType
  <2> HIDE DEF t
  <2>3. r \in StateType /\ r.turn = t /\ Books(m, r) BY <2>1, <2>2, <1>1, SetTurn
  <2> QED BY <2>2, <2>3, <1>7 DEF SameTurn
<1>8. CASE e.kind = "hook" /\ e.point = "SessionStart"
  <2>1. r = [m EXCEPT !.session_gate = "waiting"] BY <1>2, <1>8 DEF OnIssued, OnGate
  <2>2. r \in StateType BY <2>1, <1>1, <1>w, ZenonT(60) DEF StateType
  <2>3. r.turn = m.turn /\ Books(m, r) BY <2>1, <1>1 DEF StateType, Books
  <2> QED BY <2>2, <2>3, <1>8 DEF SameTurn
<1>9. CASE e.kind = "hook" /\ e.point = "UserSubmit"
  <2> DEFINE t == [m.turn EXCEPT !.submit = "waiting"]
  <2>1. r = [m EXCEPT !.turn = t] BY <1>2, <1>9 DEF OnIssued, OnGate
  <2>2. /\ t \in TurnType /\ t.slots = m.turn.slots /\ t.cause = m.turn.cause /\ t.sample = m.turn.sample
        /\ t.suspended = m.turn.suspended /\ t.soft = m.turn.soft /\ t.submit = "waiting"
    BY <1>3, <1>w DEF TurnType
  <2> HIDE DEF t
  <2>3. r \in StateType /\ r.turn = t /\ Books(m, r) BY <2>1, <2>2, <1>1, SetTurn
  <2> QED BY <2>2, <2>3, <1>9 DEF SameTurn
<1>10. CASE e.kind \in {"hook", "human"} /\ e.point = "PreSample"
  <2> DEFINE t == [m.turn EXCEPT !.presample = "waiting"]
             a == [m EXCEPT !.turn = t]
  <2>1. r = Asked(a, id, {NoId}) BY <1>2, <1>10 DEF OnIssued, OnGate
  <2>2. /\ t \in TurnType /\ t.slots = m.turn.slots /\ t.cause = m.turn.cause /\ t.sample = m.turn.sample
        /\ t.suspended = m.turn.suspended /\ t.soft = m.turn.soft /\ t.submit = m.turn.submit
    BY <1>3, <1>w DEF TurnType
  <2> HIDE DEF t
  <2>3. a \in StateType /\ a.turn = t /\ Books(m, a) BY <2>2, <1>1, SetTurn
  <2> HIDE DEF a
  <2>4. r \in StateType /\ r.turn = t /\ Books(a, r) BY <2>1, <2>3, <1>3, AskedIs
  <2> QED BY <2>2, <2>3, <2>4, <1>10 DEF SameTurn, Books
<1>11. CASE e.kind = "hook" /\ e.point = "Stop"
  <2> DEFINE t == [m.turn EXCEPT !.stop = "waiting"]
  <2>1. r = [m EXCEPT !.turn = t] BY <1>2, <1>11 DEF OnIssued, OnGate
  <2>2. /\ t \in TurnType /\ t.slots = m.turn.slots /\ t.cause = m.turn.cause /\ t.sample = m.turn.sample
        /\ t.suspended = m.turn.suspended /\ t.soft = m.turn.soft /\ t.submit = m.turn.submit
    BY <1>3, <1>w DEF TurnType
  <2> HIDE DEF t
  <2>3. r \in StateType /\ r.turn = t /\ Books(m, r) BY <2>1, <2>2, <1>1, SetTurn
  <2> QED BY <2>2, <2>3, <1>11 DEF SameTurn
<1>12. \/ e.kind = "restore" \/ e.kind = "checkpoint"
       \/ e.kind = "hook" /\ e.point \in {"SessionStart", "UserSubmit", "PreSample", "Stop"}
       \/ e.kind = "human" /\ e.point = "PreSample"
  BY DEF Inert
<1> QED BY <1>5, <1>6, <1>7, <1>8, <1>9, <1>10, <1>11, <1>12

(* The empty sequence is the empty map. *)
LEMMA EmptyMaps ==
  /\ DOMAIN <<>> = {} /\ <<>> \in SlotMap /\ <<>> \in EffectMap
<1>1. DOMAIN <<>> = {} OBVIOUS
<1>2. <<>> = [x \in {} |-> 0] OBVIOUS
<1>3. <<>> \in [{} -> SlotType] /\ <<>> \in [{} -> EffectType] BY <1>2
<1> QED BY <1>1, <1>3, IsSlotMap, IsEffectMap

(* To sample is to drop the slots of the last reply. *)
LEMMA IssueSample ==
  ASSUME NEW s \in StateType, NEW r, r = Issue(s, Sample)
  PROVE  /\ Sample \in EffectType /\ Booked(s, r, Sample)
         /\ r.turn.slots = <<>> /\ r.turn.sample = s.n /\ r.turn.cause = s.turn.cause
         /\ r.turn.suspended = s.turn.suspended /\ r.turn.soft = s.turn.soft
         /\ r.turn.submit = s.turn.submit
<1> DEFINE m == Numbered(s, Sample)
           id == s.n
           t == [m.turn EXCEPT !.sample = id, !.reply = "none", !.slots = <<>>,
                               !.presample = "none", !.stop = "none", !.sp_ckpt = FALSE,
                               !.pre_ckpt = "none", !.pre_ckpt_id = NoId, !.executed_step = FALSE]
<1>0. Sample \in EffectType BY DEF Sample, Effect, EffectType, Levels
<1>1. /\ m \in StateType
      /\ m.n = s.n + 1 /\ m.issued = Over(One(s.n, Sample), s.issued)
      /\ m.held = (IF s.paused THEN s.held \cup {s.n} ELSE s.held)
      /\ m.out = (IF s.paused THEN s.out ELSE Over(One(s.n, Sample), s.out))
      /\ m.paused = s.paused /\ m.turn = s.turn /\ m.pairs = s.pairs
      /\ m.continuations = s.continuations
  BY <1>0, NumberedIs
<1>2. r = OnIssued(m, id, Sample) BY IssueIs
<1>3. id \in Nat /\ m.turn \in TurnType BY <1>1, StateIs
<1> HIDE DEF m, id
<1>4. r = [m EXCEPT !.turn = t] BY <1>2 DEF OnIssued, OnSample, Sample, Effect
<1>5. t \in TurnType BY <1>3, EmptyMaps DEF TurnType, Waits, NoId
<1>6. /\ t.slots = <<>> /\ t.sample = id /\ t.cause = m.turn.cause
      /\ t.suspended = m.turn.suspended /\ t.soft = m.turn.soft /\ t.submit = m.turn.submit
  BY <1>3 DEF TurnType
<1> HIDE DEF t
<1>7. r \in StateType /\ r.turn = t /\ Books(m, r) BY <1>1, <1>4, <1>5, SetTurn
<1> QED BY <1>0, <1>1, <1>6, <1>7 DEF Booked, Books, id

(* The fields of a slot. *)
LEMMA SlotIs ==
  ASSUME NEW sl \in SlotType
  PROVE  /\ sl.call \in Calls /\ sl.gate \in Gatings /\ sl.asked \in Levels
         /\ sl.exec \in {"idle", "running", "done"} /\ sl.rewrites \in Nat
         /\ sl.in_reply \in BOOLEAN /\ sl.result \in BOOLEAN /\ sl.post \in Nat
         /\ sl.deferred \in BOOLEAN
BY DEF SlotType

(* A new slot has been neither judged nor run. *)
LEMMA NewSlotIs ==
  ASSUME NEW c \in Calls, NEW b \in BOOLEAN, NEW sl, sl = NewSlot(c, b)
  PROVE  /\ sl \in SlotType /\ sl.call = c /\ sl.gate = "unchecked" /\ sl.asked = "none"
         /\ sl.exec = "idle" /\ sl.rewrites = 0 /\ sl.in_reply = b /\ ~sl.result
         /\ sl.post = NoId /\ ~sl.deferred /\ sl.approver = "none"
BY DEF NewSlot, SlotType, Gatings, Levels, NoId


(* Two maps of slots laid over each other are a map of slots. *)
LEMMA OverSlotMap ==
  ASSUME NEW f \in SlotMap, NEW g \in SlotMap
  PROVE  Over(f, g) \in SlotMap
<1>1. Over(f, g) \in [DOMAIN f \cup DOMAIN g -> SlotType]
  BY InSlotMap DEF Over
<1> QED BY <1>1, InSlotMap, IsSlotMap

(* A call starts: the slot it had, or a new one, runs. *)
Started(slots, c) ==
  [IF c \in DOMAIN slots THEN slots[c] ELSE NewSlot(c, FALSE)
     EXCEPT !.gate = "permitted", !.exec = "running"]

(* The slot a call has, or gets when it starts early, or with its reply. *)
Before(slots, c)  == IF c \in DOMAIN slots THEN slots[c] ELSE NewSlot(c, FALSE)
BeforeReply(slots, c) == IF c \in DOMAIN slots THEN slots[c] ELSE NewSlot(c, TRUE)

(* A call that starts keeps everything but its gate and its progress. *)
LEMMA StartedIs ==
  ASSUME NEW slots \in SlotMap, NEW c \in Calls, NEW sl, sl = Started(slots, c),
         NEW old, old = Before(slots, c)
  PROVE  /\ sl \in SlotType /\ old \in SlotType
         /\ sl.gate = "permitted" /\ sl.exec = "running"
         /\ sl.call = old.call /\ sl.in_reply = old.in_reply /\ sl.result = old.result
         /\ sl.post = old.post /\ sl.deferred = old.deferred /\ sl.approver = old.approver
         /\ sl.asked = old.asked
<1>1. old \in SlotType BY InSlotMap, NewSlotIs DEF Before
<1>2. sl = [old EXCEPT !.gate = "permitted", !.exec = "running"] BY DEF Started, Before
<1> QED BY <1>1, <1>2 DEF SlotType, Gatings

(* To execute a batch is to start its calls and no other. *)
LEMMA IssueExecute ==
  ASSUME NEW s \in StateType, NEW cs \in SUBSET Calls, NEW r, r = Issue(s, Execute(cs))
  PROVE  /\ Execute(cs) \in EffectType /\ Booked(s, r, Execute(cs)) /\ SameTurn(s, r)
         /\ r.turn.submit = s.turn.submit
         /\ r.turn.slots = Over([c \in cs |-> Started(s.turn.slots, c)], s.turn.slots)
<1> DEFINE e == Execute(cs)
           m == Numbered(s, e)
           id == s.n
           run == [c \in cs |-> Started(m.turn.slots, c)]
           slots == Over(run, m.turn.slots)
           t == [m.turn EXCEPT !.pre_ckpt = "none", !.pre_ckpt_id = NoId,
                               !.executed_step = TRUE, !.slots = slots]
<1>0. e \in EffectType BY DEF Execute, Effect, EffectType, Levels
<1>1. /\ m \in StateType
      /\ m.n = s.n + 1 /\ m.issued = Over(One(s.n, e), s.issued)
      /\ m.held = (IF s.paused THEN s.held \cup {s.n} ELSE s.held)
      /\ m.out = (IF s.paused THEN s.out ELSE Over(One(s.n, e), s.out))
      /\ m.paused = s.paused /\ m.turn = s.turn /\ m.pairs = s.pairs
      /\ m.continuations = s.continuations
  BY <1>0, NumberedIs
<1>2. r = OnIssued(m, id, e) BY IssueIs
<1>3. id \in Nat /\ m.turn \in TurnType /\ m.turn.slots \in SlotMap BY <1>1, StateIs
<1>4. e.kind = "execute" /\ e.calls = cs BY DEF Execute, Effect
<1> HIDE DEF m, id, e
<1>5. r = [m EXCEPT !.turn = t]
  <2>1. r = OnExecute(m, e) BY <1>2, <1>4 DEF OnIssued
  <2> QED BY <2>1, <1>4 DEF OnExecute, Started
<1>6. run \in SlotMap
  <2>1. run \in [cs -> SlotType] BY <1>3, StartedIs
  <2> QED BY <2>1, IsSlotMap
<1> HIDE DEF run
<1>7. slots \in SlotMap BY <1>3, <1>6, OverSlotMap
<1> HIDE DEF slots
<1>8. t \in TurnType BY <1>3, <1>7 DEF TurnType, NoId
<1>9. /\ t.slots = slots /\ t.sample = m.turn.sample /\ t.cause = m.turn.cause
      /\ t.suspended = m.turn.suspended /\ t.soft = m.turn.soft /\ t.submit = m.turn.submit
  BY <1>3 DEF TurnType
<1> HIDE DEF t
<1>10. r \in StateType /\ r.turn = t /\ Books(m, r) BY <1>1, <1>5, <1>8, SetTurn
<1> QED BY <1>0, <1>1, <1>9, <1>10 DEF Booked, Books, SameTurn, e, slots, run

PutSlots(s, f) == [s EXCEPT !.turn = [@ EXCEPT !.slots = f]]

(* New slots leave the books and the turn alone. *)
LEMMA SetSlots ==
  ASSUME NEW s \in StateType, NEW f \in SlotMap, NEW r, r = PutSlots(s, f)
  PROVE  /\ r \in StateType /\ Books(s, r) /\ SameTurn(s, r) /\ r.turn.slots = f
         /\ r.turn.submit = s.turn.submit
<1> DEFINE t == [s.turn EXCEPT !.slots = f]
<1>1. t \in TurnType BY StateIs, SMTT(30) DEF TurnType
<1>2. /\ t.slots = f /\ t.sample = s.turn.sample /\ t.cause = s.turn.cause
      /\ t.suspended = s.turn.suspended /\ t.soft = s.turn.soft /\ t.submit = s.turn.submit
  BY StateIs DEF TurnType
<1>3. r = [s EXCEPT !.turn = t] BY DEF PutSlots
<1> HIDE DEF t
<1>4. r \in StateType /\ r.turn = t /\ Books(s, r) BY <1>1, <1>3, SetTurn
<1> QED BY <1>2, <1>4 DEF SameTurn

Gate(sl, gate) == [sl EXCEPT !.gate = gate]
Post(sl, id) == [sl EXCEPT !.post = id, !.exec = "done"]

(* To wait at a gate changes one slot's gate. *)
LEMMA AwaitingIs ==
  ASSUME NEW s \in StateType, NEW c \in DOMAIN s.turn.slots, NEW gate \in Gatings,
         NEW r, r = Awaiting(s, {c}, gate)
  PROVE  /\ r \in StateType /\ Books(s, r) /\ SameTurn(s, r) /\ r.turn.submit = s.turn.submit
         /\ r.turn.slots = [s.turn.slots EXCEPT ![c] = Gate(@, gate)]
<1> DEFINE slots == s.turn.slots
           f == [d \in {c} |-> Gate(slots[d], gate)]
           g == Over(f, slots)
<1>1. slots \in SlotMap /\ c \in Calls /\ slots[c] \in SlotType BY StateIs, InSlotMap
<1>2. Gate(slots[c], gate) \in SlotType BY <1>1 DEF SlotType, Gate
<1>3. f \in SlotMap
  <2>1. f \in [{c} -> SlotType] BY <1>2
  <2> QED BY <2>1, <1>1, IsSlotMap
<1>4. r = PutSlots(s, g) BY DEF PutSlots, Awaiting, Gate
<1>g. g = [slots EXCEPT ![c] = Gate(@, gate)] BY <1>1, InSlotMap DEF Over
<1> HIDE DEF f
<1>5. g \in SlotMap BY <1>1, <1>3, OverSlotMap
<1> HIDE DEF g
<1>6. /\ r \in StateType /\ Books(s, r) /\ SameTurn(s, r) /\ r.turn.slots = g
      /\ r.turn.submit = s.turn.submit
  BY <1>4, <1>5, SetSlots
<1> QED BY <1>g, <1>6

(* To run the hook after a call changes one slot. *)
LEMMA PostingIs ==
  ASSUME NEW s \in StateType, NEW c \in DOMAIN s.turn.slots, NEW id \in Nat,
         NEW r, r = Posting(s, id, {c})
  PROVE  /\ r \in StateType /\ Books(s, r) /\ SameTurn(s, r) /\ r.turn.submit = s.turn.submit
         /\ r.turn.slots = [s.turn.slots EXCEPT ![c] = Post(@, id)]
<1> DEFINE slots == s.turn.slots
           f == [d \in {c} |-> Post(slots[d], id)]
           g == Over(f, slots)
<1>1. slots \in SlotMap /\ c \in Calls /\ slots[c] \in SlotType BY StateIs, InSlotMap
<1>2. Post(slots[c], id) \in SlotType BY <1>1 DEF SlotType, Post
<1>3. f \in SlotMap
  <2>1. f \in [{c} -> SlotType] BY <1>2
  <2> QED BY <2>1, <1>1, IsSlotMap
<1>4. r = PutSlots(s, g) BY DEF PutSlots, Posting, Post
<1>g. g = [slots EXCEPT ![c] = Post(@, id)] BY <1>1, InSlotMap DEF Over
<1> HIDE DEF f
<1>5. g \in SlotMap BY <1>1, <1>3, OverSlotMap
<1> HIDE DEF g
<1>6. /\ r \in StateType /\ Books(s, r) /\ SameTurn(s, r) /\ r.turn.slots = g
      /\ r.turn.submit = s.turn.submit
  BY <1>4, <1>5, SetSlots
<1> QED BY <1>g, <1>6

(* A gate of one call: who is asked, and what its slot becomes. *)
CallGate(e, c) ==
  \/ e = Hook("PreTool", {c})
  \/ \E level \in Levels : e = Human("PreTool", {c}, level)
  \/ e = Hook("PostTool", {c})

GateSlot(e, id, sl) ==
  IF e.point = "PostTool" THEN Post(sl, id)
  ELSE Gate(sl, IF e.kind = "hook" THEN "await_hook" ELSE "await_human")

(* An effect that asks about one call changes the slot of that call only. *)
LEMMA IssueCallGate ==
  ASSUME NEW s \in StateType, NEW c \in DOMAIN s.turn.slots, NEW e, CallGate(e, c),
         NEW r, r = Issue(s, e)
  PROVE  /\ e \in EffectType /\ e.calls = {c} /\ e.kind \in {"hook", "human"}
         /\ Booked(s, r, e) /\ SameTurn(s, r) /\ r.turn.submit = s.turn.submit
         /\ r.turn.slots = [s.turn.slots EXCEPT ![c] = GateSlot(e, s.n, @)]
<1> DEFINE m == Numbered(s, e)
           id == s.n
<1>c. c \in Calls BY StateIs, InSlotMap
<1>0. /\ e \in EffectType /\ e.calls = {c}
      /\ \/ e.kind = "hook" /\ e.point = "PreTool"
         \/ e.kind = "human" /\ e.point = "PreTool"
         \/ e.kind = "hook" /\ e.point = "PostTool"
  BY <1>c DEF CallGate, Hook, Human, Effect, EffectType, HookPoints, Levels
<1>1. /\ m \in StateType
      /\ m.n = s.n + 1 /\ m.issued = Over(One(s.n, e), s.issued)
      /\ m.held = (IF s.paused THEN s.held \cup {s.n} ELSE s.held)
      /\ m.out = (IF s.paused THEN s.out ELSE Over(One(s.n, e), s.out))
      /\ m.paused = s.paused /\ m.turn = s.turn /\ m.pairs = s.pairs
      /\ m.continuations = s.continuations
  BY <1>0, NumberedIs
<1>2. r = OnIssued(m, id, e) BY IssueIs
<1>3. id \in Nat /\ c \in DOMAIN m.turn.slots BY <1>1, StateIs
<1> HIDE DEF m
<1>4. SUFFICES /\ r \in StateType /\ Books(m, r) /\ SameTurn(m, r)
               /\ r.turn.submit = m.turn.submit
               /\ r.turn.slots = [m.turn.slots EXCEPT ![c] = GateSlot(e, id, @)]
  BY <1>0, <1>1 DEF Booked, Books, SameTurn
<1> HIDE DEF id
<1>g. "await_hook" \in Gatings /\ "await_human" \in Gatings BY DEF Gatings
<1>5. CASE e.kind = "hook" /\ e.point = "PreTool"
  <2>1. r = Awaiting(m, {c}, "await_hook") BY <1>0, <1>2, <1>5 DEF OnIssued, OnGate
  <2>2. /\ r \in StateType /\ Books(m, r) /\ SameTurn(m, r) /\ r.turn.submit = m.turn.submit
        /\ r.turn.slots = [m.turn.slots EXCEPT ![c] = Gate(@, "await_hook")]
    BY <1>1, <1>3, <1>g, <2>1, AwaitingIs
  <2> QED BY <1>5, <2>2 DEF GateSlot
<1>6. CASE e.kind = "human" /\ e.point = "PreTool"
  <2> DEFINE a == Awaiting(m, {c}, "await_human")
  <2>1. r = Asked(a, id, {c}) BY <1>0, <1>2, <1>6 DEF OnIssued, OnGate
  <2>2. /\ a \in StateType /\ Books(m, a) /\ SameTurn(m, a) /\ a.turn.submit = m.turn.submit
        /\ a.turn.slots = [m.turn.slots EXCEPT ![c] = Gate(@, "await_human")]
    BY <1>1, <1>3, <1>g, AwaitingIs
  <2> HIDE DEF a
  <2>3. r \in StateType /\ r.turn = a.turn /\ Books(a, r) BY <2>1, <2>2, <1>3, AskedIs
  <2> QED BY <1>6, <2>2, <2>3 DEF GateSlot, Books, SameTurn
<1>7. CASE e.kind = "hook" /\ e.point = "PostTool"
  <2>1. r = Posting(m, id, {c}) BY <1>0, <1>2, <1>7 DEF OnIssued, OnGate
  <2>2. /\ r \in StateType /\ Books(m, r) /\ SameTurn(m, r) /\ r.turn.submit = m.turn.submit
        /\ r.turn.slots = [m.turn.slots EXCEPT ![c] = Post(@, id)]
    BY <1>1, <1>3, <2>1, PostingIs
  <2> QED BY <1>7, <2>2 DEF GateSlot
<1> QED BY <1>0, <1>5, <1>6, <1>7

(* To forget effects removes them from the books. *)
LEMMA ForgetIs ==
  ASSUME NEW s \in StateType, NEW ids, NEW r, r = Forget(s, ids)
  PROVE  /\ r \in StateType
         /\ r.n = s.n /\ r.issued = Restrict(s.issued, DOMAIN s.issued \ ids)
         /\ r.held = s.held \ ids /\ r.out = s.out /\ r.paused = s.paused
         /\ r.pairs = s.pairs /\ r.continuations = s.continuations /\ r.turn = s.turn
<1> DEFINE a == Restrict(s.issued, DOMAIN s.issued \ ids)
           h == s.held \ ids
<1>1. a \in EffectMap /\ h \subseteq Nat BY StateIs, RestrictedMap
<1>2. r = [s EXCEPT !.issued = a, !.held = h] BY DEF Forget
<1> HIDE DEF a, h
<1>3. r \in StateType BY <1>1, <1>2, ZenonT(60) DEF StateType
<1>4. /\ r.n = s.n /\ r.issued = a /\ r.held = h /\ r.out = s.out /\ r.paused = s.paused
      /\ r.pairs = s.pairs /\ r.continuations = s.continuations /\ r.turn = s.turn
  BY <1>2 DEF StateType
<1> QED BY <1>3, <1>4 DEF a, h

(* To settle an effect removes it, and ends the sample it was. *)
LEMMA SettleIs ==
  ASSUME NEW s \in StateType, NEW id \in Nat, NEW r, r = Settle(s, id)
  PROVE  /\ r \in StateType
         /\ r.n = s.n /\ r.issued = Restrict(s.issued, DOMAIN s.issued \ {id})
         /\ r.held = s.held \ {id} /\ r.out = s.out /\ r.paused = s.paused
         /\ r.pairs = s.pairs /\ r.continuations = s.continuations
         /\ r.turn.slots = s.turn.slots /\ r.turn.cause = s.turn.cause
         /\ r.turn.sample = (IF s.turn.sample = id THEN NoId ELSE s.turn.sample)
         /\ r.turn.suspended = s.turn.suspended /\ r.turn.soft = s.turn.soft
         /\ r.turn.submit = s.turn.submit
<1> DEFINE f == Forget(s, {id})
           sample == IF s.turn.sample = id THEN NoId ELSE s.turn.sample
           done == IF s.turn.pre_ckpt_id = id THEN "done" ELSE s.turn.pre_ckpt
           pid == IF s.turn.pre_ckpt_id = id THEN NoId ELSE s.turn.pre_ckpt_id
           restoring == IF f.restoring = id THEN NoId ELSE f.restoring
           t == [s.turn EXCEPT !.sample = sample, !.pre_ckpt = done, !.pre_ckpt_id = pid]
           g == [f EXCEPT !.restoring = restoring]
<1>1. /\ f \in StateType
      /\ f.n = s.n /\ f.issued = Restrict(s.issued, DOMAIN s.issued \ {id})
      /\ f.held = s.held \ {id} /\ f.out = s.out /\ f.paused = s.paused
      /\ f.pairs = s.pairs /\ f.continuations = s.continuations /\ f.turn = s.turn
  BY ForgetIs, ZenonT(40)
<1>2. r = [g EXCEPT !.turn = t] BY <1>1 DEF Settle
<1> HIDE DEF f
<1>3. restoring \in Nat /\ sample \in Nat /\ done \in {"none", "pending", "done"} /\ pid \in Nat
  BY <1>1, StateIs DEF NoId, TurnType
<1> HIDE DEF sample, done, pid, restoring
<1>4. g \in StateType /\ Books(f, g) BY <1>1, <1>3 DEF StateType, Books
<1>5. t \in TurnType BY <1>3, StateIs, ZenonT(60) DEF TurnType
<1>6. /\ t.slots = s.turn.slots /\ t.cause = s.turn.cause /\ t.sample = sample
      /\ t.suspended = s.turn.suspended /\ t.soft = s.turn.soft /\ t.submit = s.turn.submit
  BY <1>3, StateIs DEF TurnType
<1> HIDE DEF g, t
<1>7. r \in StateType /\ r.turn = t /\ Books(g, r) BY <1>2, <1>4, <1>5, SetTurn
<1> QED BY <1>1, <1>4, <1>6, <1>7 DEF Books, sample

(* A slot with its result is done, whatever it was. *)
LEMMA ResultedIs ==
  ASSUME NEW sl \in SlotType, NEW r, r = Resulted(sl)
  PROVE  /\ r \in SlotType /\ r.result /\ r.exec = "done" /\ r.gate = sl.gate /\ r.call = sl.call
         /\ r.asked = sl.asked /\ r.in_reply = sl.in_reply /\ r.approver = sl.approver
         /\ r.post = NoId /\ (r.deferred <=> ~sl.in_reply)
<1> DEFINE d == ~sl.in_reply
           x == [sl EXCEPT !.result = TRUE, !.exec = "done", !.post = 0, !.deferred = d]
<1>1. r = x BY DEF Resulted, NoId
<1>2. d \in BOOLEAN BY SlotIs
<1> HIDE DEF d
<1>3. x \in SlotType BY <1>2 DEF SlotType
<1>4. /\ x.result /\ x.exec = "done" /\ x.gate = sl.gate /\ x.call = sl.call
      /\ x.asked = sl.asked /\ x.in_reply = sl.in_reply /\ x.approver = sl.approver
      /\ x.post = NoId /\ x.deferred = d
  BY <1>2 DEF SlotType, NoId
<1> HIDE DEF x
<1> QED BY <1>1, <1>3, <1>4 DEF d

(* The slots and the pairs when the calls cs have their results. *)
ClosedSlots(slots, cs) == [c \in DOMAIN slots |-> IF c \in cs THEN Resulted(slots[c]) ELSE slots[c]]
ClosedPairs(pairs, slots, cs) ==
  [c \in Calls |-> IF c \in cs /\ slots[c].in_reply THEN pairs[c] - 1 ELSE pairs[c]]

(* Results close the pairs of the slots that had none. *)
LEMMA ToolsResultedIs ==
  ASSUME NEW s \in StateType, NEW cs, NEW r, r = ToolsResulted(s, cs)
  PROVE  /\ r \in StateType
         /\ r.n = s.n /\ r.issued = s.issued /\ r.held = s.held /\ r.out = s.out
         /\ r.paused = s.paused /\ r.continuations = s.continuations
         /\ SameTurn(s, r) /\ r.turn.submit = s.turn.submit
         /\ r.turn.slots = ClosedSlots(s.turn.slots, cs)
         /\ r.pairs = ClosedPairs(s.pairs, s.turn.slots, cs)
<1> DEFINE f == ClosedSlots(s.turn.slots, cs)
           p == ClosedPairs(s.pairs, s.turn.slots, cs)
           q == PutSlots(s, f)
<1>1. r = [q EXCEPT !.pairs = p] BY DEF ToolsResulted, PutSlots, ClosedSlots, ClosedPairs
<1>2. f \in SlotMap
  <2>1. /\ s.turn.slots \in SlotMap /\ DOMAIN s.turn.slots \subseteq Calls
        /\ \A c \in DOMAIN s.turn.slots : s.turn.slots[c] \in SlotType
    BY StateIs, InSlotMap
  <2>2. f \in [DOMAIN s.turn.slots -> SlotType] BY <2>1, ResultedIs DEF ClosedSlots
  <2> QED BY <2>1, <2>2, IsSlotMap
<1>3. p \in [Calls -> Int] BY StateIs DEF ClosedPairs
<1>4. /\ q \in StateType /\ Books(s, q) /\ SameTurn(s, q) /\ q.turn.slots = f
      /\ q.turn.submit = s.turn.submit
  BY <1>2, SetSlots
<1> HIDE DEF f, p, q
<1>5. r \in StateType BY <1>1, <1>3, <1>4, ZenonT(60) DEF StateType
<1>6. /\ r.n = q.n /\ r.issued = q.issued /\ r.held = q.held /\ r.out = q.out
      /\ r.paused = q.paused /\ r.continuations = q.continuations /\ r.turn = q.turn /\ r.pairs = p
  BY <1>1, <1>4 DEF StateType
<1> QED BY <1>4, <1>5, <1>6 DEF Books, SameTurn, f, p

(* A turn begins with no slot, no sample and no gate. *)
LEMMA NewTurnIs ==
  ASSUME NEW cause \in {"none", "user", "queued", "wake"}, NEW t, t = NewTurn(cause)
  PROVE  /\ t \in TurnType /\ t.cause = cause /\ t.sample = NoId /\ t.slots = <<>>
         /\ ~t.suspended /\ t.submit = "none" /\ ~t.soft
BY EmptyMaps DEF NewTurn, TurnType, Waits, NoId

(* The effects that survive the end of a turn. *)
Survives(issued) == {id \in DOMAIN issued : issued[id].kind \in {"checkpoint", "restore"}}

Outcomes == {"done", "failed", "interrupted", "budget", "suspended"}

(* To finish changes no effect and no turn. *)
LEMMA FinishIs ==
  ASSUME NEW s \in StateType, NEW o \in Outcomes, NEW r, r = Finish(s, o)
  PROVE  /\ r \in StateType
         /\ r.n = s.n + 1 /\ r.issued = s.issued /\ r.held = s.held /\ r.out = s.out
         /\ r.paused = s.paused /\ r.pairs = s.pairs /\ r.continuations = s.continuations
         /\ r.turn = s.turn
<1> DEFINE m == s.n + 1
           w == IF s.paused THEN "kept" ELSE "sent"
<1>1. m \in Nat \ {0} /\ w \in {"none", "sent", "kept"} BY StateIs
<1>2. r = [s EXCEPT !.n = m, !.outcome = o, !.finish = w] BY DEF Finish
<1> HIDE DEF m, w
<1>3. r \in StateType BY <1>1, <1>2, ZenonT(60) DEF StateType, Outcomes
<1>4. /\ r.n = m /\ r.issued = s.issued /\ r.held = s.held /\ r.out = s.out
      /\ r.paused = s.paused /\ r.pairs = s.pairs /\ r.continuations = s.continuations
      /\ r.turn = s.turn
  BY <1>2 DEF StateType
<1> QED BY <1>3, <1>4 DEF m

(* To end the turn drops it, and every effect but checkpoints and          *)
(* restores.                                                               *)
LEMMA EndTurnIs ==
  ASSUME NEW s \in StateType, NEW o \in Outcomes, NEW r, r = EndTurn(s, o)
  PROVE  /\ r \in StateType
         /\ r.n = s.n + 1 /\ r.issued = Restrict(s.issued, Survives(s.issued))
         /\ r.held \subseteq s.held /\ (s.held \subseteq DOMAIN s.issued => r.held \subseteq DOMAIN r.issued)
         /\ r.out = s.out /\ r.paused = s.paused /\ r.pairs = s.pairs
         /\ r.continuations = s.continuations /\ r.turn = NewTurn("none")
<1> DEFINE gone == {id \in DOMAIN s.issued : s.issued[id].kind \notin {"checkpoint", "restore"}}
           f == Forget(s, gone)
           g == IF f.session_gate = "waiting" THEN "none" ELSE f.session_gate
           t == NewTurn("none")
           over == [f EXCEPT !.turn = t, !.questions = {}, !.session_gate = g]
<1>1. r = Finish(over, o) BY DEF EndTurn
<1>3. DOMAIN s.issued \ gone = Survives(s.issued) BY DEF Survives
<1>f. f = Forget(s, gone) OBVIOUS
<1> HIDE DEF gone, f
<1>2. /\ f \in StateType
      /\ f.n = s.n /\ f.issued = Restrict(s.issued, DOMAIN s.issued \ gone)
      /\ f.held = s.held \ gone /\ f.out = s.out /\ f.paused = s.paused
      /\ f.pairs = s.pairs /\ f.continuations = s.continuations
  BY <1>f, ForgetIs
<1>4. t \in TurnType BY NewTurnIs
<1>5. g \in Waits BY <1>2, StateIs DEF Waits
<1> HIDE DEF g, t
<1>6. over \in StateType BY <1>2, <1>4, <1>5 DEF StateType
<1>7. /\ over.n = f.n /\ over.issued = f.issued /\ over.held = f.held /\ over.out = f.out
      /\ over.paused = f.paused /\ over.pairs = f.pairs /\ over.continuations = f.continuations
      /\ over.turn = t
  BY <1>2, <1>4, <1>5 DEF StateType
<1> HIDE DEF over
<1>8. /\ r \in StateType
      /\ r.n = over.n + 1 /\ r.issued = over.issued /\ r.held = over.held /\ r.out = over.out
      /\ r.paused = over.paused /\ r.pairs = over.pairs /\ r.continuations = over.continuations
      /\ r.turn = over.turn
  BY <1>1, <1>6, FinishIs
<1>9. DOMAIN r.issued = Survives(s.issued) BY <1>2, <1>3, <1>7, <1>8 DEF Restrict
<1>10. s.held \subseteq DOMAIN s.issued => r.held \subseteq DOMAIN r.issued
  BY <1>2, <1>3, <1>7, <1>8, <1>9
<1> QED BY <1>2, <1>3, <1>7, <1>8, <1>10 DEF t

(* The least of some numbers is one of them. *)
LEMMA MinIn ==
  ASSUME NEW S, S \subseteq Nat, S # {}
  PROVE  Min(S) \in S
<1> DEFINE R == OpToRel(<, Nat)
<1>1. IsWellFoundedOn(R, Nat) BY NatLessThanWellFounded
<1>2. ASSUME NEW x \in Nat, NEW y \in Nat, y < x PROVE <<y, x>> \in R
  BY <1>2 DEF R, OpToRel
<1> HIDE DEF R
<1>3. PICK x \in S : \A y \in S : ~(<<y, x>> \in R) BY <1>1, WFMin
<1>4. ASSUME NEW y \in S PROVE x <= y
  <2>1. SUFFICES ASSUME y < x PROVE FALSE OBVIOUS
  <2>2. <<y, x>> \in R BY <1>2, <2>1
  <2> QED BY <1>3, <2>2
<1> QED BY <1>4 DEF Min

(* A queue without an item is a queue. *)
LEMMA WithoutIs ==
  ASSUME NEW q \in Seq({"user", "wake"}), NEW item
  PROVE  Without(q, item) \in Seq({"user", "wake"})
<1> DEFINE I == {i \in 1..Len(q) : q[i] = item}
           at == IF I # {} THEN Min(I) ELSE 0
<1>1. at = SelectInSeq(q, LAMBDA x : x = item) BY DEF SelectInSeq
<1>2. at # 0 => at \in 1..Len(q)
  <2>1. I \subseteq Nat /\ I \subseteq 1..Len(q) OBVIOUS
  <2>2. at # 0 => I # {} /\ at = Min(I) OBVIOUS
  <2> HIDE DEF I, at
  <2> QED BY <2>1, <2>2, MinIn
<1>3. Without(q, item) = IF at = 0 THEN q ELSE RemoveAt(q, at) BY <1>1 DEF Without
<1> HIDE DEF at
<1>4. ASSUME at # 0 PROVE RemoveAt(q, at) \in Seq({"user", "wake"})
  BY <1>2, <1>4 DEF RemoveAt
<1> QED BY <1>3, <1>4

Causes == {"user", "queued", "wake"}

(* A turn that starts counts one continuation more when a wake started it, *)
(* and none otherwise.                                                     *)
LEMMA TurnStartedIs ==
  ASSUME NEW s \in StateType, NEW cause \in Causes, NEW r, r = TurnStarted(s, cause)
  PROVE  /\ r \in StateType
         /\ r.n = s.n /\ r.issued = s.issued /\ r.held = s.held /\ r.out = s.out
         /\ r.paused = s.paused /\ r.pairs = s.pairs /\ r.turn = NewTurn(cause)
         /\ r.continuations = IF cause = "wake" THEN s.continuations + 1 ELSE 0
<1> DEFINE t == NewTurn(cause)
           n == IF cause \in {"user", "queued"} THEN 0 ELSE s.continuations + 1
           q == CASE cause = "queued" -> Without(s.queue, "user")
                  [] cause = "wake" -> Without(s.queue, "wake")
                  [] OTHER -> s.queue
           x == [s EXCEPT !.turn = t, !.questions = {}, !.continuations = n, !.queue = q]
<1>1. r = x BY DEF TurnStarted, Causes
<1>2. t \in TurnType BY NewTurnIs DEF Causes
<1>3. n \in Nat BY StateIs
<1>4. q \in Seq({"user", "wake"}) BY StateIs, WithoutIs
<1> HIDE DEF q
<1>5. n = IF cause = "wake" THEN s.continuations + 1 ELSE 0 BY DEF Causes
<1> HIDE DEF t, n
<1>6. x \in StateType BY <1>2, <1>3, <1>4 DEF StateType
<1>7. /\ x.n = s.n /\ x.issued = s.issued /\ x.held = s.held /\ x.out = s.out
      /\ x.paused = s.paused /\ x.pairs = s.pairs /\ x.turn = t /\ x.continuations = n
  BY DEF StateType
<1> HIDE DEF x
<1> QED BY <1>1, <1>5, <1>6, <1>7 DEF t

(* To reopen a slot at most makes it unchecked again. *)
LEMMA ReopenedIs ==
  ASSUME NEW sl \in SlotType, NEW r, r = Reopened(sl)
  PROVE  /\ r \in SlotType /\ r.call = sl.call /\ r.asked = sl.asked /\ r.exec = sl.exec
         /\ r.in_reply = sl.in_reply /\ r.result = sl.result /\ r.post = sl.post
         /\ r.deferred = sl.deferred /\ r.approver = sl.approver
         /\ \/ r.gate = sl.gate
            \/ r.gate = "unchecked" /\ sl.gate \in {"deferred", "await_nobody", "need_human"}
<1> DEFINE x == [sl EXCEPT !.gate = "unchecked"]
<1>1. x \in SlotType BY DEF SlotType, Gatings
<1>2. /\ x.call = sl.call /\ x.asked = sl.asked /\ x.exec = sl.exec
      /\ x.in_reply = sl.in_reply /\ x.result = sl.result /\ x.post = sl.post
      /\ x.deferred = sl.deferred /\ x.approver = sl.approver /\ x.gate = "unchecked"
  BY DEF SlotType
<1>3. r = IF ~sl.result /\ sl.gate \in {"deferred", "await_nobody", "need_human"} THEN x ELSE sl
  BY DEF Reopened
<1> HIDE DEF x
<1> QED BY <1>1, <1>2, <1>3

(* A turn that continues has the same calls, and is no longer suspended. *)
LEMMA ContinuedIs ==
  ASSUME NEW s \in StateType, s.turn.suspended, NEW r, r = TurnStarted(s, "continuation")
  PROVE  /\ r \in StateType /\ Books(s, r)
         /\ r.turn.cause = s.turn.cause /\ r.turn.sample = s.turn.sample /\ ~r.turn.suspended
         /\ r.turn.submit = s.turn.submit
         /\ r.turn.slots = [c \in DOMAIN s.turn.slots |-> Reopened(s.turn.slots[c])]
<1> DEFINE f == [c \in DOMAIN s.turn.slots |-> Reopened(s.turn.slots[c])]
           q == {x \in s.questions : x.gate # NoId}
           t == [s.turn EXCEPT !.suspended = FALSE, !.slots = f]
           y == [s EXCEPT !.turn = t, !.questions = q]
<1>1. r = y BY DEF TurnStarted
<1>2. f \in SlotMap
  <2>1. /\ s.turn.slots \in SlotMap /\ DOMAIN s.turn.slots \subseteq Calls
        /\ \A c \in DOMAIN s.turn.slots : s.turn.slots[c] \in SlotType
    BY StateIs, InSlotMap
  <2>2. f \in [DOMAIN s.turn.slots -> SlotType] BY <2>1, ReopenedIs
  <2> QED BY <2>1, <2>2, IsSlotMap
<1>3. q \in SUBSET QuestionType BY StateIs
<1> HIDE DEF f, q
<1>4. t \in TurnType BY <1>2, StateIs, ZenonT(60) DEF TurnType
<1>5. /\ t.slots = f /\ t.sample = s.turn.sample /\ t.cause = s.turn.cause
      /\ ~t.suspended /\ t.submit = s.turn.submit
  BY StateIs DEF TurnType
<1> HIDE DEF t
<1>6. y \in StateType BY <1>3, <1>4 DEF StateType
<1>7. y.turn = t /\ Books(s, y) BY DEF StateType, Books
<1> HIDE DEF y
<1> QED BY <1>1, <1>5, <1>6, <1>7 DEF f

(* The slots and pairs of a reply. *)
ReplySlot(slots, c) ==
  IF c \in DOMAIN slots THEN [slots[c] EXCEPT !.in_reply = TRUE, !.deferred = FALSE]
  ELSE NewSlot(c, TRUE)
ReplyPairs(pairs, slots, calls) ==
  [c \in Calls |-> IF c \in calls /\ ~(c \in DOMAIN slots /\ slots[c].deferred)
                     THEN pairs[c] + 1 ELSE pairs[c]]

(* A reply takes over the slot of a call that ran early. *)
LEMMA ReplySlotIs ==
  ASSUME NEW slots \in SlotMap, NEW c \in Calls, NEW sl, sl = ReplySlot(slots, c),
         NEW old, old = BeforeReply(slots, c)
  PROVE  /\ sl \in SlotType /\ old \in SlotType /\ sl.in_reply /\ ~sl.deferred
         /\ sl.call = old.call /\ sl.gate = old.gate /\ sl.asked = old.asked /\ sl.exec = old.exec
         /\ sl.result = old.result /\ sl.post = old.post /\ sl.approver = old.approver
<1>1. old \in SlotType BY InSlotMap, NewSlotIs DEF BeforeReply
<1> DEFINE x == [old EXCEPT !.in_reply = TRUE, !.deferred = FALSE]
<1>2. x \in SlotType BY <1>1 DEF SlotType
<1>3. /\ x.in_reply /\ ~x.deferred
      /\ x.call = old.call /\ x.gate = old.gate /\ x.asked = old.asked /\ x.exec = old.exec
      /\ x.result = old.result /\ x.post = old.post /\ x.approver = old.approver
  BY <1>1 DEF SlotType
<1> HIDE DEF x
<1>4. CASE c \in DOMAIN slots BY <1>1, <1>2, <1>3, <1>4 DEF ReplySlot, BeforeReply, x
<1>5. CASE c \notin DOMAIN slots
  BY <1>1, <1>5, NewSlotIs DEF ReplySlot, BeforeReply
<1> QED BY <1>4, <1>5

(* A reply gives the turn exactly its calls, each open until it has a      *)
(* result.                                                                 *)
LEMMA OnReplyIs ==
  ASSUME NEW s \in StateType, NEW calls \in SUBSET Calls, NEW interrupted \in BOOLEAN,
         NEW r, r = OnReply(s, calls, interrupted)
  PROVE  /\ r \in StateType
         /\ r.n = s.n /\ r.issued = s.issued /\ r.held = s.held /\ r.out = s.out
         /\ r.paused = s.paused /\ r.continuations = s.continuations
         /\ r.turn.cause = s.turn.cause /\ r.turn.sample = NoId
         /\ r.turn.suspended = s.turn.suspended /\ r.turn.submit = s.turn.submit
         /\ r.turn.slots = [c \in calls |-> ReplySlot(s.turn.slots, c)]
         /\ r.pairs = ReplyPairs(s.pairs, s.turn.slots, calls)
<1> DEFINE f == [c \in calls |-> ReplySlot(s.turn.slots, c)]
           p == ReplyPairs(s.pairs, s.turn.slots, calls)
           re == CASE interrupted -> "interrupted"
                   [] ~interrupted /\ calls # {} -> "calls"
                   [] ~interrupted /\ calls = {} -> "text"
           t == [s.turn EXCEPT !.sample = 0, !.reply = re, !.slots = f]
           y == [s EXCEPT !.turn = t, !.pairs = p]
<1>1. r = y BY DEF OnReply, ReplySlot, ReplyPairs, NoId
<1>2. f \in SlotMap
  <2>1. f \in [calls -> SlotType] BY StateIs, ReplySlotIs
  <2> QED BY <2>1, IsSlotMap
<1>3. p \in [Calls -> Int] BY StateIs DEF ReplyPairs
<1>4. re \in {"none", "text", "calls", "interrupted"} OBVIOUS
<1> HIDE DEF f, p, re
<1>t. s.turn \in TurnType BY StateIs
<1>5. t \in TurnType BY <1>2, <1>4, <1>t DEF TurnType
<1>6. /\ t.slots = f /\ t.sample = 0 /\ t.cause = s.turn.cause
      /\ t.suspended = s.turn.suspended /\ t.submit = s.turn.submit
  BY StateIs DEF TurnType
<1> HIDE DEF t
<1>7. y \in StateType BY <1>3, <1>5 DEF StateType
<1>8. /\ y.n = s.n /\ y.issued = s.issued /\ y.held = s.held /\ y.out = s.out
      /\ y.paused = s.paused /\ y.continuations = s.continuations /\ y.turn = t /\ y.pairs = p
  BY DEF StateType
<1> HIDE DEF y
<1> QED BY <1>1, <1>6, <1>7, <1>8 DEF f, p, NoId

Rings(sl) == Attr[sl.call].rings

SlotOK(sl) ==
  /\ sl.gate \in {"need_hook", "await_hook"} =>
       /\ Rings(sl) # "deny"
       /\ sl.asked = "none" => Rings(sl) = "allow"
       /\ Rings(sl) = "invariant" => sl.asked = "invariant"
  /\ sl.gate \in {"need_human", "await_human", "await_nobody"} =>
       /\ Rings(sl) # "deny" /\ sl.asked # "none"
       /\ Rings(sl) = "invariant" => sl.asked = "invariant"
  /\ sl.gate = "permitted" => LetThrough(sl)
  /\ sl.exec = "running" => sl.gate = "permitted"
  /\ sl.exec = "done" /\ ~sl.result => sl.post # NoId
  /\ ~sl.in_reply => sl.gate = "permitted" /\ (sl.result <=> sl.deferred)

SameRun(sl, r) ==
  /\ r.in_reply = sl.in_reply /\ r.result = sl.result /\ r.exec = sl.exec /\ r.post = sl.post

VerdictType ==
  [tag : {"allow", "deny", "ask", "defer", "rewrite", "continue"},
   by : {"hook", "kernel", "env"} \cup Responders, call : Calls \cup {NoId}]

(* What the rings say of a call. *)
LEMMA AttrIs ==
  ASSUME NEW c \in Calls
  PROVE  Attr[c].rings \in {"allow", "policy", "invariant", "deny"} /\ Attr[c].sandboxed \in BOOLEAN
BY KernelAssumption DEF CallAttributes


(* The verdict of the rings on an unchecked call is recorded well. *)
LEMMA RingsVerdictOK ==
  ASSUME NEW sl \in SlotType, SlotOK(sl), sl.gate = "unchecked",
         NEW v, v \in {"deny", Rings(sl)}, NEW r, r = RingsVerdict(sl, v)
  PROVE  r \in SlotType /\ SlotOK(r) /\ SameRun(sl, r)
<1>1. sl.call \in Calls /\ Rings(sl) \in {"allow", "policy", "invariant", "deny"}
  BY SlotIs, AttrIs DEF Rings
<1>2. CASE v = "deny"
  <2> DEFINE x == [sl EXCEPT !.gate = "closed"]
  <2>1. r = x BY <1>2 DEF RingsVerdict
  <2>2. x \in SlotType BY DEF SlotType, Gatings
  <2>3. SameRun(sl, x) /\ x.gate = "closed" /\ x.deferred = sl.deferred BY DEF SlotType, SameRun
  <2> HIDE DEF x
  <2> QED BY <2>1, <2>2, <2>3 DEF SlotOK, SameRun
<1>3. CASE v # "deny" /\ v = "allow"
  <2> DEFINE gate == IF "PreTool" \in Hooked THEN "need_hook" ELSE "permitted"
             x == [sl EXCEPT !.gate = gate, !.asked = "none"]
  <2>1. r = x BY <1>3 DEF RingsVerdict
  <2>2. gate \in {"need_hook", "permitted"} OBVIOUS
  <2> HIDE DEF gate
  <2>3. x \in SlotType BY <2>2 DEF SlotType, Gatings, Levels
  <2>4. /\ SameRun(sl, x) /\ x.gate = gate /\ x.deferred = sl.deferred /\ x.asked = "none"
        /\ x.call = sl.call
    BY DEF SlotType, SameRun
  <2> HIDE DEF x
  <2>5. Rings(x) = "allow" BY <1>3, <2>4 DEF Rings
  <2>6. LetThrough(x) BY <2>5 DEF LetThrough, Rings
  <2>7. SlotOK(x) BY <2>2, <2>4, <2>5, <2>6 DEF SlotOK, SameRun
  <2> QED BY <2>1, <2>3, <2>4, <2>7
<1>4. CASE v \in {"policy", "invariant"}
  <2> DEFINE gate == IF "PreTool" \in Hooked THEN "need_hook" ELSE "need_human"
             x == [sl EXCEPT !.gate = gate, !.asked = v]
  <2>1. r = x BY <1>4 DEF RingsVerdict
  <2>2. gate \in {"need_hook", "need_human"} OBVIOUS
  <2> HIDE DEF gate
  <2>3. x \in SlotType BY <1>4, <2>2 DEF SlotType, Gatings, Levels
  <2>4. /\ SameRun(sl, x) /\ x.gate = gate /\ x.deferred = sl.deferred /\ x.asked = v
        /\ x.call = sl.call
    BY DEF SlotType, SameRun
  <2> HIDE DEF x
  <2>5. Rings(x) = v BY <1>4, <2>4 DEF Rings
  <2>7. SlotOK(x) BY <1>4, <2>2, <2>4, <2>5 DEF SlotOK, SameRun
  <2> QED BY <2>1, <2>3, <2>4, <2>7
<1> QED BY <1>1, <1>2, <1>3, <1>4

(* A rewritten call is unchecked again, so no approval survives the        *)
(* rewriting.                                                              *)
LEMMA RewrittenOK ==
  ASSUME NEW sl \in SlotType, SlotOK(sl), sl.gate \in {"await_hook", "await_human"},
         NEW c \in Calls, NEW r, r = Rewritten(sl, c)
  PROVE  r \in SlotType /\ SlotOK(r) /\ SameRun(sl, r)
<1> DEFINE m == sl.rewrites + 1
           x == [sl EXCEPT !.call = c, !.rewrites = m, !.gate = "unchecked", !.approver = "none"]
<1>1. r = x BY DEF Rewritten
<1>2. m \in Nat BY SlotIs
<1> HIDE DEF m
<1>3. x \in SlotType BY <1>2 DEF SlotType, Gatings
<1>4. SameRun(sl, x) /\ x.gate = "unchecked" /\ x.deferred = sl.deferred BY DEF SlotType, SameRun
<1> HIDE DEF x
<1> QED BY <1>1, <1>3, <1>4 DEF SlotOK, SameRun

(* A call that waits may be closed, deferred or reopened. *)
LEMMA RegatedOK ==
  ASSUME NEW sl \in SlotType, SlotOK(sl), sl.gate \in {"await_hook", "await_human", "need_human", "deferred", "await_nobody"},
         NEW gate \in {"closed", "deferred", "unchecked"}, NEW r, r = Gate(sl, gate)
  PROVE  r \in SlotType /\ SlotOK(r) /\ SameRun(sl, r)
<1> DEFINE x == [sl EXCEPT !.gate = gate]
<1>1. r = x BY DEF Gate
<1>2. x \in SlotType BY DEF SlotType, Gatings
<1>3. SameRun(sl, x) /\ x.gate = gate /\ x.deferred = sl.deferred BY DEF SlotType, SameRun
<1> HIDE DEF x
<1> QED BY <1>1, <1>2, <1>3 DEF SlotOK, SameRun

(* The verdict of a hook is recorded well. *)
LEMMA HookVerdictOK ==
  ASSUME NEW sl \in SlotType, SlotOK(sl), sl.gate = "await_hook",
         NEW v \in VerdictType, v.tag # "continue", v.tag = "rewrite" => v.call \in Calls,
         NEW r, r = HookVerdict(sl, v)
  PROVE  r \in SlotType /\ SlotOK(r) /\ SameRun(sl, r)
<1>1. sl.call \in Calls /\ Rings(sl) \in {"allow", "policy", "invariant", "deny"} /\ sl.asked \in Levels
  BY SlotIs, AttrIs DEF Rings
<1>2. v.tag \in {"allow", "deny", "ask", "defer", "rewrite"} BY DEF VerdictType
<1>3. CASE v.tag = "deny"
  <2>1. r = Gate(sl, "closed") BY <1>3 DEF HookVerdict, Gate
  <2> QED BY <2>1, RegatedOK
<1>4. CASE v.tag = "defer"
  <2>1. r = Gate(sl, "deferred") BY <1>4 DEF HookVerdict, Gate
  <2> QED BY <2>1, RegatedOK
<1>5. CASE v.tag = "rewrite"
  <2>1. r = Rewritten(sl, v.call) BY <1>5 DEF HookVerdict
  <2> QED BY <1>5, <2>1, RewrittenOK
<1>6. CASE v.tag = "ask"
  <2> DEFINE asked == IF sl.asked = "none" THEN "policy" ELSE sl.asked
             x == [sl EXCEPT !.gate = "need_human", !.asked = asked]
  <2>1. r = x BY <1>6 DEF HookVerdict
  <2>2. asked \in {"policy", "invariant"} /\ (sl.asked # "none" => asked = sl.asked)
    BY <1>1 DEF Levels
  <2> HIDE DEF asked
  <2>3. x \in SlotType BY <2>2 DEF SlotType, Gatings, Levels
  <2>4. /\ SameRun(sl, x) /\ x.gate = "need_human" /\ x.deferred = sl.deferred /\ x.asked = asked
        /\ x.call = sl.call
    BY DEF SlotType, SameRun
  <2> HIDE DEF x
  <2>5. Rings(x) = Rings(sl) BY <2>4 DEF Rings
  <2>6. SlotOK(x) BY <2>2, <2>4, <2>5 DEF SlotOK, SameRun
  <2> QED BY <2>1, <2>3, <2>4, <2>6
<1>7. CASE v.tag = "allow"
  <2> DEFINE gate == IF sl.asked = "none" THEN "permitted" ELSE "need_human"
             x == [sl EXCEPT !.gate = gate]
  <2>1. r = x BY <1>7 DEF HookVerdict
  <2>2. gate \in {"permitted", "need_human"} /\ (gate = "permitted" <=> sl.asked = "none") OBVIOUS
  <2> HIDE DEF gate
  <2>3. x \in SlotType BY <2>2 DEF SlotType, Gatings
  <2>4. /\ SameRun(sl, x) /\ x.gate = gate /\ x.deferred = sl.deferred /\ x.asked = sl.asked
        /\ x.call = sl.call
    BY DEF SlotType, SameRun
  <2> HIDE DEF x
  <2>5. Rings(x) = Rings(sl) BY <2>4 DEF Rings
  <2>6. gate = "permitted" => LetThrough(x) BY <2>2, <2>5 DEF LetThrough, Rings, SlotOK
  <2>7. SlotOK(x) BY <2>2, <2>4, <2>5, <2>6 DEF SlotOK, SameRun
  <2> QED BY <2>1, <2>3, <2>4, <2>7
<1> QED BY <1>2, <1>3, <1>4, <1>5, <1>6, <1>7

(* Who may give an approval of the level: see CheckHuman. *)
MayApprove(level, by, sl) ==
  level = "invariant" => \/ by = "human"
                         \/ by = "env" /\ Attr[sl.call].sandboxed
                         \/ by = "code" /\ ~Unattended

(* An approval by one who may give it permits the call. *)
LEMMA HumanAllowOK ==
  ASSUME NEW sl \in SlotType, SlotOK(sl), sl.gate \in {"need_human", "await_human"},
         NEW by \in {"hook", "kernel", "env"} \cup Responders, MayApprove(sl.asked, by, sl),
         NEW r, r = [sl EXCEPT !.gate = "permitted", !.approver = by]
  PROVE  r \in SlotType /\ SlotOK(r) /\ SameRun(sl, r)
<1>1. sl.call \in Calls /\ Rings(sl) \in {"allow", "policy", "invariant", "deny"} /\ sl.asked \in Levels
  BY SlotIs, AttrIs DEF Rings
<1> DEFINE x == [sl EXCEPT !.gate = "permitted", !.approver = by]
<1>2. x \in SlotType BY DEF SlotType, Gatings
<1>3. /\ SameRun(sl, x) /\ x.gate = "permitted" /\ x.deferred = sl.deferred /\ x.call = sl.call
      /\ x.approver = by
  BY DEF SlotType, SameRun
<1>4. by # "none" BY SessionAssumption
<1>5. r = x OBVIOUS
<1> HIDE DEF x
<1>6. LetThrough(x) BY <1>1, <1>3, <1>4 DEF LetThrough, Rings, MayApprove, SlotOK
<1>7. SlotOK(x) BY <1>3, <1>6 DEF SlotOK, SameRun
<1> QED BY <1>2, <1>3, <1>5, <1>7

(* The verdict of a human, of the kernel or of the environment is recorded *)
(* well.                                                                   *)
LEMMA HumanVerdictOK ==
  ASSUME NEW sl \in SlotType, SlotOK(sl), sl.gate = "await_human",
         NEW v \in VerdictType, v.tag \in {"allow", "deny", "defer", "rewrite"},
         v.tag = "rewrite" => v.call \in Calls,
         v.tag = "allow" => MayApprove(sl.asked, v.by, sl),
         NEW r, r = HumanVerdict(sl, v)
  PROVE  r \in SlotType /\ SlotOK(r) /\ SameRun(sl, r)
<1>3. CASE v.tag = "deny"
  <2>1. r = Gate(sl, "closed") BY <1>3 DEF HumanVerdict, Gate
  <2> QED BY <2>1, RegatedOK
<1>4. CASE v.tag = "defer"
  <2>1. r = Gate(sl, "deferred") BY <1>4 DEF HumanVerdict, Gate
  <2> QED BY <2>1, RegatedOK
<1>5. CASE v.tag = "rewrite"
  <2>1. r = Rewritten(sl, v.call) BY <1>5 DEF HumanVerdict
  <2> QED BY <1>5, <2>1, RewrittenOK
<1>6. CASE v.tag = "allow"
  <2>1. r = [sl EXCEPT !.gate = "permitted", !.approver = v.by] BY <1>6 DEF HumanVerdict
  <2>2. v.by \in {"hook", "kernel", "env"} \cup Responders BY DEF VerdictType
  <2> QED BY <1>6, <2>1, <2>2, HumanAllowOK
<1> QED BY <1>3, <1>4, <1>5, <1>6

PreTool(e)    == e.kind \in {"hook", "human"} /\ e.point = "PreTool"
UserSubmit(e) == e.kind \in {"hook", "human"} /\ e.point = "UserSubmit"

(* The outstanding question e asks about the call c. *)
Claims(e, c) == PreTool(e) /\ c \in e.calls

(* A question about a call is outstanding once, and the slot of the call   *)
(* waits for exactly that kind of answer, at that level.                   *)
Gates(s) ==
  \A id \in DOMAIN s.issued, c \in DOMAIN s.turn.slots :
     Claims(s.issued[id], c) /\ ~s.turn.slots[c].result =>
       /\ s.issued[id].kind = "hook" => s.turn.slots[c].gate = "await_hook"
       /\ s.issued[id].kind = "human" =>
            s.turn.slots[c].gate = "await_human" /\ s.turn.slots[c].asked = s.issued[id].level
       /\ \A j \in DOMAIN s.issued : Claims(s.issued[j], c) => j = id

(* Every slot has the verdict its progress requires. *)
SlotsOK(s) == \A c \in DOMAIN s.turn.slots : SlotOK(s.turn.slots[c])

(* Without a turn only checkpoints and restores are outstanding. *)
NoTurn(s) ==
  s.turn.cause = "none" =>
    /\ DOMAIN s.turn.slots = {} /\ s.turn.sample = NoId /\ ~s.turn.suspended
    /\ \A id \in DOMAIN s.issued : s.issued[id].kind \in {"checkpoint", "restore"}

(* At most one sample is outstanding, the one the turn waits for. *)
SampleId(s) == \A id \in DOMAIN s.issued : s.issued[id].kind = "sample" => id = s.turn.sample

(* While the model is sampled no call of a reply is there yet. *)
Sampling(s) ==
  s.turn.sample # NoId =>
    ~s.turn.suspended /\ \A c \in DOMAIN s.turn.slots : ~s.turn.slots[c].in_reply

(* While a submitted message is judged nothing of the turn has begun. *)
Submitting(s) ==
  \A id \in DOMAIN s.issued : UserSubmit(s.issued[id]) =>
    /\ Open(s) = {} /\ s.turn.sample = NoId /\ s.turn.submit = "waiting" /\ ~s.turn.suspended
    /\ \A j \in DOMAIN s.issued : UserSubmit(s.issued[j]) => j = id

(* The open calls are those whose use has no result yet. *)
Paired(s) == \A c \in Calls : s.pairs[c] = IF c \in Open(s) THEN 1 ELSE 0

(* Identifiers are fresh; effects are held only during a pause, and then   *)
(* only those.                                                             *)
Ids(s) ==
  /\ DOMAIN s.issued \subseteq 1..(s.n - 1)
  /\ DOMAIN s.out \subseteq 1..(s.n - 1)
  /\ s.turn.sample < s.n
  /\ s.held \subseteq DOMAIN s.issued
  /\ s.paused => DOMAIN s.out = {}
  /\ ~s.paused => s.held = {}
  /\ \A id \in DOMAIN s.out \cap DOMAIN s.issued : s.out[id] = s.issued[id]

(* The calls that start when the effects out, or those held, are dispatched. *)
Starts(effects, ids, c) ==
  \E id \in ids \cap DOMAIN effects : effects[id].kind = "execute" /\ c \in effects[id].calls

(* The calls of slots and effects are calls some reply or stream used. *)
Known(s, U) ==
  /\ DOMAIN s.turn.slots \subseteq U
  /\ \A id \in DOMAIN s.issued : s.issued[id].calls \subseteq U
  /\ \A id \in DOMAIN s.out : s.out[id].calls \subseteq U

(* The call was not counted as started, and no effect about to be          *)
(* dispatched starts it.                                                   *)
Unstarted(s, F, c) ==
  F[c] = 0 /\ ~Starts(s.out, DOMAIN s.out, c) /\ ~Starts(s.issued, s.held, c)

(* A slot that may still run belongs to a call that never started, and     *)
(* what is about to start never did.                                       *)
Once(s, F) ==
  /\ \A c \in DOMAIN s.turn.slots :
       s.turn.slots[c].exec = "idle" /\ ~s.turn.slots[c].result => Unstarted(s, F, c)
  /\ \A c \in Calls : Starts(s.out, DOMAIN s.out, c) \/ Starts(s.issued, s.held, c) => F[c] = 0

(* What flies is numbered, and is what the kernel waits for under that     *)
(* number.                                                                 *)
Flight(s, R) ==
  /\ DOMAIN R \subseteq 1..(s.n - 1)
  /\ \A id \in DOMAIN R \cap DOMAIN s.issued : s.issued[id] = R[id]

(* What the stream M has shown belongs to slots as long as the turn waits  *)
(* for M.                                                                  *)
Early(s, M, V) ==
  M < s.n /\ (s.turn.sample = M /\ M # NoId => V \subseteq DOMAIN s.turn.slots)

(* The driver's part: calls used, counts of starts, effects in flight, the *)
(* stream and the calls it has shown.                                      *)
Context(U, F, R, M, V) ==
  /\ U \subseteq Calls /\ F \in [Calls -> Nat] /\ R \in EffectMap /\ M \in Nat /\ V \subseteq Calls
  /\ \A c \in Calls : F[c] # 0 => c \in U

(* The invariant of the kernel in the context of its driver. *)
K(s, U, F, R, M, V) ==
  /\ s \in StateType /\ SlotsOK(s) /\ Gates(s)
  /\ NoTurn(s) /\ SampleId(s) /\ Sampling(s) /\ Submitting(s)
  /\ Paired(s) /\ Ids(s) /\ s.continuations <= MaxContinuations
  /\ Context(U, F, R, M, V) /\ Known(s, U) /\ Once(s, F) /\ Flight(s, R) /\ Early(s, M, V)

(* What the later lemmas use of the types. *)
LEMMA StateShape ==
  ASSUME NEW s \in StateType
  PROVE  /\ DOMAIN s.issued \subseteq Nat /\ DOMAIN s.out \subseteq Nat /\ DOMAIN s.turn.slots \subseteq Calls
         /\ s.n \in Nat /\ s.n # 0 /\ s.turn.sample \in Nat /\ s.paused \in BOOLEAN
         /\ s.turn.suspended \in BOOLEAN /\ s.pairs \in [Calls -> Int] /\ s.continuations \in Nat
BY StateIs, InEffectMap, InSlotMap

(* A restricted map. *)
LEMMA RestrictIs ==
  ASSUME NEW f, NEW D, NEW g, g = Restrict(f, D)
  PROVE  DOMAIN g = D /\ \A x \in D : g[x] = f[x]
BY DEF Restrict

(* Effects that are over leave the books. *)
LEMMA KDrop ==
  ASSUME NEW s, NEW U, NEW F, NEW R, NEW M, NEW V, K(s, U, F, R, M, V),
         NEW r \in StateType, NEW D \in SUBSET DOMAIN s.issued,
         r.n = s.n, r.issued = Restrict(s.issued, D), r.held \subseteq s.held \cap D,
         r.out = s.out, r.paused = s.paused, r.pairs = s.pairs, r.continuations = s.continuations,
         r.turn.slots = s.turn.slots, r.turn.cause = s.turn.cause,
         r.turn.suspended = s.turn.suspended, r.turn.submit = s.turn.submit,
         \/ r.turn.sample = s.turn.sample
         \/ r.turn.sample = NoId /\ \A id \in D : s.issued[id].kind # "sample"
  PROVE  K(r, U, F, R, M, V)
<1>1. DOMAIN r.issued = D /\ \A id \in D : r.issued[id] = s.issued[id] BY RestrictIs
<1>2. s \in StateType BY DEF K
<1>3. SlotsOK(r) BY DEF K, SlotsOK
<1>4. Gates(r) BY <1>1 DEF K, Gates
<1>5. NoTurn(r) BY <1>1 DEF K, NoTurn
<1>6. SampleId(r) BY <1>1 DEF K, SampleId
<1>7. Sampling(r) BY <1>1 DEF K, Sampling
<1>8. Open(r) = Open(s) BY DEF Open
<1>9. Submitting(r) BY <1>1, <1>8 DEF K, Submitting
<1>10. Paired(r) BY <1>8 DEF K, Paired
<1>11. Ids(r) BY <1>1, <1>2, StateShape DEF K, Ids, NoId
<1>12. Known(r, U) BY <1>1 DEF K, Known
<1>13. ASSUME NEW c, Starts(r.issued, r.held, c) PROVE Starts(s.issued, s.held, c)
  BY <1>1, <1>13 DEF Starts
<1>14. Once(r, F) BY <1>13 DEF K, Once, Unstarted
<1>15. Flight(r, R) BY <1>1 DEF K, Flight
<1>16. Early(r, M, V) BY DEF K, Early
<1> QED BY <1>3, <1>4, <1>5, <1>6, <1>7, <1>9, <1>10, <1>11, <1>12, <1>14, <1>15, <1>16 DEF K

(* The submit hook is outstanding. *)
SubmitIssued(s) == \E id \in DOMAIN s.issued : UserSubmit(s.issued[id])

(* Only what the invariant does not read changes; a turn may be suspended. *)
LEMMA KQuiet ==
  ASSUME NEW s, NEW U, NEW F, NEW R, NEW M, NEW V, K(s, U, F, R, M, V),
         NEW r \in StateType,
         r.n >= s.n, r.issued = s.issued, r.held = s.held,
         r.out = s.out, r.paused = s.paused, r.pairs = s.pairs, r.continuations <= MaxContinuations,
         r.turn.slots = s.turn.slots, r.turn.cause = s.turn.cause, r.turn.sample = s.turn.sample,
         \/ r.turn.suspended = s.turn.suspended
         \/ s.turn.sample = NoId /\ s.turn.cause # "none",
         \/ r.turn.suspended = s.turn.suspended /\ r.turn.submit = s.turn.submit
         \/ ~SubmitIssued(s)
  PROVE  K(r, U, F, R, M, V)
<1>2. s \in StateType BY DEF K
<1>3. SlotsOK(r) BY DEF K, SlotsOK
<1>4. Gates(r) BY DEF K, Gates
<1>5. NoTurn(r) BY DEF K, NoTurn
<1>6. SampleId(r) BY DEF K, SampleId
<1>7. Sampling(r) BY DEF K, Sampling
<1>8. Open(r) = Open(s) BY DEF Open
<1>9. Submitting(r) BY <1>8 DEF K, Submitting, SubmitIssued
<1>10. Paired(r) BY <1>8 DEF K, Paired
<1>11. Ids(r) BY <1>2, StateShape DEF K, Ids
<1>12. Known(r, U) BY DEF K, Known
<1>14. Once(r, F) BY DEF K, Once, Unstarted
<1>15. Flight(r, R) BY <1>2, StateShape DEF K, Flight
<1>16. Early(r, M, V) BY <1>2, StateShape DEF K, Early, Context
<1> QED BY <1>3, <1>4, <1>5, <1>6, <1>7, <1>9, <1>10, <1>11, <1>12, <1>14, <1>15, <1>16 DEF K

Adds(g, f, id, e) ==
  DOMAIN g = DOMAIN f \cup {id} /\ g[id] = e /\ \A x \in DOMAIN f : x # id => g[x] = f[x]

(* A map with one entry more. *)
LEMMA OverOne ==
  ASSUME NEW f, NEW id, NEW e, NEW g, g = Over(One(id, e), f)
  PROVE  Adds(g, f, id, e)
BY DEF Over, One, Adds

Dispatched(s, c) == Starts(s.out, DOMAIN s.out, c) \/ Starts(s.issued, s.held, c)

StartsMore(s, r, e) ==
  \A c : Dispatched(r, c) => Dispatched(s, c) \/ (e.kind = "execute" /\ c \in e.calls)

(* What issuing any effect does to the books. *)
LEMMA KBook ==
  ASSUME NEW s, NEW U, NEW F, NEW R, NEW M, NEW V, K(s, U, F, R, M, V),
         NEW e \in EffectType, e.calls \subseteq U, NEW r, Booked(s, r, e),
         r.turn.sample \in {s.turn.sample, s.n}
  PROVE  /\ r \in StateType /\ Adds(r.issued, s.issued, s.n, e) /\ s.n \notin DOMAIN s.issued
         /\ Ids(r) /\ Flight(r, R) /\ StartsMore(s, r, e)
         /\ (\A id \in DOMAIN r.issued : r.issued[id].calls \subseteq U)
         /\ (\A id \in DOMAIN r.out : r.out[id].calls \subseteq U)
         /\ M < r.n /\ r.continuations <= MaxContinuations
<1>1. s \in StateType /\ r \in StateType BY DEF K, Booked
<1>2. /\ s.n \in Nat /\ s.n # 0 /\ DOMAIN s.issued \subseteq 1..(s.n - 1) /\ DOMAIN s.out \subseteq 1..(s.n - 1)
      /\ r.n = s.n + 1 /\ s.turn.sample < s.n
  BY <1>1, StateShape DEF K, Ids, Booked
<1>3. Adds(r.issued, s.issued, s.n, e) BY OverOne DEF Booked
<1>4. s.n \notin DOMAIN s.issued /\ s.n \notin DOMAIN s.out BY <1>2
<1>5. IF s.paused THEN r.out = s.out ELSE Adds(r.out, s.out, s.n, e) BY OverOne DEF Booked
<1>6. s.paused \in BOOLEAN BY <1>1, StateShape
<1>7. Ids(r)
  <2>1. DOMAIN r.issued \subseteq 1..(r.n - 1) BY <1>2, <1>3 DEF Adds
  <2>2. DOMAIN r.out \subseteq 1..(r.n - 1) BY <1>2, <1>5 DEF Adds
  <2>3. r.turn.sample < r.n BY <1>1, <1>2, StateShape
  <2>4. r.held \subseteq DOMAIN r.issued BY <1>3 DEF Booked, K, Ids, Adds
  <2>5. r.paused => DOMAIN r.out = {} BY DEF Booked, K, Ids
  <2>6. ~r.paused => r.held = {} BY DEF Booked, K, Ids
  <2>7. ASSUME NEW id \in DOMAIN r.out \cap DOMAIN r.issued PROVE r.out[id] = r.issued[id]
    BY <1>3, <1>4, <1>5, <1>6 DEF K, Ids, Adds
  <2> QED BY <2>1, <2>2, <2>3, <2>4, <2>5, <2>6, <2>7 DEF Ids
<1>8. Flight(r, R)
  <2>1. DOMAIN R \subseteq 1..(s.n - 1) BY DEF K, Flight
  <2>2. DOMAIN R \subseteq 1..(r.n - 1) BY <1>2, <2>1
  <2>3. s.n \notin DOMAIN R BY <1>2, <2>1
  <2> QED BY <1>3, <2>2, <2>3 DEF K, Flight, Adds
<1>9. ASSUME NEW c, Dispatched(r, c) PROVE Dispatched(s, c) \/ (e.kind = "execute" /\ c \in e.calls)
  <2>1. CASE Starts(r.out, DOMAIN r.out, c)
    <3>1. CASE s.paused BY <1>5, <2>1, <3>1 DEF Dispatched
    <3>2. CASE ~s.paused BY <1>5, <2>1, <3>2 DEF Starts, Dispatched, Adds
    <3> QED BY <3>1, <3>2
  <2>2. CASE Starts(r.issued, r.held, c)
    <3>1. r.held \subseteq s.held \cup {s.n} BY DEF Booked
    <3> QED BY <1>3, <2>2, <3>1 DEF Starts, Dispatched, Adds
  <2> QED BY <1>9, <2>1, <2>2 DEF Dispatched
<1>10. \A id \in DOMAIN r.issued : r.issued[id].calls \subseteq U BY <1>3 DEF K, Known, Adds
<1>11. \A id \in DOMAIN r.out : r.out[id].calls \subseteq U BY <1>5, <1>6 DEF K, Known, Adds
<1>12. M < r.n /\ r.continuations <= MaxContinuations
  BY <1>2 DEF K, Early, Booked, Context
<1> QED BY <1>1, <1>3, <1>4, <1>7, <1>8, <1>9, <1>10, <1>11, <1>12 DEF StartsMore

(* A gate of the turn, a checkpoint or a restore is issued. *)
LEMMA KIssueInert ==
  ASSUME NEW s, NEW U, NEW F, NEW R, NEW M, NEW V, K(s, U, F, R, M, V),
         NEW e \in EffectType, Inert(e), e.calls \subseteq U,
         s.turn.cause = "none" => e.kind \in {"checkpoint", "restore"},
         UserSubmit(e) => Open(s) = {} /\ s.turn.sample = NoId /\ ~s.turn.suspended /\ ~SubmitIssued(s),
         NEW r, r = Issue(s, e)
  PROVE  K(r, U, F, R, M, V)
<1>1. s \in StateType BY DEF K
<1>2. /\ Booked(s, r, e) /\ SameTurn(s, r) /\ r.turn.slots = s.turn.slots
      /\ r.turn.submit = IF e.kind = "hook" /\ e.point = "UserSubmit" THEN "waiting" ELSE s.turn.submit
  BY <1>1, IssueInert
<1>3. r.turn.sample = s.turn.sample /\ r.turn.cause = s.turn.cause /\ r.turn.suspended = s.turn.suspended
  BY <1>2 DEF SameTurn
<1>4. /\ r \in StateType /\ Adds(r.issued, s.issued, s.n, e) /\ s.n \notin DOMAIN s.issued
      /\ Ids(r) /\ Flight(r, R) /\ StartsMore(s, r, e)
      /\ (\A id \in DOMAIN r.issued : r.issued[id].calls \subseteq U)
      /\ (\A id \in DOMAIN r.out : r.out[id].calls \subseteq U)
      /\ M < r.n /\ r.continuations <= MaxContinuations
  BY <1>2, <1>3, KBook
<1>5. ~PreTool(e) /\ e.kind # "sample" /\ e.kind # "execute" BY DEF Inert, PreTool
<1>6. SlotsOK(r) BY <1>2 DEF K, SlotsOK
<1>7. Gates(r) BY <1>2, <1>4, <1>5 DEF K, Gates, Adds, Claims
<1>8. NoTurn(r) BY <1>2, <1>3, <1>4 DEF K, NoTurn, Adds
<1>9. SampleId(r) BY <1>3, <1>4, <1>5 DEF K, SampleId, Adds
<1>10. Sampling(r) BY <1>2, <1>3 DEF K, Sampling
<1>11. Open(r) = Open(s) BY <1>2 DEF Open
<1>12. Submitting(r)
  <2>1. CASE UserSubmit(e)
    <3>1. e.kind = "hook" BY <2>1 DEF UserSubmit, Inert
    <3> QED BY <1>2, <1>3, <1>4, <1>11, <2>1, <3>1 DEF Submitting, Adds, SubmitIssued, UserSubmit
  <2>2. CASE ~UserSubmit(e)
    BY <1>2, <1>3, <1>4, <1>11, <2>2 DEF K, Submitting, Adds, UserSubmit
  <2> QED BY <2>1, <2>2
<1>13. Paired(r) BY <1>2, <1>11 DEF K, Paired, Booked
<1>14. Known(r, U) BY <1>2, <1>4 DEF K, Known
<1>15. Once(r, F) BY <1>2, <1>4, <1>5 DEF K, Once, Unstarted, StartsMore, Dispatched
<1>16. Early(r, M, V) BY <1>2, <1>3, <1>4 DEF K, Early
<1> QED BY <1>4, <1>6, <1>7, <1>8, <1>9, <1>10, <1>12, <1>13, <1>14, <1>15, <1>16 DEF K

(* A request to the model: the slots of the last reply are gone. *)
LEMMA KIssueSample ==
  ASSUME NEW s, NEW U, NEW F, NEW R, NEW M, NEW V, K(s, U, F, R, M, V),
         s.turn.cause # "none", Open(s) = {}, s.turn.sample = NoId, ~s.turn.suspended, ~SubmitIssued(s),
         NEW r, r = Issue(s, Sample)
  PROVE  K(r, U, F, R, M, V)
<1> DEFINE e == Sample
<1>1. s \in StateType BY DEF K
<1>2. /\ e \in EffectType /\ Booked(s, r, e)
      /\ r.turn.slots = <<>> /\ r.turn.sample = s.n /\ r.turn.cause = s.turn.cause
      /\ r.turn.suspended = s.turn.suspended
  BY <1>1, IssueSample
<1>3. e.kind = "sample" /\ e.calls = {} BY DEF Sample, Effect
<1> HIDE DEF e
<1>4. /\ r \in StateType /\ Adds(r.issued, s.issued, s.n, e) /\ s.n \notin DOMAIN s.issued
      /\ Ids(r) /\ Flight(r, R) /\ StartsMore(s, r, e)
      /\ (\A id \in DOMAIN r.issued : r.issued[id].calls \subseteq U)
      /\ (\A id \in DOMAIN r.out : r.out[id].calls \subseteq U)
      /\ M < r.n /\ r.continuations <= MaxContinuations
  BY <1>2, <1>3, KBook
<1>5. DOMAIN r.turn.slots = {} BY <1>2, EmptyMaps
<1>6. SlotsOK(r) BY <1>5 DEF SlotsOK
<1>7. Gates(r) BY <1>5 DEF Gates
<1>8. NoTurn(r) BY <1>2 DEF NoTurn
<1>9. SampleId(r)
  <2>1. \A id \in DOMAIN s.issued : s.issued[id].kind # "sample"
    BY <1>1, StateShape DEF K, SampleId, Ids, NoId
  <2> QED BY <1>2, <1>4, <2>1 DEF SampleId, Adds
<1>10. Sampling(r) BY <1>2, <1>5 DEF Sampling
<1>11. Open(r) = {} BY <1>5 DEF Open
<1>12. Submitting(r)
  BY <1>3, <1>4 DEF Submitting, Adds, SubmitIssued, UserSubmit
<1>13. Paired(r) BY <1>2, <1>11 DEF K, Paired, Booked
<1>14. Known(r, U) BY <1>4, <1>5 DEF Known
<1>15. Once(r, F) BY <1>3, <1>4, <1>5 DEF K, Once, StartsMore, Dispatched
<1>16. Early(r, M, V)
  <2>1. M < s.n /\ s.n \in Nat /\ M \in Nat BY <1>1, StateShape DEF K, Early, Context
  <2> QED BY <1>2, <1>4, <2>1 DEF Early
<1> QED BY <1>4, <1>6, <1>7, <1>8, <1>9, <1>10, <1>12, <1>13, <1>14, <1>15, <1>16 DEF K

Unclaimed(s, c) == \A id \in DOMAIN s.issued : ~Claims(s.issued[id], c)

(* What may become of one slot while the books stay as they are. *)
Reslots(s, r, c) ==
  LET old == s.turn.slots[c]
      new == r.turn.slots[c]
  IN /\ SlotOK(new) /\ new.in_reply = old.in_reply /\ (old.result => new.result)
     /\ new.exec = "idle" /\ ~new.result => old.exec = "idle" /\ ~old.result
     /\ \/ new.result
        \/ Unclaimed(s, c)
        \/ new.gate = old.gate /\ new.asked = old.asked

(* To change slots keeps the invariant when each is changed as Reslots     *)
(* says: no call starts, and no outstanding question loses its slot.       *)
LEMMA KReslot ==
  ASSUME NEW s, NEW U, NEW F, NEW R, NEW M, NEW V, K(s, U, F, R, M, V),
         NEW r \in StateType,
         r.n = s.n, r.issued = s.issued, r.held = s.held,
         r.out = s.out, r.paused = s.paused, r.continuations = s.continuations,
         r.turn.cause = s.turn.cause, r.turn.sample = s.turn.sample, r.turn.submit = s.turn.submit,
         r.turn.suspended => s.turn.suspended,
         DOMAIN r.turn.slots = DOMAIN s.turn.slots,
         \A c \in DOMAIN s.turn.slots : Reslots(s, r, c),
         Paired(r)
  PROVE  K(r, U, F, R, M, V)
<1>2. s \in StateType /\ s.turn.suspended \in BOOLEAN /\ r.turn.suspended \in BOOLEAN
  BY StateShape DEF K
<1>3. SlotsOK(r) BY DEF SlotsOK, Reslots
<1>4. Gates(r)
  <2>1. SUFFICES ASSUME NEW id \in DOMAIN r.issued, NEW c \in DOMAIN r.turn.slots,
                        Claims(r.issued[id], c), ~r.turn.slots[c].result
                 PROVE  /\ r.issued[id].kind = "hook" => r.turn.slots[c].gate = "await_hook"
                        /\ r.issued[id].kind = "human" =>
                             r.turn.slots[c].gate = "await_human"
                             /\ r.turn.slots[c].asked = r.issued[id].level
                        /\ \A j \in DOMAIN r.issued : Claims(r.issued[j], c) => j = id
    BY DEF Gates
  <2>2. ~Unclaimed(s, c) BY <2>1 DEF Unclaimed
  <2>3. /\ ~s.turn.slots[c].result /\ r.turn.slots[c].gate = s.turn.slots[c].gate
        /\ r.turn.slots[c].asked = s.turn.slots[c].asked
    BY <2>1, <2>2 DEF Reslots
  <2> QED BY <2>1, <2>3 DEF K, Gates
<1>5. NoTurn(r) BY <1>2 DEF K, NoTurn
<1>6. SampleId(r) BY DEF K, SampleId
<1>7. Sampling(r)
  <2>1. \A c \in DOMAIN r.turn.slots : r.turn.slots[c].in_reply = s.turn.slots[c].in_reply BY DEF Reslots
  <2> QED BY <2>1, <1>2 DEF K, Sampling
<1>8. Open(r) \subseteq Open(s) BY DEF Open, Reslots
<1>9. Submitting(r) BY <1>2, <1>8 DEF K, Submitting
<1>11. Ids(r) BY DEF K, Ids
<1>12. Known(r, U) BY DEF K, Known
<1>14. Once(r, F)
  <2>1. \A c \in DOMAIN r.turn.slots : r.turn.slots[c].exec = "idle" /\ ~r.turn.slots[c].result
           => s.turn.slots[c].exec = "idle" /\ ~s.turn.slots[c].result
    BY DEF Reslots
  <2>2. \A c : Unstarted(s, F, c) => Unstarted(r, F, c) BY DEF Unstarted
  <2> QED BY <2>1, <2>2 DEF K, Once
<1>15. Flight(r, R) BY DEF K, Flight
<1>16. Early(r, M, V) BY DEF K, Early
<1> QED BY <1>3, <1>4, <1>5, <1>6, <1>7, <1>9, <1>11, <1>12, <1>14, <1>15, <1>16 DEF K

(* A call may start: let through, and not started before. *)
MayStart(s, U, F, c) ==
  LET old == s.turn.slots[c]
  IN /\ c \in U
     /\ c \in DOMAIN s.turn.slots =>
          old.gate = "permitted" /\ old.exec = "idle" /\ ~old.result
     /\ c \notin DOMAIN s.turn.slots =>
          Unstarted(s, F, c) /\ Unclaimed(s, c) /\ Attr[c].rings = "allow"

(* A call that may start does so with its verdict. *)
LEMMA StartedOK ==
  ASSUME NEW s, NEW U, NEW F, NEW c \in Calls, s.turn.slots \in SlotMap, SlotsOK(s),
         MayStart(s, U, F, c), NEW sl, sl = Started(s.turn.slots, c)
  PROVE  /\ SlotOK(sl) /\ sl.exec = "running" /\ sl.gate = "permitted" /\ ~sl.result
         /\ IF c \in DOMAIN s.turn.slots
              THEN sl.in_reply = s.turn.slots[c].in_reply /\ sl.asked = s.turn.slots[c].asked
              ELSE ~sl.in_reply
<1> DEFINE slots == s.turn.slots
           old == Before(slots, c)
<1>0. slots \in SlotMap /\ sl = Started(slots, c) /\ slots = s.turn.slots
      /\ old = Before(slots, c) OBVIOUS
<1> HIDE DEF slots, old
<1>1. /\ sl \in SlotType /\ old \in SlotType
      /\ sl.gate = "permitted" /\ sl.exec = "running"
      /\ sl.call = old.call /\ sl.in_reply = old.in_reply /\ sl.result = old.result
      /\ sl.post = old.post /\ sl.deferred = old.deferred /\ sl.approver = old.approver
      /\ sl.asked = old.asked
  BY <1>0, StartedIs
<1>2. CASE c \in DOMAIN s.turn.slots
  <2>1. old = s.turn.slots[c] BY <1>0, <1>2 DEF Before
  <2>2. SlotOK(old) /\ ~old.result /\ old.gate = "permitted" BY <1>2, <2>1 DEF SlotsOK, MayStart
  <2>3. LetThrough(sl) BY <1>1, <2>2 DEF SlotOK, LetThrough
  <2>4. SlotOK(sl) BY <1>1, <2>2, <2>3 DEF SlotOK
  <2> QED BY <1>1, <1>2, <2>1, <2>2, <2>4
<1>3. CASE c \notin DOMAIN s.turn.slots
  <2>1. old.call = c /\ ~old.in_reply /\ ~old.result /\ ~old.deferred
    BY <1>0, <1>3 DEF Before, NewSlot
  <2>2. Attr[c].rings = "allow" BY <1>3 DEF MayStart
  <2>3. LetThrough(sl) BY <1>1, <2>1, <2>2 DEF LetThrough
  <2>4. SlotOK(sl) BY <1>1, <2>1, <2>3 DEF SlotOK
  <2> QED BY <1>1, <1>3, <2>1, <2>4
<1> QED BY <1>2, <1>3

(* Calls start. *)
LEMMA KExecute ==
  ASSUME NEW s, NEW U, NEW F, NEW R, NEW M, NEW V, K(s, U, F, R, M, V),
         NEW C \in SUBSET Calls, \A c \in C : MayStart(s, U, F, c), s.turn.cause # "none",
         NEW W \in {V, V \cup C}, NEW r, r = Issue(s, Execute(C))
  PROVE  K(r, U, F, R, M, W)
<1> DEFINE e == Execute(C)
           run == [c \in C |-> Started(s.turn.slots, c)]
<1>1. s \in StateType /\ s.turn.slots \in SlotMap BY StateIs DEF K
<1>2. /\ e \in EffectType /\ Booked(s, r, e) /\ SameTurn(s, r) /\ r.turn.submit = s.turn.submit
      /\ r.turn.slots = Over(run, s.turn.slots)
  BY <1>1, IssueExecute
<1>3. r.turn.sample = s.turn.sample /\ r.turn.cause = s.turn.cause /\ r.turn.suspended = s.turn.suspended
  BY <1>2 DEF SameTurn
<1>e. e.kind = "execute" /\ e.calls = C BY DEF Execute, Effect
<1>u. C \subseteq U BY DEF MayStart
<1> HIDE DEF e
<1>4. /\ r \in StateType /\ Adds(r.issued, s.issued, s.n, e) /\ s.n \notin DOMAIN s.issued
      /\ Ids(r) /\ Flight(r, R) /\ StartsMore(s, r, e)
      /\ (\A id \in DOMAIN r.issued : r.issued[id].calls \subseteq U)
      /\ (\A id \in DOMAIN r.out : r.out[id].calls \subseteq U)
      /\ M < r.n /\ r.continuations <= MaxContinuations
  BY <1>2, <1>3, <1>e, <1>u, KBook
<1>5. ~PreTool(e) /\ ~UserSubmit(e) BY <1>e DEF PreTool, UserSubmit
<1>d. /\ DOMAIN r.turn.slots = C \cup DOMAIN s.turn.slots
      /\ \A c \in C : r.turn.slots[c] = Started(s.turn.slots, c)
      /\ \A c \in DOMAIN s.turn.slots \ C : r.turn.slots[c] = s.turn.slots[c]
  BY <1>2 DEF Over
<1>x. ASSUME NEW c \in C
      PROVE  LET sl == r.turn.slots[c]
             IN /\ SlotOK(sl) /\ sl.exec = "running" /\ sl.gate = "permitted" /\ ~sl.result
                /\ IF c \in DOMAIN s.turn.slots
                     THEN sl.in_reply = s.turn.slots[c].in_reply /\ sl.asked = s.turn.slots[c].asked
                     ELSE ~sl.in_reply
  BY <1>1, <1>d, StartedOK DEF K
<1>6. SlotsOK(r) BY <1>d, <1>x DEF K, SlotsOK
<1>7. Gates(r)
  <2>1. SUFFICES ASSUME NEW id \in DOMAIN r.issued, NEW c \in DOMAIN r.turn.slots,
                        Claims(r.issued[id], c), ~r.turn.slots[c].result
                 PROVE  /\ r.issued[id].kind = "hook" => r.turn.slots[c].gate = "await_hook"
                        /\ r.issued[id].kind = "human" =>
                             r.turn.slots[c].gate = "await_human"
                             /\ r.turn.slots[c].asked = r.issued[id].level
                        /\ \A j \in DOMAIN r.issued : Claims(r.issued[j], c) => j = id
    BY DEF Gates
  <2>2. id \in DOMAIN s.issued /\ r.issued[id] = s.issued[id] BY <1>4, <1>5, <2>1 DEF Adds, Claims
  <2>3. c \notin C
    <3>1. SUFFICES ASSUME c \in C PROVE FALSE OBVIOUS
    <3>2. ~Unclaimed(s, c) BY <2>1, <2>2 DEF Unclaimed
    <3>3. c \in DOMAIN s.turn.slots /\ s.turn.slots[c].gate = "permitted" /\ ~s.turn.slots[c].result
      BY <3>1, <3>2 DEF MayStart
    <3>4. s.issued[id].kind \in {"hook", "human"} BY <2>1, <2>2 DEF Claims, PreTool
    <3> QED BY <2>1, <2>2, <3>3, <3>4 DEF K, Gates
  <2>4. c \in DOMAIN s.turn.slots /\ r.turn.slots[c] = s.turn.slots[c] BY <1>d, <2>3
  <2>5. \A j \in DOMAIN r.issued : Claims(r.issued[j], c) => j \in DOMAIN s.issued /\ Claims(s.issued[j], c)
    BY <1>4, <1>5 DEF Adds, Claims
  <2> QED BY <2>1, <2>2, <2>4, <2>5 DEF K, Gates
<1>8. NoTurn(r) BY <1>3 DEF NoTurn
<1>9. SampleId(r) BY <1>3, <1>4, <1>e DEF K, SampleId, Adds
<1>10. Sampling(r) BY <1>3, <1>d, <1>x DEF K, Sampling
<1>11. Open(r) = Open(s)
  <2>1. ASSUME NEW c PROVE c \in Open(r) <=> c \in Open(s)
    <3>1. CASE c \in C
      <4>1. CASE c \in DOMAIN s.turn.slots
        <5>1. ~s.turn.slots[c].result BY <3>1, <4>1 DEF MayStart
        <5> QED BY <3>1, <4>1, <5>1, <1>d, <1>x DEF Open
      <4>2. CASE c \notin DOMAIN s.turn.slots BY <3>1, <4>2, <1>d, <1>x DEF Open
      <4> QED BY <4>1, <4>2
    <3>2. CASE c \notin C BY <3>2, <1>d DEF Open
    <3> QED BY <3>1, <3>2
  <2> QED BY <2>1
<1>12. Submitting(r) BY <1>2, <1>3, <1>4, <1>5, <1>11 DEF K, Submitting, Adds
<1>13. Paired(r) BY <1>2, <1>11 DEF K, Paired, Booked
<1>14. Known(r, U) BY <1>4, <1>d, <1>u DEF K, Known
<1>15. Once(r, F)
  <2>0. \A c \in C : Unstarted(s, F, c) BY DEF K, Once, MayStart
  <2>1. ASSUME NEW c \in DOMAIN r.turn.slots, r.turn.slots[c].exec = "idle", ~r.turn.slots[c].result
        PROVE  Unstarted(r, F, c)
    <3>1. c \notin C BY <1>x, <2>1
    <3>2. Unstarted(s, F, c) BY <1>d, <2>1, <3>1 DEF K, Once
    <3> QED BY <1>4, <1>e, <3>1, <3>2 DEF Unstarted, StartsMore, Dispatched
  <2>2. ASSUME NEW c \in Calls, Dispatched(r, c) PROVE F[c] = 0
    BY <1>4, <1>e, <2>0, <2>2 DEF K, Once, Unstarted, StartsMore, Dispatched
  <2> QED BY <2>1, <2>2 DEF Once, Dispatched
<1>16. Early(r, M, W) BY <1>3, <1>4, <1>d DEF K, Early
<1>17. Context(U, F, R, M, W) BY DEF K, Context
<1> QED BY <1>4, <1>6, <1>7, <1>8, <1>9, <1>10, <1>12, <1>13, <1>14, <1>15, <1>16, <1>17 DEF K

(* A slot whose gate is asked is a good slot. *)
LEMMA GateSlotOK ==
  ASSUME NEW sl \in SlotType, SlotOK(sl), ~sl.result, NEW id \in Nat, id # NoId,
         NEW c, NEW e, CallGate(e, c),
         \/ e.point = "PostTool"
         \/ e.kind = "hook" /\ sl.gate = "need_hook"
         \/ e.kind = "human" /\ sl.gate \in {"need_human", "await_nobody"} /\ e.level = sl.asked,
         NEW r, r = GateSlot(e, id, sl)
  PROVE  /\ SlotOK(r) /\ r.in_reply = sl.in_reply /\ r.result = sl.result
         /\ (r.exec = "idle" => sl.exec = "idle")
         /\ (e.point = "PostTool" => r.gate = sl.gate /\ r.asked = sl.asked)
         /\ (e.point # "PostTool" => /\ e.kind = "hook" => r.gate = "await_hook"
                                     /\ e.kind = "human" => r.gate = "await_human" /\ r.asked = e.level)
<1>1. e.point \in {"PreTool", "PostTool"} /\ e.kind \in {"hook", "human"}
  BY DEF CallGate, Hook, Human, Effect
<1>2. CASE e.point = "PostTool"
  <2> DEFINE x == [sl EXCEPT !.post = id, !.exec = "done"]
  <2>1. r = x BY <1>2 DEF GateSlot, Post
  <2>2. /\ x.call = sl.call /\ x.gate = sl.gate /\ x.asked = sl.asked /\ x.exec = "done"
        /\ x.in_reply = sl.in_reply /\ x.result = sl.result /\ x.post = id
        /\ x.deferred = sl.deferred /\ x.approver = sl.approver
    BY DEF SlotType
  <2> HIDE DEF x
  <2>3. LetThrough(sl) => LetThrough(x) BY <2>2 DEF LetThrough
  <2>4. Rings(x) = Rings(sl) BY <2>2 DEF Rings
  <2>5. SlotOK(x) BY <2>2, <2>3, <2>4 DEF SlotOK
  <2> QED BY <1>2, <2>1, <2>2, <2>5
<1>3. CASE e.point # "PostTool"
  <2> DEFINE gate == IF e.kind = "hook" THEN "await_hook" ELSE "await_human"
             x == [sl EXCEPT !.gate = gate]
  <2>1. r = x BY <1>3 DEF GateSlot, Gate
  <2>g. IF e.kind = "hook" THEN gate = "await_hook" ELSE gate = "await_human" OBVIOUS
  <2> HIDE DEF gate
  <2>2. /\ x.call = sl.call /\ x.gate = gate /\ x.asked = sl.asked /\ x.exec = sl.exec
        /\ x.in_reply = sl.in_reply /\ x.result = sl.result /\ x.post = sl.post
        /\ x.deferred = sl.deferred /\ x.approver = sl.approver
    BY DEF SlotType
  <2> HIDE DEF x
  <2>4. Rings(x) = Rings(sl) BY <2>2 DEF Rings
  <2>5. SlotOK(x) BY <1>1, <1>3, <2>g, <2>2, <2>4 DEF SlotOK
  <2> QED BY <1>1, <1>3, <2>1, <2>g, <2>2, <2>5
<1> QED BY <1>2, <1>3

(* A hook or a human is asked about one call. *)
LEMMA KCallGate ==
  ASSUME NEW s, NEW U, NEW F, NEW R, NEW M, NEW V, K(s, U, F, R, M, V),
         NEW c \in DOMAIN s.turn.slots, ~s.turn.slots[c].result, NEW e, CallGate(e, c),
         \/ e.point = "PostTool"
         \/ e.kind = "hook" /\ s.turn.slots[c].gate = "need_hook"
         \/ e.kind = "human" /\ s.turn.slots[c].gate \in {"need_human", "await_nobody"}
            /\ e.level = s.turn.slots[c].asked,
         NEW r, r = Issue(s, e)
  PROVE  K(r, U, F, R, M, V) /\ DOMAIN r.turn.slots = DOMAIN s.turn.slots
         /\ \A d \in DOMAIN s.turn.slots : r.turn.slots[d].result = s.turn.slots[d].result
<1>1. s \in StateType /\ s.n \in Nat /\ s.n # NoId BY StateShape DEF K, NoId
<1>2. /\ e \in EffectType /\ e.calls = {c} /\ e.kind \in {"hook", "human"}
      /\ Booked(s, r, e) /\ SameTurn(s, r) /\ r.turn.submit = s.turn.submit
      /\ r.turn.slots = [s.turn.slots EXCEPT ![c] = GateSlot(e, s.n, @)]
  BY <1>1, IssueCallGate
<1>3. r.turn.sample = s.turn.sample /\ r.turn.cause = s.turn.cause /\ r.turn.suspended = s.turn.suspended
  BY <1>2 DEF SameTurn
<1>u. e.calls \subseteq U BY <1>2 DEF K, Known
<1>4. /\ r \in StateType /\ Adds(r.issued, s.issued, s.n, e) /\ s.n \notin DOMAIN s.issued
      /\ Ids(r) /\ Flight(r, R) /\ StartsMore(s, r, e)
      /\ (\A id \in DOMAIN r.issued : r.issued[id].calls \subseteq U)
      /\ (\A id \in DOMAIN r.out : r.out[id].calls \subseteq U)
      /\ M < r.n /\ r.continuations <= MaxContinuations
  BY <1>2, <1>3, <1>u, KBook
<1>5. /\ ~UserSubmit(e) /\ e.kind \notin {"sample", "execute"} /\ e.point \in {"PreTool", "PostTool"}
  BY DEF UserSubmit, CallGate, Hook, Human, Effect
<1>d. /\ DOMAIN r.turn.slots = DOMAIN s.turn.slots
      /\ r.turn.slots[c] = GateSlot(e, s.n, s.turn.slots[c])
      /\ \A d \in DOMAIN s.turn.slots : d # c => r.turn.slots[d] = s.turn.slots[d]
  BY <1>2
<1>t. s.turn.slots[c] \in SlotType /\ SlotOK(s.turn.slots[c])
  BY <1>1, StateIs, InSlotMap DEF K, SlotsOK
<1>x. LET old == s.turn.slots[c]
          new == r.turn.slots[c]
      IN /\ SlotOK(new) /\ new.in_reply = old.in_reply /\ new.result = old.result
         /\ (new.exec = "idle" => old.exec = "idle")
         /\ (e.point = "PostTool" => new.gate = old.gate /\ new.asked = old.asked)
         /\ (e.point # "PostTool" => /\ e.kind = "hook" => new.gate = "await_hook"
                                     /\ e.kind = "human" => new.gate = "await_human" /\ new.asked = e.level)
  BY <1>1, <1>d, <1>t, GateSlotOK
<1>6. SlotsOK(r) BY <1>d, <1>x DEF K, SlotsOK
<1>7. Gates(r)
  <2>1. SUFFICES ASSUME NEW id \in DOMAIN r.issued, NEW d \in DOMAIN r.turn.slots,
                        Claims(r.issued[id], d), ~r.turn.slots[d].result
                 PROVE  /\ r.issued[id].kind = "hook" => r.turn.slots[d].gate = "await_hook"
                        /\ r.issued[id].kind = "human" =>
                             r.turn.slots[d].gate = "await_human"
                             /\ r.turn.slots[d].asked = r.issued[id].level
                        /\ \A j \in DOMAIN r.issued : Claims(r.issued[j], d) => j = id
    BY DEF Gates
  <2>2. ~s.turn.slots[d].result BY <1>d, <1>x, <2>1
  <2>3. CASE e.point = "PreTool" /\ d = c
    <3>1. Unclaimed(s, c)
      <4>1. SUFFICES ASSUME NEW j \in DOMAIN s.issued, Claims(s.issued[j], c) PROVE FALSE
        BY DEF Unclaimed
      <4>2. s.issued[j].kind \in {"hook", "human"} BY <4>1 DEF Claims, PreTool
      <4> QED BY <1>5, <2>3, <4>1, <4>2 DEF K, Gates
    <3>2. \A j \in DOMAIN r.issued : Claims(r.issued[j], d) => j = s.n
      BY <1>4, <2>3, <3>1 DEF Unclaimed, Adds
    <3>3. r.issued[id] = e BY <1>4, <2>1, <3>2 DEF Adds
    <3> QED BY <1>2, <1>x, <2>1, <2>3, <3>2, <3>3
  <2>4. CASE ~(e.point = "PreTool" /\ d = c)
    <3>1. ~Claims(e, d) BY <1>2, <2>4 DEF Claims, PreTool
    <3>2. id \in DOMAIN s.issued /\ r.issued[id] = s.issued[id] BY <1>4, <2>1, <3>1 DEF Adds
    <3>3. \A j \in DOMAIN r.issued : Claims(r.issued[j], d) => j \in DOMAIN s.issued /\ Claims(s.issued[j], d)
      BY <1>4, <3>1 DEF Adds
    <3>4. r.turn.slots[d].gate = s.turn.slots[d].gate /\ r.turn.slots[d].asked = s.turn.slots[d].asked
      BY <1>5, <1>d, <1>x, <2>4
    <3> QED BY <1>d, <2>1, <2>2, <3>2, <3>3, <3>4 DEF K, Gates
  <2> QED BY <2>3, <2>4
<1>8. NoTurn(r)
  <2>1. s.turn.cause # "none" BY DEF K, NoTurn
  <2> QED BY <1>3, <2>1 DEF NoTurn
<1>9. SampleId(r) BY <1>3, <1>4, <1>5 DEF K, SampleId, Adds
<1>10. Sampling(r) BY <1>3, <1>d, <1>x DEF K, Sampling
<1>11. Open(r) = Open(s) BY <1>d, <1>x DEF Open
<1>12. Submitting(r) BY <1>2, <1>3, <1>4, <1>5, <1>11 DEF K, Submitting, Adds
<1>13. Paired(r) BY <1>2, <1>11 DEF K, Paired, Booked
<1>14. Known(r, U) BY <1>4, <1>d DEF K, Known
<1>15. Once(r, F)
  <2>1. \A d : Unstarted(s, F, d) => Unstarted(r, F, d)
    BY <1>4, <1>5 DEF Unstarted, StartsMore, Dispatched
  <2>2. \A d \in DOMAIN r.turn.slots : r.turn.slots[d].exec = "idle" /\ ~r.turn.slots[d].result
          => s.turn.slots[d].exec = "idle" /\ ~s.turn.slots[d].result
    BY <1>d, <1>x
  <2> QED BY <1>4, <1>5, <1>d, <2>1, <2>2 DEF K, Once, StartsMore, Dispatched
<1>16. Early(r, M, V) BY <1>3, <1>4, <1>d DEF K, Early
<1>17. \A d \in DOMAIN s.turn.slots : r.turn.slots[d].result = s.turn.slots[d].result BY <1>d, <1>x
<1> QED BY <1>4, <1>6, <1>7, <1>8, <1>9, <1>10, <1>12, <1>13, <1>14, <1>15, <1>16, <1>17, <1>d DEF K

(* A turn that has no call left open ends. *)
LEMMA KEndTurn ==
  ASSUME NEW s, NEW U, NEW F, NEW R, NEW M, NEW V, K(s, U, F, R, M, V),
         Open(s) = {}, NEW o \in Outcomes, NEW r, r = EndTurn(s, o)
  PROVE  K(r, U, F, R, M, V)
<1>1. s \in StateType /\ s.n \in Nat BY StateShape DEF K
<1>2. /\ r \in StateType
      /\ r.n = s.n + 1 /\ r.issued = Restrict(s.issued, Survives(s.issued))
      /\ r.held \subseteq s.held /\ (s.held \subseteq DOMAIN s.issued => r.held \subseteq DOMAIN r.issued)
      /\ r.out = s.out /\ r.paused = s.paused /\ r.pairs = s.pairs
      /\ r.continuations = s.continuations /\ r.turn = NewTurn("none")
  BY <1>1, EndTurnIs
<1>3. /\ r.turn.cause = "none" /\ r.turn.sample = NoId /\ DOMAIN r.turn.slots = {}
      /\ ~r.turn.suspended
  <2>1. "none" \in {"none", "user", "queued", "wake"} OBVIOUS
  <2> QED BY <1>2, <2>1, NewTurnIs, EmptyMaps
<1>4. /\ DOMAIN r.issued \subseteq DOMAIN s.issued
      /\ \A id \in DOMAIN r.issued : r.issued[id] = s.issued[id] /\ r.issued[id].kind \in {"checkpoint", "restore"}
  BY <1>2, RestrictIs DEF Survives
<1>5. SlotsOK(r) BY <1>3 DEF SlotsOK
<1>6. Gates(r) BY <1>3 DEF Gates
<1>7. NoTurn(r) BY <1>3, <1>4 DEF NoTurn
<1>8. SampleId(r) BY <1>4 DEF SampleId
<1>9. Sampling(r) BY <1>3 DEF Sampling
<1>10. Open(r) = {} BY <1>3 DEF Open
<1>11. Submitting(r) BY <1>4 DEF Submitting, UserSubmit
<1>12. Paired(r) BY <1>2, <1>10 DEF K, Paired
<1>13. Ids(r)
  <2>1. DOMAIN s.issued \subseteq 1..(s.n - 1) /\ DOMAIN s.out \subseteq 1..(s.n - 1) BY DEF K, Ids
  <2>2. DOMAIN r.issued \subseteq 1..(r.n - 1) /\ DOMAIN r.out \subseteq 1..(r.n - 1)
    BY <1>1, <1>2, <1>4, <2>1
  <2>3. NoId < r.n BY <1>1, <1>2 DEF NoId
  <2> QED BY <1>2, <1>3, <1>4, <2>2, <2>3 DEF K, Ids
<1>14. Known(r, U) BY <1>2, <1>3, <1>4 DEF K, Known
<1>15. Once(r, F)
  <2>1. ASSUME NEW c, Starts(r.issued, r.held, c) PROVE Starts(s.issued, s.held, c)
    BY <1>2, <1>4, <2>1 DEF Starts
  <2> QED BY <1>2, <1>3, <2>1 DEF K, Once
<1>16. Flight(r, R)
  <2>1. DOMAIN R \subseteq 1..(s.n - 1) BY DEF K, Flight
  <2>2. DOMAIN R \subseteq 1..(r.n - 1) BY <1>1, <1>2, <2>1
  <2> QED BY <1>4, <2>2 DEF K, Flight
<1>17. Early(r, M, V) BY <1>1, <1>2, <1>3 DEF K, Early, Context
<1>18. r.continuations <= MaxContinuations BY <1>2 DEF K
<1> QED BY <1>2, <1>5, <1>6, <1>7, <1>8, <1>9, <1>11, <1>12, <1>13, <1>14, <1>15, <1>16, <1>17, <1>18 DEF K

(* A turn starts where no call is open. *)
LEMMA KStart ==
  ASSUME NEW s, NEW U, NEW F, NEW R, NEW M, NEW V, K(s, U, F, R, M, V),
         Open(s) = {}, s.turn.sample = NoId, ~SubmitIssued(s), NEW cause \in Causes,
         cause = "wake" => s.continuations < MaxContinuations,
         NEW r, r = TurnStarted(s, cause)
  PROVE  K(r, U, F, R, M, V)
<1>1. s \in StateType /\ s.n \in Nat /\ s.n # 0 /\ s.continuations \in Nat BY StateShape DEF K
<1>2. /\ r \in StateType
      /\ r.n = s.n /\ r.issued = s.issued /\ r.held = s.held /\ r.out = s.out
      /\ r.paused = s.paused /\ r.pairs = s.pairs /\ r.turn = NewTurn(cause)
      /\ r.continuations = IF cause = "wake" THEN s.continuations + 1 ELSE 0
  BY <1>1, TurnStartedIs
<1>3. /\ r.turn.cause = cause /\ r.turn.sample = NoId /\ DOMAIN r.turn.slots = {}
      /\ ~r.turn.suspended
  BY <1>2, NewTurnIs, EmptyMaps DEF Causes
<1>5. SlotsOK(r) BY <1>3 DEF SlotsOK
<1>6. Gates(r) BY <1>3 DEF Gates
<1>7. NoTurn(r) BY <1>3 DEF NoTurn, Causes
<1>8. SampleId(r) BY <1>2, <1>3 DEF K, SampleId
<1>9. Sampling(r) BY <1>3 DEF Sampling
<1>10. Open(r) = {} BY <1>3 DEF Open
<1>11. Submitting(r) BY <1>2 DEF Submitting, SubmitIssued
<1>12. Paired(r) BY <1>2, <1>10 DEF K, Paired
<1>13. Ids(r) BY <1>2, <1>3 DEF K, Ids
<1>14. Known(r, U) BY <1>2, <1>3 DEF K, Known
<1>15. Once(r, F) BY <1>2, <1>3 DEF K, Once
<1>16. Flight(r, R) BY <1>2 DEF K, Flight
<1>17. Early(r, M, V) BY <1>2, <1>3 DEF K, Early
<1>18. r.continuations <= MaxContinuations BY <1>1, <1>2, KernelAssumption
<1> QED BY <1>2, <1>5, <1>6, <1>7, <1>8, <1>9, <1>11, <1>12, <1>13, <1>14, <1>15, <1>16, <1>17, <1>18 DEF K

(* A suspended turn goes on. *)
LEMMA KContinue ==
  ASSUME NEW s, NEW U, NEW F, NEW R, NEW M, NEW V, K(s, U, F, R, M, V),
         s.turn.suspended, NEW r, r = TurnStarted(s, "continuation")
  PROVE  K(r, U, F, R, M, V)
<1>1. s \in StateType BY DEF K
<1>2. /\ r \in StateType /\ Books(s, r)
      /\ r.turn.cause = s.turn.cause /\ r.turn.sample = s.turn.sample /\ ~r.turn.suspended
      /\ r.turn.submit = s.turn.submit
      /\ r.turn.slots = [c \in DOMAIN s.turn.slots |-> Reopened(s.turn.slots[c])]
  BY <1>1, ContinuedIs
<1>3. DOMAIN r.turn.slots = DOMAIN s.turn.slots BY <1>2
<1>x. ASSUME NEW c \in DOMAIN s.turn.slots
      PROVE  LET sl == s.turn.slots[c]
                 q == r.turn.slots[c]
             IN /\ SlotOK(sl) /\ sl.result \in BOOLEAN /\ q \in SlotType /\ q.call = sl.call /\ q.asked = sl.asked /\ q.exec = sl.exec
                /\ q.in_reply = sl.in_reply /\ q.result = sl.result /\ q.post = sl.post
                /\ q.deferred = sl.deferred /\ q.approver = sl.approver
                /\ \/ q.gate = sl.gate
                   \/ q.gate = "unchecked" /\ sl.gate \in {"deferred", "await_nobody", "need_human"}
  <2>1. s.turn.slots[c] \in SlotType BY <1>1, StateIs, InSlotMap
  <2>2. r.turn.slots[c] = Reopened(s.turn.slots[c]) BY <1>2
  <2>3. SlotOK(s.turn.slots[c]) BY DEF K, SlotsOK
  <2>4. s.turn.slots[c].result \in BOOLEAN BY <2>1, SlotIs
  <2> QED BY <2>1, <2>2, <2>3, <2>4, ReopenedIs
<1>4. ASSUME NEW c \in DOMAIN s.turn.slots PROVE Reslots(s, r, c)
  <2> DEFINE sl == s.turn.slots[c]
             q == r.turn.slots[c]
  <2>1. /\ SlotOK(sl) /\ sl.result \in BOOLEAN /\ q.call = sl.call /\ q.asked = sl.asked /\ q.exec = sl.exec
        /\ q.in_reply = sl.in_reply /\ q.result = sl.result /\ q.post = sl.post
        /\ q.deferred = sl.deferred /\ q.approver = sl.approver
        /\ \/ q.gate = sl.gate
           \/ q.gate = "unchecked" /\ sl.gate \in {"deferred", "await_nobody", "need_human"}
    BY <1>x
  <2>2. q.gate # sl.gate => q.result \/ Unclaimed(s, c)
    <3>1. SUFFICES ASSUME q.gate # sl.gate, ~sl.result, NEW j \in DOMAIN s.issued, Claims(s.issued[j], c)
                   PROVE  FALSE
      BY <2>1 DEF Unclaimed
    <3>2. s.issued[j].kind \in {"hook", "human"} BY <3>1 DEF Claims, PreTool
    <3> QED BY <2>1, <3>1, <3>2 DEF K, Gates
  <2> HIDE DEF sl, q
  <2>3. Rings(q) = Rings(sl) /\ (LetThrough(sl) => LetThrough(q)) BY <2>1 DEF Rings, LetThrough
  <2>4. SlotOK(q)
    <3>1. CASE q.gate = sl.gate BY <2>1, <2>3, <3>1 DEF SlotOK
    <3>2. CASE q.gate = "unchecked" /\ sl.gate \in {"deferred", "await_nobody", "need_human"}
      BY <2>1, <3>2 DEF SlotOK
    <3> QED BY <2>1, <3>1, <3>2
  <2>5. /\ SlotOK(q) /\ q.in_reply = sl.in_reply /\ (sl.result => q.result)
        /\ q.exec = "idle" /\ ~q.result => sl.exec = "idle" /\ ~sl.result
        /\ \/ q.result
           \/ Unclaimed(s, c)
           \/ q.gate = sl.gate /\ q.asked = sl.asked
    BY <2>1, <2>2, <2>4
  <2> QED BY <2>5 DEF Reslots, sl, q
<1>5. Open(r) = Open(s) BY <1>3, <1>x DEF Open
<1>6. Paired(r) BY <1>2, <1>5 DEF K, Paired, Books
<1> HIDE DEF Reslots
<1> QED BY <1>2, <1>3, <1>4, <1>6, KReslot DEF Books

Fresh(s, F, c) == Unstarted(s, F, c) /\ Unclaimed(s, c)

(* A slot a reply takes over is a good slot. *)
LEMMA ReplySlotOK ==
  ASSUME NEW slots \in SlotMap, NEW c \in Calls, c \in DOMAIN slots => SlotOK(slots[c]),
         NEW sl, sl = ReplySlot(slots, c)
  PROVE  /\ SlotOK(sl) /\ sl.in_reply
         /\ IF c \in DOMAIN slots
              THEN /\ sl.gate = slots[c].gate /\ sl.asked = slots[c].asked
                   /\ sl.exec = slots[c].exec /\ sl.result = slots[c].result
              ELSE ~sl.result
<1> DEFINE old == BeforeReply(slots, c)
<1>0. old = BeforeReply(slots, c) OBVIOUS
<1> HIDE DEF old
<1>1. /\ sl \in SlotType /\ old \in SlotType /\ sl.in_reply /\ ~sl.deferred
      /\ sl.call = old.call /\ sl.gate = old.gate /\ sl.asked = old.asked /\ sl.exec = old.exec
      /\ sl.result = old.result /\ sl.post = old.post /\ sl.approver = old.approver
  BY <1>0, ReplySlotIs
<1>2. Rings(sl) = Rings(old) /\ (LetThrough(old) => LetThrough(sl)) BY <1>1 DEF Rings, LetThrough
<1>3. CASE c \in DOMAIN slots
  <2>1. old = slots[c] BY <1>0, <1>3 DEF BeforeReply
  <2>2. SlotOK(sl) BY <1>1, <1>2, <1>3, <2>1 DEF SlotOK
  <2> QED BY <1>1, <1>3, <2>1, <2>2
<1>4. CASE c \notin DOMAIN slots
  <2>1. old.gate = "unchecked" /\ old.exec = "idle" /\ ~old.result
    BY <1>0, <1>4 DEF BeforeReply, NewSlot
  <2>2. SlotOK(sl) BY <1>1, <2>1 DEF SlotOK
  <2> QED BY <1>1, <1>4, <2>1, <2>2
<1> QED BY <1>3, <1>4

(* The model has answered: the calls of its reply, some of them begun. *)
LEMMA KReply ==
  ASSUME NEW s, NEW U, NEW F, NEW R, NEW M, NEW V, K(s, U, F, R, M, V),
         s.turn.sample = NoId, s.turn.cause # "none", ~SubmitIssued(s),
         \A c \in DOMAIN s.turn.slots : ~s.turn.slots[c].in_reply,
         NEW calls \in SUBSET U, \A c \in calls : c \in DOMAIN s.turn.slots \/ Fresh(s, F, c),
         NEW interrupted \in BOOLEAN, NEW r, r = OnReply(s, calls, interrupted)
  PROVE  K(r, U, F, R, M, V)
<1>1. s \in StateType /\ s.turn.slots \in SlotMap /\ calls \in SUBSET Calls
  BY StateIs DEF K, Context
<1>2. /\ r \in StateType
      /\ r.n = s.n /\ r.issued = s.issued /\ r.held = s.held /\ r.out = s.out
      /\ r.paused = s.paused /\ r.continuations = s.continuations
      /\ r.turn.cause = s.turn.cause /\ r.turn.sample = NoId
      /\ r.turn.suspended = s.turn.suspended /\ r.turn.submit = s.turn.submit
      /\ r.turn.slots = [c \in calls |-> ReplySlot(s.turn.slots, c)]
      /\ r.pairs = ReplyPairs(s.pairs, s.turn.slots, calls)
  BY <1>1, OnReplyIs
<1>d. DOMAIN r.turn.slots = calls /\ \A c \in calls : r.turn.slots[c] = ReplySlot(s.turn.slots, c)
  BY <1>2
<1>x. ASSUME NEW c \in calls
      PROVE  LET sl == r.turn.slots[c]
             IN /\ SlotOK(sl) /\ sl.in_reply
                /\ IF c \in DOMAIN s.turn.slots
                     THEN /\ sl.gate = s.turn.slots[c].gate /\ sl.asked = s.turn.slots[c].asked
                          /\ sl.exec = s.turn.slots[c].exec /\ sl.result = s.turn.slots[c].result
                     ELSE ~sl.result
  <2>1. c \in DOMAIN s.turn.slots => SlotOK(s.turn.slots[c]) BY DEF K, SlotsOK
  <2> QED BY <1>1, <1>d, <2>1, ReplySlotOK
<1>5. SlotsOK(r) BY <1>d, <1>x DEF SlotsOK
<1>6. Gates(r)
  <2>1. SUFFICES ASSUME NEW id \in DOMAIN r.issued, NEW c \in DOMAIN r.turn.slots,
                        Claims(r.issued[id], c), ~r.turn.slots[c].result
                 PROVE  /\ r.issued[id].kind = "hook" => r.turn.slots[c].gate = "await_hook"
                        /\ r.issued[id].kind = "human" =>
                             r.turn.slots[c].gate = "await_human"
                             /\ r.turn.slots[c].asked = r.issued[id].level
                        /\ \A j \in DOMAIN r.issued : Claims(r.issued[j], c) => j = id
    BY DEF Gates
  <2>2. c \in DOMAIN s.turn.slots BY <1>2, <1>d, <2>1 DEF Fresh, Unclaimed
  <2>3. /\ ~s.turn.slots[c].result /\ r.turn.slots[c].gate = s.turn.slots[c].gate
        /\ r.turn.slots[c].asked = s.turn.slots[c].asked
    BY <1>d, <1>x, <2>1, <2>2
  <2> QED BY <1>2, <2>1, <2>2, <2>3 DEF K, Gates
<1>7. NoTurn(r) BY <1>2 DEF NoTurn
<1>8. SampleId(r) BY <1>2 DEF K, SampleId
<1>9. Sampling(r) BY <1>2 DEF Sampling
<1>11. Submitting(r) BY <1>2 DEF Submitting, SubmitIssued
<1>12. Paired(r)
  <2>1. SUFFICES ASSUME NEW c \in Calls PROVE r.pairs[c] = IF c \in Open(r) THEN 1 ELSE 0
    BY DEF Paired
  <2>2. s.pairs[c] = 0 BY DEF K, Paired, Open
  <2>3. c \in Open(r) <=> c \in calls /\ ~r.turn.slots[c].result BY <1>d, <1>x DEF Open
  <2>4. r.pairs[c] = IF c \in calls /\ ~(c \in DOMAIN s.turn.slots /\ s.turn.slots[c].deferred)
                       THEN s.pairs[c] + 1 ELSE s.pairs[c]
    BY <1>2 DEF ReplyPairs
  <2>5. c \in DOMAIN s.turn.slots => (s.turn.slots[c].result <=> s.turn.slots[c].deferred)
    BY DEF K, SlotsOK, SlotOK
  <2>6. c \in calls => (r.turn.slots[c].result <=> c \in DOMAIN s.turn.slots /\ s.turn.slots[c].result)
    BY <1>x
  <2> QED BY <2>2, <2>3, <2>4, <2>5, <2>6
<1>13. Ids(r) BY <1>2 DEF K, Ids
<1>14. Known(r, U) BY <1>2, <1>d DEF K, Known
<1>15. Once(r, F)
  <2>1. \A c : Unstarted(s, F, c) => Unstarted(r, F, c) BY <1>2 DEF Unstarted
  <2>2. ASSUME NEW c \in calls, r.turn.slots[c].exec = "idle", ~r.turn.slots[c].result
        PROVE  Unstarted(s, F, c)
    <3>1. CASE c \in DOMAIN s.turn.slots BY <1>x, <2>2, <3>1 DEF K, Once
    <3>2. CASE c \notin DOMAIN s.turn.slots BY <3>2 DEF Fresh
    <3> QED BY <3>1, <3>2
  <2> QED BY <1>2, <1>d, <2>1, <2>2 DEF K, Once
<1>16. Flight(r, R) BY <1>2 DEF K, Flight
<1>17. Early(r, M, V) BY <1>2 DEF K, Early
<1>18. r.continuations <= MaxContinuations BY <1>2 DEF K
<1> QED BY <1>2, <1>5, <1>6, <1>7, <1>8, <1>9, <1>11, <1>12, <1>13, <1>14, <1>15, <1>16, <1>17, <1>18 DEF K

(* Results are recorded. *)
LEMMA KResults ==
  ASSUME NEW s, NEW U, NEW F, NEW R, NEW M, NEW V, K(s, U, F, R, M, V),
         NEW cs \in SUBSET DOMAIN s.turn.slots, \A c \in cs : ~s.turn.slots[c].result,
         NEW r, r = ToolsResulted(s, cs)
  PROVE  /\ K(r, U, F, R, M, V) /\ Open(r) = Open(s) \ cs /\ r.issued = s.issued
         /\ SameTurn(s, r) /\ r.continuations = s.continuations
<1>1. s \in StateType BY DEF K
<1>2. /\ r \in StateType
      /\ r.n = s.n /\ r.issued = s.issued /\ r.held = s.held /\ r.out = s.out
      /\ r.paused = s.paused /\ r.continuations = s.continuations
      /\ SameTurn(s, r) /\ r.turn.submit = s.turn.submit
      /\ r.turn.slots = ClosedSlots(s.turn.slots, cs)
      /\ r.pairs = ClosedPairs(s.pairs, s.turn.slots, cs)
  BY <1>1, ToolsResultedIs
<1>d. /\ DOMAIN r.turn.slots = DOMAIN s.turn.slots
      /\ \A c \in cs : r.turn.slots[c] = Resulted(s.turn.slots[c])
      /\ \A c \in DOMAIN s.turn.slots \ cs : r.turn.slots[c] = s.turn.slots[c]
  BY <1>2 DEF ClosedSlots
<1>x. ASSUME NEW c \in cs
      PROVE  LET sl == s.turn.slots[c]
                 q == r.turn.slots[c]
             IN /\ SlotOK(sl)
                /\ q \in SlotType /\ q.result /\ q.exec = "done" /\ q.gate = sl.gate /\ q.call = sl.call
                /\ q.asked = sl.asked /\ q.in_reply = sl.in_reply /\ q.approver = sl.approver
                /\ q.post = NoId /\ (q.deferred <=> ~sl.in_reply)
  <2>1. s.turn.slots[c] \in SlotType BY <1>1, StateIs, InSlotMap
  <2>2. SlotOK(s.turn.slots[c]) BY DEF K, SlotsOK
  <2> QED BY <1>d, <2>1, <2>2, ResultedIs
<1>3. ASSUME NEW c \in DOMAIN s.turn.slots PROVE Reslots(s, r, c)
  <2>1. CASE c \in cs
    <3> DEFINE sl == s.turn.slots[c]
               q == r.turn.slots[c]
    <3>1. /\ SlotOK(sl) /\ q.result /\ q.exec = "done" /\ q.gate = sl.gate /\ q.call = sl.call
          /\ q.asked = sl.asked /\ q.in_reply = sl.in_reply /\ q.approver = sl.approver
          /\ q.post = NoId /\ (q.deferred <=> ~sl.in_reply)
      BY <1>x, <2>1
    <3> HIDE DEF sl, q
    <3>2. Rings(q) = Rings(sl) /\ (LetThrough(sl) => LetThrough(q)) BY <3>1 DEF Rings, LetThrough
    <3>3. SlotOK(q) BY <3>1, <3>2 DEF SlotOK
    <3> QED BY <3>1, <3>3 DEF Reslots, sl, q
  <2>2. CASE c \notin cs BY <1>d, <2>2 DEF Reslots, K, SlotsOK
  <2> QED BY <2>1, <2>2
<1>4. Open(r) = Open(s) \ cs
  <2>1. ASSUME NEW c PROVE c \in Open(r) <=> c \in Open(s) /\ c \notin cs
    <3>1. CASE c \in cs BY <1>d, <1>x, <3>1 DEF Open
    <3>2. CASE c \notin cs BY <1>d, <3>2 DEF Open
    <3> QED BY <3>1, <3>2
  <2> QED BY <2>1
<1>5. Paired(r)
  <2>1. SUFFICES ASSUME NEW c \in Calls PROVE r.pairs[c] = IF c \in Open(r) THEN 1 ELSE 0
    BY DEF Paired
  <2>2. s.pairs[c] = IF c \in Open(s) THEN 1 ELSE 0 BY DEF K, Paired
  <2>3. r.pairs[c] = IF c \in cs /\ s.turn.slots[c].in_reply THEN s.pairs[c] - 1 ELSE s.pairs[c]
    BY <1>2 DEF ClosedPairs
  <2>4. c \in cs => (c \in Open(s) <=> s.turn.slots[c].in_reply) BY DEF Open
  <2> QED BY <1>4, <2>2, <2>3, <2>4
<1> HIDE DEF Reslots
<1>6. K(r, U, F, R, M, V) BY <1>2, <1>d, <1>3, <1>5, KReslot DEF SameTurn
<1> QED BY <1>2, <1>4, <1>6

(* To close the open calls keeps the invariant and leaves none open. *)
LEMMA KClose ==
  ASSUME NEW s, NEW U, NEW F, NEW R, NEW M, NEW V, K(s, U, F, R, M, V),
         NEW r, r = CloseOpen(s)
  PROVE  /\ K(r, U, F, R, M, V) /\ Open(r) = {} /\ r.issued = s.issued
         /\ SameTurn(s, r) /\ r.continuations = s.continuations
<1>1. r = ToolsResulted(s, Open(s)) BY DEF CloseOpen
<1>2. Open(s) \in SUBSET DOMAIN s.turn.slots /\ \A c \in Open(s) : ~s.turn.slots[c].result BY DEF Open
<1>3. Open(s) \ Open(s) = {} OBVIOUS
<1> QED BY <1>1, <1>2, <1>3, KResults

(* To fail the turn keeps the invariant. *)
LEMMA KFail ==
  ASSUME NEW s, NEW U, NEW F, NEW R, NEW M, NEW V, K(s, U, F, R, M, V),
         NEW r, r = FailTurn(s)
  PROVE  K(r, U, F, R, M, V)
<1> DEFINE c == CloseOpen(s)
<1>1. K(c, U, F, R, M, V) /\ Open(c) = {} BY KClose
<1>2. r = EndTurn(c, "failed") /\ "failed" \in Outcomes BY DEF FailTurn, Outcomes
<1> HIDE DEF c
<1> QED BY <1>1, <1>2, KEndTurn

(* A verdict the kernel may fold for the gate e of a call. *)
VerdictOK(s, e, v) ==
  /\ v \in VerdictType /\ (v.tag = "rewrite" => v.call \in Calls)
  /\ e.kind = "hook" => v.tag # "continue"
  /\ e.kind = "human" => v.tag \in {"allow", "deny", "defer", "rewrite"}
  /\ e.kind = "human" /\ v.tag = "allow" =>
       \A c \in Unresulted(s, e.calls) : MayApprove(e.level, v.by, s.turn.slots[c])

(* Its slots wait for it, and for no other. *)
Judgeable(s, e) ==
  \A c \in Unresulted(s, e.calls) :
     /\ Unclaimed(s, c)
     /\ e.kind = "hook" => s.turn.slots[c].gate = "await_hook"
     /\ e.kind = "human" => s.turn.slots[c].gate = "await_human" /\ s.turn.slots[c].asked = e.level

(* The slots after the verdict. *)
JudgedSlot(e, v, sl) == IF e.kind = "hook" THEN HookVerdict(sl, v) ELSE HumanVerdict(sl, v)
JudgedSlots(s, e, v) ==
  [c \in DOMAIN s.turn.slots |->
     IF c \in Unresulted(s, e.calls) THEN JudgedSlot(e, v, s.turn.slots[c]) ELSE s.turn.slots[c]]

(* To record a verdict keeps the invariant. *)
LEMMA KJudged ==
  ASSUME NEW s, NEW U, NEW F, NEW R, NEW M, NEW V, K(s, U, F, R, M, V),
         NEW e, e.kind \in {"hook", "human"}, NEW v, VerdictOK(s, e, v), Judgeable(s, e),
         NEW r, r = Judged(s, e, v)
  PROVE  K(r, U, F, R, M, V)
<1>1. s \in StateType BY DEF K
<1> DEFINE f == JudgedSlots(s, e, v)
<1>r. r = PutSlots(s, f) BY DEF Judged, PutSlots, JudgedSlots, JudgedSlot
<1>d. /\ DOMAIN f = DOMAIN s.turn.slots
      /\ \A c \in Unresulted(s, e.calls) : f[c] = JudgedSlot(e, v, s.turn.slots[c])
      /\ \A c \in DOMAIN s.turn.slots \ Unresulted(s, e.calls) : f[c] = s.turn.slots[c]
  BY DEF JudgedSlots, Unresulted
<1>t. /\ s.turn.slots \in SlotMap /\ DOMAIN s.turn.slots \subseteq Calls
      /\ \A c \in DOMAIN s.turn.slots : s.turn.slots[c] \in SlotType /\ SlotOK(s.turn.slots[c])
  BY <1>1, StateIs, InSlotMap DEF K, SlotsOK
<1>u. \A c \in Unresulted(s, e.calls) : c \in DOMAIN s.turn.slots /\ ~s.turn.slots[c].result
  BY DEF Unresulted
<1> HIDE DEF f
<1>x. ASSUME NEW c \in Unresulted(s, e.calls)
      PROVE  f[c] \in SlotType /\ SlotOK(f[c]) /\ SameRun(s.turn.slots[c], f[c]) /\ Unclaimed(s, c)
  <2> DEFINE sl == s.turn.slots[c]
             q == f[c]
  <2>0. sl \in SlotType /\ SlotOK(sl) /\ Unclaimed(s, c) BY <1>t, <1>u DEF Judgeable
  <2>1. CASE e.kind = "hook"
    <3>1. q = HookVerdict(sl, v) BY <1>d, <2>1 DEF JudgedSlot
    <3>2. sl.gate = "await_hook" /\ v \in VerdictType /\ v.tag # "continue" /\ (v.tag = "rewrite" => v.call \in Calls)
      BY <2>1 DEF Judgeable, VerdictOK
    <3> HIDE DEF sl, q
    <3>3. q \in SlotType /\ SlotOK(q) /\ SameRun(sl, q) BY <2>0, <3>1, <3>2, HookVerdictOK
    <3> QED BY <2>0, <3>3 DEF sl, q
  <2>2. CASE e.kind = "human"
    <3>1. q = HumanVerdict(sl, v) BY <1>d, <2>2 DEF JudgedSlot
    <3>2. /\ sl.gate = "await_human" /\ sl.asked = e.level /\ v \in VerdictType
          /\ v.tag \in {"allow", "deny", "defer", "rewrite"} /\ (v.tag = "rewrite" => v.call \in Calls)
          /\ (v.tag = "allow" => MayApprove(e.level, v.by, sl))
      BY <2>2 DEF Judgeable, VerdictOK
    <3>4. v.tag = "allow" => MayApprove(sl.asked, v.by, sl) BY <3>2
    <3> HIDE DEF sl, q
    <3>3. q \in SlotType /\ SlotOK(q) /\ SameRun(sl, q) BY <2>0, <3>1, <3>2, <3>4, HumanVerdictOK
    <3> QED BY <2>0, <3>3 DEF sl, q
  <2> QED BY <2>1, <2>2
<1>2. f \in SlotMap
  <2>1. ASSUME NEW c \in DOMAIN s.turn.slots PROVE f[c] \in SlotType BY <1>d, <1>t, <1>x
  <2>2. f = JudgedSlots(s, e, v) BY DEF f
  <2>3. f = [c \in DOMAIN f |-> f[c]] BY <2>2 DEF JudgedSlots
  <2>4. f \in [DOMAIN s.turn.slots -> SlotType] BY <1>d, <2>1, <2>3
  <2>5. DOMAIN s.turn.slots \in SUBSET Calls BY <1>t
  <2> QED BY <2>4, <2>5, IsSlotMap
<1>3. /\ r \in StateType /\ Books(s, r) /\ SameTurn(s, r) /\ r.turn.slots = f
      /\ r.turn.submit = s.turn.submit
  BY <1>1, <1>r, <1>2, SetSlots
<1>4. ASSUME NEW c \in DOMAIN s.turn.slots PROVE Reslots(s, r, c)
  <2>1. CASE c \in Unresulted(s, e.calls) BY <1>3, <1>x, <2>1 DEF Reslots, SameRun
  <2>2. CASE c \notin Unresulted(s, e.calls) BY <1>3, <1>d, <1>t, <2>2 DEF Reslots
  <2> QED BY <2>1, <2>2
<1>5. Open(r) = Open(s)
  <2>1. ASSUME NEW c \in DOMAIN s.turn.slots
        PROVE  r.turn.slots[c].in_reply = s.turn.slots[c].in_reply
               /\ r.turn.slots[c].result = s.turn.slots[c].result
    BY <1>3, <1>d, <1>x DEF SameRun
  <2> QED BY <1>3, <1>d, <2>1 DEF Open
<1>6. Paired(r) BY <1>3, <1>5 DEF K, Paired, Books
<1> HIDE DEF Reslots
<1>7. DOMAIN r.turn.slots = DOMAIN s.turn.slots BY <1>3, <1>d
<1> QED BY <1>3, <1>4, <1>6, <1>7, KReslot DEF Books, SameTurn

(* A hard interrupt: nothing is outstanding, and the slots stop. *)
LEMMA StoppedIs ==
  ASSUME NEW sl \in SlotType, NEW r, r = Stopped(sl)
  PROVE  r \in SlotType /\ r.in_reply = sl.in_reply /\ r.result = sl.result
<1> DEFINE exec == IF sl.exec = "running" THEN "idle" ELSE sl.exec
           x == [sl EXCEPT !.post = 0, !.exec = exec]
<1>1. r = x BY DEF Stopped, NoId
<1>2. exec \in {"idle", "running", "done"} BY SlotIs
<1> HIDE DEF exec
<1>3. x \in SlotType BY <1>2 DEF SlotType
<1>4. x.in_reply = sl.in_reply /\ x.result = sl.result BY DEF SlotType
<1> HIDE DEF x
<1> QED BY <1>1, <1>3, <1>4

(* A stopped turn keeps its calls. *)
LEMMA StoppedTurnIs ==
  ASSUME NEW s \in StateType, NEW r, r = StoppedTurn(s.turn)
  PROVE  r \in TurnType /\ r.slots = [c \in DOMAIN s.turn.slots |-> Stopped(s.turn.slots[c])]
<1> DEFINE slots == [c \in DOMAIN s.turn.slots |-> Stopped(s.turn.slots[c])]
           x == [s.turn EXCEPT !.sample = 0, !.soft = TRUE, !.slots = slots]
<1>1. r = x BY DEF StoppedTurn, NoId
<1>2. slots \in SlotMap
  <2>1. /\ s.turn.slots \in SlotMap /\ DOMAIN s.turn.slots \subseteq Calls
        /\ \A c \in DOMAIN s.turn.slots : s.turn.slots[c] \in SlotType
    BY StateIs, InSlotMap
  <2>2. slots \in [DOMAIN s.turn.slots -> SlotType] BY <2>1, StoppedIs
  <2> QED BY <2>1, <2>2, IsSlotMap
<1>3. slots = [c \in DOMAIN s.turn.slots |-> Stopped(s.turn.slots[c])] OBVIOUS
<1> HIDE DEF slots
<1>4. s.turn \in TurnType BY StateIs
<1>5. x \in TurnType /\ x.slots = slots BY <1>2, <1>4 DEF TurnType
<1> HIDE DEF x
<1> QED BY <1>1, <1>3, <1>5

(* A hard interrupt drops every effect and stops every slot. *)
LEMMA HardInterruptedIs ==
  ASSUME NEW s \in StateType, NEW r, r = HardInterrupted(s)
  PROVE  /\ r \in StateType
         /\ r.n = s.n /\ r.issued = Restrict(s.issued, {}) /\ r.held = s.held \ DOMAIN s.issued
         /\ r.out = s.out /\ r.paused = s.paused /\ r.pairs = s.pairs
         /\ r.continuations = s.continuations
         /\ (s.turn.cause = "none" => r.turn = s.turn)
         /\ (s.turn.cause # "none" =>
               r.turn.slots = [c \in DOMAIN s.turn.slots |-> Stopped(s.turn.slots[c])])
<1> DEFINE D == DOMAIN s.issued
           f == Forget(s, D)
           g == IF f.session_gate = "waiting" THEN "none" ELSE f.session_gate
           t == IF HasTurn(s) THEN StoppedTurn(f.turn) ELSE f.turn
           x == [f EXCEPT !.questions = {}, !.session_gate = g, !.turn = t]
<1>1. r = x BY DEF HardInterrupted
<1>2. f = Forget(s, D) OBVIOUS
<1>d. D = DOMAIN s.issued /\ DOMAIN s.issued \ D = {} OBVIOUS
<1> HIDE DEF f, D
<1>3. /\ f \in StateType
      /\ f.n = s.n /\ f.issued = Restrict(s.issued, DOMAIN s.issued \ D)
      /\ f.held = s.held \ D /\ f.out = s.out /\ f.paused = s.paused
      /\ f.pairs = s.pairs /\ f.continuations = s.continuations /\ f.turn = s.turn
  BY <1>2, ForgetIs
<1>4. StoppedTurn(s.turn) \in TurnType
      /\ StoppedTurn(s.turn).slots = [c \in DOMAIN s.turn.slots |-> Stopped(s.turn.slots[c])]
  BY StoppedTurnIs
<1>5. /\ t \in TurnType
      /\ (s.turn.cause = "none" => t = s.turn)
      /\ (s.turn.cause # "none" => t.slots = [c \in DOMAIN s.turn.slots |-> Stopped(s.turn.slots[c])])
  BY <1>3, <1>4, StateIs DEF HasTurn
<1>6. g \in Waits BY <1>3, StateIs DEF Waits
<1> HIDE DEF g, t
<1>7. x \in StateType BY <1>3, <1>5, <1>6 DEF StateType
<1>8. /\ x.n = f.n /\ x.issued = f.issued /\ x.held = f.held /\ x.out = f.out
      /\ x.paused = f.paused /\ x.pairs = f.pairs /\ x.continuations = f.continuations
      /\ x.turn = t
  BY <1>3 DEF StateType
<1> HIDE DEF x
<1> QED BY <1>1, <1>d, <1>3, <1>5, <1>7, <1>8

(* A hard interrupt keeps the invariant. *)
LEMMA KHard ==
  ASSUME NEW s, NEW U, NEW F, NEW R, NEW M, NEW V, K(s, U, F, R, M, V),
         NEW r, r = HardInterrupt(s)
  PROVE  K(r, U, F, R, M, V)
<1> DEFINE h == HardInterrupted(s)
<1>1. s \in StateType /\ s.n \in Nat /\ s.n # 0 BY StateShape DEF K
<1>2. /\ h \in StateType
      /\ h.n = s.n /\ h.issued = Restrict(s.issued, {}) /\ h.held = s.held \ DOMAIN s.issued
      /\ h.out = s.out /\ h.paused = s.paused /\ h.pairs = s.pairs
      /\ h.continuations = s.continuations
      /\ (s.turn.cause = "none" => h.turn = s.turn)
      /\ (s.turn.cause # "none" =>
            h.turn.slots = [c \in DOMAIN s.turn.slots |-> Stopped(s.turn.slots[c])])
  BY <1>1, HardInterruptedIs
<1>3. \/ r = s
      \/ s.turn.cause = "none" /\ r = h
      \/ s.turn.cause # "none" /\ r = EndTurn(CloseOpen(h), "interrupted")
  BY DEF HardInterrupt, HasTurn
<1> HIDE DEF h
<1>h. h.held = {} BY <1>2 DEF K, Ids
<1>4. CASE s.turn.cause = "none" /\ r = h
  <2>1. {} \in SUBSET DOMAIN s.issued /\ h.held \subseteq s.held \cap {} BY <1>h
  <2>2. /\ h.turn.slots = s.turn.slots /\ h.turn.cause = s.turn.cause
        /\ h.turn.suspended = s.turn.suspended /\ h.turn.submit = s.turn.submit
        /\ h.turn.sample = s.turn.sample
    BY <1>2, <1>4
  <2> QED BY <1>2, <1>4, <2>1, <2>2, KDrop
<1>5. CASE s.turn.cause # "none" /\ r = EndTurn(CloseOpen(h), "interrupted")
  <2> DEFINE c == CloseOpen(h)
  <2>d. /\ DOMAIN h.turn.slots = DOMAIN s.turn.slots
        /\ \A d \in DOMAIN s.turn.slots : h.turn.slots[d] = Stopped(s.turn.slots[d])
    BY <1>2, <1>5
  <2>x. \A d \in DOMAIN s.turn.slots : /\ h.turn.slots[d].in_reply = s.turn.slots[d].in_reply
                                       /\ h.turn.slots[d].result = s.turn.slots[d].result
    BY <1>1, <2>d, StateIs, InSlotMap, StoppedIs
  <2>o. Open(h) = Open(s) BY <2>d, <2>x DEF Open
  <2>1. c = ToolsResulted(h, Open(h)) BY DEF CloseOpen
  <2>2. r = EndTurn(c, "interrupted") /\ "interrupted" \in Outcomes BY <1>5 DEF Outcomes
  <2> HIDE DEF c
  <2>3. /\ c \in StateType
        /\ c.n = h.n /\ c.issued = h.issued /\ c.held = h.held /\ c.out = h.out
        /\ c.paused = h.paused /\ c.continuations = h.continuations
        /\ c.pairs = ClosedPairs(h.pairs, h.turn.slots, Open(h))
    BY <1>2, <2>1, ToolsResultedIs
  <2>4. /\ r \in StateType
        /\ r.n = c.n + 1 /\ r.issued = Restrict(c.issued, Survives(c.issued))
        /\ r.held \subseteq c.held
        /\ r.out = c.out /\ r.paused = c.paused /\ r.pairs = c.pairs
        /\ r.continuations = c.continuations /\ r.turn = NewTurn("none")
    BY <2>2, <2>3, EndTurnIs
  <2>5. /\ r.turn.cause = "none" /\ r.turn.sample = NoId /\ DOMAIN r.turn.slots = {}
        /\ ~r.turn.suspended
    <3>1. "none" \in {"none", "user", "queued", "wake"} OBVIOUS
    <3> QED BY <2>4, <3>1, NewTurnIs, EmptyMaps
  <2>6. DOMAIN r.issued = {} /\ r.held = {}
    <3>1. DOMAIN c.issued = {} BY <1>2, <2>3, RestrictIs
    <3>2. Survives(c.issued) = {} BY <3>1 DEF Survives
    <3> QED BY <1>h, <2>3, <2>4, <3>2, RestrictIs
  <2>7. r.n = s.n + 1 /\ r.out = s.out /\ r.paused = s.paused /\ r.continuations = s.continuations
    BY <1>2, <2>3, <2>4
  <2>8. Open(r) = {} BY <2>5 DEF Open
  <2>9. Paired(r)
    <3>1. SUFFICES ASSUME NEW d \in Calls PROVE r.pairs[d] = 0 BY <2>8 DEF Paired
    <3>2. s.pairs[d] = IF d \in Open(s) THEN 1 ELSE 0 BY DEF K, Paired
    <3>3. r.pairs[d] = IF d \in Open(h) /\ h.turn.slots[d].in_reply THEN s.pairs[d] - 1 ELSE s.pairs[d]
      BY <1>2, <2>3, <2>4 DEF ClosedPairs
    <3>4. d \in Open(h) => h.turn.slots[d].in_reply BY DEF Open
    <3> QED BY <2>o, <3>2, <3>3, <3>4
  <2>10. Ids(r)
    <3>1. DOMAIN s.out \subseteq 1..(s.n - 1) BY DEF K, Ids
    <3>2. DOMAIN r.out \subseteq 1..(r.n - 1) BY <1>1, <2>7, <3>1
    <3>3. NoId < r.n BY <1>1, <2>7 DEF NoId
    <3> QED BY <2>5, <2>6, <2>7, <3>2, <3>3 DEF K, Ids
  <2>11. SlotsOK(r) /\ Gates(r) BY <2>5 DEF SlotsOK, Gates
  <2>12. NoTurn(r) /\ SampleId(r) /\ Sampling(r) /\ Submitting(r)
    BY <2>5, <2>6 DEF NoTurn, SampleId, Sampling, Submitting
  <2>13. Known(r, U) BY <2>5, <2>6, <2>7 DEF K, Known
  <2>14. Once(r, F)
    <3>1. \A d : ~Starts(r.issued, r.held, d) BY <2>6 DEF Starts
    <3> QED BY <2>5, <2>7, <3>1 DEF K, Once
  <2>15. Flight(r, R)
    <3>1. DOMAIN R \subseteq 1..(s.n - 1) BY DEF K, Flight
    <3>2. DOMAIN R \subseteq 1..(r.n - 1) BY <1>1, <2>7, <3>1
    <3> QED BY <2>6, <3>2 DEF Flight
  <2>16. Early(r, M, V) BY <1>1, <2>5, <2>7 DEF K, Early, Context
  <2>17. r.continuations <= MaxContinuations BY <2>7 DEF K
  <2> QED BY <2>4, <2>9, <2>10, <2>11, <2>12, <2>13, <2>14, <2>15, <2>16, <2>17 DEF K
<1> QED BY <1>3, <1>4, <1>5

(* While a call is open the model has answered, and no prompt waits for its hook. *)
LEMMA OpenIs ==
  ASSUME NEW s, NEW U, NEW F, NEW R, NEW M, NEW V, K(s, U, F, R, M, V), Open(s) # {}
  PROVE  s.turn.cause # "none" /\ s.turn.sample = NoId /\ ~SubmitIssued(s)
<1>1. PICK c \in DOMAIN s.turn.slots : s.turn.slots[c].in_reply BY DEF Open
<1>2. s.turn.cause # "none" BY <1>1 DEF K, NoTurn
<1>3. s.turn.sample = NoId BY <1>1 DEF K, Sampling
<1> QED BY <1>2, <1>3 DEF K, Submitting, SubmitIssued

(* One slot changes. *)
LEMMA KSlot ==
  ASSUME NEW s, NEW U, NEW F, NEW R, NEW M, NEW V, K(s, U, F, R, M, V),
         NEW c \in DOMAIN s.turn.slots, Unclaimed(s, c),
         NEW x, SlotOK(x), SameRun(s.turn.slots[c], x),
         NEW r \in StateType, Books(s, r), SameTurn(s, r), r.turn.submit = s.turn.submit,
         r.turn.slots = [s.turn.slots EXCEPT ![c] = x]
  PROVE  K(r, U, F, R, M, V)
<1>d. /\ DOMAIN r.turn.slots = DOMAIN s.turn.slots /\ r.turn.slots[c] = x
      /\ \A d \in DOMAIN s.turn.slots : d # c => r.turn.slots[d] = s.turn.slots[d]
  OBVIOUS
<1>1. ASSUME NEW d \in DOMAIN s.turn.slots PROVE Reslots(s, r, d)
  <2>1. CASE d = c BY <1>d, <2>1 DEF Reslots, SameRun
  <2>2. CASE d # c BY <1>d, <2>2 DEF Reslots, K, SlotsOK
  <2> QED BY <2>1, <2>2
<1>2. Open(r) = Open(s) BY <1>d DEF Open, SameRun
<1>3. Paired(r) BY <1>2 DEF K, Paired, Books
<1> HIDE DEF Reslots
<1> QED BY <1>d, <1>1, <1>3, KReslot DEF Books, SameTurn

(* No question is outstanding about a call that waits for none. *)
LEMMA NotClaimed ==
  ASSUME NEW s, NEW U, NEW F, NEW R, NEW M, NEW V, K(s, U, F, R, M, V),
         NEW c \in DOMAIN s.turn.slots, ~s.turn.slots[c].result,
         s.turn.slots[c].gate \notin {"await_hook", "await_human"}
  PROVE  Unclaimed(s, c)
<1>1. SUFFICES ASSUME NEW j \in DOMAIN s.issued, Claims(s.issued[j], c) PROVE FALSE
  BY DEF Unclaimed
<1>2. s.issued[j].kind \in {"hook", "human"} BY <1>1 DEF Claims, PreTool
<1> QED BY <1>1, <1>2 DEF K, Gates

(* The form of every step that rewrites one slot. *)
LEMMA PutSlotIs ==
  ASSUME NEW s \in StateType, NEW c \in DOMAIN s.turn.slots, NEW x \in SlotType,
         NEW r, r = PutSlots(s, [s.turn.slots EXCEPT ![c] = x])
  PROVE  /\ r \in StateType /\ Books(s, r) /\ SameTurn(s, r) /\ r.turn.submit = s.turn.submit
         /\ r.turn.slots = [s.turn.slots EXCEPT ![c] = x]
<1> DEFINE f == [s.turn.slots EXCEPT ![c] = x]
<1>0. f = [s.turn.slots EXCEPT ![c] = x] OBVIOUS
<1>1. f \in SlotMap
  <2>1. /\ s.turn.slots = [y \in DOMAIN s.turn.slots |-> s.turn.slots[y]]
        /\ DOMAIN s.turn.slots \subseteq Calls
        /\ \A d \in DOMAIN s.turn.slots : s.turn.slots[d] \in SlotType
    BY StateIs, InSlotMap
  <2>2. f \in [DOMAIN s.turn.slots -> SlotType] BY <2>1
  <2> QED BY <2>1, <2>2, IsSlotMap
<1>2. r = PutSlots(s, f) OBVIOUS
<1> HIDE DEF f
<1>3. /\ r \in StateType /\ Books(s, r) /\ SameTurn(s, r) /\ r.turn.slots = f
      /\ r.turn.submit = s.turn.submit
  BY <1>1, <1>2, SetSlots
<1> QED BY <1>0, <1>3

(* The question of ring 5 is written down; who answers it comes next. *)
AskNobody(s, c) ==
  [s EXCEPT !.questions = @ \cup {Question(c, s.turn.slots[c].asked)},
            !.turn.slots[c].gate = "await_nobody"]

(* To ask where no human attends changes one slot's gate. *)
LEMMA AskNobodyIs ==
  ASSUME NEW s \in StateType, NEW c \in DOMAIN s.turn.slots, NEW r, r = AskNobody(s, c)
  PROVE  /\ r \in StateType /\ Books(s, r) /\ SameTurn(s, r) /\ r.turn.submit = s.turn.submit
         /\ r.turn.slots = [s.turn.slots EXCEPT ![c] = Gate(s.turn.slots[c], "await_nobody")]
<1> DEFINE x == Gate(s.turn.slots[c], "await_nobody")
           p == PutSlots(s, [s.turn.slots EXCEPT ![c] = x])
           q == s.questions \cup {Question(c, s.turn.slots[c].asked)}
<1>1. c \in Calls /\ s.turn.slots[c] \in SlotType BY StateIs, InSlotMap
<1>2. x \in SlotType BY <1>1 DEF SlotType, Gate, Gatings
<1>3. r = [p EXCEPT !.questions = q] BY DEF AskNobody, PutSlots, Gate
<1>4. x = Gate(s.turn.slots[c], "await_nobody") OBVIOUS
<1>5. q \in SUBSET QuestionType
  <2>1. Question(c, s.turn.slots[c].asked) \in QuestionType
    BY <1>1 DEF Question, QuestionType, SlotType, NoId
  <2> QED BY <2>1, StateIs
<1>p. p = PutSlots(s, [s.turn.slots EXCEPT ![c] = x]) OBVIOUS
<1> HIDE DEF x, p, q
<1>6. /\ p \in StateType /\ Books(s, p) /\ SameTurn(s, p) /\ p.turn.submit = s.turn.submit
      /\ p.turn.slots = [s.turn.slots EXCEPT ![c] = x]
  BY <1>2, <1>p, PutSlotIs
<1>7. r \in StateType BY <1>3, <1>5, <1>6, ZenonT(60) DEF StateType
<1>8. r.turn = p.turn /\ Books(p, r) BY <1>3, <1>6 DEF StateType, Books
<1> QED BY <1>4, <1>6, <1>7, <1>8 DEF Books, SameTurn

(* A turn that waits for somebody is put aside. *)
LEMMA KSuspend ==
  ASSUME NEW s, NEW U, NEW F, NEW R, NEW M, NEW V, K(s, U, F, R, M, V),
         s.turn.cause # "none", s.turn.sample = NoId, ~SubmitIssued(s),
         NEW r, r = Suspend(s)
  PROVE  K(r, U, F, R, M, V)
<1> DEFINE t == [s.turn EXCEPT !.suspended = TRUE]
           a == [s EXCEPT !.turn = t]
<1>1. s \in StateType /\ s.turn \in TurnType /\ s.n \in Nat BY StateIs DEF K
<1>2. r = Finish(a, "suspended") /\ "suspended" \in Outcomes BY DEF Suspend, Outcomes
<1>3. t \in TurnType /\ t.cause = s.turn.cause /\ t.sample = s.turn.sample /\ t.slots = s.turn.slots
  BY <1>1 DEF TurnType
<1>a. a = [s EXCEPT !.turn = t] OBVIOUS
<1> HIDE DEF t, a
<1>4. a \in StateType /\ a.turn = t /\ Books(s, a) BY <1>1, <1>3, <1>a, SetTurn
<1>5. /\ r \in StateType
      /\ r.n = a.n + 1 /\ r.issued = a.issued /\ r.held = a.held /\ r.out = a.out
      /\ r.paused = a.paused /\ r.pairs = a.pairs /\ r.continuations = a.continuations
      /\ r.turn = a.turn
  BY <1>2, <1>4, FinishIs
<1>6. r.n >= s.n BY <1>1, <1>4, <1>5 DEF Books
<1>7. r.continuations <= MaxContinuations BY <1>4, <1>5 DEF K, Books
<1> QED BY <1>3, <1>4, <1>5, <1>6, <1>7, KQuiet DEF Books

(* The kernel denies a call or says what the rings say. *)
LEMMA EvaluateIs ==
  ASSUME NEW s, NEW sl
  PROVE  Evaluate(s, sl) \in {"deny", Rings(sl)}
BY DEF Evaluate, Rings

(* The step at the human gate keeps the invariant. *)
LEMMA KHumanGate ==
  ASSUME NEW s, NEW U, NEW F, NEW R, NEW M, NEW V, K(s, U, F, R, M, V),
         NEW c \in Open(s), s.turn.slots[c].gate = "need_human",
         NEW r, r = HumanGate(s, c)
  PROVE  K(r, U, F, R, M, V)
<1> DEFINE sl == s.turn.slots[c]
           a == AskNobody(s, c)
<1>1. /\ s \in StateType /\ c \in DOMAIN s.turn.slots /\ ~sl.result /\ sl \in SlotType /\ SlotOK(sl)
      /\ Open(s) # {}
  BY StateIs, InSlotMap DEF K, Open, SlotsOK
<1>2. Unclaimed(s, c) BY <1>1, NotClaimed
<1>3. \/ sl.asked = "invariant" /\ Attr[sl.call].sandboxed
         /\ r = [s EXCEPT !.turn.slots[c] = HumanVerdict(@, [tag |-> "allow", by |-> "env"])]
      \/ r = Suspend(a)
      \/ r = Issue(a, Human("PreTool", {c}, sl.asked))
  BY DEF HumanGate, Slot, AskNobody
<1>4. /\ a \in StateType /\ Books(s, a) /\ SameTurn(s, a) /\ a.turn.submit = s.turn.submit
      /\ a.turn.slots = [s.turn.slots EXCEPT ![c] = Gate(s.turn.slots[c], "await_nobody")]
  BY <1>1, AskNobodyIs
<1> HIDE DEF a
<1> DEFINE x == Gate(s.turn.slots[c], "await_nobody")
<1>5. SlotOK(x) /\ SameRun(sl, x) /\ x.gate = "await_nobody" /\ x.asked = sl.asked
  <2>1. /\ x.call = sl.call /\ x.gate = "await_nobody" /\ x.asked = sl.asked /\ x.exec = sl.exec
        /\ x.in_reply = sl.in_reply /\ x.result = sl.result /\ x.post = sl.post
        /\ x.deferred = sl.deferred
    BY <1>1 DEF SlotType, Gate
  <2> HIDE DEF x
  <2>2. Rings(x) = Rings(sl) BY <2>1 DEF Rings
  <2> QED BY <1>1, <2>1, <2>2 DEF SlotOK, SameRun
<1>x. x = Gate(s.turn.slots[c], "await_nobody") OBVIOUS
<1> HIDE DEF x
<1>6. K(a, U, F, R, M, V) BY <1>1, <1>2, <1>4, <1>5, <1>x, KSlot
<1>7. c \in DOMAIN a.turn.slots /\ a.turn.slots[c] = x BY <1>1, <1>4, <1>x
<1>8. c \in Open(a) BY <1>1, <1>5, <1>7 DEF Open, SameRun
<1>9. CASE /\ sl.asked = "invariant" /\ Attr[sl.call].sandboxed
           /\ r = [s EXCEPT !.turn.slots[c] = HumanVerdict(@, [tag |-> "allow", by |-> "env"])]
  <2> DEFINE y == [sl EXCEPT !.gate = "permitted", !.approver = "env"]
  <2>1. r = PutSlots(s, [s.turn.slots EXCEPT ![c] = y])
    BY <1>9 DEF PutSlots, HumanVerdict
  <2>2. MayApprove(sl.asked, "env", sl) BY <1>9 DEF MayApprove
  <2>y. y = [sl EXCEPT !.gate = "permitted", !.approver = "env"] OBVIOUS
  <2> HIDE DEF y
  <2>3. y \in SlotType /\ SlotOK(y) /\ SameRun(sl, y)
    <3>1. "env" \in {"hook", "kernel", "env"} \cup Responders /\ sl.gate \in {"need_human", "await_human"}
      OBVIOUS
    <3> HIDE DEF sl
    <3> QED BY <1>1, <2>2, <2>y, <3>1, HumanAllowOK
  <2>4. /\ r \in StateType /\ Books(s, r) /\ SameTurn(s, r) /\ r.turn.submit = s.turn.submit
        /\ r.turn.slots = [s.turn.slots EXCEPT ![c] = y]
    BY <1>1, <2>1, <2>3, PutSlotIs
  <2> QED BY <1>1, <1>2, <2>3, <2>4, KSlot
<1>10. CASE r = Suspend(a)
  <2>1. a.turn.cause # "none" /\ a.turn.sample = NoId /\ ~SubmitIssued(a) BY <1>6, <1>8, OpenIs
  <2> QED BY <1>6, <1>10, <2>1, KSuspend
<1>11. CASE r = Issue(a, Human("PreTool", {c}, sl.asked))
  <2> DEFINE e == Human("PreTool", {c}, sl.asked)
  <2>1. e.kind = "human" /\ e.level = sl.asked BY DEF Human, Effect
  <2>2. CallGate(e, c) BY <1>1, SlotIs DEF CallGate
  <2>3. ~a.turn.slots[c].result BY <1>1, <1>5, <1>7 DEF SameRun
  <2> HIDE DEF e
  <2>4. r = Issue(a, e) BY <1>11 DEF e
  <2> HIDE DEF sl
  <2> QED BY <1>5, <1>6, <1>7, <2>1, <2>2, <2>3, <2>4, KCallGate
<1> QED BY <1>3, <1>9, <1>10, <1>11

(* The step at any gate keeps the invariant. *)
LEMMA KGateStep ==
  ASSUME NEW s, NEW U, NEW F, NEW R, NEW M, NEW V, K(s, U, F, R, M, V),
         NEW c \in Open(s),
         s.turn.slots[c].gate \in {"unchecked", "need_hook", "need_human", "closed"},
         NEW r, r = GateStep(s, c)
  PROVE  K(r, U, F, R, M, V)
<1> DEFINE sl == s.turn.slots[c]
<1>1. /\ s \in StateType /\ c \in DOMAIN s.turn.slots /\ ~sl.result /\ sl \in SlotType /\ SlotOK(sl)
  BY StateIs, InSlotMap DEF K, Open, SlotsOK
<1>2. CASE sl.gate = "unchecked"
  <2> DEFINE v == Evaluate(s, sl)
             x == RingsVerdict(sl, v)
  <2>1. r = PutSlots(s, [s.turn.slots EXCEPT ![c] = x])
    BY <1>2 DEF GateStep, Slot, PutSlots
  <2>2. Unclaimed(s, c) BY <1>1, <1>2, NotClaimed
  <2>3. v \in {"deny", Rings(sl)} BY EvaluateIs
  <2>x. x = RingsVerdict(sl, v) /\ sl = s.turn.slots[c] OBVIOUS
  <2> HIDE DEF v, x, sl
  <2>4. x \in SlotType /\ SlotOK(x) /\ SameRun(sl, x) BY <1>1, <1>2, <2>3, <2>x, RingsVerdictOK
  <2>5. /\ r \in StateType /\ Books(s, r) /\ SameTurn(s, r) /\ r.turn.submit = s.turn.submit
        /\ r.turn.slots = [s.turn.slots EXCEPT ![c] = x]
    BY <1>1, <2>1, <2>4, PutSlotIs
  <2> QED BY <1>1, <2>2, <2>x, <2>4, <2>5, KSlot
<1>3. CASE sl.gate = "need_hook"
  <2> DEFINE e == Hook("PreTool", {c})
  <2>1. r = Issue(s, e) BY <1>3 DEF GateStep, Slot
  <2>2. e.kind = "hook" /\ CallGate(e, c) BY DEF CallGate, Hook, Effect
  <2> HIDE DEF e
  <2> QED BY <1>1, <1>3, <2>1, <2>2, KCallGate
<1>4. CASE sl.gate = "need_human"
  <2>1. r = HumanGate(s, c) BY <1>4 DEF GateStep, Slot
  <2> QED BY <1>4, <2>1, KHumanGate
<1>5. CASE sl.gate = "closed"
  <2>1. r = ToolsResulted(s, {c}) BY <1>5 DEF GateStep, Slot, ToolResulted
  <2>2. {c} \in SUBSET DOMAIN s.turn.slots /\ \A d \in {c} : ~s.turn.slots[d].result BY <1>1
  <2> QED BY <2>1, <2>2, KResults
<1> QED BY <1>2, <1>3, <1>4, <1>5

(* An interrupted turn winds down. *)
LEMMA KWindDown ==
  ASSUME NEW s, NEW U, NEW F, NEW R, NEW M, NEW V, K(s, U, F, R, M, V),
         NEW r, r = WindDown(s)
  PROVE  K(r, U, F, R, M, V)
<1> DEFINE idle == {c \in Open(s) : ~Busy(Slot(s, c))}
<1>1. CASE idle # {}
  <2> DEFINE c == Min(idle)
  <2>1. r = ToolsResulted(s, {c}) BY <1>1 DEF WindDown, ToolResulted
  <2>2. Open(s) \subseteq DOMAIN s.turn.slots /\ DOMAIN s.turn.slots \subseteq Nat
    BY StateShape, KernelAssumption DEF K, Open
  <2>3. idle \subseteq Nat /\ idle \subseteq Open(s) BY <2>2
  <2> HIDE DEF idle
  <2>4. c \in Open(s) BY <1>1, <2>3, MinIn
  <2>5. {c} \in SUBSET DOMAIN s.turn.slots /\ \A d \in {c} : ~s.turn.slots[d].result BY <2>4 DEF Open
  <2> HIDE DEF c
  <2> QED BY <2>1, <2>5, KResults
<1>2. CASE idle = {} /\ (s.turn.sample # NoId \/ Running(s))
  <2>1. r = s BY <1>2 DEF WindDown
  <2> QED BY <2>1
<1>3. CASE idle = {} /\ ~(s.turn.sample # NoId \/ Running(s))
  <2>1. r = EndTurn(s, "interrupted") /\ "interrupted" \in Outcomes BY <1>3 DEF WindDown, Outcomes
  <2>2. Open(s) = {} BY <1>3 DEF Running, Open, Slot
  <2> QED BY <2>1, <2>2, KEndTurn
<1> QED BY <1>1, <1>2, <1>3

(* A checkpoint is an effect no slot waits for. *)
LEMMA CheckpointIs ==
  ASSUME NEW C \in SUBSET Calls, NEW of \in {"batch", "safe_point"},
         NEW e, e = Checkpoint(of, C)
  PROVE  e \in EffectType /\ e.calls = C /\ e.kind = "checkpoint" /\ Inert(e) /\ ~UserSubmit(e)
BY DEF Checkpoint, Effect, EffectType, Inert, Levels, UserSubmit

(* So is a hook of the turn. *)
LEMMA TurnHookIs ==
  ASSUME NEW point \in {"SessionStart", "UserSubmit", "PreSample", "Stop"},
         NEW e, e = Hook(point, {})
  PROVE  /\ e \in EffectType /\ e.calls = {} /\ e.kind = "hook" /\ e.point = point /\ Inert(e)
         /\ (UserSubmit(e) <=> point = "UserSubmit")
BY DEF Hook, Effect, EffectType, Inert, Levels, HookPoints, UserSubmit

(* Calls of a reply that are permitted and idle run, after their checkpoint. *)
LEMMA KRunBatch ==
  ASSUME NEW s, NEW U, NEW F, NEW R, NEW M, NEW V, K(s, U, F, R, M, V),
         NEW C \in SUBSET Open(s), s.turn.cause # "none",
         \A c \in C : s.turn.slots[c].gate = "permitted" /\ s.turn.slots[c].exec = "idle",
         NEW r, r = RunBatch(s, C)
  PROVE  K(r, U, F, R, M, V)
<1>1. C \in SUBSET Calls /\ C \subseteq U BY StateShape DEF K, Open, Known
<1>2. \/ r = s
      \/ r = Issue(s, Checkpoint("batch", C))
      \/ r = Issue(s, Execute(C))
  <2>1. s.turn.pre_ckpt \in {"none", "pending", "done"} BY StateIs DEF K, TurnType
  <2> QED BY <2>1 DEF RunBatch
<1>3. CASE r = Issue(s, Checkpoint("batch", C))
  <2> DEFINE e == Checkpoint("batch", C)
  <2>0. r = Issue(s, e) /\ e = Checkpoint("batch", C) /\ "batch" \in {"batch", "safe_point"} BY <1>3
  <2> HIDE DEF e
  <2>1. e \in EffectType /\ e.calls = C /\ e.kind = "checkpoint" /\ Inert(e) /\ ~UserSubmit(e)
    BY <1>1, <2>0, CheckpointIs
  <2> QED BY <1>1, <2>0, <2>1, KIssueInert
<1>4. CASE r = Issue(s, Execute(C))
  <2>1. \A c \in C : MayStart(s, U, F, c) BY <1>1 DEF MayStart, Open
  <2>2. V \in {V, V \cup C} OBVIOUS
  <2> QED BY <1>1, <1>4, <2>1, <2>2, KExecute
<1> QED BY <1>2, <1>3, <1>4

(* Nothing of the last reply is left: the turn may go on or end. *)
Settled(s) ==
  /\ Open(s) = {} /\ s.turn.sample = NoId /\ ~s.turn.suspended
  /\ s.turn.cause # "none" /\ s.turn.submit # "waiting"

(* Only a turn that waits for it has its submit hook outstanding. *)
LEMMA NoSubmit ==
  ASSUME NEW s, NEW U, NEW F, NEW R, NEW M, NEW V, K(s, U, F, R, M, V),
         s.turn.submit # "waiting"
  PROVE  ~SubmitIssued(s)
BY DEF K, Submitting, SubmitIssued

(* The step at the end of a reply keeps the invariant. *)
LEMMA KStop ==
  ASSUME NEW s, NEW U, NEW F, NEW R, NEW M, NEW V, K(s, U, F, R, M, V), Settled(s),
         NEW r, r = StopStep(s)
  PROVE  K(r, U, F, R, M, V)
<1>1. \/ r = s
      \/ r = Issue(s, Hook("Stop", {}))
      \/ r = EndTurn(s, "done")
  BY DEF StopStep
<1>2. CASE r = Issue(s, Hook("Stop", {}))
  <2> DEFINE e == Hook("Stop", {})
             point == "Stop"
  <2>0. r = Issue(s, e) /\ e = Hook(point, {}) /\ point \in {"SessionStart", "UserSubmit", "PreSample", "Stop"}
        /\ point # "UserSubmit" BY <1>2
  <2> HIDE DEF e, point
  <2>1. e \in EffectType /\ e.calls = {} /\ Inert(e) /\ ~UserSubmit(e)
    BY <2>0, TurnHookIs
  <2>2. e.calls \subseteq U BY <2>1
  <2> QED BY <2>0, <2>1, <2>2, KIssueInert DEF Settled
<1>3. CASE r = EndTurn(s, "done")
  <2>1. "done" \in Outcomes BY DEF Outcomes
  <2> QED BY <1>3, <2>1, KEndTurn DEF Settled
<1> QED BY <1>1, <1>2, <1>3

(* The prompt's or another hook of the turn is asked. *)
LEMMA KTurnHook ==
  ASSUME NEW s, NEW U, NEW F, NEW R, NEW M, NEW V, K(s, U, F, R, M, V), Settled(s),
         NEW point \in {"SessionStart", "UserSubmit", "PreSample", "Stop"},
         NEW r, r = Issue(s, Hook(point, {}))
  PROVE  K(r, U, F, R, M, V)
<1> DEFINE e == Hook(point, {})
<1>0. r = Issue(s, e) /\ e = Hook(point, {}) OBVIOUS
<1> HIDE DEF e
<1>1. e \in EffectType /\ e.calls = {} /\ Inert(e) BY <1>0, TurnHookIs
<1>2. e.calls \subseteq U BY <1>1
<1>3. ~SubmitIssued(s) BY NoSubmit DEF Settled
<1> QED BY <1>0, <1>1, <1>2, <1>3, KIssueInert DEF Settled

(* The steps that lead to a sample keep the invariant. *)
LEMMA KPrepare ==
  ASSUME NEW s, NEW U, NEW F, NEW R, NEW M, NEW V, K(s, U, F, R, M, V), Settled(s),
         NEW r, r = PrepareAndSample(s)
  PROVE  K(r, U, F, R, M, V)
<1> DEFINE d == [s EXCEPT !.mailbox = {}]
           e == Checkpoint("safe_point", {})
           p == IF s.turn.executed_step /\ ~s.turn.sp_ckpt THEN Issue(d, e) ELSE d
<1>1. \/ r = Issue(s, Hook("SessionStart", {}))
      \/ r = Issue(s, Hook("UserSubmit", {}))
      \/ r = EndTurn(p, "budget")
      \/ r = Issue(p, Hook("PreSample", {}))
      \/ r = Issue(p, Sample)
  BY DEF PrepareAndSample
<1>2. s \in StateType /\ s.n \in Nat BY StateShape DEF K
<1>3. d \in StateType /\ d.turn = s.turn /\ Books(s, d) BY <1>2 DEF StateType, Books
<1>p. p = d \/ p = Issue(d, e) OBVIOUS
<1>e. e = Checkpoint("safe_point", {}) OBVIOUS
<1> HIDE DEF d, e, p
<1>4. K(d, U, F, R, M, V)
  <2>1. d.n >= s.n /\ d.continuations <= MaxContinuations BY <1>2, <1>3 DEF Books, K
  <2> QED BY <1>3, <2>1, KQuiet DEF Books
<1>5. Settled(d) BY <1>3 DEF Settled, Open
<1>6. e \in EffectType /\ e.calls = {} /\ e.kind = "checkpoint" /\ Inert(e) /\ ~UserSubmit(e)
  <2>1. {} \in SUBSET Calls /\ "safe_point" \in {"batch", "safe_point"} OBVIOUS
  <2> QED BY <1>e, <2>1, CheckpointIs
<1>7. K(p, U, F, R, M, V) /\ Settled(p)
  <2>1. CASE p = d BY <1>4, <1>5, <2>1
  <2>2. CASE p = Issue(d, e)
    <3>1. K(p, U, F, R, M, V)
      <4>1. e.calls \subseteq U BY <1>6
      <4> QED BY <1>4, <1>6, <2>2, <4>1, KIssueInert
    <3>2. /\ SameTurn(d, p) /\ p.turn.slots = d.turn.slots
          /\ p.turn.submit = IF e.kind = "hook" /\ e.point = "UserSubmit" THEN "waiting" ELSE d.turn.submit
      BY <1>3, <1>6, <2>2, IssueInert
    <3>3. p.turn.submit = d.turn.submit BY <1>6, <3>2
    <3> QED BY <1>5, <3>1, <3>2, <3>3 DEF Settled, Open, SameTurn
  <2> QED BY <1>p, <2>1, <2>2
<1>8. CASE r = Issue(s, Hook("SessionStart", {}))
  <2>1. "SessionStart" \in {"SessionStart", "UserSubmit", "PreSample", "Stop"} OBVIOUS
  <2> QED BY <1>8, <2>1, KTurnHook
<1>9. CASE r = Issue(s, Hook("UserSubmit", {}))
  <2>1. "UserSubmit" \in {"SessionStart", "UserSubmit", "PreSample", "Stop"} OBVIOUS
  <2> QED BY <1>9, <2>1, KTurnHook
<1>10. CASE r = EndTurn(p, "budget")
  <2>1. "budget" \in Outcomes BY DEF Outcomes
  <2> QED BY <1>7, <1>10, <2>1, KEndTurn DEF Settled
<1>11. CASE r = Issue(p, Hook("PreSample", {}))
  <2>1. "PreSample" \in {"SessionStart", "UserSubmit", "PreSample", "Stop"} OBVIOUS
  <2> QED BY <1>7, <1>11, <2>1, KTurnHook
<1>12. CASE r = Issue(p, Sample)
  <2>1. ~SubmitIssued(p) BY <1>7, NoSubmit DEF Settled
  <2> QED BY <1>7, <1>12, <2>1, KIssueSample DEF Settled
<1> QED BY <1>1, <1>8, <1>9, <1>10, <1>11, <1>12

(* Between turns. *)
LEMMA IdleIs ==
  ASSUME NEW s, NEW U, NEW F, NEW R, NEW M, NEW V, K(s, U, F, R, M, V), s.turn.cause = "none"
  PROVE  /\ Open(s) = {} /\ s.turn.sample = NoId /\ ~SubmitIssued(s) /\ ~s.turn.suspended
<1>1. Open(s) = {} /\ s.turn.sample = NoId /\ ~s.turn.suspended BY DEF K, NoTurn, Open
<1>2. \A id \in DOMAIN s.issued : s.issued[id].kind \in {"checkpoint", "restore"} BY DEF K, NoTurn
<1>3. ~SubmitIssued(s) BY <1>2 DEF SubmitIssued, UserSubmit
<1> QED BY <1>1, <1>3

(* The step between turns keeps the invariant. *)
LEMMA KIdle ==
  ASSUME NEW s, NEW U, NEW F, NEW R, NEW M, NEW V, K(s, U, F, R, M, V), s.turn.cause = "none",
         NEW r, r = IdleStep(s)
  PROVE  K(r, U, F, R, M, V)
<1> DEFINE can == s.continuations < MaxContinuations
           I == {i \in 1..Len(s.queue) : s.queue[i] = "user" \/ can}
           next == IF I # {} THEN Min(I) ELSE 0
           q == Without(s.queue, "wake")
           cause == IF s.queue[next] = "user" THEN "queued" ELSE "wake"
<1>1. s \in StateType /\ s.n \in Nat /\ s.queue \in Seq({"user", "wake"}) BY StateIs DEF K
<1>2. \/ next # 0 /\ r = TurnStarted(s, cause)
      \/ r = [s EXCEPT !.queue = q]
  BY DEF IdleStep, SelectInSeq
<1>3. next # 0 => next \in I
  <2>1. I \subseteq Nat OBVIOUS
  <2>2. next # 0 => I # {} /\ next = Min(I) OBVIOUS
  <2> HIDE DEF I, next
  <2> QED BY <2>1, <2>2, MinIn
<1>4. cause \in Causes BY DEF Causes
<1>5. next # 0 /\ cause = "wake" => s.continuations < MaxContinuations BY <1>3
<1> HIDE DEF next, cause
<1>6. Open(s) = {} /\ s.turn.sample = NoId /\ ~SubmitIssued(s) BY IdleIs
<1>7. CASE next # 0 /\ r = TurnStarted(s, cause) BY <1>4, <1>5, <1>6, <1>7, KStart
<1>8. CASE r = [s EXCEPT !.queue = q]
  <2>1. q \in Seq({"user", "wake"}) BY <1>1, WithoutIs
  <2> HIDE DEF q
  <2>2. r \in StateType /\ r.turn = s.turn /\ Books(s, r) BY <1>1, <1>8, <2>1 DEF StateType, Books
  <2>3. r.n >= s.n /\ r.continuations <= MaxContinuations BY <1>1, <2>2 DEF Books, K
  <2> QED BY <2>2, <2>3, KQuiet DEF Books
<1> QED BY <1>2, <1>7, <1>8

(* One step of the kernel preserves the invariant. *)
LEMMA KStep ==
  ASSUME NEW s, NEW U, NEW F, NEW R, NEW M, NEW V, K(s, U, F, R, M, V),
         NEW r, r = Step(s)
  PROVE  K(r, U, F, R, M, V)
<1> DEFINE togate == {c \in Open(s) : Slot(s, c).gate \in {"unchecked", "need_hook", "need_human", "closed"}}
           ready == {c \in Open(s) : Slot(s, c).gate = "permitted" /\ Slot(s, c).exec = "idle"}
           quiet == /\ togate = {} /\ s.turn.sample = NoId /\ ~s.turn.suspended /\ s.turn.cause # "none"
                    /\ s.turn.submit # "waiting"
           still == quiet /\ ~GateIn(s, {"deferred"}) /\ ~AwaitsVerdict(s) /\ ready = {} /\ ~Running(s)
<1>1. \/ r = s
      \/ s.turn.cause = "none" /\ r = IdleStep(s)
      \/ r = WindDown(s)
      \/ togate # {} /\ r = GateStep(s, Min(togate))
      \/ quiet /\ r = Suspend(s)
      \/ quiet /\ r = RunBatch(s, NextBatch(s, ready))
      \/ still /\ (r = StopStep(s) \/ r = PrepareAndSample(s))
  BY DEF Step, HasTurn
<1>2. s \in StateType BY DEF K
<1>3. CASE s.turn.cause = "none" /\ r = IdleStep(s) BY <1>3, KIdle
<1>4. CASE r = WindDown(s) BY <1>4, KWindDown
<1>5. CASE togate # {} /\ r = GateStep(s, Min(togate))
  <2>1. togate \subseteq Nat BY <1>2, StateShape, KernelAssumption DEF Open
  <2>2. Min(togate) \in togate BY <1>5, <2>1, MinIn
  <2>3. Min(togate) \in Open(s)
        /\ s.turn.slots[Min(togate)].gate \in {"unchecked", "need_hook", "need_human", "closed"}
    BY <2>2 DEF Slot
  <2> DEFINE c == Min(togate)
  <2>4. r = GateStep(s, c) BY <1>5
  <2> HIDE DEF c
  <2> QED BY <2>3, <2>4, KGateStep DEF c
<1>6. CASE quiet /\ r = Suspend(s)
  <2>1. ~SubmitIssued(s) BY <1>6, NoSubmit
  <2> QED BY <1>6, <2>1, KSuspend
<1>7. CASE quiet /\ r = RunBatch(s, NextBatch(s, ready))
  <2> DEFINE C == NextBatch(s, ready)
  <2>1. C \in SUBSET Open(s) BY DEF NextBatch
  <2>2. \A c \in C : s.turn.slots[c].gate = "permitted" /\ s.turn.slots[c].exec = "idle"
    BY DEF NextBatch, Slot
  <2>3. r = RunBatch(s, C) BY <1>7
  <2> HIDE DEF C
  <2> QED BY <1>7, <2>1, <2>2, <2>3, KRunBatch
<1>8. CASE still /\ (r = StopStep(s) \/ r = PrepareAndSample(s))
  <2>1. Open(s) = {}
    <3>1. SUFFICES ASSUME NEW c \in Open(s) PROVE FALSE OBVIOUS
    <3>2. /\ c \in DOMAIN s.turn.slots /\ ~s.turn.slots[c].result
          /\ s.turn.slots[c].gate \in Gatings /\ s.turn.slots[c].exec \in {"idle", "running", "done"}
          /\ SlotOK(s.turn.slots[c])
      BY <1>2, StateIs, InSlotMap, SlotIs DEF K, SlotsOK, Open
    <3>3. s.turn.slots[c].gate = "permitted"
      BY <1>8, <3>2 DEF Gatings, GateIn, AwaitsVerdict, Slot
    <3>4. s.turn.slots[c].exec # "idle" BY <1>8, <3>3 DEF Slot
    <3>5. ~Busy(s.turn.slots[c]) BY <1>8, <3>2 DEF Running, Slot
    <3> QED BY <3>2, <3>4, <3>5 DEF Busy, SlotOK
  <2>2. Settled(s) BY <1>8, <2>1 DEF Settled
  <2> HIDE DEF still
  <2> QED BY <1>8, <2>2, KStop, KPrepare
<1> HIDE DEF quiet, still, togate, ready
<1> QED BY <1>1, <1>3, <1>4, <1>5, <1>6, <1>7, <1>8

(* Induction over the numbers, for a set of them. *)
LEMMA Upwards ==
  ASSUME NEW S, 0 \in S, \A n \in Nat : n \in S => n + 1 \in S
  PROVE  Nat \subseteq S
<1> DEFINE R == OpToRel(<, Nat)
           T == Nat \ S
<1>1. IsWellFoundedOn(R, Nat) BY NatLessThanWellFounded
<1>2. SUFFICES ASSUME T # {} PROVE FALSE OBVIOUS
<1>3. T \subseteq Nat OBVIOUS
<1> HIDE DEF R, T
<1>4. PICK x \in T : \A y \in T : ~(<<y, x>> \in R) BY <1>1, <1>2, <1>3, WFMin
<1>5. x \in Nat /\ x # 0 BY DEF T
<1>6. x - 1 \in Nat /\ x - 1 \in S => x \in S BY <1>5
<1>7. x - 1 \in T BY <1>4, <1>5, <1>6 DEF T
<1>8. <<x - 1, x>> \in R BY <1>5 DEF R, OpToRel
<1> QED BY <1>4, <1>7, <1>8

(* The recursive function of Advance, step by step. *)
More(last) ==
  LET next == Step(last.at)
  IN IF last.moves THEN [at |-> next, moves |-> next # last.at] ELSE last

Begun(s) == [at |-> s, moves |-> TRUE]

Runs(s, n, f) == f = [i \in 0..n |-> IF i = 0 THEN Begun(s) ELSE More(f[i - 1])]

(* Advance is the last of StepLimit steps. *)
LEMMA AdvanceIs ==
  ASSUME NEW s
  PROVE  Advance(s) = (CHOOSE f : Runs(s, StepLimit, f))[StepLimit].at
BY DEF Advance, Runs, More, Begun

(* There is a run of that many steps. *)
LEMMA RunsExists ==
  ASSUME NEW s, NEW n \in Nat
  PROVE  \E f : Runs(s, n, f)
<1> DEFINE S == {m \in Nat : \E f : Runs(s, m, f)}
<1>1. 0 \in S
  <2> DEFINE f == [i \in 0..0 |-> Begun(s)]
  <2>1. Runs(s, 0, f) BY DEF Runs
  <2> QED BY <2>1
<1>2. ASSUME NEW m \in Nat, m \in S PROVE m + 1 \in S
  <2>1. PICK f : Runs(s, m, f) BY <1>2
  <2> DEFINE g == [i \in 0..(m + 1) |-> IF i = m + 1 THEN More(f[m]) ELSE f[i]]
  <2>2. \A i \in 0..m : f[i] = IF i = 0 THEN Begun(s) ELSE More(f[i - 1]) BY <2>1 DEF Runs
  <2>3. g = [i \in 0..(m + 1) |-> IF i = 0 THEN Begun(s) ELSE More(g[i - 1])]
    <3>1. ASSUME NEW i \in 0..(m + 1) PROVE g[i] = IF i = 0 THEN Begun(s) ELSE More(g[i - 1])
      <4>1. CASE i = m + 1
        <5>1. i - 1 = m /\ i - 1 \in 0..(m + 1) /\ i # 0 BY <4>1
        <5>2. g[i - 1] = f[m] BY <5>1
        <5> QED BY <4>1, <5>1, <5>2
      <4>2. CASE i # m + 1 /\ i # 0
        <5>1. i - 1 \in 0..(m + 1) /\ i - 1 # m + 1 /\ i \in 0..m BY <4>2
        <5>2. g[i] = f[i] /\ g[i - 1] = f[i - 1] BY <4>2, <5>1
        <5> QED BY <2>2, <4>2, <5>1, <5>2
      <4>3. CASE i = 0 BY <2>2, <4>3
      <4> QED BY <4>1, <4>2, <4>3
    <3> HIDE DEF g
    <3>2. g = [i \in 0..(m + 1) |-> g[i]] BY DEF g
    <3> QED BY <3>1, <3>2
  <2>4. Runs(s, m + 1, g) BY <2>3 DEF Runs
  <2> QED BY <2>4
<1> HIDE DEF S
<1>3. Nat \subseteq S BY <1>1, <1>2, Upwards
<1> QED BY <1>3 DEF S

(* So do all the steps that follow an input. *)
LEMMA KAdvance ==
  ASSUME NEW s, NEW U, NEW F, NEW R, NEW M, NEW V, K(s, U, F, R, M, V),
         NEW r, r = Advance(s)
  PROVE  K(r, U, F, R, M, V)
<1> DEFINE f == CHOOSE g : Runs(s, StepLimit, g)
           S == {n \in Nat : n <= StepLimit => K(f[n].at, U, F, R, M, V)}
<1>0. StepLimit \in Nat BY KernelAssumption
<1>1. Runs(s, StepLimit, f) BY <1>0, RunsExists
<1>2. r = f[StepLimit].at BY AdvanceIs
<1> HIDE DEF f
<1>3. \A i \in 0..StepLimit : f[i] = IF i = 0 THEN Begun(s) ELSE More(f[i - 1]) BY <1>1 DEF Runs
<1>4. 0 \in S
  <2>1. f[0].at = s BY <1>0, <1>3 DEF Begun
  <2> QED BY <2>1
<1>5. ASSUME NEW n \in Nat, n \in S PROVE n + 1 \in S
  <2>1. SUFFICES ASSUME n + 1 <= StepLimit PROVE K(f[n + 1].at, U, F, R, M, V) OBVIOUS
  <2>2. K(f[n].at, U, F, R, M, V) BY <1>0, <1>5, <2>1
  <2>3. f[n + 1] = More(f[n])
    <3>1. n + 1 \in 0..StepLimit /\ n + 1 # 0 /\ (n + 1) - 1 = n BY <1>0, <2>1
    <3> QED BY <1>3, <3>1
  <2>4. f[n + 1] = f[n] \/ f[n + 1].at = Step(f[n].at) BY <2>3 DEF More
  <2> QED BY <2>2, <2>4, KStep
<1> HIDE DEF S
<1>6. StepLimit \in S BY <1>0, <1>4, <1>5, Upwards
<1> QED BY <1>0, <1>2, <1>6 DEF S

(* Finitely many calls have a greatest, which bounds the folds over them. *)
LEMMA CallsBounded == \E b \in Nat : \A c \in Calls : c <= b
<1>0. Calls \subseteq Nat /\ IsFiniteSet(Calls) BY KernelAssumption
<1>1. PICK n \in Nat : ExistsBijection(1..n, Calls) BY <1>0, FS_NatBijection
<1>2. PICK f \in [1..n -> Calls] : \A c \in Calls : \E i \in 1..n : f[i] = c
  BY <1>1 DEF ExistsBijection, Bijection, Surjection
<1> DEFINE S == {m \in Nat : \E b \in Nat : \A i \in 1..n : i <= m => f[i] <= b}
<1>3. 0 \in S
  <2>1. \A i \in 1..n : i <= 0 => f[i] <= 0 OBVIOUS
  <2> QED BY <2>1
<1>4. ASSUME NEW m \in Nat, m \in S PROVE m + 1 \in S
  <2>1. PICK b \in Nat : \A i \in 1..n : i <= m => f[i] <= b BY <1>4
  <2>2. CASE m + 1 \in 1..n
    <3>1. f[m + 1] \in Nat BY <1>0, <2>2
    <3>2. b + f[m + 1] \in Nat BY <3>1
    <3>3. ASSUME NEW i \in 1..n, i <= m + 1 PROVE f[i] <= b + f[m + 1]
      <4>1. f[i] \in Nat BY <1>0
      <4>2. CASE i = m + 1 BY <3>1, <4>2
      <4>3. CASE i # m + 1
        <5>1. f[i] <= b BY <2>1, <3>3, <4>3
        <5> QED BY <3>1, <4>1, <5>1
      <4> QED BY <4>2, <4>3
    <3> DEFINE bound == b + f[m + 1]
    <3>4. bound \in Nat /\ \A i \in 1..n : i <= m + 1 => f[i] <= bound BY <3>2, <3>3
    <3> HIDE DEF bound
    <3>5. \E x \in Nat : \A i \in 1..n : i <= m + 1 => f[i] <= x BY <3>4
    <3> QED BY <3>5
  <2>3. CASE m + 1 \notin 1..n
    <3>1. \A i \in 1..n : i <= m + 1 => f[i] <= b BY <2>1, <2>3
    <3> QED BY <3>1
  <2> QED BY <2>2, <2>3
<1> HIDE DEF S
<1>5. n \in S BY <1>3, <1>4, Upwards
<1>6. PICK b \in Nat : \A i \in 1..n : f[i] <= b BY <1>5 DEF S
<1> QED BY <1>2, <1>6

(* The greatest of some calls is a bound of them. *)
LEMMA MaxIn ==
  ASSUME NEW S, S \subseteq Calls \cup {0}, 0 \in S
  PROVE  Max(S) \in Nat /\ \A c \in S : c <= Max(S)
<1>0. Calls \subseteq Nat BY KernelAssumption
<1> DEFINE B == {b \in Nat : \A c \in S : c <= b}
           m == Min(B)
<1>1. B # {}
  <2>1. PICK b \in Nat : \A c \in Calls : c <= b BY CallsBounded
  <2>2. b \in B BY <2>1
  <2> QED BY <2>2
<1>2. m \in B
  <2>1. B \subseteq Nat OBVIOUS
  <2> HIDE DEF B
  <2> QED BY <1>1, <2>1, MinIn
<1>3. \A b \in B : m <= b
  <2>1. B \subseteq Nat OBVIOUS
  <2> HIDE DEF B
  <2>2. \E x \in B : \A y \in B : x <= y
    <3> DEFINE R == OpToRel(<, Nat)
    <3>1. IsWellFoundedOn(R, Nat) BY NatLessThanWellFounded
    <3>2. ASSUME NEW x \in Nat, NEW y \in Nat, y < x PROVE <<y, x>> \in R
      BY <3>2 DEF R, OpToRel
    <3> HIDE DEF R
    <3>3. PICK x \in B : \A y \in B : ~(<<y, x>> \in R) BY <1>1, <2>1, <3>1, WFMin
    <3>4. ASSUME NEW y \in B PROVE x <= y
      <4>1. x \in Nat /\ y \in Nat BY <2>1
      <4>2. ~(y < x) BY <3>2, <3>3, <4>1
      <4> QED BY <4>1, <4>2
    <3> QED BY <3>4
  <2> QED BY <2>2 DEF Min
<1>4. m \in S
  <2>1. SUFFICES ASSUME m \notin S PROVE FALSE OBVIOUS
  <2>2. m \in Nat /\ m # 0 BY <1>2, <2>1
  <2>3. m - 1 \in B
    <3>1. ASSUME NEW c \in S PROVE c <= m - 1
      <4>1. c \in Nat /\ c <= m /\ c # m BY <1>0, <1>2, <2>1
      <4> HIDE DEF m
      <4> QED BY <2>2, <4>1
    <3> HIDE DEF m
    <3> QED BY <2>2, <3>1
  <2>4. m <= m - 1 BY <1>3, <2>3
  <2> HIDE DEF m
  <2> QED BY <2>2, <2>4
<1>5. \A c \in S : c <= m BY <1>2
<1>6. m \in Nat BY <1>2
<1> HIDE DEF m, B
<1>7. \E x \in S : \A y \in S : x >= y
  <2>1. \A y \in S : m >= y BY <1>0, <1>5, <1>6
  <2> QED BY <1>4, <2>1
<1>8. Max(S) \in S /\ \A c \in S : Max(S) >= c BY <1>7 DEF Max
<1>9. S \subseteq Nat BY <1>0
<1>10. Max(S) \in Nat BY <1>8, <1>9
<1>11. ASSUME NEW c \in S PROVE c <= Max(S)
  <2>1. c \in Nat /\ Max(S) >= c BY <1>8, <1>9
  <2> QED BY <1>10, <2>1
<1> QED BY <1>10, <1>11

(* The recursive function of Executed, call by call. *)
Delivery(s, open, n, f) ==
  f = [c \in 0..n |-> IF c = 0 THEN s
                      ELSE IF c \in open THEN Issue(f[c - 1], Hook("PostTool", {c})) ELSE f[c - 1]]

(* Its choice, for the batch e of the state s. *)
DeliveredAll(s, open) ==
  (CHOOSE f : Delivery(s, open, Max({0} \cup open), f))[Max({0} \cup open)]

(* Executed sends the results through the hook or records them. *)
LEMMA ExecutedIs ==
  ASSUME NEW s, NEW e
  PROVE  \/ Executed(s, e) = DeliveredAll(s, Unresulted(s, e.calls))
         \/ Executed(s, e) = ToolsResulted(s, Unresulted(s, e.calls))
<1>1. CASE "PostTool" \in Hooked /\ ~s.turn.soft
  BY <1>1 DEF Executed, DeliveredAll, Delivery
<1>2. CASE ~("PostTool" \in Hooked /\ ~s.turn.soft)
  BY <1>2 DEF Executed
<1> QED BY <1>1, <1>2

(* The recursive function exists. *)
LEMMA DeliveryExists ==
  ASSUME NEW s, NEW open, NEW n \in Nat
  PROVE  \E f : Delivery(s, open, n, f)
<1> DEFINE Next1(g, c) == IF c \in open THEN Issue(g, Hook("PostTool", {c})) ELSE g
<1>0. \A m, f : Delivery(s, open, m, f) <=> f = [c \in 0..m |-> IF c = 0 THEN s ELSE Next1(f[c - 1], c)]
  BY DEF Delivery
<1> HIDE DEF Next1
<1> DEFINE S == {m \in Nat : \E f : Delivery(s, open, m, f)}
<1>1. 0 \in S
  <2> DEFINE f == [i \in 0..0 |-> s]
  <2>1. f = [i \in 0..0 |-> IF i = 0 THEN s ELSE Next1(f[i - 1], i)] OBVIOUS
  <2> HIDE DEF f
  <2>2. Delivery(s, open, 0, f) BY <1>0, <2>1
  <2> QED BY <2>2
<1>2. ASSUME NEW m \in Nat, m \in S PROVE m + 1 \in S
  <2>1. PICK f : Delivery(s, open, m, f) BY <1>2
  <2> DEFINE g == [i \in 0..(m + 1) |-> IF i = m + 1 THEN Next1(f[m], m + 1) ELSE f[i]]
  <2>2. \A i \in 0..m : f[i] = IF i = 0 THEN s ELSE Next1(f[i - 1], i)
    <3>1. f = [c \in 0..m |-> IF c = 0 THEN s ELSE Next1(f[c - 1], c)] BY <1>0, <2>1
    <3> QED BY <3>1
  <2>3. g = [i \in 0..(m + 1) |-> IF i = 0 THEN s ELSE Next1(g[i - 1], i)]
    <3>1. ASSUME NEW i \in 0..(m + 1) PROVE g[i] = IF i = 0 THEN s ELSE Next1(g[i - 1], i)
      <4>1. CASE i = m + 1
        <5>1. i - 1 = m /\ i - 1 \in 0..(m + 1) /\ i # 0 /\ i - 1 # m + 1 BY <4>1
        <5>2. g[i - 1] = f[m] BY <5>1
        <5>3. g[i] = Next1(f[m], m + 1) BY <4>1
        <5> HIDE DEF g
        <5> QED BY <4>1, <5>1, <5>2, <5>3
      <4>2. CASE i # m + 1 /\ i # 0
        <5>1. i - 1 \in 0..(m + 1) /\ i - 1 # m + 1 /\ i \in 0..m BY <4>2
        <5>2. g[i] = f[i] /\ g[i - 1] = f[i - 1] BY <4>2, <5>1
        <5> HIDE DEF g
        <5> QED BY <2>2, <4>2, <5>1, <5>2
      <4>3. CASE i = 0
        <5>1. g[i] = f[i] /\ i \in 0..m BY <4>3
        <5> HIDE DEF g
        <5> QED BY <2>2, <4>3, <5>1
      <4> QED BY <4>1, <4>2, <4>3
    <3> HIDE DEF g
    <3>2. g = [i \in 0..(m + 1) |-> g[i]] BY DEF g
    <3> QED BY <3>1, <3>2
  <2> HIDE DEF g
  <2>4. Delivery(s, open, m + 1, g) BY <1>0, <2>3
  <2> QED BY <2>4
<1> HIDE DEF S
<1>3. Nat \subseteq S BY <1>1, <1>2, Upwards
<1> QED BY <1>3 DEF S

(* Results of calls that have none yet are sent to the hook one by one. *)
LEMMA KDelivered ==
  ASSUME NEW s, NEW U, NEW F, NEW R, NEW M, NEW V, K(s, U, F, R, M, V),
         NEW open \in SUBSET DOMAIN s.turn.slots, \A c \in open : ~s.turn.slots[c].result,
         NEW r, r = DeliveredAll(s, open)
  PROVE  K(r, U, F, R, M, V)
<1> DEFINE last == Max({0} \cup open)
<1>0. last \in Nat /\ \A c \in open : c <= last
  <2>1. DOMAIN s.turn.slots \subseteq Calls BY StateShape DEF K
  <2>2. {0} \cup open \subseteq Calls \cup {0} /\ 0 \in {0} \cup open BY <2>1
  <2> QED BY <2>2, MaxIn
<1>1. r = (CHOOSE g : Delivery(s, open, last, g))[last] BY DEF DeliveredAll
<1> HIDE DEF last
<1> DEFINE f == CHOOSE g : Delivery(s, open, last, g)
<1>2. r = f[last] BY <1>1
<1>3. Delivery(s, open, last, f) BY <1>0, DeliveryExists
<1> HIDE DEF f
<1> DEFINE Good(x) == /\ K(x, U, F, R, M, V) /\ DOMAIN x.turn.slots = DOMAIN s.turn.slots
                      /\ \A d \in DOMAIN s.turn.slots : x.turn.slots[d].result = s.turn.slots[d].result
           S == {n \in Nat : n <= last => Good(f[n])}
<1>4. 0 \in S
  <2>1. f[0] = s BY <1>0, <1>3 DEF Delivery
  <2> QED BY <2>1
<1>5. ASSUME NEW n \in Nat, n \in S PROVE n + 1 \in S
  <2>1. SUFFICES ASSUME n + 1 <= last PROVE Good(f[n + 1]) OBVIOUS
  <2>2. Good(f[n]) BY <1>0, <1>5, <2>1
  <2> DEFINE c == n + 1
             x == f[n]
             y == f[c]
  <2>3. y = IF c \in open THEN Issue(x, Hook("PostTool", {c})) ELSE x
    <3>1. c \in 0..last /\ c # 0 /\ c - 1 = n BY <1>0, <2>1
    <3> QED BY <1>3, <3>1 DEF Delivery
  <2>4. K(x, U, F, R, M, V) /\ DOMAIN x.turn.slots = DOMAIN s.turn.slots
        /\ \A d \in DOMAIN s.turn.slots : x.turn.slots[d].result = s.turn.slots[d].result
    BY <2>2
  <2> HIDE DEF c, x, y
  <2>5. CASE c \in open
    <3> DEFINE e == Hook("PostTool", {c})
    <3>1. y = Issue(x, e) BY <2>3, <2>5
    <3>2. CallGate(e, c) BY DEF CallGate
    <3>3. e.point = "PostTool" BY DEF Hook, Effect
    <3>4. c \in DOMAIN x.turn.slots /\ ~x.turn.slots[c].result BY <2>4, <2>5
    <3> HIDE DEF e
    <3>5. K(y, U, F, R, M, V) /\ DOMAIN y.turn.slots = DOMAIN x.turn.slots
          /\ \A d \in DOMAIN x.turn.slots : y.turn.slots[d].result = x.turn.slots[d].result
      BY <2>4, <3>1, <3>2, <3>3, <3>4, KCallGate
    <3>6. Good(y) BY <2>4, <3>5
    <3> QED BY <3>6 DEF y, c
  <2>6. CASE c \notin open
    <3>1. y = x BY <2>3, <2>6
    <3>2. Good(y) BY <2>4, <3>1
    <3> QED BY <3>2 DEF y, c
  <2> QED BY <2>5, <2>6
<1> HIDE DEF S
<1>6. last \in S BY <1>0, <1>4, <1>5, Upwards
<1> QED BY <1>0, <1>2, <1>6 DEF S

(* A batch has run. *)
LEMMA KExecuted ==
  ASSUME NEW s, NEW U, NEW F, NEW R, NEW M, NEW V, K(s, U, F, R, M, V),
         NEW e, NEW r, r = Executed(s, e)
  PROVE  K(r, U, F, R, M, V)
<1> DEFINE open == Unresulted(s, e.calls)
<1>1. open \in SUBSET DOMAIN s.turn.slots /\ \A c \in open : ~s.turn.slots[c].result BY DEF Unresulted
<1>2. r = DeliveredAll(s, open) \/ r = ToolsResulted(s, open) BY ExecutedIs
<1> HIDE DEF open
<1>3. CASE r = DeliveredAll(s, open) BY <1>1, <1>3, KDelivered
<1>4. CASE r = ToolsResulted(s, open) BY <1>1, <1>4, KResults
<1> QED BY <1>2, <1>3, <1>4

(* What is known of the effect e that has completed, in the state d that no longer waits for it. *)
Landing(d, U, e) ==
  /\ e \in EffectType /\ e.calls \subseteq U
  /\ e.kind \in {"sample", "execute", "hook", "human"} => d.turn.cause # "none"
  /\ UserSubmit(e) => Open(d) = {} /\ d.turn.sample = NoId /\ ~d.turn.suspended /\ ~SubmitIssued(d)
  /\ PreTool(e) => Judgeable(d, e)
  /\ e.kind = "sample" => /\ d.turn.sample = NoId /\ ~SubmitIssued(d)
                          /\ \A c \in DOMAIN d.turn.slots : ~d.turn.slots[c].in_reply

(* Nothing new is outstanding or held. *)
Sheds(s, d) ==
  /\ DOMAIN d.issued \subseteq DOMAIN s.issued /\ d.held \subseteq s.held
  /\ \A j \in DOMAIN d.issued : d.issued[j] = s.issued[j]

(* An effect has settled. *)
LEMMA KSettle ==
  ASSUME NEW s, NEW U, NEW F, NEW R, NEW M, NEW V, K(s, U, F, R, M, V),
         NEW id \in DOMAIN s.issued, NEW d, d = Settle(s, id)
  PROVE  K(d, U, F, R, M, V) /\ Landing(d, U, s.issued[id])
         /\ d.turn.slots = s.turn.slots /\ d.out = s.out /\ Sheds(s, d)
<1>s. s \in StateType /\ id \in Nat BY StateShape DEF K
<1>t. /\ d \in StateType
      /\ d.n = s.n /\ d.issued = Restrict(s.issued, DOMAIN s.issued \ {id})
      /\ d.held = s.held \ {id} /\ d.out = s.out /\ d.paused = s.paused
      /\ d.pairs = s.pairs /\ d.continuations = s.continuations
      /\ d.turn.slots = s.turn.slots /\ d.turn.cause = s.turn.cause
      /\ d.turn.sample = (IF s.turn.sample = id THEN NoId ELSE s.turn.sample)
      /\ d.turn.suspended = s.turn.suspended /\ d.turn.soft = s.turn.soft
      /\ d.turn.submit = s.turn.submit
  BY <1>s, SettleIs
<1> DEFINE D == DOMAIN s.issued \ {id}
           e == s.issued[id]
<1>0. s \in StateType /\ id \in Nat /\ D \in SUBSET DOMAIN s.issued BY <1>s
<1>1. /\ d \in StateType
      /\ d.n = s.n /\ d.issued = Restrict(s.issued, D)
      /\ d.held = s.held \ {id} /\ d.out = s.out /\ d.paused = s.paused
      /\ d.pairs = s.pairs /\ d.continuations = s.continuations
      /\ d.turn.slots = s.turn.slots /\ d.turn.cause = s.turn.cause
      /\ d.turn.sample = (IF s.turn.sample = id THEN NoId ELSE s.turn.sample)
      /\ d.turn.suspended = s.turn.suspended /\ d.turn.soft = s.turn.soft
      /\ d.turn.submit = s.turn.submit
  BY <1>t
<1>2. id \notin D /\ \A j \in DOMAIN s.issued : j = id \/ j \in D OBVIOUS
<1> HIDE DEF D
<1>3. DOMAIN d.issued = D /\ \A j \in D : d.issued[j] = s.issued[j] BY <1>1, RestrictIs
<1>4. d.held \subseteq s.held \cap D BY <1>1, <1>2 DEF K, Ids
<1>5. \/ d.turn.sample = s.turn.sample
      \/ d.turn.sample = NoId /\ \A j \in D : s.issued[j].kind # "sample"
  BY <1>0, <1>1, <1>2 DEF K, SampleId
<1>6. K(d, U, F, R, M, V) BY <1>0, <1>1, <1>4, <1>5, KDrop
<1>7. e \in EffectType /\ e.calls \subseteq U
  BY <1>0, StateIs, InEffectMap DEF K, Known
<1>8. e.kind \in {"sample", "execute", "hook", "human"} => d.turn.cause # "none"
  BY <1>1 DEF K, NoTurn
<1>9. Open(d) = Open(s) BY <1>1 DEF Open
<1>10. ASSUME UserSubmit(e)
       PROVE  Open(d) = {} /\ d.turn.sample = NoId /\ ~d.turn.suspended /\ ~SubmitIssued(d)
  BY <1>1, <1>0, <1>2, <1>3, <1>9, <1>10 DEF K, Submitting, SubmitIssued
<1>11. ASSUME PreTool(e) PROVE Judgeable(d, e)
  <2>1. SUFFICES ASSUME NEW c \in Unresulted(d, e.calls)
                 PROVE  /\ Unclaimed(d, c)
                        /\ e.kind = "hook" => d.turn.slots[c].gate = "await_hook"
                        /\ e.kind = "human" =>
                             d.turn.slots[c].gate = "await_human" /\ d.turn.slots[c].asked = e.level
    BY DEF Judgeable
  <2>2. Claims(e, c) /\ c \in DOMAIN s.turn.slots /\ ~s.turn.slots[c].result
    BY <1>1, <1>11 DEF Unresulted, Claims
  <2>3. /\ e.kind = "hook" => s.turn.slots[c].gate = "await_hook"
        /\ e.kind = "human" => s.turn.slots[c].gate = "await_human" /\ s.turn.slots[c].asked = e.level
        /\ \A j \in DOMAIN s.issued : Claims(s.issued[j], c) => j = id
    BY <2>2 DEF K, Gates
  <2>4. Unclaimed(d, c) BY <1>0, <1>2, <1>3, <2>3 DEF Unclaimed
  <2> QED BY <1>1, <2>3, <2>4
<1>12. ASSUME e.kind = "sample"
       PROVE  /\ d.turn.sample = NoId /\ ~SubmitIssued(d)
              /\ \A c \in DOMAIN d.turn.slots : ~d.turn.slots[c].in_reply
  <2>1. id = s.turn.sample BY <1>12 DEF K, SampleId
  <2>2. id # NoId BY DEF K, Ids, NoId
  <2>3. \A c \in DOMAIN d.turn.slots : ~d.turn.slots[c].in_reply
    BY <1>1, <2>1, <2>2 DEF K, Sampling
  <2>4. ~SubmitIssued(d)
    BY <1>0, <1>3, <2>1, <2>2 DEF K, Submitting, SubmitIssued
  <2> QED BY <1>1, <2>1, <2>3, <2>4
<1> HIDE DEF e
<1>13. Landing(d, U, e) BY <1>7, <1>8, <1>10, <1>11, <1>12 DEF Landing
<1>14. Sheds(s, d) BY <1>0, <1>3, <1>4 DEF Sheds
<1> QED BY <1>1, <1>6, <1>13, <1>14 DEF e

(* Assignments named, so that lemmas can speak of them. *)
PutTurn(s, t, n) == [s EXCEPT !.turn = t, !.continuations = n]
PutQuestions(s, Q) == [s EXCEPT !.questions = Q]

(* The turn changes in what the invariant does not read. *)
LEMMA KTurn ==
  ASSUME NEW s, NEW U, NEW F, NEW R, NEW M, NEW V, K(s, U, F, R, M, V),
         NEW t \in TurnType, t.slots = s.turn.slots, t.cause = s.turn.cause,
         t.sample = s.turn.sample, t.suspended = s.turn.suspended,
         t.submit = s.turn.submit \/ ~SubmitIssued(s),
         NEW n \in Nat, n <= MaxContinuations,
         NEW r, r = PutTurn(s, t, n)
  PROVE  K(r, U, F, R, M, V) /\ r.issued = s.issued
<1>1. s \in StateType /\ s.n \in Nat BY StateIs DEF K
<1>2. r \in StateType BY <1>1 DEF StateType, PutTurn
<1>3. /\ r.n = s.n /\ r.issued = s.issued /\ r.held = s.held /\ r.out = s.out /\ r.paused = s.paused
      /\ r.pairs = s.pairs /\ r.continuations = n /\ r.turn = t
  BY <1>1 DEF StateType, PutTurn
<1>4. r.n >= s.n BY <1>1, <1>3
<1> QED BY <1>1, <1>2, <1>3, <1>4, KQuiet

(* Questions are put away. *)
LEMMA KAnswered ==
  ASSUME NEW s, NEW U, NEW F, NEW R, NEW M, NEW V, K(s, U, F, R, M, V),
         NEW Q \in SUBSET QuestionType, NEW r, r = PutQuestions(s, Q)
  PROVE  K(r, U, F, R, M, V) /\ r.issued = s.issued /\ r.turn = s.turn /\ r.continuations = s.continuations
<1>1. s \in StateType /\ s.n \in Nat BY StateIs DEF K
<1>2. r \in StateType BY <1>1 DEF StateType, PutQuestions
<1>3. /\ r.n = s.n /\ r.issued = s.issued /\ r.held = s.held /\ r.out = s.out /\ r.paused = s.paused
      /\ r.pairs = s.pairs /\ r.continuations = s.continuations /\ r.turn = s.turn
  BY <1>1 DEF StateType, PutQuestions
<1>4. r.n >= s.n BY <1>1, <1>3
<1> QED BY <1>1, <1>2, <1>3, <1>4, KQuiet DEF K

(* The verdicts that may answer the gate e. *)
VerdictFits(e, v) ==
  /\ v \in VerdictType /\ (v.tag = "rewrite" => v.call \in Calls)
  /\ e.kind = "hook" /\ e.point = "PreTool" => v.tag # "continue"
  /\ e.kind = "human" => v.tag \in {"allow", "deny", "defer", "rewrite"}

(* The kernel lets nobody approve what they may not. *)
LEMMA CheckHumanOK ==
  ASSUME NEW s, NEW e, PreTool(e), NEW u, VerdictFits(e, u), NEW v, v = CheckHuman(s, e, u)
  PROVE  VerdictOK(s, e, v)
<1> DEFINE ok == \/ u.by = "human"
                 \/ u.by = "env" /\ \A c \in e.calls : Attr[Slot(s, c).call].sandboxed
                 \/ u.by = "code" /\ ~Unattended
<1>1. v = IF e.kind = "human" /\ e.level = "invariant" /\ ~ok THEN [u EXCEPT !.tag = "deny"] ELSE u
  BY DEF CheckHuman
<1>2. u \in VerdictType BY DEF VerdictFits
<1>3. CASE e.kind = "human" /\ e.level = "invariant" /\ ~ok
  <2>1. v = [u EXCEPT !.tag = "deny"] BY <1>1, <1>3
  <2>2. v \in VerdictType /\ v.tag = "deny" BY <1>2, <2>1 DEF VerdictType
  <2> QED BY <1>3, <2>2 DEF VerdictOK
<1>4. CASE ~(e.kind = "human" /\ e.level = "invariant" /\ ~ok)
  <2>1. v = u BY <1>1, <1>4
  <2>2. ASSUME e.kind = "human", NEW c \in Unresulted(s, e.calls)
        PROVE  MayApprove(e.level, v.by, s.turn.slots[c])
    <3>1. c \in e.calls BY <2>2 DEF Unresulted
    <3> DEFINE sl == s.turn.slots[c]
    <3>2. CASE e.level # "invariant" BY <3>2 DEF MayApprove
    <3>3. CASE e.level = "invariant"
      <4>1. ok BY <1>4, <2>2, <3>3
      <4>2. u.by = "human" \/ (u.by = "env" /\ Attr[sl.call].sandboxed) \/ (u.by = "code" /\ ~Unattended)
        BY <3>1, <4>1 DEF Slot
      <4> HIDE DEF sl
      <4>3. MayApprove(e.level, u.by, sl) BY <4>2 DEF MayApprove
      <4> QED BY <2>1, <4>3 DEF sl
    <3> QED BY <3>2, <3>3
  <2>3. PreTool(e) => e.point = "PreTool" BY DEF PreTool
  <2> HIDE DEF ok
  <2>4. /\ v \in VerdictType /\ (v.tag = "rewrite" => v.call \in Calls)
        /\ e.kind = "hook" => v.tag # "continue"
        /\ e.kind = "human" => v.tag \in {"allow", "deny", "defer", "rewrite"}
    BY <2>1, <2>3 DEF VerdictFits
  <2>5. e.kind = "human" /\ v.tag = "allow" =>
          \A c \in Unresulted(s, e.calls) : MayApprove(e.level, v.by, s.turn.slots[c])
    BY <2>2
  <2> QED BY <2>4, <2>5 DEF VerdictOK
<1> QED BY <1>3, <1>4

(* The verdict on a gate of the turn. *)
LEMMA KTurnVerdict ==
  ASSUME NEW s, NEW U, NEW F, NEW R, NEW M, NEW V, K(s, U, F, R, M, V),
         NEW e, e.kind \in {"hook", "human"},
         e.point \in {"SessionStart", "UserSubmit", "PreSample", "Stop"},
         s.turn.cause # "none",
         UserSubmit(e) => Open(s) = {} /\ s.turn.sample = NoId /\ ~s.turn.suspended /\ ~SubmitIssued(s),
         NEW v, NEW r, r = TurnVerdict(s, e, v)
  PROVE  K(r, U, F, R, M, V)
<1>1. /\ s \in StateType /\ s.turn \in TurnType /\ s.n \in Nat /\ s.continuations \in Nat
      /\ s.questions \subseteq QuestionType /\ s.continuations <= MaxContinuations
  BY StateIs DEF K
<1>2. CASE e.point = "SessionStart"
  <2>1. r = [s EXCEPT !.session_gate = "passed"] BY <1>2 DEF TurnVerdict
  <2>2. "passed" \in Waits BY DEF Waits
  <2>3. r \in StateType BY <1>1, <2>1, <2>2, ZenonT(60) DEF StateType
  <2>4. /\ r.n = s.n /\ r.issued = s.issued /\ r.held = s.held /\ r.out = s.out /\ r.paused = s.paused
        /\ r.pairs = s.pairs /\ r.continuations = s.continuations /\ r.turn = s.turn
    BY <1>1, <2>1 DEF StateType
  <2>5. r.n >= s.n BY <1>1, <2>4
  <2> QED BY <1>1, <2>3, <2>4, <2>5, KQuiet
<1>3. CASE e.point = "UserSubmit" /\ v.tag = "deny"
  <2>1. r = EndTurn(s, "failed") /\ "failed" \in Outcomes BY <1>3 DEF TurnVerdict, Outcomes
  <2>2. Open(s) = {} BY <1>3 DEF UserSubmit
  <2> QED BY <2>1, <2>2, KEndTurn
<1>4. CASE e.point = "UserSubmit" /\ v.tag # "deny"
  <2> DEFINE t == [s.turn EXCEPT !.submit = "passed"]
             n == s.continuations
  <2>1. r = [s EXCEPT !.turn = t] BY <1>4 DEF TurnVerdict
  <2>2. r = PutTurn(s, t, n) BY <1>1, <2>1 DEF StateType, PutTurn
  <2>3. /\ t \in TurnType /\ t.slots = s.turn.slots /\ t.cause = s.turn.cause
        /\ t.sample = s.turn.sample /\ t.suspended = s.turn.suspended
    BY <1>1 DEF TurnType, Waits
  <2>4. ~SubmitIssued(s) BY <1>4 DEF UserSubmit
  <2>n. n \in Nat /\ n <= MaxContinuations BY <1>1
  <2> HIDE DEF t, n
  <2> QED BY <2>2, <2>3, <2>4, <2>n, KTurn
<1>5. CASE e.point = "PreSample"
  <2>1. CASE v.tag = "allow"
    <3> DEFINE t == [s.turn EXCEPT !.presample = "passed"]
               n == s.continuations
    <3>1. r = [s EXCEPT !.turn = t] BY <1>5, <2>1 DEF TurnVerdict
    <3>2. r = PutTurn(s, t, n) BY <1>1, <3>1 DEF StateType, PutTurn
    <3>3. /\ t \in TurnType /\ t.slots = s.turn.slots /\ t.cause = s.turn.cause
          /\ t.sample = s.turn.sample /\ t.suspended = s.turn.suspended /\ t.submit = s.turn.submit
      BY <1>1 DEF TurnType, Waits
    <3>n. n \in Nat /\ n <= MaxContinuations BY <1>1
    <3> HIDE DEF t, n
    <3> QED BY <3>2, <3>3, <3>n, KTurn
  <2>2. CASE v.tag = "ask" /\ e.kind = "hook"
    <3> DEFINE Q == s.questions \cup {Question(NoId, "policy")}
               a == [s EXCEPT !.questions = Q]
               h == Human("PreSample", {}, "policy")
    <3>1. r = Issue(a, h) BY <1>5, <2>2 DEF TurnVerdict
    <3>2. Q \in SUBSET QuestionType
      <4>1. Question(NoId, "policy") \in QuestionType BY DEF Question, QuestionType, Levels, NoId
      <4> QED BY <1>1, <4>1
    <3>3. h \in EffectType /\ h.calls = {} /\ Inert(h) /\ ~UserSubmit(h)
      BY DEF Human, Effect, EffectType, HookPoints, Levels, Inert, UserSubmit
    <3>a. a = PutQuestions(s, Q) BY DEF PutQuestions
    <3> HIDE DEF Q, a, h
    <3>4. K(a, U, F, R, M, V) /\ a.turn = s.turn BY <3>2, <3>a, KAnswered
    <3>5. h.calls \subseteq U /\ a.turn.cause # "none" BY <3>3, <3>4
    <3> QED BY <3>1, <3>3, <3>4, <3>5, KIssueInert
  <2>3. CASE v.tag # "allow" /\ ~(v.tag = "ask" /\ e.kind = "hook")
    <3>1. r = FailTurn(s) BY <1>5, <2>3 DEF TurnVerdict
    <3> QED BY <3>1, KFail
  <2> QED BY <2>1, <2>2, <2>3
<1>6. CASE e.point = "Stop" /\ v.tag \in {"continue", "deny"} /\ s.continuations < MaxContinuations
  <2> DEFINE t == [s.turn EXCEPT !.stop = "passed", !.reply = "none"]
             n == s.continuations + 1
  <2>1. r = PutTurn(s, t, n) BY <1>6 DEF TurnVerdict, PutTurn
  <2>2. /\ t \in TurnType /\ t.slots = s.turn.slots /\ t.cause = s.turn.cause
        /\ t.sample = s.turn.sample /\ t.suspended = s.turn.suspended /\ t.submit = s.turn.submit
    BY <1>1 DEF TurnType, Waits
  <2>3. MaxContinuations \in Nat BY KernelAssumption
  <2>4. n \in Nat /\ n <= MaxContinuations BY <1>1, <1>6, <2>3
  <2> HIDE DEF t, n
  <2> QED BY <2>1, <2>2, <2>4, KTurn
<1>7. CASE e.point = "Stop" /\ ~(v.tag \in {"continue", "deny"} /\ s.continuations < MaxContinuations)
  <2> DEFINE t == [s.turn EXCEPT !.stop = "passed"]
             n == s.continuations
  <2>1. r = [s EXCEPT !.turn = t] BY <1>7 DEF TurnVerdict
  <2>2. r = PutTurn(s, t, n) BY <1>1, <2>1 DEF StateType, PutTurn
  <2>3. /\ t \in TurnType /\ t.slots = s.turn.slots /\ t.cause = s.turn.cause
        /\ t.sample = s.turn.sample /\ t.suspended = s.turn.suspended /\ t.submit = s.turn.submit
    BY <1>1 DEF TurnType, Waits
  <2>n. n \in Nat /\ n <= MaxContinuations BY <1>1
  <2> HIDE DEF t, n
  <2> QED BY <2>2, <2>3, <2>n, KTurn
<1> QED BY <1>2, <1>3, <1>4, <1>5, <1>6, <1>7

(* The question is answered and leaves the list. *)
Answered(s, e) ==
  IF e.kind = "human"
    THEN [s EXCEPT !.questions = @ \ {q \in s.questions : q.call \in e.calls \/ (e.calls = {} /\ q.call = NoId)}]
    ELSE s

(* An answer that was given leaves the books and the turn alone. *)
LEMMA KAnsweredIs ==
  ASSUME NEW s, NEW U, NEW F, NEW R, NEW M, NEW V, K(s, U, F, R, M, V),
         NEW e, NEW a, a = Answered(s, e)
  PROVE  K(a, U, F, R, M, V) /\ a.issued = s.issued /\ a.turn = s.turn
<1>1. CASE e.kind = "human"
  <2> DEFINE Q == s.questions \ {q \in s.questions : q.call \in e.calls \/ (e.calls = {} /\ q.call = NoId)}
  <2>1. a = PutQuestions(s, Q) BY <1>1 DEF Answered, PutQuestions
  <2>2. s.questions \subseteq QuestionType BY StateIs DEF K
  <2>3. Q \in SUBSET QuestionType BY <2>2
  <2> HIDE DEF Q
  <2> QED BY <2>1, <2>3, KAnswered
<1>2. CASE e.kind # "human" BY <1>2 DEF Answered
<1> QED BY <1>1, <1>2

(* A gate has its verdict. *)
LEMMA KGated ==
  ASSUME NEW s, NEW U, NEW F, NEW R, NEW M, NEW V, K(s, U, F, R, M, V),
         NEW e, e.kind \in {"hook", "human"}, Landing(s, U, e),
         NEW u, VerdictFits(e, u), NEW r, r = Gated(s, e, u)
  PROVE  K(r, U, F, R, M, V)
<1> DEFINE v == CheckHuman(s, e, u)
           a == Answered(s, e)
<1>1. e.point \in HookPoints /\ e \in EffectType BY EffectIs DEF Landing
<1>2. r = CASE e.point = "PreTool"  -> Judged(a, e, v)
            [] e.point = "PostTool" -> ToolsResulted(a, Unresulted(a, e.calls))
            [] OTHER -> TurnVerdict(a, e, v)
  BY DEF Gated, Answered
<1>a. a = Answered(s, e) /\ v = CheckHuman(s, e, u) OBVIOUS
<1> HIDE DEF v, a
<1>3. K(a, U, F, R, M, V) /\ a.issued = s.issued /\ a.turn = s.turn BY <1>a, KAnsweredIs
<1>4. CASE e.point = "PreTool"
  <2>1. r = Judged(a, e, v) BY <1>2, <1>4
  <2>2. PreTool(e) BY <1>4 DEF PreTool
  <2>3. VerdictOK(s, e, v) BY <1>a, <2>2, CheckHumanOK
  <2>4. Judgeable(s, e) BY <2>2 DEF Landing
  <2>5. \A cs : Unresulted(a, cs) = Unresulted(s, cs) BY <1>3 DEF Unresulted
  <2>6. VerdictOK(a, e, v) BY <1>3, <2>3, <2>5 DEF VerdictOK
  <2>7. Judgeable(a, e) BY <1>3, <2>4, <2>5 DEF Judgeable, Unclaimed
  <2> QED BY <1>3, <2>1, <2>6, <2>7, KJudged
<1>5. CASE e.point = "PostTool"
  <2> DEFINE cs == Unresulted(a, e.calls)
  <2>1. r = ToolsResulted(a, cs) BY <1>2, <1>5
  <2>2. cs \in SUBSET DOMAIN a.turn.slots /\ \A c \in cs : ~a.turn.slots[c].result BY DEF Unresulted
  <2> HIDE DEF cs
  <2> QED BY <1>3, <2>1, <2>2, KResults
<1>6. CASE e.point \notin {"PreTool", "PostTool"}
  <2>1. r = TurnVerdict(a, e, v) BY <1>2, <1>6
  <2>2. e.point \in {"SessionStart", "UserSubmit", "PreSample", "Stop"} BY <1>1, <1>6 DEF HookPoints
  <2>3. a.turn.cause # "none" BY <1>3 DEF Landing
  <2>4. UserSubmit(e) => Open(a) = {} /\ a.turn.sample = NoId /\ ~a.turn.suspended /\ ~SubmitIssued(a)
    BY <1>3 DEF Landing, Open, SubmitIssued
  <2> QED BY <1>3, <2>1, <2>2, <2>3, <2>4, KTurnVerdict
<1> QED BY <1>4, <1>5, <1>6

(* An effect has failed. *)
LEMMA KFailed ==
  ASSUME NEW s, NEW U, NEW F, NEW R, NEW M, NEW V, K(s, U, F, R, M, V),
         NEW e, Landing(s, U, e), NEW r, r = OnFailed(s, e)
  PROVE  K(r, U, F, R, M, V)
<1>1. e.kind \in {"sample", "restore", "execute", "checkpoint", "hook", "human"}
  BY EffectIs DEF Landing
<1>2. CASE e.kind = "execute"
  <2> DEFINE cs == Unresulted(s, e.calls)
             a == ToolsResulted(s, cs)
  <2>1. r = FailTurn(a) BY <1>2 DEF OnFailed
  <2>2. cs \in SUBSET DOMAIN s.turn.slots /\ \A c \in cs : ~s.turn.slots[c].result BY DEF Unresulted
  <2>3. a = ToolsResulted(s, cs) OBVIOUS
  <2> HIDE DEF cs, a
  <2>4. K(a, U, F, R, M, V) BY <2>2, <2>3, KResults
  <2> QED BY <2>1, <2>4, KFail
<1>3. CASE e.kind = "sample"
  <2>1. r = FailTurn(s) BY <1>3 DEF OnFailed
  <2> QED BY <2>1, KFail
<1>4. CASE e.kind \in {"hook", "human"}
  <2> DEFINE u == [tag |-> IF e.point \in {"PreSample", "PreTool"} THEN "deny" ELSE "allow",
                   by |-> "kernel", call |-> NoId]
  <2>1. r = Gated(s, e, u) BY <1>4 DEF OnFailed
  <2>2. u.tag \in {"allow", "deny"} /\ u.by = "kernel" /\ u.call = NoId OBVIOUS
  <2>3. u \in VerdictType BY DEF VerdictType
  <2> HIDE DEF u
  <2>4. VerdictFits(e, u) BY <2>2, <2>3 DEF VerdictFits
  <2> QED BY <1>4, <2>1, <2>4, KGated
<1>5. CASE e.kind \in {"checkpoint", "restore"}
  <2>1. r = s BY <1>5 DEF OnFailed
  <2> QED BY <2>1
<1> QED BY <1>1, <1>2, <1>3, <1>4, <1>5

PutSpent(s, b) == [s EXCEPT !.spent = b]

(* The tokens of a reply are counted. *)
LEMMA KSpent ==
  ASSUME NEW s, NEW U, NEW F, NEW R, NEW M, NEW V, K(s, U, F, R, M, V),
         NEW b \in BOOLEAN, NEW r, r = PutSpent(s, b)
  PROVE  K(r, U, F, R, M, V) /\ r.issued = s.issued /\ r.turn = s.turn /\ r.out = s.out /\ r.held = s.held
<1>1. s \in StateType /\ s.n \in Nat BY StateIs DEF K
<1>2. r \in StateType BY <1>1 DEF StateType, PutSpent
<1>3. /\ r.n = s.n /\ r.issued = s.issued /\ r.held = s.held /\ r.out = s.out /\ r.paused = s.paused
      /\ r.pairs = s.pairs /\ r.continuations = s.continuations /\ r.turn = s.turn
  BY <1>1 DEF StateType, PutSpent
<1>4. r.n >= s.n /\ r.continuations <= MaxContinuations BY <1>1, <1>3 DEF K
<1> QED BY <1>2, <1>3, <1>4, KQuiet

(* What an effect may report, and what a reply may contain. *)
ResultOK(s, U, F, id, r) ==
  /\ r.tag \in {"failed", "sampled", "executed", "gated", "checkpointed", "restored"}
  /\ r.tag = "sampled" =>
       /\ s.issued[id].kind = "sample" /\ r.calls \subseteq U
       /\ \A c \in r.calls : c \in DOMAIN s.turn.slots \/ Fresh(s, F, c)
       /\ r.interrupted \in BOOLEAN /\ r.spent \in BOOLEAN
  /\ r.tag = "gated" =>
       s.issued[id].kind \in {"hook", "human"} /\ VerdictFits(s.issued[id], r.verdict)

(* Whatever the last request had started early, none is outstanding now. *)
LEMMA KUnsampled ==
  ASSUME NEW s, NEW U, NEW F, NEW R, NEW M, NEW V, K(s, U, F, R, M, V),
         s.turn.sample = NoId, NEW W \in SUBSET Calls
  PROVE  K(s, U, F, R, M, W)
BY DEF K, Early, Context

(* An outstanding effect has completed. *)
LEMMA KCompleted ==
  ASSUME NEW s, NEW U, NEW F, NEW R, NEW M, NEW V, K(s, U, F, R, M, V),
         NEW id \in DOMAIN s.issued, NEW x, ResultOK(s, U, F, id, x),
         NEW W \in SUBSET Calls, x.tag = "sampled" \/ W = V,
         NEW r, r = Completed(s, id, x)
  PROVE  K(r, U, F, R, M, W)
<1> DEFINE e == s.issued[id]
           d == Settle(s, id)
           b == d.spent \/ x.spent
           a == PutSpent(d, b)
<1>1. r = CASE x.tag = "failed" -> OnFailed(d, e)
            [] x.tag = "sampled" -> OnReply(a, x.calls, x.interrupted)
            [] x.tag = "executed" -> Executed(d, e)
            [] x.tag = "gated" -> Gated(d, e, x.verdict)
            [] x.tag \in {"checkpointed", "restored"} -> d
  BY DEF Completed, PutSpent
<1>2. /\ K(d, U, F, R, M, V) /\ Landing(d, U, e) /\ d.turn.slots = s.turn.slots /\ d.out = s.out
      /\ Sheds(s, d)
  BY KSettle
<1>b. b \in BOOLEAN /\ a = PutSpent(d, b) OBVIOUS
<1>e. e = s.issued[id] OBVIOUS
<1> HIDE DEF e, d, b, a
<1>3. CASE x.tag = "failed"
  <2>1. r = OnFailed(d, e) BY <1>1, <1>3
  <2>2. W = V BY <1>3
  <2> QED BY <1>2, <2>1, <2>2, KFailed
<1>4. CASE x.tag = "sampled"
  <2> DEFINE calls == x.calls
             interrupted == x.interrupted
  <2>1. r = OnReply(a, calls, interrupted) BY <1>1, <1>4
  <2>2. K(a, U, F, R, M, V) /\ a.issued = d.issued /\ a.turn = d.turn /\ a.out = d.out /\ a.held = d.held
    BY <1>2, <1>b, KSpent
  <2>3. e.kind = "sample" /\ calls \in SUBSET U /\ interrupted \in BOOLEAN
        /\ \A c \in calls : c \in DOMAIN s.turn.slots \/ Fresh(s, F, c)
    BY <1>4, <1>e DEF ResultOK
  <2> HIDE DEF calls, interrupted
  <2>4. /\ a.turn.sample = NoId /\ a.turn.cause # "none" /\ ~SubmitIssued(a)
        /\ \A c \in DOMAIN a.turn.slots : ~a.turn.slots[c].in_reply
    BY <1>2, <2>2, <2>3 DEF Landing, SubmitIssued
  <2>5. ASSUME NEW c \in calls PROVE c \in DOMAIN a.turn.slots \/ Fresh(a, F, c)
    <3>1. CASE c \in DOMAIN s.turn.slots BY <1>2, <2>2, <3>1
    <3>2. CASE Fresh(s, F, c)
      <4>1. DOMAIN a.issued \subseteq DOMAIN s.issued /\ \A j \in DOMAIN a.issued : a.issued[j] = s.issued[j]
        BY <1>2, <2>2 DEF Sheds
      <4>2. a.held \subseteq s.held /\ a.out = s.out BY <1>2, <2>2 DEF Sheds
      <4>3. Starts(a.issued, a.held, c) => Starts(s.issued, s.held, c) BY <4>1, <4>2 DEF Starts
      <4>4. Unclaimed(a, c) BY <3>2, <4>1 DEF Fresh, Unclaimed
      <4>5. Unstarted(a, F, c) BY <3>2, <4>2, <4>3 DEF Fresh, Unstarted
      <4> QED BY <4>4, <4>5 DEF Fresh
    <3> QED BY <2>3, <3>1, <3>2
  <2>6. K(a, U, F, R, M, W) BY <2>2, <2>4, KUnsampled
  <2>7. K(r, U, F, R, M, W) BY <2>1, <2>3, <2>4, <2>5, <2>6, KReply
  <2> QED BY <2>7
<1>5. CASE x.tag = "executed"
  <2>1. r = Executed(d, e) BY <1>1, <1>5
  <2>2. W = V BY <1>5
  <2> QED BY <1>2, <2>1, <2>2, KExecuted
<1>6. CASE x.tag = "gated"
  <2> DEFINE u == x.verdict
  <2>1. r = Gated(d, e, u) BY <1>1, <1>6
  <2>2. e.kind \in {"hook", "human"} /\ VerdictFits(e, u) BY <1>6, <1>e DEF ResultOK
  <2> HIDE DEF u
  <2>3. W = V BY <1>6
  <2> QED BY <1>2, <2>1, <2>2, <2>3, KGated
<1>7. CASE x.tag \in {"checkpointed", "restored"}
  <2>1. r = d BY <1>1, <1>7
  <2>2. W = V BY <1>7
  <2> QED BY <1>2, <2>1, <2>2
<1> QED BY <1>3, <1>4, <1>5, <1>6, <1>7 DEF ResultOK

(* What is dispatched changes, and pausing. *)
LEMMA KOut ==
  ASSUME NEW s, NEW U, NEW F, NEW R, NEW M, NEW V, K(s, U, F, R, M, V),
         NEW r \in StateType,
         r.n = s.n, r.issued = s.issued, r.turn = s.turn, r.pairs = s.pairs,
         r.continuations = s.continuations, r.held \subseteq s.held,
         r.paused => DOMAIN r.out = {}, ~r.paused => r.held = {},
         \A id \in DOMAIN r.out : id \in DOMAIN s.issued /\ r.out[id] = s.issued[id],
         \A c : Starts(r.out, DOMAIN r.out, c) =>
                  Starts(s.out, DOMAIN s.out, c) \/ Starts(s.issued, s.held, c)
  PROVE  K(r, U, F, R, M, V)
<1>1. s \in StateType BY DEF K
<1>3. SlotsOK(r) BY DEF K, SlotsOK
<1>4. Gates(r) BY DEF K, Gates
<1>5. NoTurn(r) /\ SampleId(r) /\ Sampling(r) BY DEF K, NoTurn, SampleId, Sampling
<1>8. Open(r) = Open(s) BY DEF Open
<1>9. Submitting(r) /\ Paired(r) BY <1>8 DEF K, Submitting, Paired
<1>11. Ids(r)
  <2>1. DOMAIN r.out \subseteq 1..(r.n - 1) BY DEF K, Ids
  <2>2. r.held \subseteq DOMAIN r.issued BY DEF K, Ids
  <2> QED BY <2>1, <2>2 DEF K, Ids
<1>12. Known(r, U) BY DEF K, Known
<1>13. \A c : Starts(r.issued, r.held, c) => Starts(s.issued, s.held, c) BY DEF Starts
<1>14. Once(r, F) BY <1>13 DEF K, Once, Unstarted
<1>15. Flight(r, R) /\ Early(r, M, V) BY DEF K, Flight, Early
<1> QED BY <1>3, <1>4, <1>5, <1>9, <1>11, <1>12, <1>14, <1>15 DEF K

(* Every decision starts with nothing to dispatch. *)
Emptied(s) == [s EXCEPT !.out = <<>>, !.finish = "none", !.outcome = "none"]

(* The kernel begins a decision with nothing to send. *)
LEMMA KEmptied ==
  ASSUME NEW s, NEW U, NEW F, NEW R, NEW M, NEW V, K(s, U, F, R, M, V),
         NEW r, r = Emptied(s)
  PROVE  /\ K(r, U, F, R, M, V) /\ DOMAIN r.out = {} /\ r.turn = s.turn /\ r.issued = s.issued
         /\ r.restoring = s.restoring /\ r.continuations = s.continuations /\ r.held = s.held
<1>1. s \in StateType BY DEF K
<1>2. r \in StateType BY <1>1, EmptyMaps DEF StateType, Emptied
<1>3. /\ r.n = s.n /\ r.issued = s.issued /\ r.turn = s.turn /\ r.pairs = s.pairs
      /\ r.continuations = s.continuations /\ r.held = s.held /\ r.paused = s.paused /\ r.out = <<>>
      /\ r.restoring = s.restoring
  BY <1>1 DEF StateType, Emptied
<1>4. DOMAIN r.out = {} BY <1>3, EmptyMaps
<1>5. \A c : ~Starts(r.out, DOMAIN r.out, c) BY <1>4 DEF Starts
<1>6. ~r.paused => r.held = {} BY <1>3 DEF K, Ids
<1>7. K(r, U, F, R, M, V) BY <1>2, <1>3, <1>4, <1>5, <1>6, KOut
<1> QED BY <1>3, <1>4, <1>7

Sent == {"submit", "queue", "steer", "notify", "wake"}

(* A signal that waits. *)
LEMMA KPending ==
  ASSUME NEW s, NEW U, NEW F, NEW R, NEW M, NEW V, K(s, U, F, R, M, V),
         NEW sig \in Sent, NEW r, r = Pending(s, sig)
  PROVE  K(r, U, F, R, M, V)
<1>1. s \in StateType /\ s.n \in Nat /\ s.queue \in Seq({"user", "wake"}) /\ s.mailbox \subseteq {"steer", "notify"}
  BY StateIs DEF K
<1>2. CASE sig \in {"submit", "queue"}
  <2>1. r = [s EXCEPT !.queue = Append(@, "user")] BY <1>2 DEF Pending
  <2>2. Append(s.queue, "user") \in Seq({"user", "wake"}) BY <1>1
  <2>3. r \in StateType BY <1>1, <2>1, <2>2 DEF StateType
  <2>4. /\ r.n = s.n /\ r.issued = s.issued /\ r.held = s.held /\ r.out = s.out /\ r.paused = s.paused
        /\ r.pairs = s.pairs /\ r.continuations = s.continuations /\ r.turn = s.turn
    BY <1>1, <2>1 DEF StateType
  <2>5. r.n >= s.n /\ r.continuations <= MaxContinuations BY <1>1, <2>4 DEF K
  <2> QED BY <2>3, <2>4, <2>5, KQuiet
<1>3. CASE sig = "wake"
  <2>1. r = [s EXCEPT !.queue = Append(@, "wake")] BY <1>3 DEF Pending
  <2>2. Append(s.queue, "wake") \in Seq({"user", "wake"}) BY <1>1
  <2>3. r \in StateType BY <1>1, <2>1, <2>2 DEF StateType
  <2>4. /\ r.n = s.n /\ r.issued = s.issued /\ r.held = s.held /\ r.out = s.out /\ r.paused = s.paused
        /\ r.pairs = s.pairs /\ r.continuations = s.continuations /\ r.turn = s.turn
    BY <1>1, <2>1 DEF StateType
  <2>5. r.n >= s.n /\ r.continuations <= MaxContinuations BY <1>1, <2>4 DEF K
  <2> QED BY <2>3, <2>4, <2>5, KQuiet
<1>4. CASE sig \in {"steer", "notify"}
  <2>1. r = [s EXCEPT !.mailbox = @ \cup {sig}] BY <1>4 DEF Pending
  <2>3. r \in StateType BY <1>1, <1>4, <2>1 DEF StateType
  <2>4. /\ r.n = s.n /\ r.issued = s.issued /\ r.held = s.held /\ r.out = s.out /\ r.paused = s.paused
        /\ r.pairs = s.pairs /\ r.continuations = s.continuations /\ r.turn = s.turn
    BY <1>1, <2>1 DEF StateType
  <2>5. r.n >= s.n /\ r.continuations <= MaxContinuations BY <1>1, <2>4 DEF K
  <2> QED BY <2>3, <2>4, <2>5, KQuiet
<1> QED BY <1>2, <1>3, <1>4 DEF Sent

(* A signal. *)
LEMMA KSignal ==
  ASSUME NEW s, NEW U, NEW F, NEW R, NEW M, NEW V, K(s, U, F, R, M, V),
         NEW sig \in Sent, ~Rejected(s, sig), NEW r, r = Signal(s, sig)
  PROVE  K(r, U, F, R, M, V)
<1>1. s.continuations \in Nat /\ MaxContinuations \in Nat BY StateShape, KernelAssumption DEF K
<1>2. CASE Idle(s) /\ sig \in {"submit", "queue", "steer", "wake"}
  <2> DEFINE cause == IF sig = "wake" THEN "wake" ELSE "user"
  <2>3. s.turn.cause = "none" BY <1>2 DEF Idle, HasTurn
  <2>4. Open(s) = {} /\ s.turn.sample = NoId /\ ~SubmitIssued(s) /\ ~s.turn.suspended BY <2>3, IdleIs
  <2>1. r = TurnStarted(s, cause)
    <3>1. CASE sig = "wake" BY <1>2, <3>1 DEF Signal
    <3>2. CASE sig # "wake"
      <4>1. sig \in {"submit", "queue", "steer"} BY <1>2, <3>2
      <4>2. r = TurnStarted(s, "user") BY <1>2, <2>4, <4>1 DEF Signal
      <4> QED BY <3>2, <4>2
    <3> QED BY <3>1, <3>2
  <2>2. cause \in Causes /\ (cause = "wake" => sig = "wake") BY DEF Causes
  <2> HIDE DEF cause
  <2>5. cause = "wake" => s.continuations < MaxContinuations BY <1>1, <1>2, <2>2 DEF Rejected
  <2> QED BY <2>1, <2>2, <2>4, <2>5, KStart
<1>3. CASE ~(Idle(s) /\ sig \in {"submit", "queue", "steer", "wake"}) /\ sig = "submit" /\ s.turn.suspended
  <2> DEFINE a == CloseOpen(s)
  <2>1. r = TurnStarted(a, "user") BY <1>3 DEF Signal
  <2>2. K(a, U, F, R, M, V) /\ Open(a) = {} /\ a.issued = s.issued /\ SameTurn(s, a) BY KClose
  <2> HIDE DEF a
  <2>3. s.turn.sample = NoId /\ ~SubmitIssued(s) BY <1>3 DEF K, Sampling, Submitting, SubmitIssued
  <2>4. a.turn.sample = NoId /\ ~SubmitIssued(a) BY <2>2, <2>3 DEF SameTurn, SubmitIssued
  <2>5. "user" \in Causes /\ "user" # "wake" BY DEF Causes
  <2> QED BY <2>1, <2>2, <2>4, <2>5, KStart
<1>4. CASE ~(Idle(s) /\ sig \in {"submit", "queue", "steer", "wake"}) /\ ~(sig = "submit" /\ s.turn.suspended)
  <2>1. r = Pending(s, sig) BY <1>4 DEF Signal
  <2> QED BY <2>1, KPending
<1> QED BY <1>2, <1>3, <1>4

(* A soft interrupt. *)
LEMMA KSoft ==
  ASSUME NEW s, NEW U, NEW F, NEW R, NEW M, NEW V, K(s, U, F, R, M, V),
         NEW r, r = SoftInterrupt(s)
  PROVE  K(r, U, F, R, M, V)
<1>1. s \in StateType /\ s.turn \in TurnType /\ s.continuations \in Nat /\ s.continuations <= MaxContinuations
  BY StateIs DEF K
<1>2. CASE HasTurn(s) /\ ~s.turn.suspended
  <2> DEFINE t == [s.turn EXCEPT !.soft = TRUE]
             n == s.continuations
  <2>1. r = [s EXCEPT !.turn = t] BY <1>2 DEF SoftInterrupt
  <2>2. r = PutTurn(s, t, n) BY <1>1, <2>1 DEF StateType, PutTurn
  <2>3. /\ t \in TurnType /\ t.slots = s.turn.slots /\ t.cause = s.turn.cause
        /\ t.sample = s.turn.sample /\ t.suspended = s.turn.suspended /\ t.submit = s.turn.submit
    BY <1>1 DEF TurnType
  <2>n. n \in Nat /\ n <= MaxContinuations BY <1>1
  <2> HIDE DEF t, n
  <2> QED BY <2>2, <2>3, <2>n, KTurn
<1>3. CASE ~(HasTurn(s) /\ ~s.turn.suspended)
  <2>1. r = s BY <1>3 DEF SoftInterrupt
  <2> QED BY <2>1
<1> QED BY <1>2, <1>3

(* Pause. *)
LEMMA KPause ==
  ASSUME NEW s, NEW U, NEW F, NEW R, NEW M, NEW V, K(s, U, F, R, M, V), DOMAIN s.out = {},
         NEW r, r = Pause(s)
  PROVE  K(r, U, F, R, M, V)
<1>1. s \in StateType BY DEF K
<1>2. r \in StateType BY <1>1 DEF StateType, Pause
<1>3. /\ r.n = s.n /\ r.issued = s.issued /\ r.turn = s.turn /\ r.pairs = s.pairs
      /\ r.continuations = s.continuations /\ r.held = s.held /\ r.paused /\ r.out = s.out
  BY <1>1 DEF StateType, Pause
<1>5. \A c : ~Starts(r.out, DOMAIN r.out, c) BY <1>3 DEF Starts
<1> QED BY <1>2, <1>3, <1>5, KOut

(* Resume: what the pause held back is dispatched, or a suspended turn goes on. *)
LEMMA KResume ==
  ASSUME NEW s, NEW U, NEW F, NEW R, NEW M, NEW V, K(s, U, F, R, M, V),
         NEW r, r = Resume(s)
  PROVE  K(r, U, F, R, M, V)
<1>1. s \in StateType /\ s.issued \in EffectMap BY StateIs DEF K
<1>2. CASE s.paused
  <2> DEFINE D == s.held \cap DOMAIN s.issued
             g == Restrict(s.issued, D)
  <2>1. r = [s EXCEPT !.paused = FALSE, !.held = {}, !.out = g] BY <1>2 DEF Resume
  <2>2. D \subseteq DOMAIN s.issued /\ D \subseteq s.held /\ g = Restrict(s.issued, D) OBVIOUS
  <2> HIDE DEF D, g
  <2>3. DOMAIN g = D /\ \A x \in D : g[x] = s.issued[x] BY <2>2, RestrictIs
  <2>4. g \in EffectMap
    <3>1. D \in SUBSET Nat /\ \A x \in D : g[x] \in EffectType BY <1>1, <2>2, <2>3, InEffectMap
    <3>2. g = [x \in D |-> s.issued[x]] BY <2>2 DEF Restrict
    <3>3. g \in [D -> EffectType] BY <2>3, <3>1, <3>2
    <3> QED BY <3>1, <3>3, IsEffectMap
  <2>5. r \in StateType BY <1>1, <2>1, <2>4, ZenonT(60) DEF StateType
  <2>6. /\ r.n = s.n /\ r.issued = s.issued /\ r.turn = s.turn /\ r.pairs = s.pairs
        /\ r.continuations = s.continuations /\ r.held = {} /\ ~r.paused /\ r.out = g
    BY <1>1, <2>1 DEF StateType
  <2>7. \A c : Starts(r.out, DOMAIN r.out, c) => Starts(s.issued, s.held, c)
    BY <2>2, <2>3, <2>6 DEF Starts
  <2>8. \A id \in DOMAIN r.out : id \in DOMAIN s.issued /\ r.out[id] = s.issued[id]
    BY <2>2, <2>3, <2>6
  <2> QED BY <2>5, <2>6, <2>7, <2>8, KOut
<1>3. CASE ~s.paused /\ s.turn.suspended
  <2>1. r = TurnStarted(s, "continuation") BY <1>3 DEF Resume
  <2> QED BY <1>3, <2>1, KContinue
<1>4. CASE ~s.paused /\ ~s.turn.suspended
  <2>1. r = s BY <1>4 DEF Resume
  <2> QED BY <2>1
<1> QED BY <1>2, <1>3, <1>4

(* Rewind, between turns only. *)
LEMMA KRewind ==
  ASSUME NEW s, NEW U, NEW F, NEW R, NEW M, NEW V, K(s, U, F, R, M, V),
         NEW r, r = Rewind(s)
  PROVE  K(r, U, F, R, M, V)
<1>1. CASE Idle(s)
  <2> DEFINE e == Restore
  <2>1. r = Issue(s, e) BY <1>1 DEF Rewind
  <2>2. e \in EffectType /\ e.calls = {} /\ e.kind = "restore"
    BY DEF Restore, Effect, EffectType, Levels
  <2> HIDE DEF e
  <2>3. Inert(e) /\ ~UserSubmit(e) /\ e.calls \subseteq U BY <2>2 DEF Inert, UserSubmit
  <2> QED BY <2>1, <2>2, <2>3, KIssueInert
<1>2. CASE ~Idle(s)
  <2>1. r = s BY <1>2 DEF Rewind
  <2> QED BY <2>1
<1> QED BY <1>1, <1>2

(* New calls are known, and effects that were in flight are gone. *)
LEMMA KWider ==
  ASSUME NEW s, NEW U, NEW F, NEW R, NEW M, NEW V, K(s, U, F, R, M, V),
         NEW U2 \in SUBSET Calls, U \subseteq U2,
         NEW R2 \in EffectMap, DOMAIN R2 \subseteq DOMAIN R, \A id \in DOMAIN R2 : R2[id] = R[id]
  PROVE  K(s, U2, F, R2, M, V)
<1>1. Context(U2, F, R2, M, V) BY DEF K, Context
<1>2. Known(s, U2) BY DEF K, Known
<1>3. Flight(s, R2) BY DEF K, Flight
<1> QED BY <1>1, <1>2, <1>3 DEF K

(* Nothing has happened to a call that nobody knows. *)
LEMMA NewCall ==
  ASSUME NEW s, NEW U, NEW F, NEW R, NEW M, NEW V, K(s, U, F, R, M, V),
         NEW c \in Calls, c \notin U
  PROVE  Fresh(s, F, c) /\ c \notin DOMAIN s.turn.slots
<1>1. F[c] = 0 /\ c \notin DOMAIN s.turn.slots BY DEF K, Context, Known
<1>2. ~Starts(s.out, DOMAIN s.out, c) /\ ~Starts(s.issued, s.held, c) BY DEF K, Known, Starts
<1>3. Unclaimed(s, c) BY DEF K, Known, Unclaimed, Claims
<1> QED BY <1>1, <1>2, <1>3 DEF Fresh, Unstarted

(* The inputs a decision may be asked for; a streamed call is dealt with apart. *)
InputOK(s, U, F, x) ==
  \/ x.tag = "signal" /\ x.signal \in Sent /\ ~Rejected(s, x.signal)
  \/ x.tag \in {"soft", "hard", "pause", "resume", "rewind"}
  \/ x.id \in DOMAIN s.issued /\ ResultOK(s, U, F, x.id, x)

(* What an input does to the state, before the steps that follow. *)
Folded(s, x) ==
  CASE x.tag = "signal"   -> Signal(s, x.signal)
    [] x.tag = "soft"     -> SoftInterrupt(s)
    [] x.tag = "hard"     -> HardInterrupt(s)
    [] x.tag = "pause"    -> Pause(s)
    [] x.tag = "resume"   -> Resume(s)
    [] x.tag = "rewind"   -> Rewind(s)
    [] x.tag = "streamed" -> Issue(s, Execute({x.call}))
    [] OTHER              -> Completed(s, x.id, x)

(* A decision folds the input in and then advances. *)
LEMMA DecideIs ==
  ASSUME NEW s, NEW x
  PROVE  Decide(s, x) = Advance(Folded(Emptied(s), x))
BY DEF Decide, Folded, Emptied

(* To fold an input in keeps the invariant, for every input. *)
LEMMA KFolded ==
  ASSUME NEW s, NEW U, NEW F, NEW R, NEW M, NEW V, K(s, U, F, R, M, V), DOMAIN s.out = {},
         NEW x, InputOK(s, U, F, x),
         NEW W \in SUBSET Calls, x.tag = "sampled" \/ W = V,
         NEW r, r = Folded(s, x)
  PROVE  K(r, U, F, R, M, W)
<1>1. CASE x.tag = "signal"
  <2> DEFINE sig == x.signal
  <2>1. r = Signal(s, sig) BY <1>1 DEF Folded
  <2>2. sig \in Sent /\ ~Rejected(s, sig) /\ W = V BY <1>1 DEF InputOK, ResultOK
  <2> HIDE DEF sig
  <2> QED BY <2>1, <2>2, KSignal
<1>2. CASE x.tag = "soft"
  <2>1. r = SoftInterrupt(s) /\ W = V BY <1>2 DEF Folded
  <2> QED BY <2>1, KSoft
<1>3. CASE x.tag = "hard"
  <2>1. r = HardInterrupt(s) /\ W = V BY <1>3 DEF Folded
  <2> QED BY <2>1, KHard
<1>4. CASE x.tag = "pause"
  <2>1. r = Pause(s) /\ W = V BY <1>4 DEF Folded
  <2> QED BY <2>1, KPause
<1>5. CASE x.tag = "resume"
  <2>1. r = Resume(s) /\ W = V BY <1>5 DEF Folded
  <2> QED BY <2>1, KResume
<1>6. CASE x.tag = "rewind"
  <2>1. r = Rewind(s) /\ W = V BY <1>6 DEF Folded
  <2> QED BY <2>1, KRewind
<1>7. CASE x.tag \notin {"signal", "soft", "hard", "pause", "resume", "rewind"}
  <2> DEFINE id == x.id
  <2>1. id \in DOMAIN s.issued /\ ResultOK(s, U, F, id, x) BY <1>7 DEF InputOK
  <2>2. x.tag \in {"failed", "sampled", "executed", "gated", "checkpointed", "restored"}
    BY <2>1 DEF ResultOK
  <2>3. r = Completed(s, id, x) BY <1>7, <2>2 DEF Folded
  <2> HIDE DEF id
  <2> QED BY <2>1, <2>3, KCompleted
<1> QED BY <1>1, <1>2, <1>3, <1>4, <1>5, <1>6, <1>7

(* One decision preserves the invariant. *)
LEMMA KDecide ==
  ASSUME NEW s, NEW U, NEW F, NEW R, NEW M, NEW V, K(s, U, F, R, M, V),
         NEW x, InputOK(s, U, F, x),
         NEW W \in SUBSET Calls, x.tag = "sampled" \/ W = V,
         NEW r, r = Decide(s, x)
  PROVE  K(r, U, F, R, M, W)
<1> DEFINE a == Emptied(s)
           b == Folded(a, x)
<1>1. r = Advance(b) BY DecideIs
<1>a. a = Emptied(s) /\ b = Folded(a, x) OBVIOUS
<1> HIDE DEF a, b
<1>2. /\ K(a, U, F, R, M, V) /\ DOMAIN a.out = {} /\ a.turn = s.turn /\ a.issued = s.issued
      /\ a.restoring = s.restoring /\ a.continuations = s.continuations /\ a.held = s.held
  BY <1>a, KEmptied
<1>3. InputOK(a, U, F, x)
  <2>1. \A c : Fresh(s, F, c) => Fresh(a, F, c) BY <1>2 DEF Fresh, Unstarted, Starts, Unclaimed
  <2>2. \A id : ResultOK(s, U, F, id, x) => ResultOK(a, U, F, id, x) BY <1>2, <2>1 DEF ResultOK
  <2>3. \A sig : Rejected(s, sig) <=> Rejected(a, sig) BY <1>2 DEF Rejected, Idle, HasTurn
  <2> QED BY <1>2, <2>2, <2>3 DEF InputOK
<1>4. K(b, U, F, R, M, W) BY <1>2, <1>3, <1>a, KFolded
<1> QED BY <1>1, <1>4, KAdvance

(* A call starts while its reply still streams. *)
LEMMA KStreamed ==
  ASSUME NEW s, NEW U, NEW F, NEW R, NEW M, NEW V, K(s, U, F, R, M, V),
         NEW c \in Calls, c \notin U, NEW id, MayStartEarly(s, id, c),
         NEW U2, U2 = U \cup {c}, NEW W, W = V \cup {c},
         NEW x, x.tag = "streamed", x.call = c, NEW r, r = Decide(s, x)
  PROVE  K(r, U2, F, R, M, W)
<1> DEFINE a == Emptied(s)
           C == {c}
           b == Issue(a, Execute(C))
<1>1. Folded(a, x) = b BY DEF Folded
<1>2. r = Advance(b) BY <1>1, DecideIs
<1>3. /\ K(a, U, F, R, M, V) /\ DOMAIN a.out = {} /\ a.turn = s.turn /\ a.issued = s.issued
      /\ a.restoring = s.restoring /\ a.continuations = s.continuations /\ a.held = s.held
  BY KEmptied
<1>a. b = Issue(a, Execute(C)) OBVIOUS
<1> HIDE DEF a, b
<1>4. Fresh(a, F, c) /\ c \notin DOMAIN a.turn.slots BY <1>3, NewCall
<1>5. U2 \in SUBSET Calls /\ U \subseteq U2 /\ c \in U2 /\ R \in EffectMap
  BY <1>3 DEF K, Context
<1>6. K(a, U2, F, R, M, V) BY <1>3, <1>5, KWider
<1>7. Attr[c].rings = "allow"
  <2> DEFINE sl == NewSlot(c, FALSE)
  <2>1. Evaluate(s, sl) = "allow" BY DEF MayStartEarly
  <2>2. Rings(sl) = Attr[c].rings BY DEF Rings, NewSlot
  <2> HIDE DEF sl
  <2> QED BY <2>1, <2>2, EvaluateIs
<1>8. MayStart(a, U2, F, c) BY <1>4, <1>5, <1>7 DEF MayStart, Fresh
<1>9. a.turn.cause # "none" BY <1>3 DEF MayStartEarly, HasTurn
<1>10. C \in SUBSET Calls /\ (\A d \in C : MayStart(a, U2, F, d)) BY <1>8
<1>11. W \in {V, V \cup C} OBVIOUS
<1> HIDE DEF C
<1>12. K(b, U2, F, R, M, W) BY <1>6, <1>9, <1>10, <1>11, <1>a, KExecute
<1> QED BY <1>2, <1>12, KAdvance

(* What Apply leaves of a decision, and how often each call was started. *)
Commit(d) == [d EXCEPT !.out = <<>>, !.finish = "none"]
Counted(d, F) ==
  [c \in Calls |-> IF c \in ExecutedBy(d.out) /\ ~Repeatable(Content(d, c)) THEN F[c] + 1 ELSE F[c]]

(* The driver counts as started what the effects it dispatches start. *)
LEMMA ExecutedIsStarted ==
  ASSUME NEW f, NEW c
  PROVE  c \in ExecutedBy(f) <=> Starts(f, DOMAIN f, c)
BY DEF ExecutedBy, Starts

(* So a call is counted once at most, since none that was counted is       *)
(* started.                                                                *)
LEMMA CountedIs ==
  ASSUME NEW s, NEW U, NEW F, NEW R, NEW M, NEW V, K(s, U, F, R, M, V), \A c \in Calls : F[c] <= 1,
         NEW G, G = Counted(s, F)
  PROVE  /\ G \in [Calls -> Nat] /\ \A c \in Calls : G[c] <= 1
         /\ \A c \in Calls : G[c] = F[c] \/ (Starts(s.out, DOMAIN s.out, c) /\ F[c] = 0)
<1>1. F \in [Calls -> Nat] BY DEF K, Context
<1>2. ASSUME NEW c \in Calls
      PROVE  /\ G[c] \in Nat /\ G[c] <= 1
             /\ G[c] = F[c] \/ (Starts(s.out, DOMAIN s.out, c) /\ F[c] = 0)
  <2>1. F[c] \in Nat /\ F[c] <= 1 BY <1>1
  <2>2. G[c] = F[c] \/ (G[c] = F[c] + 1 /\ Starts(s.out, DOMAIN s.out, c))
    BY ExecutedIsStarted DEF Counted
  <2>3. Starts(s.out, DOMAIN s.out, c) => F[c] = 0 BY DEF K, Once
  <2> QED BY <2>1, <2>2, <2>3
<1>3. G = [c \in Calls |-> G[c]] BY DEF Counted
<1> QED BY <1>2, <1>3

(* Committing a decision and dispatching its effects. *)
LEMMA KCommit ==
  ASSUME NEW s, NEW U, NEW F, NEW R, NEW M, NEW V, K(s, U, F, R, M, V), \A c \in Calls : F[c] <= 1,
         NEW r, r = Commit(s), NEW G, G = Counted(s, F), NEW Q, Q = Over(s.out, R),
         NEW N, N = s.turn.sample, NEW W \in SUBSET Calls, W = {} \/ (N = M /\ W = V)
  PROVE  K(r, U, G, Q, N, W)
<1>1. s \in StateType /\ s.out \in EffectMap /\ s.n \in Nat BY StateIs DEF K
<1>2. r \in StateType BY <1>1, EmptyMaps DEF StateType, Commit
<1>3. /\ r.n = s.n /\ r.issued = s.issued /\ r.turn = s.turn /\ r.pairs = s.pairs
      /\ r.continuations = s.continuations /\ r.held = s.held /\ r.paused = s.paused /\ r.out = <<>>
  BY <1>1 DEF StateType, Commit
<1>4. DOMAIN r.out = {} BY <1>3, EmptyMaps
<1>5. \A c : ~Starts(r.out, DOMAIN r.out, c) BY <1>4 DEF Starts
<1>6. ~r.paused => r.held = {} BY <1>3 DEF K, Ids
<1>7. K(r, U, F, R, M, V) BY <1>2, <1>3, <1>4, <1>5, <1>6, KOut
<1>8. /\ G \in [Calls -> Nat]
      /\ \A c \in Calls : G[c] = F[c] \/ (Starts(s.out, DOMAIN s.out, c) /\ F[c] = 0)
  BY CountedIs
<1>9. /\ DOMAIN Q = DOMAIN s.out \cup DOMAIN R
      /\ \A x \in DOMAIN Q : Q[x] = IF x \in DOMAIN s.out THEN s.out[x] ELSE R[x]
  BY DEF Over
<1>10. R \in EffectMap /\ U \subseteq Calls BY DEF K, Context
<1>11. Q \in EffectMap BY <1>1, <1>10, OverMap
<1>12. N \in Nat BY <1>1, StateIs
<1>13. \A c \in Calls : G[c] # 0 => c \in U
  <2>1. \A c : Starts(s.out, DOMAIN s.out, c) => c \in U BY DEF K, Known, Starts
  <2> QED BY <1>8, <2>1 DEF K, Context
<1>14. Context(U, G, Q, N, W) BY <1>8, <1>10, <1>11, <1>12, <1>13 DEF Context
<1>15. Once(r, G)
  <2>1. ASSUME NEW c \in DOMAIN r.turn.slots, r.turn.slots[c].exec = "idle", ~r.turn.slots[c].result
        PROVE  Unstarted(r, G, c)
    <3>1. Unstarted(s, F, c) BY <1>3, <2>1 DEF K, Once
    <3>2. c \in Calls BY <1>3, <1>1, StateShape
    <3>3. G[c] = 0 BY <1>8, <3>1, <3>2 DEF Unstarted
    <3> QED BY <1>3, <1>5, <3>1, <3>3 DEF Unstarted
  <2>2. ASSUME NEW c \in Calls, Starts(r.issued, r.held, c) PROVE G[c] = 0
    <3>1. Starts(s.issued, s.held, c) BY <1>3, <2>2
    <3>2. F[c] = 0 BY <3>1 DEF K, Once
    <3>3. s.held # {} BY <3>1 DEF Starts
    <3>4. ~Starts(s.out, DOMAIN s.out, c) BY <1>1, <3>3, StateShape DEF K, Ids, Starts
    <3> QED BY <1>8, <3>2, <3>4
  <2> QED BY <1>5, <2>1, <2>2 DEF Once
<1>16. Flight(r, Q)
  <2>1. DOMAIN Q \subseteq 1..(r.n - 1) BY <1>3, <1>9 DEF K, Ids, Flight
  <2>2. ASSUME NEW id \in DOMAIN Q \cap DOMAIN r.issued PROVE r.issued[id] = Q[id]
    <3>1. CASE id \in DOMAIN s.out BY <1>3, <1>9, <3>1 DEF K, Ids
    <3>2. CASE id \notin DOMAIN s.out BY <1>3, <1>9, <3>2 DEF K, Flight
    <3> QED BY <3>1, <3>2
  <2> QED BY <2>1, <2>2 DEF Flight
<1>17. Early(r, N, W) BY <1>3 DEF K, Early, Ids
<1> QED BY <1>7, <1>14, <1>15, <1>16, <1>17 DEF K

PutFinish(s, f) == [s EXCEPT !.finish = f]

(* The driver remembers that a Finish was not dispatched. *)
LEMMA KFinishPut ==
  ASSUME NEW s, NEW U, NEW F, NEW R, NEW M, NEW V, K(s, U, F, R, M, V),
         NEW f \in {"none", "sent", "kept"}, NEW r, r = PutFinish(s, f)
  PROVE  K(r, U, F, R, M, V)
<1>1. s \in StateType /\ s.n \in Nat BY StateIs DEF K
<1>2. r \in StateType BY <1>1 DEF StateType, PutFinish
<1>3. /\ r.n = s.n /\ r.issued = s.issued /\ r.held = s.held /\ r.out = s.out /\ r.paused = s.paused
      /\ r.pairs = s.pairs /\ r.continuations = s.continuations /\ r.turn = s.turn
  BY <1>1 DEF StateType, PutFinish
<1>4. r.n >= s.n /\ r.continuations <= MaxContinuations BY <1>1, <1>3 DEF K
<1> QED BY <1>2, <1>3, <1>4, KQuiet

(***************************************************************************)
(* The session.                                                            *)
(***************************************************************************)
(* The inductive invariant. *)
SessionInv ==
  /\ K(k, used, fired, inflight, k.turn.sample, streamed)
  /\ \A c \in Calls : fired[c] <= 1
  /\ streamed \subseteq used /\ unheard \in BOOLEAN
  /\ inputs \in 0..MaxInputs /\ restarts \in 0..MaxRestarts

(* Apply, on any decision that preserves the invariant. *)
LEMMA KApply ==
  ASSUME SessionInv, NEW d, NEW running, NEW calls, Apply(d, running, calls),
         K(d, used \cup calls, fired, running, k.turn.sample, streamed \cup calls)
  PROVE  /\ K(k', used', fired', inflight', k'.turn.sample, streamed')
         /\ \A c \in Calls : fired'[c] <= 1
         /\ streamed' \subseteq used' /\ unheard' \in BOOLEAN
<1> DEFINE U == used \cup calls
           V == streamed \cup calls
           M == k.turn.sample
           N == d.turn.sample
           W == IF N = M THEN V ELSE {}
           r == Commit(d)
           G == Counted(d, fired)
           Q == Over(d.out, running)
<1>1. k' = r /\ fired' = G /\ inflight' = Q /\ used' = U /\ streamed' = W
  BY DEF Apply, Commit, Counted
<1>2. K(d, U, fired, running, M, V) /\ \A c \in Calls : fired[c] <= 1 BY DEF SessionInv
<1>3. d \in StateType BY <1>2 DEF K
<1>4. r.turn.sample = N BY <1>3 DEF StateType, Commit
<1>5. (W = {} \/ (N = M /\ W = V)) /\ W \subseteq V OBVIOUS
<1>6. unheard' \in BOOLEAN
  <2>1. d.finish \in {"none", "sent", "kept"} BY <1>3 DEF StateType
  <2> QED BY <2>1 DEF Apply, SessionInv
<1>7. V \subseteq U BY DEF SessionInv
<1>8. r = Commit(d) /\ G = Counted(d, fired) /\ Q = Over(d.out, running) /\ N = d.turn.sample OBVIOUS
<1> HIDE DEF U, V, M, N, W, r, G, Q
<1>9. V \subseteq Calls BY <1>2 DEF K, Context
<1>10. W \in SUBSET Calls BY <1>5, <1>9
<1>11. K(r, U, G, Q, N, W) BY <1>2, <1>5, <1>8, <1>10, KCommit
<1>12. \A c \in Calls : G[c] <= 1 BY <1>2, <1>8, CountedIs
<1> QED BY <1>1, <1>4, <1>5, <1>6, <1>7, <1>11, <1>12

(* Part of what is in flight. *)
Within(g, f) == g \in EffectMap /\ DOMAIN g \subseteq DOMAIN f /\ \A x \in DOMAIN g : g[x] = f[x]

(* What remains of the effects in flight is among them. *)
LEMMA RestrictWithin ==
  ASSUME NEW f \in EffectMap, NEW D \in SUBSET DOMAIN f, NEW g, g = Restrict(f, D)
  PROVE  Within(g, f)
<1>1. DOMAIN g = D /\ \A x \in D : g[x] = f[x] BY RestrictIs
<1>2. D \in SUBSET Nat /\ \A x \in D : f[x] \in EffectType BY InEffectMap
<1>3. g = [x \in D |-> f[x]] BY DEF Restrict
<1>4. g \in [D -> EffectType] BY <1>2, <1>3
<1>5. g \in EffectMap BY <1>2, <1>4, IsEffectMap
<1> QED BY <1>1, <1>5 DEF Within

(* Apply where no call is new. *)
LEMMA KApplyPlain ==
  ASSUME SessionInv, NEW d, NEW running, Apply(d, running, {}),
         K(d, used, fired, running, k.turn.sample, streamed)
  PROVE  /\ K(k', used', fired', inflight', k'.turn.sample, streamed')
         /\ \A c \in Calls : fired'[c] <= 1
         /\ streamed' \subseteq used' /\ unheard' \in BOOLEAN
<1> DEFINE calls == {}
           U == used \cup calls
           V == streamed \cup calls
<1>1. U = used /\ V = streamed OBVIOUS
<1>2. Apply(d, running, calls) OBVIOUS
<1> HIDE DEF calls
<1>3. K(d, U, fired, running, k.turn.sample, V) BY <1>1
<1> QED BY <1>2, <1>3, KApply

(* The invariant with fewer effects in flight. *)
LEMMA KFewer ==
  ASSUME SessionInv, NEW R, Within(R, inflight)
  PROVE  K(k, used, fired, R, k.turn.sample, streamed)
<1>1. used \in SUBSET Calls /\ K(k, used, fired, inflight, k.turn.sample, streamed)
  BY DEF SessionInv, K, Context
<1> QED BY <1>1, KWider DEF Within

(* A decision that learns of no new call. *)
LEMMA DecidedPlain ==
  ASSUME SessionInv, NEW running, Within(running, inflight),
         NEW x, InputOK(k, used, fired, x), x.tag # "sampled",
         NEW d, d = Decide(k, x), Apply(d, running, {})
  PROVE  /\ K(k', used', fired', inflight', k'.turn.sample, streamed')
         /\ \A c \in Calls : fired'[c] <= 1
         /\ streamed' \subseteq used' /\ unheard' \in BOOLEAN
<1>1. K(k, used, fired, running, k.turn.sample, streamed) BY KFewer
<1>2. streamed \in SUBSET Calls BY <1>1 DEF K, Context
<1>3. K(d, used, fired, running, k.turn.sample, streamed) BY <1>1, <1>2, KDecide
<1> QED BY <1>3, KApplyPlain

(* The effects in flight are effects. *)
LEMMA InflightWithin ==
  ASSUME SessionInv
  PROVE  Within(inflight, inflight) /\ inflight \in EffectMap
BY DEF SessionInv, K, Context, Within

(* A signal keeps the invariant. *)
LEMMA SendInv ==
  ASSUME SessionInv, NEW signal \in Signals, Send(signal)
  PROVE  SessionInv'
<1> DEFINE x == [tag |-> "signal", signal |-> signal]
           d == Decide(k, x)
<1>1. /\ inputs < MaxInputs /\ ~Rejected(k, signal) /\ Apply(d, inflight, {})
      /\ inputs' = inputs + 1 /\ UNCHANGED restarts
  BY DEF Send
<1>2. x.tag = "signal" /\ x.signal = signal /\ d = Decide(k, x) OBVIOUS
<1> HIDE DEF x, d
<1>3. signal \in Sent BY SessionAssumption DEF Sent
<1>4. InputOK(k, used, fired, x) /\ x.tag # "sampled" BY <1>1, <1>2, <1>3 DEF InputOK
<1>5. /\ K(k', used', fired', inflight', k'.turn.sample, streamed')
      /\ (\A c \in Calls : fired'[c] <= 1)
      /\ streamed' \subseteq used' /\ unheard' \in BOOLEAN
  BY <1>1, <1>2, <1>4, InflightWithin, DecidedPlain
<1>6. inputs' \in 0..MaxInputs BY <1>1, SessionAssumption DEF SessionInv
<1> QED BY <1>1, <1>5, <1>6 DEF SessionInv

(* Pause, resume and a soft interrupt keep the invariant. *)
LEMMA ControlInv ==
  ASSUME SessionInv, NEW control \in Controls \ {"hard"}, Control(control)
  PROVE  SessionInv'
<1> DEFINE x == [tag |-> control]
           d == Decide(k, x)
<1>1. /\ inputs < MaxInputs /\ Apply(d, inflight, {})
      /\ inputs' = inputs + 1 /\ UNCHANGED restarts
  BY DEF Control
<1>2. x.tag = control /\ d = Decide(k, x) OBVIOUS
<1> HIDE DEF x, d
<1>3. control \in {"soft", "pause", "resume", "rewind"} BY SessionAssumption
<1>4. InputOK(k, used, fired, x) /\ x.tag # "sampled" BY <1>2, <1>3 DEF InputOK
<1>5. /\ K(k', used', fired', inflight', k'.turn.sample, streamed')
      /\ (\A c \in Calls : fired'[c] <= 1)
      /\ streamed' \subseteq used' /\ unheard' \in BOOLEAN
  BY <1>1, <1>2, <1>4, InflightWithin, DecidedPlain
<1>6. inputs' \in 0..MaxInputs BY <1>1, SessionAssumption DEF SessionInv
<1> QED BY <1>1, <1>5, <1>6 DEF SessionInv

(* A reply contains calls that were started early or that are new. *)
LEMMA KSampled ==
  ASSUME SessionInv, NEW R, Within(R, inflight), NEW id \in DOMAIN k.issued, k.issued[id].kind = "sample",
         NEW calls \in Replies, NEW x, x.tag = "sampled", x.id = id, x.calls = calls,
         x.interrupted \in BOOLEAN, x.spent \in BOOLEAN,
         NEW d, d = Decide(k, x)
  PROVE  K(d, used \cup calls, fired, R, k.turn.sample, streamed \cup calls)
<1> DEFINE U == used \cup calls
           W == streamed \cup calls
           M == k.turn.sample
<1>1. K(k, used, fired, R, M, streamed) BY KFewer
<1>2. PICK new \in SUBSET (Calls \ used) : calls = streamed \cup new BY DEF Replies
<1>3. used \subseteq Calls /\ streamed \subseteq used /\ streamed \subseteq Calls
  BY <1>1 DEF K, Context, SessionInv
<1>4. U \in SUBSET Calls /\ used \subseteq U /\ W \in SUBSET Calls BY <1>2, <1>3
<1>5. calls \subseteq U OBVIOUS
<1> HIDE DEF U, W
<1>6. K(k, U, fired, R, M, streamed)
  <2>1. R \in EffectMap BY DEF Within
  <2> QED BY <1>1, <1>4, <2>1, KWider
<1>7. id = M /\ M # NoId BY <1>1 DEF K, SampleId, Ids, NoId
<1>8. streamed \subseteq DOMAIN k.turn.slots BY <1>1, <1>7 DEF K, Early
<1>9. ASSUME NEW c \in calls PROVE c \in DOMAIN k.turn.slots \/ Fresh(k, fired, c)
  <2>1. CASE c \in streamed BY <1>8, <2>1
  <2>2. CASE c \in new BY <1>1, <2>2, NewCall
  <2> QED BY <1>2, <2>1, <2>2
<1>10. InputOK(k, U, fired, x)
  <2>1. ResultOK(k, U, fired, x.id, x) BY <1>5, <1>9 DEF ResultOK
  <2> QED BY <2>1 DEF InputOK
<1>11. K(d, U, fired, R, M, W) BY <1>4, <1>6, <1>10, KDecide
<1> QED BY <1>11 DEF U, W

(* A hard interrupt with its cancelled effects keeps the invariant. *)
LEMMA HardInv ==
  ASSUME SessionInv, HardInterruptAll
  PROVE  SessionInv'
<1> DEFINE D == {id \in DOMAIN inflight : inflight[id].kind = "restore"}
           running == Restrict(inflight, D)
           sampling == DOMAIN inflight \cap {id \in DOMAIN k.issued : k.issued[id].kind = "sample"}
           hard == [tag |-> "hard"]
           partial(id, calls) == Decide(k, [tag |-> "sampled", id |-> id, calls |-> calls,
                                            interrupted |-> TRUE, spent |-> FALSE])
           after(id, calls) == Decide(partial(id, calls), hard)
           told(id, calls) == IF after(id, calls).finish = "none" /\ partial(id, calls).finish # "none"
                                THEN [after(id, calls) EXCEPT !.finish = "kept"] ELSE after(id, calls)
<1>1. /\ inputs < MaxInputs /\ inputs' = inputs + 1 /\ UNCHANGED restarts
      /\ \/ Apply(Decide(k, hard), running, {})
         \/ \E id \in sampling, calls \in Replies : Apply(told(id, calls), running, calls)
  BY DEF HardInterruptAll
<1>2. Within(running, inflight)
  <2>1. D \in SUBSET DOMAIN inflight /\ running = Restrict(inflight, D) OBVIOUS
  <2> HIDE DEF D, running
  <2> QED BY <2>1, InflightWithin, RestrictWithin
<1>3. hard.tag = "hard" OBVIOUS
<1> HIDE DEF running, hard
<1>4. CASE Apply(Decide(k, hard), running, {})
  <2> DEFINE d == Decide(k, hard)
  <2>1. d = Decide(k, hard) /\ Apply(d, running, {}) BY <1>4
  <2> HIDE DEF d
  <2>2. InputOK(k, used, fired, hard) /\ hard.tag # "sampled" BY <1>3 DEF InputOK
  <2>3. /\ K(k', used', fired', inflight', k'.turn.sample, streamed')
        /\ (\A c \in Calls : fired'[c] <= 1)
        /\ streamed' \subseteq used' /\ unheard' \in BOOLEAN
    BY <1>2, <2>1, <2>2, DecidedPlain
  <2>4. inputs' \in 0..MaxInputs BY <1>1, SessionAssumption DEF SessionInv
  <2> QED BY <1>1, <2>3, <2>4 DEF SessionInv
<1>5. ASSUME NEW id \in sampling, NEW calls \in Replies, Apply(told(id, calls), running, calls)
      PROVE  SessionInv'
  <2> DEFINE x == [tag |-> "sampled", id |-> id, calls |-> calls, interrupted |-> TRUE, spent |-> FALSE]
             p == Decide(k, x)
             a == Decide(p, hard)
             d == IF a.finish = "none" /\ p.finish # "none" THEN [a EXCEPT !.finish = "kept"] ELSE a
             U == used \cup calls
             W == streamed \cup calls
             M == k.turn.sample
  <2>1. Apply(d, running, calls) BY <1>5
  <2>2. /\ x.tag = "sampled" /\ x.id = id /\ x.calls = calls /\ x.interrupted \in BOOLEAN /\ x.spent \in BOOLEAN
        /\ p = Decide(k, x) /\ a = Decide(p, hard)
    OBVIOUS
  <2>3. d = a \/ d = PutFinish(a, "kept") BY DEF PutFinish
  <2>4. id \in DOMAIN k.issued /\ k.issued[id].kind = "sample" OBVIOUS
  <2> HIDE DEF x, p, a, d
  <2>5. K(p, U, fired, running, M, W) BY <1>2, <2>2, <2>4, KSampled
  <2>6. K(a, U, fired, running, M, W)
    <3>1. InputOK(p, U, fired, hard) BY <1>3 DEF InputOK
    <3>2. W \in SUBSET Calls BY <2>5 DEF K, Context
    <3> HIDE DEF U, W, M
    <3> QED BY <2>2, <2>5, <3>1, <3>2, KDecide
  <2>7. K(d, U, fired, running, M, W) BY <2>3, <2>6, KFinishPut
  <2>8. /\ K(k', used', fired', inflight', k'.turn.sample, streamed')
        /\ (\A c \in Calls : fired'[c] <= 1)
        /\ streamed' \subseteq used' /\ unheard' \in BOOLEAN
    BY <2>1, <2>7, KApply
  <2>9. inputs' \in 0..MaxInputs BY <1>1, SessionAssumption DEF SessionInv
  <2> QED BY <1>1, <2>8, <2>9 DEF SessionInv
<1> QED BY <1>1, <1>4, <1>5

(* A call streamed early keeps the invariant. *)
LEMMA StreamedInv ==
  ASSUME SessionInv, NEW id \in DOMAIN inflight, NEW c \in Calls, Streamed(id, c)
  PROVE  SessionInv'
<1> DEFINE x == [tag |-> "streamed", id |-> id, call |-> c]
           d == Decide(k, x)
           calls == {c}
           U == used \cup calls
           W == streamed \cup calls
           M == k.turn.sample
<1>1. c \notin used /\ MayStartEarly(k, id, c) /\ Apply(d, inflight, calls) /\ UNCHANGED <<inputs, restarts>>
  BY DEF Streamed
<1>2. x.tag = "streamed" /\ x.call = c /\ d = Decide(k, x) /\ U = used \cup {c} /\ W = streamed \cup {c}
  OBVIOUS
<1>3. K(k, used, fired, inflight, M, streamed) BY DEF SessionInv
<1> HIDE DEF x, d, U, W, M
<1>4. K(d, U, fired, inflight, M, W) BY <1>1, <1>2, <1>3, KStreamed
<1>5. K(d, used \cup calls, fired, inflight, k.turn.sample, streamed \cup calls) BY <1>4 DEF U, W, M
<1> HIDE DEF calls
<1>6. /\ K(k', used', fired', inflight', k'.turn.sample, streamed')
      /\ (\A e \in Calls : fired'[e] <= 1)
      /\ streamed' \subseteq used' /\ unheard' \in BOOLEAN
  BY <1>1, <1>5, KApply
<1> QED BY <1>1, <1>6 DEF SessionInv

(* To land an effect only shrinks the flight. *)
LEMMA LandedWithin ==
  ASSUME SessionInv, NEW id
  PROVE  Within(Landed(id), inflight)
<1> DEFINE D == DOMAIN inflight \ {id}
           g == Restrict(inflight, D)
<1>1. Landed(id) = g BY DEF Landed
<1>2. D \in SUBSET DOMAIN inflight /\ g = Restrict(inflight, D) OBVIOUS
<1> HIDE DEF D, g
<1> QED BY <1>1, <1>2, InflightWithin, RestrictWithin

(* A reply keeps the invariant. *)
LEMMA RepliedInv ==
  ASSUME SessionInv, NEW id \in DOMAIN inflight, Replied(id)
  PROVE  SessionInv'
<1> DEFINE running == Landed(id)
<1>1. /\ id \in DOMAIN k.issued /\ inflight[id].kind = "sample" /\ UNCHANGED <<inputs, restarts>>
      /\ \E calls \in Replies, spent \in (IF Budgeted THEN BOOLEAN ELSE {FALSE}) :
            Apply(Decide(k, Sampled(id, calls, spent)), running, calls)
  BY DEF Replied
<1>2. PICK calls \in Replies, spent \in BOOLEAN :
         Apply(Decide(k, Sampled(id, calls, spent)), running, calls)
  BY <1>1
<1> DEFINE x == Sampled(id, calls, spent)
           d == Decide(k, x)
<1>3. Apply(d, running, calls) /\ d = Decide(k, x) BY <1>2
<1>4. /\ x.tag = "sampled" /\ x.id = id /\ x.calls = calls /\ x.interrupted \in BOOLEAN /\ x.spent \in BOOLEAN
  BY DEF Sampled
<1> HIDE DEF x, d
<1>5. Within(running, inflight) BY LandedWithin
<1>6. k.issued[id] = inflight[id] BY <1>1 DEF SessionInv, K, Flight
<1>7. k.issued[id].kind = "sample" BY <1>1, <1>6
<1> HIDE DEF running
<1>8. K(d, used \cup calls, fired, running, k.turn.sample, streamed \cup calls)
  BY <1>1, <1>3, <1>4, <1>5, <1>7, KSampled
<1>9. /\ K(k', used', fired', inflight', k'.turn.sample, streamed')
      /\ (\A c \in Calls : fired'[c] <= 1)
      /\ streamed' \subseteq used' /\ unheard' \in BOOLEAN
  BY <1>3, <1>8, KApply
<1> QED BY <1>1, <1>9 DEF SessionInv

(* The verdicts hooks and humans give. *)
LEMMA VerdictsFit ==
  ASSUME NEW e, NEW v,
         \/ e.kind = "hook" /\ v \in Verdicts(HookTagsAt(e.point), {"hook"})
         \/ e.kind = "human" /\ v \in Verdicts(HumanTags, Responders)
  PROVE  VerdictFits(e, v)
<1>1. CASE e.kind = "hook" /\ v \in Verdicts(HookTagsAt(e.point), {"hook"})
  <2> DEFINE tags == HookTagsAt(e.point)
  <2>1. tags \subseteq {"allow", "deny", "ask", "defer", "rewrite", "continue"}
        /\ (e.point = "PreTool" => "continue" \notin tags)
    BY SessionAssumption DEF HookTagsAt
  <2>2. v \in Verdicts(tags, {"hook"}) BY <1>1
  <2> HIDE DEF tags
  <2>3. /\ v \in [tag : tags, by : {"hook"}, call : Calls \cup {NoId}]
        /\ (v.call # NoId <=> v.tag = "rewrite")
    BY <2>2 DEF Verdicts
  <2>4. v \in VerdictType BY <2>1, <2>3 DEF VerdictType
  <2> QED BY <1>1, <2>1, <2>3, <2>4 DEF VerdictFits
<1>2. CASE e.kind = "human" /\ v \in Verdicts(HumanTags, Responders)
  <2>1. HumanTags \subseteq {"allow", "deny", "defer", "rewrite"} BY SessionAssumption
  <2>2. /\ v \in [tag : HumanTags, by : Responders, call : Calls \cup {NoId}]
        /\ (v.call # NoId <=> v.tag = "rewrite")
    BY <1>2 DEF Verdicts
  <2>3. v \in VerdictType BY <2>1, <2>2 DEF VerdictType
  <2> QED BY <1>2, <2>1, <2>2, <2>3 DEF VerdictFits
<1> QED BY <1>1, <1>2

(* What an effect other than a request reports. *)
LEMMA ReportIs ==
  ASSUME SessionInv, NEW id \in DOMAIN inflight, Reported(id)
  PROVE  \E x : /\ InputOK(k, used, fired, x) /\ x.tag \notin {"sampled", "streamed"}
                /\ x.tag = "executed" => k.issued[x.id].kind = "execute"
                /\ Apply(Decide(k, x), Landed(id), {})
<1> DEFINE running == Landed(id)
           e == inflight[id]
<1>1. /\ id \in DOMAIN k.issued /\ UNCHANGED <<inputs, restarts>>
      /\ \E r \in Results(id, e) : Apply(Decide(k, r), running, {})
  BY DEF Reported
<1>2. PICK x \in Results(id, e) : Apply(Decide(k, x), running, {}) BY <1>1
<1>6. k.issued[id] = e BY <1>1 DEF SessionInv, K, Flight
<1>7. e.kind \in {"sample", "restore", "execute", "checkpoint", "hook", "human"}
  <2>1. e \in EffectType BY InflightWithin, InEffectMap
  <2> QED BY <2>1, EffectIs
<1> HIDE DEF e
<1>8. /\ x.tag \in {"failed", "executed", "gated", "checkpointed", "restored"} /\ x.id = id
      /\ x.tag = "gated" => e.kind \in {"hook", "human"} /\ VerdictFits(e, x.verdict)
      /\ x.tag = "executed" => e.kind = "execute"
  <2>0. \/ x = [tag |-> "failed", id |-> id]
        \/ x \in CASE e.kind = "execute"    -> {[tag |-> "executed", id |-> id]}
                   [] e.kind = "checkpoint" -> {[tag |-> "checkpointed", id |-> id]}
                   [] e.kind = "restore"    -> {[tag |-> "restored", id |-> id]}
                   [] e.kind = "sample"     -> {}
                   [] e.kind = "hook"  -> {[tag |-> "gated", id |-> id, verdict |-> v] :
                                             v \in Verdicts(HookTagsAt(e.point), {"hook"})}
                   [] e.kind = "human" -> {[tag |-> "gated", id |-> id, verdict |-> v] :
                                             v \in {w \in Verdicts(HumanTags, Responders) :
                                                      e.point = "PreSample" => w.tag # "rewrite"}}
    BY <1>2 DEF Results
  <2>1. CASE x.tag = "failed" /\ x.id = id BY <2>1
  <2>2. CASE e.kind \in {"execute", "checkpoint", "restore", "sample"} /\ x # [tag |-> "failed", id |-> id]
    BY <2>0, <2>2
  <2>3. CASE e.kind = "hook" /\ x # [tag |-> "failed", id |-> id]
    <3>1. PICK v \in Verdicts(HookTagsAt(e.point), {"hook"}) : x = [tag |-> "gated", id |-> id, verdict |-> v]
      BY <2>0, <2>3
    <3>2. VerdictFits(e, v) BY <2>3, <3>1, VerdictsFit
    <3> QED BY <2>3, <3>1, <3>2
  <2>4. CASE e.kind = "human" /\ x # [tag |-> "failed", id |-> id]
    <3>1. PICK v \in Verdicts(HumanTags, Responders) : x = [tag |-> "gated", id |-> id, verdict |-> v]
      BY <2>0, <2>4
    <3>2. VerdictFits(e, v) BY <2>4, <3>1, VerdictsFit
    <3> QED BY <2>4, <3>1, <3>2
  <2>5. x = [tag |-> "failed", id |-> id] => x.tag = "failed" /\ x.id = id OBVIOUS
  <2> QED BY <1>7, <2>1, <2>2, <2>3, <2>4, <2>5
<1>9. InputOK(k, used, fired, x)
  <2>1. ResultOK(k, used, fired, id, x) BY <1>6, <1>8 DEF ResultOK
  <2> QED BY <1>1, <1>8, <2>1 DEF InputOK
<1> QED BY <1>2, <1>6, <1>8, <1>9

(* The report of any other effect keeps the invariant. *)
LEMMA ReportedInv ==
  ASSUME SessionInv, NEW id \in DOMAIN inflight, Reported(id)
  PROVE  SessionInv'
<1> DEFINE running == Landed(id)
<1>1. PICK x : InputOK(k, used, fired, x) /\ x.tag # "sampled" /\ Apply(Decide(k, x), running, {})
  BY ReportIs
<1> DEFINE d == Decide(k, x)
<1>2. Apply(d, running, {}) /\ d = Decide(k, x) BY <1>1
<1>3. Within(running, inflight) BY LandedWithin
<1>4. UNCHANGED <<inputs, restarts>> BY DEF Reported
<1> HIDE DEF running, d
<1>5. /\ K(k', used', fired', inflight', k'.turn.sample, streamed')
      /\ (\A c \in Calls : fired'[c] <= 1)
      /\ streamed' \subseteq used' /\ unheard' \in BOOLEAN
  BY <1>1, <1>2, <1>3, DecidedPlain
<1> QED BY <1>4, <1>5 DEF SessionInv

(* A report nobody waits for keeps the invariant. *)
LEMMA StaleInv ==
  ASSUME SessionInv, NEW id \in DOMAIN inflight, Stale(id)
  PROVE  SessionInv'
<1> DEFINE R == Landed(id)
<1>1. inflight' = R /\ UNCHANGED <<k, used, streamed, fired, unheard, inputs, restarts>> BY DEF Stale
<1>2. Within(R, inflight) BY LandedWithin
<1> HIDE DEF R
<1>3. K(k, used, fired, R, k.turn.sample, streamed) BY <1>2, KFewer
<1> QED BY <1>1, <1>3 DEF SessionInv

(* A restart that recovers the outstanding effects keeps the invariant. *)
LEMMA RestartInv ==
  ASSUME SessionInv, Restart
  PROVE  SessionInv'
<1> DEFINE M == k.turn.sample
           R == k.issued
           V == {}
<1>1. inflight' = R /\ streamed' = V /\ unheard' = FALSE /\ restarts' = restarts + 1
      /\ restarts < MaxRestarts /\ UNCHANGED <<k, used, fired, inputs>>
  BY DEF Restart
<1>2. K(k, used, fired, inflight, M, streamed) BY DEF SessionInv
<1>3. R \in EffectMap BY <1>2, StateIs DEF K
<1>4. Context(used, fired, R, M, V) BY <1>2, <1>3 DEF K, Context
<1>5. Flight(k, R) /\ Early(k, M, V) BY <1>2 DEF K, Flight, Early, Ids
<1>6. K(k, used, fired, R, M, V) BY <1>2, <1>4, <1>5 DEF K
<1>7. restarts' \in 0..MaxRestarts BY <1>1, SessionAssumption DEF SessionInv
<1> HIDE DEF R
<1>8. K(k', used', fired', inflight', k'.turn.sample, streamed') BY <1>1, <1>6
<1>9. streamed' \subseteq used' BY <1>1
<1> QED BY <1>1, <1>7, <1>8, <1>9 DEF SessionInv

(* The session begins in the invariant. *)
LEMMA InitInv ==
  ASSUME Init
  PROVE  SessionInv
<1> DEFINE U == {}
           F == [c \in Calls |-> 0]
           R == <<>>
           M == NoId
           V == {}
           s == InitState
<1>1. /\ k = s /\ inflight = R /\ used = U /\ streamed = V /\ fired = F
      /\ unheard = FALSE /\ inputs = 0 /\ restarts = 0
  BY DEF Init
<1>2. /\ s.n = 1 /\ s.issued = <<>> /\ s.held = {} /\ ~s.paused /\ s.turn = NewTurn("none")
      /\ s.continuations = 0 /\ s.pairs = [c \in Calls |-> 0] /\ s.out = <<>>
  BY DEF InitState
<1>3. /\ NewTurn("none") \in TurnType /\ s.turn.cause = "none" /\ s.turn.sample = NoId
      /\ s.turn.slots = <<>> /\ ~s.turn.suspended
  BY <1>2, NewTurnIs
<1>4. DOMAIN <<>> = {} /\ <<>> \in EffectMap /\ <<>> \in SlotMap BY EmptyMaps
<1>5. s \in StateType
  <2>1. <<>> \in Seq({"user", "wake"}) OBVIOUS
  <2>2. "none" \in Waits /\ NoId \in Nat BY DEF Waits, NoId
  <2>3. [c \in Calls |-> 0] \in [Calls -> Int] OBVIOUS
  <2>4. {} \in SUBSET Nat /\ 1 \in Nat \ {0} /\ FALSE \in BOOLEAN /\ {} \in SUBSET QuestionType
        /\ {} \in SUBSET {"steer", "notify"} /\ 0 \in Nat
    OBVIOUS
  <2>5. "none" \in {"none", "sent", "kept"}
        /\ "none" \in {"none", "done", "failed", "interrupted", "budget", "suspended"}
    OBVIOUS
  <2> QED BY <1>3, <1>4, <2>1, <2>2, <2>3, <2>4, <2>5 DEF StateType, InitState
<1> HIDE DEF s
<1>6. Open(s) = {} BY <1>3, <1>4 DEF Open
<1>7. SlotsOK(s) /\ Gates(s) /\ NoTurn(s) /\ SampleId(s) /\ Sampling(s) /\ Submitting(s)
  BY <1>2, <1>3, <1>4 DEF SlotsOK, Gates, NoTurn, SampleId, Sampling, Submitting
<1>8. Paired(s) BY <1>2, <1>6 DEF Paired
<1>9. Ids(s) BY <1>2, <1>3, <1>4 DEF Ids, NoId
<1>10. MaxContinuations \in Nat BY KernelAssumption
<1>11. s.continuations <= MaxContinuations BY <1>2, <1>10
<1>12. Context(U, F, R, M, V)
  <2>1. \A c \in Calls : F[c] = 0 OBVIOUS
  <2> QED BY <1>4, <2>1 DEF Context, NoId
<1>13. Known(s, U) BY <1>2, <1>3, <1>4 DEF Known
<1>14. Once(s, F) BY <1>2, <1>3, <1>4 DEF Once, Starts
<1>15. Flight(s, R) /\ Early(s, M, V) BY <1>2, <1>3, <1>4 DEF Flight, Early, NoId
<1>16. K(s, U, F, R, M, V) BY <1>5, <1>7, <1>8, <1>9, <1>11, <1>12, <1>13, <1>14, <1>15 DEF K
<1>17. \A c \in Calls : F[c] <= 1 OBVIOUS
<1>18. V \subseteq U /\ inputs \in 0..MaxInputs /\ restarts \in 0..MaxRestarts
  BY <1>1, SessionAssumption
<1> HIDE DEF U, F, R, M, V
<1>19. K(k, used, fired, inflight, k.turn.sample, streamed) BY <1>1, <1>3, <1>16 DEF M
<1> QED BY <1>1, <1>17, <1>18, <1>19 DEF SessionInv

(* Every step of the session keeps the invariant. *)
LEMMA NextInv ==
  ASSUME SessionInv, [Next]_vars
  PROVE  SessionInv'
<1>1. CASE \E signal \in Signals : Send(signal) BY <1>1, SendInv
<1>2. CASE \E control \in Controls \ {"hard"} : Control(control) BY <1>2, ControlInv
<1>3. CASE HardInterruptAll BY <1>3, HardInv
<1>4. CASE \E id \in DOMAIN inflight, c \in Calls : Streamed(id, c) BY <1>4, StreamedInv
<1>5. CASE Complete BY <1>5, RepliedInv, ReportedInv, StaleInv DEF Complete
<1>6. CASE Restart BY <1>6, RestartInv
<1>7. CASE UNCHANGED vars
  <2>1. UNCHANGED <<k, inflight, used, streamed, fired, unheard, inputs, restarts>> BY <1>7 DEF vars
  <2> QED BY <2>1 DEF SessionInv
<1> QED BY <1>1, <1>2, <1>3, <1>4, <1>5, <1>6, <1>7 DEF Next

(* The inductive invariant holds in every state of a session. *)
THEOREM SessionInvariant == Spec => []SessionInv
BY InitInv, NextInv, PTL DEF Spec

(* In any state of the invariant: ids are below the next one, what is held *)
(* back is outstanding, and a call is paired with at most one result.      *)
LEMMA InvType == SessionInv => TypeOK
<1> SUFFICES ASSUME SessionInv PROVE TypeOK OBVIOUS
<1>1. k \in StateType /\ K(k, used, fired, inflight, k.turn.sample, streamed) BY DEF SessionInv, K
<1>2. k.n \in Nat /\ k.continuations \in Nat BY <1>1, StateIs
<1>3. /\ DOMAIN k.issued \subseteq 1..(k.n - 1) /\ DOMAIN inflight \subseteq 1..(k.n - 1)
      /\ k.held \subseteq DOMAIN k.issued
  BY <1>1 DEF K, Ids, Flight
<1>4. k.pairs \in [Calls -> -1..2]
  <2>1. k.pairs \in [Calls -> Int] BY <1>1, StateIs
  <2>2. \A c \in Calls : k.pairs[c] \in -1..2 BY <1>1 DEF K, Paired
  <2> QED BY <2>1, <2>2
<1>5. used \subseteq Calls /\ fired \in [Calls -> Nat] BY <1>1 DEF K, Context
<1> QED BY <1>2, <1>3, <1>4, <1>5 DEF TypeOK, SessionInv

(* Types of the session: see TypeOK. *)
THEOREM SessionTypes == Spec => []TypeOK
BY SessionInvariant, InvType, PTL

(* What the invariant says of pairs. *)
LEMMA InvPaired == SessionInv => WellPaired
<1> SUFFICES ASSUME SessionInv, NEW c \in DOMAIN k.pairs
             PROVE  /\ k.pairs[c] \in {0, 1}
                    /\ k.pairs[c] = 1 => c \in Open(k)
                    /\ k.turn.sample # NoId => k.pairs[c] = 0
  BY DEF WellPaired
<1>0. c \in Calls BY StateIs DEF SessionInv, K
<1>1. k.pairs[c] = IF c \in Open(k) THEN 1 ELSE 0 BY <1>0 DEF SessionInv, K, Paired
<1>2. k.turn.sample # NoId => c \notin Open(k) BY DEF SessionInv, K, Sampling, Open
<1> QED BY <1>1, <1>2

(* Every call of the context has exactly one result whenever a request is  *)
(* built from it or no turn is left, and is open until then.               *)
THEOREM CallsPaired == Spec => []WellPaired
BY SessionInvariant, InvPaired, PTL

(* What the invariant says of approvals. *)
LEMMA InvApproved == SessionInv => Approved
<1> SUFFICES ASSUME SessionInv, NEW c \in RunningSlots PROVE LetThrough(Slot(k, c))
  BY DEF Approved
<1>1. c \in DOMAIN k.turn.slots /\ k.turn.slots[c].exec = "running" BY DEF RunningSlots, Slot
<1>2. SlotOK(k.turn.slots[c]) BY <1>1 DEF SessionInv, K, SlotsOK
<1> QED BY <1>1, <1>2 DEF SlotOK, Slot

(* A call runs only in a form the rules allow or somebody who may has      *)
(* approved.                                                               *)
THEOREM CallsApproved == Spec => []Approved
BY SessionInvariant, InvApproved, PTL

(* What the invariant says of repetition. *)
LEMMA InvOnce == SessionInv => NotRepeated
BY DEF SessionInv, NotRepeated

(* A call that must not be repeated is started at most once, whatever the  *)
(* interrupts, pauses and restarts.                                        *)
THEOREM CallsOnce == Spec => []NotRepeated
BY SessionInvariant, InvOnce, PTL

(* Turns nobody asked for stay within their budget. *)
ContinuationsBounded == k.continuations <= MaxContinuations

(* What the invariant says of continuations. *)
LEMMA InvBounded == SessionInv => ContinuationsBounded
BY DEF SessionInv, K, ContinuationsBounded

(* The continuation counter never exceeds its budget, over all turns.      *)
THEOREM ContinuationsAreBounded == Spec => []ContinuationsBounded
BY SessionInvariant, InvBounded, PTL

(***************************************************************************)
(* The checkpoint before a batch that may write. While the turn waits for  *)
(* it nothing else happens to the turn, so that the batch it was taken for *)
(* is the one that starts.                                                 *)
(***************************************************************************)
(* The fields of a turn and a state that only its hooks, checkpoints and   *)
(* replies change.                                                         *)
Rest(s, r) ==
  /\ r.restoring = s.restoring /\ r.session_gate = s.session_gate
  /\ r.turn.presample = s.turn.presample /\ r.turn.stop = s.turn.stop /\ r.turn.reply = s.turn.reply
  /\ r.turn.pre_ckpt = s.turn.pre_ckpt /\ r.turn.pre_ckpt_id = s.turn.pre_ckpt_id

(* Results change none of them. *)
LEMMA RestResults ==
  ASSUME NEW s \in StateType, NEW cs, NEW r, r = ToolsResulted(s, cs)
  PROVE  Rest(s, r)
BY DEF ToolsResulted, StateType, TurnType, Rest

(* To forget effects changes none of them. *)
LEMMA RestForget ==
  ASSUME NEW s \in StateType, NEW ids, NEW r, r = Forget(s, ids)
  PROVE  Rest(s, r)
BY DEF Forget, StateType, TurnType, Rest

(* A turn put aside keeps them. *)
LEMMA RestSuspend ==
  ASSUME NEW s \in StateType, NEW r, r = Suspend(s)
  PROVE  Rest(s, r) /\ r.turn.suspended /\ r.turn.soft = s.turn.soft
BY DEF Suspend, Finish, StateType, TurnType, Rest

(* A suspended turn that goes on keeps them. *)
LEMMA RestContinued ==
  ASSUME NEW s \in StateType, s.turn.suspended, NEW r, r = TurnStarted(s, "continuation")
  PROVE  Rest(s, r) /\ r.turn.soft = s.turn.soft
BY DEF TurnStarted, StateType, TurnType, Rest

(* A reply changes what the turn knows of replies only. *)
LEMMA RestReply ==
  ASSUME NEW s \in StateType, NEW calls \in SUBSET Calls, NEW interrupted \in BOOLEAN,
         NEW r, r = OnReply(s, calls, interrupted)
  PROVE  /\ r.restoring = s.restoring /\ r.session_gate = s.session_gate
         /\ r.turn.presample = s.turn.presample /\ r.turn.stop = s.turn.stop /\ r.turn.soft = s.turn.soft
         /\ r.turn.pre_ckpt = s.turn.pre_ckpt /\ r.turn.pre_ckpt_id = s.turn.pre_ckpt_id
BY DEF OnReply, StateType, TurnType

(* To settle an effect ends what waits for exactly that effect. *)
LEMMA RestSettle ==
  ASSUME NEW s \in StateType, NEW id, NEW r, r = Settle(s, id)
  PROVE  /\ r.restoring = (IF s.restoring = id THEN NoId ELSE s.restoring)
         /\ r.session_gate = s.session_gate
         /\ r.turn.presample = s.turn.presample /\ r.turn.stop = s.turn.stop /\ r.turn.reply = s.turn.reply
         /\ r.turn.pre_ckpt = (IF s.turn.pre_ckpt_id = id THEN "done" ELSE s.turn.pre_ckpt)
         /\ r.turn.pre_ckpt_id = (IF s.turn.pre_ckpt_id = id THEN NoId ELSE s.turn.pre_ckpt_id)
BY ZenonT(60) DEF Settle, Forget, StateType, TurnType

(* To note who is asked changes none of them. *)
LEMMA RestAsked ==
  ASSUME NEW s \in StateType, NEW id, NEW cs, NEW r, r = Asked(s, id, cs)
  PROVE  Rest(s, r)
BY DEF Asked, StateType, Rest

(* To number an effect changes none of them. *)
LEMMA RestNumbered ==
  ASSUME NEW s \in StateType, NEW e, NEW r, r = Numbered(s, e)
  PROVE  Rest(s, r)
BY DEF Numbered, StateType, Rest

PreSample(e) == e.kind \in {"hook", "human"} /\ e.point = "PreSample"

(* To issue an effect that starts no call marks what waits for it. *)
LEMMA RestInert ==
  ASSUME NEW s \in StateType, NEW e \in EffectType, Inert(e), NEW r, r = Issue(s, e)
  PROVE  /\ r.restoring = (IF e.kind = "restore" THEN s.n ELSE s.restoring)
         /\ r.session_gate = (IF e.kind = "hook" /\ e.point = "SessionStart" THEN "waiting" ELSE s.session_gate)
         /\ r.turn.presample = (IF PreSample(e) THEN "waiting" ELSE s.turn.presample)
         /\ r.turn.stop = (IF e.kind = "hook" /\ e.point = "Stop" THEN "waiting" ELSE s.turn.stop)
         /\ r.turn.reply = s.turn.reply
         /\ r.turn.pre_ckpt = (IF e.kind = "checkpoint" /\ e.point # "safe_point" THEN "pending" ELSE s.turn.pre_ckpt)
         /\ r.turn.pre_ckpt_id = (IF e.kind = "checkpoint" /\ e.point # "safe_point" THEN s.n ELSE s.turn.pre_ckpt_id)
<1> DEFINE m == Numbered(s, e)
           id == s.n
<1>1. m \in StateType /\ m.turn = s.turn BY NumberedIs
<1>2. Rest(s, m) BY RestNumbered
<1>3. r = OnIssued(m, id, e) BY IssueIs
<1> HIDE DEF m, id
<1>4. CASE e.kind = "restore" BY <1>1, <1>2, <1>3, <1>4, ZenonT(60) DEF OnIssued, StateType, Rest, PreSample, id
<1>5. CASE e.kind = "checkpoint"
  BY <1>1, <1>2, <1>3, <1>5 DEF OnIssued, OnCheckpoint, StateType, TurnType, Rest, PreSample, id
<1>6. CASE e.kind = "hook" /\ e.point \in {"SessionStart", "UserSubmit", "Stop"}
  BY <1>1, <1>2, <1>3, <1>6 DEF OnIssued, OnGate, StateType, TurnType, Rest, PreSample
<1>7. CASE PreSample(e)
  <2> DEFINE t == [m EXCEPT !.turn.presample = "waiting"]
  <2>1. r = Asked(t, id, {NoId}) BY <1>3, <1>7 DEF OnIssued, OnGate, PreSample
  <2>2. t \in StateType BY <1>1, ZenonT(60) DEF StateType, TurnType, Waits
  <2>3. /\ t.restoring = m.restoring /\ t.session_gate = m.session_gate
        /\ t.turn.presample = "waiting" /\ t.turn.stop = m.turn.stop /\ t.turn.reply = m.turn.reply
        /\ t.turn.pre_ckpt = m.turn.pre_ckpt /\ t.turn.pre_ckpt_id = m.turn.pre_ckpt_id
    BY <1>1 DEF StateType, TurnType
  <2> HIDE DEF t
  <2>4. Rest(t, r) BY <2>1, <2>2, RestAsked
  <2> QED BY <1>2, <1>7, <2>3, <2>4 DEF Rest, PreSample
<1> QED BY <1>4, <1>5, <1>6, <1>7 DEF Inert, PreSample

(* A request. *)
LEMMA RestSample ==
  ASSUME NEW s \in StateType, NEW r, r = Issue(s, Sample)
  PROVE  r.turn.pre_ckpt = "none" /\ r.turn.pre_ckpt_id = NoId
<1> DEFINE m == Numbered(s, Sample)
           id == s.n
<1>1. Sample \in EffectType BY IssueSample
<1>2. m \in StateType BY <1>1, NumberedIs
<1>3. r = OnIssued(m, id, Sample) BY IssueIs
<1> DEFINE t == [m.turn EXCEPT !.sample = id, !.reply = "none", !.slots = <<>>,
                               !.presample = "none", !.stop = "none", !.sp_ckpt = FALSE,
                               !.pre_ckpt = "none", !.pre_ckpt_id = NoId, !.executed_step = FALSE]
<1> HIDE DEF m, id
<1>4. r = [m EXCEPT !.turn = t] BY <1>3 DEF OnIssued, OnSample, Sample, Effect
<1>5. t.pre_ckpt = "none" /\ t.pre_ckpt_id = NoId BY <1>2, StateIs DEF TurnType
<1> HIDE DEF t
<1> QED BY <1>2, <1>4, <1>5 DEF StateType

(* The start of a batch uses up its checkpoint. *)
LEMMA RestExecute ==
  ASSUME NEW s \in StateType, NEW cs \in SUBSET Calls, NEW r, r = Issue(s, Execute(cs))
  PROVE  /\ r.restoring = s.restoring /\ r.session_gate = s.session_gate
         /\ r.turn.presample = s.turn.presample /\ r.turn.stop = s.turn.stop /\ r.turn.reply = s.turn.reply
         /\ r.turn.pre_ckpt = "none" /\ r.turn.pre_ckpt_id = NoId
<1> DEFINE e == Execute(cs)
           m == Numbered(s, e)
           id == s.n
<1>1. e \in EffectType BY IssueExecute
<1>2. m \in StateType /\ m.turn = s.turn BY <1>1, NumberedIs
<1>3. Rest(s, m) BY RestNumbered
<1>4. e.kind = "execute" BY DEF Execute, Effect
<1>5. r = OnIssued(m, id, e) BY IssueIs
<1> HIDE DEF m, id, e
<1>6. r = OnExecute(m, e) BY <1>4, <1>5 DEF OnIssued
<1> DEFINE slots == Over([c \in e.calls |-> Started(m.turn.slots, c)], m.turn.slots)
           t == [m.turn EXCEPT !.pre_ckpt = "none", !.pre_ckpt_id = NoId,
                               !.executed_step = TRUE, !.slots = slots]
<1>7. r = [m EXCEPT !.turn = t] BY <1>6 DEF OnExecute, Started
<1> HIDE DEF slots
<1>8. /\ t.presample = m.turn.presample /\ t.stop = m.turn.stop /\ t.reply = m.turn.reply
      /\ t.pre_ckpt = "none" /\ t.pre_ckpt_id = NoId
  BY <1>2, StateIs DEF TurnType
<1> HIDE DEF t
<1> QED BY <1>2, <1>3, <1>7, <1>8 DEF StateType, Rest

(* To ask a hook or a human about calls changes none of them. *)
LEMMA RestCallGate ==
  ASSUME NEW s \in StateType, NEW c \in DOMAIN s.turn.slots, NEW e, CallGate(e, c),
         NEW r, r = Issue(s, e)
  PROVE  Rest(s, r) /\ (e.kind = "hook" \/ e.kind = "human") /\ e.point \in {"PreTool", "PostTool"}
<1> DEFINE m == Numbered(s, e)
           id == s.n
<1>1. e \in EffectType /\ e.calls = {c} BY IssueCallGate
<1>2. m \in StateType /\ m.turn = s.turn BY <1>1, NumberedIs
<1>3. Rest(s, m) BY RestNumbered
<1>4. \/ e.kind = "hook" /\ e.point = "PreTool"
      \/ e.kind = "human" /\ e.point = "PreTool"
      \/ e.kind = "hook" /\ e.point = "PostTool"
  BY DEF CallGate, Hook, Human, Effect
<1>5. r = OnIssued(m, id, e) BY IssueIs
<1> HIDE DEF m, id
<1>6. CASE e.point = "PostTool"
  <2>1. r = Posting(m, id, {c}) BY <1>1, <1>4, <1>5, <1>6 DEF OnIssued, OnGate
  <2>2. Rest(m, r) BY <1>2, <2>1 DEF Posting, StateType, TurnType, Rest
  <2> QED BY <1>3, <1>4, <2>2 DEF Rest
<1>7. CASE e.kind = "hook" /\ e.point = "PreTool"
  <2>1. r = Awaiting(m, {c}, "await_hook") BY <1>1, <1>5, <1>7 DEF OnIssued, OnGate
  <2>2. Rest(m, r) BY <1>2, <2>1 DEF Awaiting, StateType, TurnType, Rest
  <2> QED BY <1>3, <1>4, <2>2 DEF Rest
<1>8. CASE e.kind = "human" /\ e.point = "PreTool"
  <2> DEFINE a == Awaiting(m, {c}, "await_human")
  <2>1. r = Asked(a, id, {c}) BY <1>1, <1>5, <1>8 DEF OnIssued, OnGate
  <2>2. Rest(m, a) BY <1>2 DEF Awaiting, StateType, TurnType, Rest
  <2>3. a \in StateType
    <3>1. "await_human" \in Gatings BY DEF Gatings
    <3> QED BY <1>2, <3>1, AwaitingIs
  <2> HIDE DEF a
  <2>4. Rest(a, r) BY <2>1, <2>3, RestAsked
  <2> QED BY <1>3, <1>4, <2>2, <2>4 DEF Rest
<1> QED BY <1>4, <1>6, <1>7, <1>8

(* The guards of Step under which it runs a batch, and that batch. *)
ToGate(s) == {c \in Open(s) : Slot(s, c).gate \in {"unchecked", "need_hook", "need_human", "closed"}}
Ready(s)  == {c \in Open(s) : Slot(s, c).gate = "permitted" /\ Slot(s, c).exec = "idle"}
Batch(s)  == NextBatch(s, Ready(s))
Asking(s) == "waiting" \in {s.turn.submit, s.turn.presample, s.turn.stop, s.session_gate}
Cleared(s) == /\ s.restoring = NoId /\ ~s.turn.suspended /\ s.turn.cause # "none"
             /\ ~s.turn.soft /\ s.turn.reply # "interrupted"
             /\ ToGate(s) = {} /\ s.turn.sample = NoId /\ ~Asking(s)
             /\ ~GateIn(s, {"deferred"}) /\ ~AwaitsVerdict(s)
AtBatch(s) == Cleared(s) /\ Ready(s) # {} /\ ~Running(s)

(* An execution or the hook after it: the calls it concerns are busy. *)
Working(e) == e.kind = "execute" \/ (e.kind \in {"hook", "human"} /\ e.point = "PostTool")
Works(s, e) ==
  \A c \in e.calls \cap DOMAIN s.turn.slots : s.turn.slots[c].result \/ Busy(s.turn.slots[c])
Occupied(s) == \A id \in DOMAIN s.issued : Working(s.issued[id]) => Works(s, s.issued[id])

(* While a request is judged nothing of the turn is open. *)
Presampling(s) ==
  \A id \in DOMAIN s.issued : PreSample(s.issued[id]) =>
    /\ Open(s) = {} /\ s.turn.sample = NoId /\ s.turn.presample = "waiting" /\ ~s.turn.suspended
    /\ \A j \in DOMAIN s.issued : PreSample(s.issued[j]) => j = id

(* The turn waits for no checkpoint, or is being interrupted. *)
Free(s) == s.turn.soft \/ s.turn.pre_ckpt = "none"

(* Else it waits for the checkpoint of exactly the batch that is next, or  *)
(* has that of X.                                                          *)
Waiting(s, X) ==
  /\ s.turn.pre_ckpt = "pending" <=> s.turn.pre_ckpt_id # NoId
  /\ \/ Free(s)
     \/ AtBatch(s) /\ \/ /\ s.turn.pre_ckpt = "pending"
                         /\ s.turn.pre_ckpt_id \in DOMAIN s.issued
                         /\ s.issued[s.turn.pre_ckpt_id] = Checkpoint("batch", Batch(s))
                      \/ s.turn.pre_ckpt = "done" /\ Batch(s) \in X

J(s, X) == Occupied(s) /\ Presampling(s) /\ Waiting(s, X)

PreSampled(s) == \E id \in DOMAIN s.issued : PreSample(s.issued[id])

(* A turn that begins waits for nothing. *)
LEMMA JNew ==
  ASSUME NEW r, NEW cause \in {"none", "user", "queued", "wake"}, r.turn = NewTurn(cause), ~PreSampled(r),
         NEW X
  PROVE  J(r, X) /\ Free(r)
<1>1. DOMAIN r.turn.slots = {} /\ r.turn.pre_ckpt = "none" /\ r.turn.pre_ckpt_id = NoId
  BY EmptyMaps DEF NewTurn
<1> QED BY <1>1 DEF J, Occupied, Works, Presampling, Waiting, Free, PreSampled

(* What happens to the slots as they get on. *)
Eased(s, r) ==
  /\ DOMAIN r.turn.slots = DOMAIN s.turn.slots
  /\ \A c \in DOMAIN s.turn.slots :
       /\ r.turn.slots[c].in_reply = s.turn.slots[c].in_reply
       /\ s.turn.slots[c].result => r.turn.slots[c].result
       /\ Busy(s.turn.slots[c]) => r.turn.slots[c].result \/ Busy(r.turn.slots[c])

(* What is issued was issued before, or is harmless. *)
Mildly(s, r) ==
  \A id \in DOMAIN r.issued :
    \/ id \in DOMAIN s.issued /\ r.issued[id] = s.issued[id]
    \/ ~PreSample(r.issued[id]) /\ (Working(r.issued[id]) => Works(r, r.issued[id]))

(* A turn that waits for no checkpoint goes on. *)
LEMMA JKeep ==
  ASSUME NEW s, NEW X, J(s, X), Free(s), NEW r, Eased(s, r), Mildly(s, r),
         r.turn.soft = s.turn.soft, r.turn.pre_ckpt = s.turn.pre_ckpt,
         r.turn.pre_ckpt_id = s.turn.pre_ckpt_id,
         \/ ~PreSampled(s)
         \/ /\ r.turn.presample = s.turn.presample /\ r.turn.sample = s.turn.sample
            /\ r.turn.suspended = s.turn.suspended,
         NEW Y
  PROVE  J(r, Y) /\ Free(r)
<1>1. Open(r) \subseteq Open(s) BY DEF Open, Eased
<1>2. Occupied(r) BY DEF J, Occupied, Works, Eased, Mildly
<1>3. ASSUME NEW id \in DOMAIN r.issued, PreSample(r.issued[id])
      PROVE  id \in DOMAIN s.issued /\ PreSample(s.issued[id])
  BY <1>3 DEF Mildly
<1>4. Presampling(r)
  <2>1. SUFFICES ASSUME NEW id \in DOMAIN r.issued, PreSample(r.issued[id])
        PROVE  /\ Open(r) = {} /\ r.turn.sample = NoId /\ r.turn.presample = "waiting" /\ ~r.turn.suspended
               /\ \A j \in DOMAIN r.issued : PreSample(r.issued[j]) => j = id
    BY DEF Presampling
  <2>2. id \in DOMAIN s.issued /\ PreSample(s.issued[id]) /\ PreSampled(s) BY <1>3, <2>1 DEF PreSampled
  <2>3. /\ Open(s) = {} /\ s.turn.sample = NoId /\ s.turn.presample = "waiting" /\ ~s.turn.suspended
        /\ \A j \in DOMAIN s.issued : PreSample(s.issued[j]) => j = id
    BY <2>2 DEF J, Presampling
  <2>4. \A j \in DOMAIN r.issued : PreSample(r.issued[j]) => j = id BY <1>3, <2>3
  <2> QED BY <1>1, <2>2, <2>3, <2>4
<1>5. Free(r) BY DEF Free
<1> QED BY <1>2, <1>4, <1>5 DEF J, Waiting

(* Nothing but the books changes at the batch. *)
LEMMA JAt ==
  ASSUME NEW s, NEW X, J(s, X), AtBatch(s), NEW r,
         r.turn.slots = s.turn.slots, r.turn.cause = s.turn.cause, r.turn.suspended = s.turn.suspended,
         r.turn.sample = s.turn.sample, r.turn.soft = s.turn.soft, r.restoring = s.restoring,
         r.turn.reply # "interrupted", ~Asking(r)
  PROVE  AtBatch(r) /\ Batch(r) = Batch(s) /\ ~PreSampled(s)
<1>1. Open(r) = Open(s) BY DEF Open
<1>2. ToGate(r) = ToGate(s) /\ Ready(r) = Ready(s) BY <1>1 DEF ToGate, Ready, Slot
<1>3. GateIn(r, {"deferred"}) = GateIn(s, {"deferred"}) BY DEF GateIn, Slot
<1>4. AwaitsVerdict(r) = AwaitsVerdict(s) BY DEF AwaitsVerdict, GateIn, Slot
<1>5. Running(r) = Running(s) BY DEF Running
<1>6. AtBatch(r) BY <1>2, <1>3, <1>4, <1>5 DEF AtBatch, Cleared
<1>7. Batch(r) = Batch(s) BY <1>2 DEF Batch, NextBatch, Slot
<1>8. ~PreSampled(s)
  <2>1. Open(s) # {} BY DEF AtBatch, Ready
  <2> QED BY <2>1 DEF J, Presampling, PreSampled
<1> QED BY <1>6, <1>7, <1>8

(* What leaves the batch that is next alone leaves it waiting. *)
LEMMA JAtKeep ==
  ASSUME NEW s, NEW X, J(s, X), AtBatch(s), NEW r,
         r.turn.slots = s.turn.slots, r.turn.cause = s.turn.cause, r.turn.suspended = s.turn.suspended,
         r.turn.sample = s.turn.sample, r.turn.soft = s.turn.soft, r.restoring = s.restoring,
         r.turn.reply # "interrupted", ~Asking(r),
         r.turn.pre_ckpt = s.turn.pre_ckpt, r.turn.pre_ckpt_id = s.turn.pre_ckpt_id,
         \A id \in DOMAIN r.issued : id \in DOMAIN s.issued /\ r.issued[id] = s.issued[id],
         s.turn.pre_ckpt_id \in DOMAIN s.issued => s.turn.pre_ckpt_id \in DOMAIN r.issued
  PROVE  J(r, X)
<1>1. AtBatch(r) /\ Batch(r) = Batch(s) /\ ~PreSampled(s) BY JAt
<1>2. Occupied(r) BY DEF J, Occupied, Works
<1>3. Presampling(r) BY <1>1 DEF Presampling, PreSampled
<1>4. Waiting(r, X) BY <1>1 DEF J, Waiting, Free
<1> QED BY <1>2, <1>3, <1>4 DEF J

(* Nothing starts: what is issued is new and no execution, or was issued.  *)
StartsNone(s, r) ==
  /\ r.n >= s.n
  /\ \A id \in DOMAIN r.issued :
       \/ id \in DOMAIN s.issued /\ r.issued[id] = s.issued[id]
       \/ id >= s.n /\ r.issued[id].kind # "execute"

(* What starts nothing in two parts starts nothing. *)
LEMMA StartsNoneTrans ==
  ASSUME NEW s, NEW a, NEW r, s.n \in Nat, a.n \in Nat, r.n \in Nat, StartsNone(s, a), StartsNone(a, r),
         DOMAIN r.issued \subseteq Nat
  PROVE  StartsNone(s, r)
<1>1. r.n >= s.n BY DEF StartsNone
<1>2. ASSUME NEW id \in DOMAIN r.issued
      PROVE  \/ id \in DOMAIN s.issued /\ r.issued[id] = s.issued[id]
             \/ id >= s.n /\ r.issued[id].kind # "execute"
  <2>1. CASE id \in DOMAIN a.issued /\ r.issued[id] = a.issued[id] BY <2>1 DEF StartsNone
  <2>2. CASE id >= a.n /\ r.issued[id].kind # "execute"
    <3>1. id \in Nat /\ a.n >= s.n BY DEF StartsNone
    <3> QED BY <2>2, <3>1
  <2> QED BY <2>1, <2>2 DEF StartsNone
<1> QED BY <1>1, <1>2 DEF StartsNone

(* What is outstanding after an effect was issued. *)
LEMMA IssuedIs ==
  ASSUME NEW s \in StateType, NEW e \in EffectType, NEW r, Booked(s, r, e)
  PROVE  /\ r \in StateType /\ r.n = s.n + 1 /\ Adds(r.issued, s.issued, s.n, e)
         /\ (e.kind # "execute" => StartsNone(s, r))
<1>1. r \in StateType /\ r.n = s.n + 1 /\ s.n \in Nat BY StateIs DEF Booked
<1>2. Adds(r.issued, s.issued, s.n, e) BY OverOne DEF Booked
<1>3. e.kind # "execute" => StartsNone(s, r) BY <1>1, <1>2 DEF StartsNone, Adds
<1> QED BY <1>1, <1>2, <1>3

(* An effect is issued that judges no request. *)
LEMMA IssuedMildly ==
  ASSUME NEW s \in StateType, NEW e \in EffectType, NEW r, Booked(s, r, e), ~PreSample(e),
         Working(e) => Works(r, e)
  PROVE  Mildly(s, r)
<1>1. Adds(r.issued, s.issued, s.n, e) BY IssuedIs
<1> QED BY <1>1 DEF Adds, Mildly

(* The same effects are outstanding. *)
LEMMA StartsNoneSame ==
  ASSUME NEW s, NEW r, s.n \in Nat, r.n \in Nat, r.n >= s.n, r.issued = s.issued
  PROVE  StartsNone(s, r) /\ Mildly(s, r)
BY DEF StartsNone, Mildly

(* Effects are dropped. *)
LEMMA StartsNoneDrop ==
  ASSUME NEW s, NEW r, s.n \in Nat, r.n \in Nat, r.n >= s.n, NEW D \in SUBSET DOMAIN s.issued,
         r.issued = Restrict(s.issued, D)
  PROVE  StartsNone(s, r) /\ Mildly(s, r)
BY RestrictIs DEF StartsNone, Mildly

(* An effect no call waits for is issued. *)
LEMMA JInert ==
  ASSUME NEW s \in StateType, NEW X, J(s, X), Free(s),
         NEW e \in EffectType, Inert(e), ~PreSample(e), e.kind = "checkpoint" => e.point = "safe_point",
         NEW r, r = Issue(s, e), NEW Y
  PROVE  J(r, Y) /\ Free(r) /\ StartsNone(s, r)
<1>1. Booked(s, r, e) /\ SameTurn(s, r) /\ r.turn.slots = s.turn.slots BY IssueInert
<1>2. /\ r.turn.presample = s.turn.presample /\ r.turn.pre_ckpt = s.turn.pre_ckpt
      /\ r.turn.pre_ckpt_id = s.turn.pre_ckpt_id
  BY RestInert
<1>3. e.kind # "execute" /\ ~Working(e) BY DEF Inert, Working
<1>4. Mildly(s, r) BY <1>1, <1>3, IssuedMildly
<1>5. Eased(s, r) BY <1>1 DEF Eased
<1>6. StartsNone(s, r) BY <1>1, <1>3, IssuedIs
<1>7. J(r, Y) /\ Free(r) BY <1>1, <1>2, <1>4, <1>5, JKeep DEF SameTurn
<1> QED BY <1>6, <1>7

(* The judgement of a request is asked for when nothing is open. *)
LEMMA JPreSample ==
  ASSUME NEW s \in StateType, NEW X, J(s, X), Free(s), ~PreSampled(s),
         Open(s) = {}, s.turn.sample = NoId, ~s.turn.suspended,
         NEW e \in EffectType, PreSample(e), NEW r, r = Issue(s, e), NEW Y
  PROVE  J(r, Y) /\ Free(r) /\ StartsNone(s, r)
<1>0. Inert(e) /\ ~Working(e) /\ e.kind # "execute" /\ e.kind # "checkpoint"
  BY EffectIs DEF Inert, PreSample, Working
<1>1. Booked(s, r, e) /\ SameTurn(s, r) /\ r.turn.slots = s.turn.slots BY <1>0, IssueInert
<1>2. /\ r.turn.presample = "waiting" /\ r.turn.pre_ckpt = s.turn.pre_ckpt
      /\ r.turn.pre_ckpt_id = s.turn.pre_ckpt_id
  BY <1>0, RestInert
<1>3. Adds(r.issued, s.issued, s.n, e) /\ StartsNone(s, r) BY <1>0, <1>1, IssuedIs
<1>4. Occupied(r) BY <1>0, <1>1, <1>3 DEF J, Occupied, Works, Adds
<1>5. Open(r) = {} BY <1>1 DEF Open
<1>6. \A id \in DOMAIN r.issued : PreSample(r.issued[id]) => id = s.n
  BY <1>3 DEF PreSampled, Adds
<1>7. Presampling(r) BY <1>1, <1>2, <1>5, <1>6 DEF Presampling, SameTurn
<1>8. Free(r) BY <1>1, <1>2 DEF Free, SameTurn
<1>9. Waiting(r, Y) BY <1>2, <1>8 DEF J, Waiting
<1> QED BY <1>3, <1>4, <1>7, <1>8, <1>9 DEF J

(* A question about one call, or the hook after it. *)
LEMMA JCallGate ==
  ASSUME NEW s \in StateType, NEW X, J(s, X), Free(s),
         NEW c \in DOMAIN s.turn.slots, NEW e, CallGate(e, c), NEW r, r = Issue(s, e), NEW Y
  PROVE  J(r, Y) /\ Free(r) /\ StartsNone(s, r) /\ Eased(s, r) /\ r.turn.soft = s.turn.soft
<1>1. /\ e \in EffectType /\ e.calls = {c} /\ e.kind \in {"hook", "human"}
      /\ Booked(s, r, e) /\ SameTurn(s, r)
      /\ r.turn.slots = [s.turn.slots EXCEPT ![c] = GateSlot(e, s.n, @)]
  BY IssueCallGate
<1>2. Rest(s, r) /\ e.point \in {"PreTool", "PostTool"} BY RestCallGate
<1>3. s.turn.slots[c] \in SlotType /\ s.n # NoId BY StateIs, InSlotMap DEF NoId
<1> DEFINE x == GateSlot(e, s.n, s.turn.slots[c])
<1>4. /\ x.in_reply = s.turn.slots[c].in_reply /\ x.result = s.turn.slots[c].result
      /\ Busy(s.turn.slots[c]) => Busy(x)
      /\ e.point = "PostTool" => Busy(x)
  BY <1>3 DEF GateSlot, Post, Gate, Busy, SlotType
<1> HIDE DEF x
<1>5. /\ DOMAIN r.turn.slots = DOMAIN s.turn.slots /\ r.turn.slots[c] = x
      /\ \A d \in DOMAIN s.turn.slots : d # c => r.turn.slots[d] = s.turn.slots[d]
  BY <1>1 DEF x
<1>6. Eased(s, r) BY <1>4, <1>5 DEF Eased
<1>7. Working(e) => Works(r, e) BY <1>1, <1>2, <1>4, <1>5 DEF Working, Works
<1>8. ~PreSample(e) /\ e.kind # "execute" BY <1>1, <1>2 DEF PreSample
<1>9. Mildly(s, r) BY <1>1, <1>7, <1>8, IssuedMildly
<1>10. StartsNone(s, r) BY <1>1, <1>8, IssuedIs
<1>11. J(r, Y) /\ Free(r) BY <1>1, <1>2, <1>6, <1>9, JKeep DEF SameTurn, Rest
<1> QED BY <1>1, <1>6, <1>10, <1>11 DEF SameTurn

(* Results are written. *)
LEMMA JResults ==
  ASSUME NEW s \in StateType, NEW X, J(s, X), Free(s),
         NEW cs, NEW r, r = ToolsResulted(s, cs), NEW Y
  PROVE  J(r, Y) /\ Free(r) /\ StartsNone(s, r)
<1>1. /\ r \in StateType /\ r.n = s.n /\ r.issued = s.issued /\ SameTurn(s, r)
      /\ r.turn.slots = ClosedSlots(s.turn.slots, cs)
  BY ToolsResultedIs
<1>2. Rest(s, r) BY RestResults
<1>3. Eased(s, r)
  <2>1. \A c \in DOMAIN s.turn.slots : s.turn.slots[c] \in SlotType BY StateIs, InSlotMap
  <2>2. \A c \in DOMAIN s.turn.slots :
          LET x == Resulted(s.turn.slots[c])
          IN x.result /\ x.in_reply = s.turn.slots[c].in_reply
    BY <2>1, ResultedIs
  <2> QED BY <1>1, <2>2 DEF Eased, ClosedSlots
<1>4. StartsNone(s, r) /\ Mildly(s, r) BY <1>1, StateIs, StartsNoneSame
<1>5. J(r, Y) /\ Free(r) BY <1>1, <1>2, <1>3, <1>4, JKeep DEF SameTurn, Rest
<1> QED BY <1>4, <1>5

(* One slot changes, and not whether it is busy. *)
LEMMA JSlot ==
  ASSUME NEW s \in StateType, NEW X, J(s, X), Free(s),
         NEW c \in DOMAIN s.turn.slots, NEW x, SameRun(s.turn.slots[c], x),
         NEW r \in StateType, Books(s, r), SameTurn(s, r), Rest(s, r),
         r.turn.slots = [s.turn.slots EXCEPT ![c] = x], NEW Y
  PROVE  J(r, Y) /\ Free(r) /\ StartsNone(s, r)
<1>1. Eased(s, r) BY DEF Eased, SameRun, Busy
<1>2. StartsNone(s, r) /\ Mildly(s, r) BY StateIs, StartsNoneSame DEF Books
<1>3. J(r, Y) /\ Free(r) BY <1>1, <1>2, JKeep DEF SameTurn, Rest
<1> QED BY <1>2, <1>3

(* A turn ends. *)
LEMMA JEndTurn ==
  ASSUME NEW s \in StateType, NEW o \in Outcomes, NEW r, r = EndTurn(s, o), NEW Y
  PROVE  J(r, Y) /\ Free(r) /\ StartsNone(s, r)
<1>1. /\ r \in StateType /\ r.n = s.n + 1 /\ r.issued = Restrict(s.issued, Survives(s.issued))
      /\ r.turn = NewTurn("none")
  BY EndTurnIs
<1>2. s.n \in Nat BY StateIs
<1>3. DOMAIN r.issued = Survives(s.issued) /\ \A id \in DOMAIN r.issued : r.issued[id] = s.issued[id]
  BY <1>1, RestrictIs
<1>4. ~PreSampled(r) BY <1>3 DEF PreSampled, PreSample, Survives
<1>5. J(r, Y) /\ Free(r) BY <1>1, <1>4, JNew
<1>6. Survives(s.issued) \in SUBSET DOMAIN s.issued /\ r.n >= s.n /\ r.n \in Nat BY <1>1, <1>2 DEF Survives
<1>7. StartsNone(s, r) BY <1>1, <1>2, <1>6, StartsNoneDrop
<1> QED BY <1>5, <1>7

(* A turn starts, with no request being judged. *)
LEMMA JStart ==
  ASSUME NEW s \in StateType, ~PreSampled(s), NEW cause \in Causes, NEW r, r = TurnStarted(s, cause), NEW Y
  PROVE  J(r, Y) /\ Free(r) /\ StartsNone(s, r)
<1>1. r \in StateType /\ r.n = s.n /\ r.issued = s.issued /\ r.turn = NewTurn(cause) BY TurnStartedIs
<1>2. ~PreSampled(r) BY <1>1 DEF PreSampled
<1>3. J(r, Y) /\ Free(r) BY <1>1, <1>2, JNew DEF Causes
<1>4. StartsNone(s, r) BY <1>1, StateIs, StartsNoneSame
<1> QED BY <1>3, <1>4

(* A turn is put aside. *)
LEMMA JSuspend ==
  ASSUME NEW s \in StateType, NEW X, J(s, X), Free(s), ~PreSampled(s), NEW r, r = Suspend(s), NEW Y
  PROVE  J(r, Y) /\ Free(r) /\ StartsNone(s, r)
<1> DEFINE a == [s EXCEPT !.turn.suspended = TRUE]
<1>1. a \in StateType /\ a.n = s.n /\ a.issued = s.issued /\ a.turn.slots = s.turn.slots
  BY DEF StateType, TurnType
<1>2. r = Finish(a, "suspended") /\ "suspended" \in Outcomes BY DEF Suspend, Outcomes
<1> HIDE DEF a
<1>3. r \in StateType /\ r.n = s.n + 1 /\ r.issued = s.issued /\ r.turn.slots = s.turn.slots
  BY <1>1, <1>2, FinishIs
<1>4. Rest(s, r) /\ r.turn.soft = s.turn.soft BY RestSuspend
<1>5. Eased(s, r) BY <1>3 DEF Eased
<1>6. StartsNone(s, r) /\ Mildly(s, r) BY <1>3, StateIs, StartsNoneSame
<1>7. J(r, Y) /\ Free(r) BY <1>4, <1>5, <1>6, JKeep DEF Rest
<1> QED BY <1>6, <1>7

(* To replace the slots changes none of them. *)
LEMMA RestPut ==
  ASSUME NEW s \in StateType, NEW f, NEW r, r = PutSlots(s, f)
  PROVE  Rest(s, r)
BY DEF PutSlots, StateType, TurnType, Rest

(* There is nobody to ask. *)
LEMMA RestAskNobody ==
  ASSUME NEW s \in StateType, NEW c, NEW r, r = AskNobody(s, c)
  PROVE  Rest(s, r)
BY DEF AskNobody, StateType, TurnType, Rest

(* While a call is open no request is judged. *)
LEMMA OpenUnsampled ==
  ASSUME NEW s, NEW X, J(s, X), Open(s) # {}
  PROVE  ~PreSampled(s)
BY DEF J, Presampling, PreSampled

(* The step at the human gate. *)
LEMMA JHumanGate ==
  ASSUME NEW s, NEW U, NEW F, NEW R, NEW M, NEW V, K(s, U, F, R, M, V), NEW X, J(s, X), Free(s),
         NEW c \in Open(s), s.turn.slots[c].gate = "need_human",
         NEW r, r = HumanGate(s, c), NEW Y
  PROVE  J(r, Y) /\ Free(r) /\ StartsNone(s, r)
<1> DEFINE sl == s.turn.slots[c]
           a == AskNobody(s, c)
           x == Gate(s.turn.slots[c], "await_nobody")
<1>1. /\ s \in StateType /\ c \in DOMAIN s.turn.slots /\ sl \in SlotType /\ Open(s) # {}
      /\ s.n \in Nat /\ SlotOK(sl)
  BY StateIs, InSlotMap DEF K, Open, SlotsOK
<1>2. ~PreSampled(s) BY <1>1, OpenUnsampled
<1>r. r \in StateType BY KHumanGate DEF K
<1>3. \/ /\ sl.asked = "invariant" /\ Attr[sl.call].sandboxed
         /\ r = [s EXCEPT !.turn.slots[c] = HumanVerdict(@, [tag |-> "allow", by |-> "env"])]
      \/ r = Suspend(a)
      \/ r = Issue(a, Human("PreTool", {c}, sl.asked))
  BY DEF HumanGate, Slot, AskNobody
<1>4. /\ a \in StateType /\ Books(s, a) /\ SameTurn(s, a)
      /\ a.turn.slots = [s.turn.slots EXCEPT ![c] = x]
  BY <1>1, AskNobodyIs
<1>5. Rest(s, a) BY <1>1, RestAskNobody
<1>6. SameRun(sl, x) BY <1>1 DEF SameRun, Gate, SlotType
<1>7. c \in DOMAIN a.turn.slots /\ sl.asked \in Levels BY <1>1, <1>4, SlotIs
<1> HIDE DEF a, x
<1>8. J(a, Y) /\ Free(a) /\ StartsNone(s, a) BY <1>1, <1>4, <1>5, <1>6, JSlot
<1>n. a.n \in Nat /\ r.n \in Nat /\ DOMAIN r.issued \subseteq Nat BY <1>4, <1>r, StateShape
<1>9. ~PreSampled(a) BY <1>2, <1>4 DEF PreSampled, Books
<1>10. CASE /\ sl.asked = "invariant" /\ Attr[sl.call].sandboxed
            /\ r = [s EXCEPT !.turn.slots[c] = HumanVerdict(@, [tag |-> "allow", by |-> "env"])]
  <2> DEFINE y == [sl EXCEPT !.gate = "permitted", !.approver = "env"]
  <2>1. r = PutSlots(s, [s.turn.slots EXCEPT ![c] = y]) BY <1>10 DEF PutSlots, HumanVerdict
  <2>2. y \in SlotType /\ SameRun(sl, y) BY <1>1 DEF SlotType, SameRun, Gatings
  <2> HIDE DEF y
  <2>3. /\ r \in StateType /\ Books(s, r) /\ SameTurn(s, r)
        /\ r.turn.slots = [s.turn.slots EXCEPT ![c] = y]
    BY <1>1, <2>1, <2>2, PutSlotIs
  <2>4. Rest(s, r) BY <1>1, <2>1, RestPut
  <2> QED BY <1>1, <2>2, <2>3, <2>4, JSlot
<1>11. CASE r = Suspend(a)
  <2>1. J(r, Y) /\ Free(r) /\ StartsNone(a, r) BY <1>4, <1>8, <1>9, <1>11, JSuspend
  <2> QED BY <1>1, <1>8, <1>n, <2>1, StartsNoneTrans
<1>12. CASE r = Issue(a, Human("PreTool", {c}, sl.asked))
  <2> DEFINE e == Human("PreTool", {c}, sl.asked)
  <2>1. CallGate(e, c) BY <1>7 DEF CallGate
  <2>2. r = Issue(a, e) BY <1>12
  <2> HIDE DEF e
  <2>3. J(r, Y) /\ Free(r) /\ StartsNone(a, r) BY <1>4, <1>7, <1>8, <2>1, <2>2, JCallGate
  <2> QED BY <1>1, <1>8, <1>n, <2>3, StartsNoneTrans
<1> QED BY <1>3, <1>10, <1>11, <1>12

(* The step at any gate. *)
LEMMA JGateStep ==
  ASSUME NEW s, NEW U, NEW F, NEW R, NEW M, NEW V, K(s, U, F, R, M, V), NEW X, J(s, X), Free(s),
         NEW c \in Open(s),
         s.turn.slots[c].gate \in {"unchecked", "need_hook", "need_human", "closed"},
         NEW r, r = GateStep(s, c), NEW Y
  PROVE  J(r, Y) /\ Free(r) /\ StartsNone(s, r)
<1> DEFINE sl == s.turn.slots[c]
<1>1. /\ s \in StateType /\ c \in DOMAIN s.turn.slots /\ sl \in SlotType /\ SlotOK(sl)
  BY StateIs, InSlotMap DEF K, Open, SlotsOK
<1>2. CASE sl.gate = "unchecked"
  <2> DEFINE v == Evaluate(s, sl)
             x == RingsVerdict(sl, v)
  <2>1. r = PutSlots(s, [s.turn.slots EXCEPT ![c] = x])
    BY <1>2 DEF GateStep, Slot, PutSlots
  <2>3. v \in {"deny", Rings(sl)} BY EvaluateIs
  <2>x. x = RingsVerdict(sl, v) /\ sl = s.turn.slots[c] OBVIOUS
  <2> HIDE DEF v, x, sl
  <2>4. x \in SlotType /\ SameRun(sl, x) BY <1>1, <1>2, <2>3, <2>x, RingsVerdictOK
  <2>5. /\ r \in StateType /\ Books(s, r) /\ SameTurn(s, r)
        /\ r.turn.slots = [s.turn.slots EXCEPT ![c] = x]
    BY <1>1, <2>1, <2>4, PutSlotIs
  <2>6. Rest(s, r) BY <1>1, <2>1, RestPut
  <2> QED BY <1>1, <2>x, <2>4, <2>5, <2>6, JSlot
<1>3. CASE sl.gate = "need_hook"
  <2> DEFINE e == Hook("PreTool", {c})
  <2>1. r = Issue(s, e) BY <1>3 DEF GateStep, Slot
  <2>2. CallGate(e, c) BY DEF CallGate
  <2> HIDE DEF e
  <2> QED BY <1>1, <2>1, <2>2, JCallGate
<1>4. CASE sl.gate = "need_human"
  <2>1. r = HumanGate(s, c) BY <1>4 DEF GateStep, Slot
  <2> QED BY <1>4, <2>1, JHumanGate
<1>5. CASE sl.gate = "closed"
  <2>1. r = ToolsResulted(s, {c}) BY <1>5 DEF GateStep, Slot, ToolResulted
  <2> QED BY <1>1, <2>1, JResults
<1> QED BY <1>2, <1>3, <1>4, <1>5

(* Nothing happens. *)
LEMMA StartsNoneRefl ==
  ASSUME NEW s \in StateType
  PROVE  StartsNone(s, s)
BY StateIs, StartsNoneSame

(* A free turn stays so whatever batches have their checkpoint. *)
LEMMA JFree ==
  ASSUME NEW s, NEW X, J(s, X), Free(s), NEW Y
  PROVE  J(s, Y)
BY DEF J, Waiting

(* An interrupted turn winds down. *)
LEMMA JWindDown ==
  ASSUME NEW s \in StateType, NEW X, J(s, X), Free(s), NEW r, r = WindDown(s), NEW Y
  PROVE  J(r, Y) /\ Free(r) /\ StartsNone(s, r)
<1>1. \/ \E c : r = ToolsResulted(s, {c})
      \/ r = s
      \/ r = EndTurn(s, "interrupted") /\ "interrupted" \in Outcomes
  BY DEF WindDown, ToolResulted, Outcomes
<1>2. CASE \E c : r = ToolsResulted(s, {c}) BY <1>2, JResults
<1>3. CASE r = s BY <1>3, StartsNoneRefl, JFree
<1>4. CASE r = EndTurn(s, "interrupted") /\ "interrupted" \in Outcomes BY <1>4, JEndTurn
<1> QED BY <1>1, <1>2, <1>3, <1>4

(* The step at the end of a reply. *)
LEMMA JStop ==
  ASSUME NEW s \in StateType, NEW X, J(s, X), Free(s), NEW r, r = StopStep(s), NEW Y
  PROVE  J(r, Y) /\ Free(r) /\ StartsNone(s, r)
<1>1. \/ r = s
      \/ r = Issue(s, Hook("Stop", {}))
      \/ r = EndTurn(s, "done")
  BY DEF StopStep
<1>2. CASE r = Issue(s, Hook("Stop", {}))
  <2> DEFINE e == Hook("Stop", {})
  <2>1. e \in EffectType /\ e.kind = "hook" /\ e.point = "Stop" /\ Inert(e) BY TurnHookIs
  <2>2. ~PreSample(e) /\ e.kind # "checkpoint" BY <2>1 DEF PreSample
  <2>3. r = Issue(s, e) BY <1>2
  <2> HIDE DEF e
  <2> QED BY <2>1, <2>2, <2>3, JInert
<1>3. CASE r = EndTurn(s, "done")
  <2>1. "done" \in Outcomes BY DEF Outcomes
  <2> QED BY <1>3, <2>1, JEndTurn
<1>4. CASE r = s BY <1>4, StartsNoneRefl, JFree
<1> QED BY <1>1, <1>2, <1>3, <1>4

(* A request is judged only while the turn waits for it. *)
LEMMA AskingUnsampled ==
  ASSUME NEW s, NEW X, J(s, X), ~Asking(s)
  PROVE  ~PreSampled(s)
BY DEF J, Presampling, PreSampled, Asking

(* A hook of the turn, or a safe point's checkpoint. *)
LEMMA TurnHookInert ==
  ASSUME NEW point \in {"SessionStart", "UserSubmit", "PreSample", "Stop"},
         NEW e, e = Hook(point, {})
  PROVE  /\ e \in EffectType /\ Inert(e) /\ e.kind # "checkpoint"
         /\ (PreSample(e) <=> point = "PreSample")
BY TurnHookIs DEF PreSample

(* The slots go when the model is asked. *)
LEMMA JSample ==
  ASSUME NEW s \in StateType, NEW X, J(s, X), ~PreSampled(s), NEW r, r = Issue(s, Sample), NEW Y
  PROVE  J(r, Y) /\ Free(r) /\ StartsNone(s, r)
<1>1. /\ Sample \in EffectType /\ Booked(s, r, Sample) /\ r.turn.slots = <<>>
  BY IssueSample
<1>2. r.turn.pre_ckpt = "none" /\ r.turn.pre_ckpt_id = NoId BY RestSample
<1>3. Sample.kind = "sample" BY DEF Sample, Effect
<1>4. Adds(r.issued, s.issued, s.n, Sample) /\ StartsNone(s, r) BY <1>1, <1>3, IssuedIs
<1>5. DOMAIN r.turn.slots = {} BY <1>1, EmptyMaps
<1>6. Occupied(r) BY <1>5 DEF Occupied, Works
<1>7. ~PreSampled(r) BY <1>3, <1>4 DEF PreSampled, PreSample, Adds
<1>8. Presampling(r) BY <1>7 DEF Presampling, PreSampled
<1>9. Free(r) /\ Waiting(r, Y) BY <1>2 DEF Free, Waiting
<1> QED BY <1>4, <1>6, <1>8, <1>9 DEF J

(* The steps that lead to a sample. *)
LEMMA JPrepare ==
  ASSUME NEW s \in StateType, NEW X, J(s, X), Free(s), ~PreSampled(s),
         Open(s) = {}, s.turn.sample = NoId, ~s.turn.suspended,
         NEW r \in StateType, r = PrepareAndSample(s), NEW Y
  PROVE  J(r, Y) /\ StartsNone(s, r)
<1> DEFINE d == [s EXCEPT !.mailbox = {}]
           e == Checkpoint("safe_point", {})
           p == IF s.turn.executed_step /\ ~s.turn.sp_ckpt THEN Issue(d, e) ELSE d
<1>1. \/ r = Issue(s, Hook("SessionStart", {}))
      \/ r = Issue(s, Hook("UserSubmit", {}))
      \/ r = EndTurn(p, "budget")
      \/ r = Issue(p, Hook("PreSample", {}))
      \/ r = Issue(p, Sample)
  BY DEF PrepareAndSample
<1>2. s.n \in Nat /\ r.n \in Nat /\ DOMAIN r.issued \subseteq Nat BY StateShape
<1>3. /\ d \in StateType /\ d.turn = s.turn /\ Books(s, d) /\ d.restoring = s.restoring
      /\ d.session_gate = s.session_gate
  BY DEF StateType, Books
<1>p. p = d \/ p = Issue(d, e) OBVIOUS
<1>e. e = Checkpoint("safe_point", {}) OBVIOUS
<1> HIDE DEF d, e, p
<1>4. J(d, Y) /\ Free(d) /\ StartsNone(s, d)
  <2>1. Eased(s, d) BY <1>3 DEF Eased
  <2>2. StartsNone(s, d) /\ Mildly(s, d) BY <1>2, <1>3, StartsNoneSame DEF Books
  <2>3. /\ d.turn.soft = s.turn.soft /\ d.turn.pre_ckpt = s.turn.pre_ckpt
        /\ d.turn.pre_ckpt_id = s.turn.pre_ckpt_id
    BY <1>3
  <2> QED BY <2>1, <2>2, <2>3, JKeep
<1>5. ~PreSampled(d) /\ Open(d) = {} /\ d.turn.sample = NoId /\ ~d.turn.suspended
  BY <1>3 DEF PreSampled, Books, Open
<1>6. /\ e \in EffectType /\ Inert(e) /\ ~PreSample(e) /\ e.kind = "checkpoint" /\ e.point = "safe_point"
  <2>1. {} \in SUBSET Calls /\ "safe_point" \in {"batch", "safe_point"} OBVIOUS
  <2>2. e.point = "safe_point" BY <1>e DEF Checkpoint, Effect
  <2>3. e \in EffectType /\ Inert(e) /\ e.kind = "checkpoint" BY <1>e, <2>1, CheckpointIs
  <2> QED BY <2>2, <2>3 DEF PreSample
<1>7. /\ p \in StateType /\ J(p, Y) /\ Free(p) /\ StartsNone(s, p) /\ ~PreSampled(p)
      /\ Open(p) = {} /\ p.turn.sample = NoId /\ ~p.turn.suspended
  <2>1. CASE p = d BY <1>3, <1>4, <1>5, <2>1
  <2>2. CASE p = Issue(d, e)
    <3>1. J(p, Y) /\ Free(p) /\ StartsNone(d, p) BY <1>3, <1>4, <1>6, <2>2, JInert
    <3>2. Booked(d, p, e) /\ SameTurn(d, p) /\ p.turn.slots = d.turn.slots
      BY <1>3, <1>6, <2>2, IssueInert
    <3>3. p \in StateType /\ Adds(p.issued, d.issued, d.n, e) BY <1>3, <1>6, <3>2, IssuedIs
    <3>4. d.n \in Nat /\ p.n \in Nat /\ DOMAIN p.issued \subseteq Nat BY <1>3, <3>3, StateShape
    <3>5. StartsNone(s, p) BY <1>2, <1>4, <3>1, <3>4, StartsNoneTrans
    <3>6. ~PreSampled(p) BY <1>5, <1>6, <3>3 DEF PreSampled, Adds
    <3>7. Open(p) = {} /\ p.turn.sample = NoId /\ ~p.turn.suspended BY <1>5, <3>2 DEF Open, SameTurn
    <3> QED BY <3>1, <3>3, <3>5, <3>6, <3>7
  <2> QED BY <1>p, <2>1, <2>2
<1>8. ASSUME NEW point \in {"SessionStart", "UserSubmit"}, r = Issue(s, Hook(point, {}))
      PROVE  J(r, Y) /\ StartsNone(s, r)
  <2> DEFINE h == Hook(point, {})
  <2>1. point \in {"SessionStart", "UserSubmit", "PreSample", "Stop"} /\ point # "PreSample" OBVIOUS
  <2>2. h \in EffectType /\ Inert(h) /\ h.kind # "checkpoint" /\ ~PreSample(h) BY <2>1, TurnHookInert
  <2>3. r = Issue(s, h) BY <1>8
  <2> HIDE DEF h
  <2> QED BY <2>2, <2>3, JInert
<1>n. p.n \in Nat BY <1>7, StateShape
<1>10. CASE r = EndTurn(p, "budget")
  <2>1. "budget" \in Outcomes BY DEF Outcomes
  <2>2. J(r, Y) /\ StartsNone(p, r) BY <1>7, <1>10, <2>1, JEndTurn
  <2> QED BY <1>2, <1>7, <1>n, <2>2, StartsNoneTrans
<1>11. CASE r = Issue(p, Hook("PreSample", {}))
  <2> DEFINE h == Hook("PreSample", {})
  <2>1. h \in EffectType /\ PreSample(h) BY TurnHookInert
  <2>2. r = Issue(p, h) BY <1>11
  <2> HIDE DEF h
  <2>3. J(r, Y) /\ StartsNone(p, r) BY <1>7, <2>1, <2>2, JPreSample
  <2> QED BY <1>2, <1>7, <1>n, <2>3, StartsNoneTrans
<1>12. CASE r = Issue(p, Sample)
  <2>1. J(r, Y) /\ StartsNone(p, r) BY <1>7, <1>12, JSample
  <2> QED BY <1>2, <1>7, <1>n, <2>1, StartsNoneTrans
<1> QED BY <1>1, <1>8, <1>10, <1>11, <1>12

(* The step between turns. *)
LEMMA JIdle ==
  ASSUME NEW s, NEW U, NEW F, NEW R, NEW M, NEW V, K(s, U, F, R, M, V), s.turn.cause = "none",
         NEW X, J(s, X), Free(s), NEW r, r = IdleStep(s), NEW Y
  PROVE  J(r, Y) /\ StartsNone(s, r)
<1>1. s \in StateType /\ s.n \in Nat BY StateIs DEF K
<1>2. \A id \in DOMAIN s.issued : s.issued[id].kind \in {"checkpoint", "restore"} BY DEF K, NoTurn
<1>3. ~PreSampled(s) BY <1>2 DEF PreSampled, PreSample
<1>4. \/ \E cause \in Causes : r = TurnStarted(s, cause)
      \/ r = [s EXCEPT !.queue = Without(s.queue, "wake")]
  BY DEF IdleStep, Causes
<1>5. CASE \E cause \in Causes : r = TurnStarted(s, cause) BY <1>1, <1>3, <1>5, JStart
<1>6. CASE r = [s EXCEPT !.queue = Without(s.queue, "wake")]
  <2>1. r.n = s.n /\ r.issued = s.issued /\ r.turn = s.turn BY <1>1, <1>6 DEF StateType
  <2>2. Eased(s, r) BY <2>1 DEF Eased
  <2>3. StartsNone(s, r) /\ Mildly(s, r) BY <1>1, <2>1, StartsNoneSame
  <2>4. /\ r.turn.soft = s.turn.soft /\ r.turn.pre_ckpt = s.turn.pre_ckpt
        /\ r.turn.pre_ckpt_id = s.turn.pre_ckpt_id
    BY <2>1
  <2> QED BY <1>3, <2>2, <2>3, <2>4, JKeep
<1> QED BY <1>4, <1>5, <1>6

(* Some numbers have a least one. *)
LEMMA LeastOf ==
  ASSUME NEW S, S \subseteq Nat, S # {}
  PROVE  \E x \in S : \A y \in S : x <= y
<1> DEFINE R == OpToRel(<, Nat)
<1>1. IsWellFoundedOn(R, Nat) BY NatLessThanWellFounded
<1>2. ASSUME NEW x \in Nat, NEW y \in Nat, y < x PROVE <<y, x>> \in R
  BY <1>2 DEF R, OpToRel
<1> HIDE DEF R
<1>3. PICK x \in S : \A y \in S : ~(<<y, x>> \in R) BY <1>1, WFMin
<1>4. ASSUME NEW y \in S PROVE x <= y
  <2>1. SUFFICES ASSUME y < x PROVE FALSE OBVIOUS
  <2>2. <<y, x>> \in R BY <1>2, <2>1
  <2> QED BY <1>3, <2>2
<1> QED BY <1>4

(* A batch is never empty. *)
LEMMA BatchSome ==
  ASSUME NEW s \in StateType, NEW C, C \subseteq DOMAIN s.turn.slots, C # {}
  PROVE  NextBatch(s, C) # {} /\ NextBatch(s, C) \subseteq C
<1>1. C \subseteq Nat BY StateShape, KernelAssumption
<1>2. PICK c \in C : \A d \in C : c <= d BY <1>1, LeastOf
<1>3. \A d \in C : ~(d < c) BY <1>1, <1>2
<1>4. c \in NextBatch(s, C) BY <1>3 DEF NextBatch
<1> QED BY <1>4 DEF NextBatch

(* The states in which the kernel waits for what runs: a reply while no    *)
(* call is open, or calls.                                                 *)
Stays(s) ==
  \/ s.restoring # NoId \/ s.turn.suspended
  \/ s.turn.cause # "none" /\ s.turn.sample # NoId /\ Open(s) = {}
  \/ Cleared(s) /\ Running(s)

(* A state the kernel stays in has no next step. *)
LEMMA StaysStep ==
  ASSUME NEW s, Stays(s)
  PROVE  Step(s) = s
<1>1. CASE s.restoring # NoId \/ s.turn.suspended BY <1>1 DEF Step
<1>2. CASE ~(s.restoring # NoId \/ s.turn.suspended) /\ s.turn.cause # "none"
           /\ s.turn.sample # NoId /\ Open(s) = {}
  <2>1. WindDown(s) = s BY <1>2 DEF WindDown
  <2> QED BY <1>2, <2>1 DEF Step, HasTurn
<1>3. CASE Cleared(s) /\ Running(s)
  <2>1. ToGate(s) = {} /\ "waiting" \notin {s.turn.submit, s.turn.presample, s.turn.stop, s.session_gate}
    BY <1>3 DEF Cleared, Asking
  <2> QED BY <1>3, <2>1 DEF Step, HasTurn, Cleared, ToGate
<1> QED BY <1>1, <1>2, <1>3 DEF Stays

(* At the batch the step runs it. *)
LEMMA AtBatchStep ==
  ASSUME NEW s, AtBatch(s)
  PROVE  Step(s) = RunBatch(s, Batch(s))
<1>1. /\ ToGate(s) = {} /\ "waiting" \notin {s.turn.submit, s.turn.presample, s.turn.stop, s.session_gate}
      /\ Ready(s) # {} /\ ~Running(s)
  BY DEF AtBatch, Cleared, Asking
<1> QED BY <1>1 DEF Step, HasTurn, AtBatch, Cleared, ToGate, Ready, Batch

(* One execution is issued: of a batch of X, or of calls that need no      *)
(* checkpoint.  The kernel then waits.                                     *)
Launch(s, r, X) ==
  /\ Stays(r) /\ r.n = s.n + 1
  /\ \E e : /\ Adds(r.issued, s.issued, s.n, e)
            /\ e.calls \in X \/ \A c \in e.calls : ~NeedsCheckpoint(Content(r, c))

(* The calls of a batch start. *)
LEMMA JLaunch ==
  ASSUME NEW s, NEW U, NEW F, NEW R, NEW M, NEW V, K(s, U, F, R, M, V), NEW X, J(s, X), AtBatch(s),
         NEW C, C = Batch(s), C \in X \/ \A c \in C : ~NeedsCheckpoint(Slot(s, c).call),
         NEW r, r = Issue(s, Execute(C)), NEW Y
  PROVE  J(r, Y) /\ Launch(s, r, X)
<1> DEFINE slots == s.turn.slots
<1>1. s \in StateType /\ Ready(s) \subseteq DOMAIN s.turn.slots /\ Ready(s) # {} /\ Open(s) # {}
  BY DEF K, Ready, Open, AtBatch
<1>2. C # {} /\ C \subseteq Ready(s) BY <1>1, BatchSome DEF Batch
<1>3. C \in SUBSET Calls BY <1>1, <1>2, StateShape
<1>4. /\ Execute(C) \in EffectType /\ Booked(s, r, Execute(C)) /\ SameTurn(s, r)
      /\ r.turn.submit = s.turn.submit
      /\ r.turn.slots = Over([c \in C |-> Started(s.turn.slots, c)], s.turn.slots)
  BY <1>1, <1>3, IssueExecute
<1>5. /\ r.restoring = s.restoring /\ r.session_gate = s.session_gate
      /\ r.turn.presample = s.turn.presample /\ r.turn.stop = s.turn.stop /\ r.turn.reply = s.turn.reply
      /\ r.turn.pre_ckpt = "none" /\ r.turn.pre_ckpt_id = NoId
  BY <1>1, <1>3, RestExecute
<1>6. Execute(C).kind = "execute" /\ Execute(C).calls = C BY DEF Execute, Effect
<1>7. Adds(r.issued, s.issued, s.n, Execute(C)) /\ r.n = s.n + 1 BY <1>1, <1>4, IssuedIs
<1>8. /\ DOMAIN r.turn.slots = DOMAIN slots
      /\ \A c \in DOMAIN slots : r.turn.slots[c] = IF c \in C THEN Started(slots, c) ELSE slots[c]
  BY <1>1, <1>2, <1>4 DEF Over
<1>9. ASSUME NEW c \in C
      PROVE  /\ r.turn.slots[c].gate = "permitted" /\ r.turn.slots[c].exec = "running"
             /\ r.turn.slots[c].call = slots[c].call /\ r.turn.slots[c].in_reply = slots[c].in_reply
             /\ r.turn.slots[c].result = slots[c].result
  <2> DEFINE sl == Started(slots, c)
             old == Before(slots, c)
  <2>1. slots \in SlotMap /\ c \in Calls BY <1>1, <1>3, StateIs
  <2>2. old = slots[c] /\ r.turn.slots[c] = sl BY <1>1, <1>2, <1>8 DEF Before
  <2>3. sl = Started(slots, c) /\ old = Before(slots, c) OBVIOUS
  <2> HIDE DEF sl, old, slots
  <2>4. /\ sl.gate = "permitted" /\ sl.exec = "running" /\ sl.call = old.call
        /\ sl.in_reply = old.in_reply /\ sl.result = old.result
    BY <2>1, <2>3, StartedIs
  <2> QED BY <2>2, <2>4 DEF slots
<1>10. C \subseteq DOMAIN slots BY <1>1, <1>2
<1> HIDE DEF slots
<1>11. Eased(s, r) BY <1>8, <1>9 DEF Eased, Busy, slots
<1>12. ~PreSampled(r)
  <2>1. ~PreSampled(s) BY <1>1, OpenUnsampled
  <2> QED BY <1>6, <1>7, <2>1 DEF PreSampled, Adds, PreSample
<1>13. Occupied(r)
  <2>1. Works(r, Execute(C)) BY <1>6, <1>9 DEF Works, Busy
  <2>2. ASSUME NEW e, Works(s, e) PROVE Works(r, e) BY <1>11, <2>2 DEF Works, Eased
  <2> QED BY <1>7, <2>1, <2>2 DEF J, Occupied, Adds
<1>14. J(r, Y) BY <1>5, <1>12, <1>13 DEF J, Presampling, PreSampled, Waiting, Free
<1>15. Stays(r)
  <2>1. Open(r) = Open(s) BY <1>8, <1>9 DEF Open, slots
  <2>2. \A c \in DOMAIN slots : r.turn.slots[c].result = slots[c].result BY <1>8, <1>9
  <2>3. \A c \in DOMAIN slots : r.turn.slots[c].gate \in {"permitted", slots[c].gate} BY <1>8, <1>9
  <2>4. ToGate(r) = {}
    <3>1. ToGate(s) = {} BY DEF AtBatch, Cleared
    <3>2. Open(s) \subseteq DOMAIN slots BY DEF Open, slots
    <3> QED BY <2>1, <2>3, <3>1, <3>2 DEF ToGate, Slot, slots
  <2>5. ~GateIn(r, {"deferred"}) /\ ~AwaitsVerdict(r)
    <3>1. ~GateIn(s, {"deferred"}) /\ ~AwaitsVerdict(s) BY DEF AtBatch, Cleared
    <3> QED BY <1>8, <2>2, <2>3, <3>1 DEF GateIn, AwaitsVerdict, Slot, slots
  <2>6. Running(r) BY <1>2, <1>8, <1>9, <1>10 DEF Running, Busy
  <2>7. Cleared(r) BY <1>4, <1>5, <2>4, <2>5 DEF AtBatch, Cleared, Asking, SameTurn
  <2> QED BY <2>6, <2>7 DEF Stays
<1>16. C \in X \/ \A c \in C : ~NeedsCheckpoint(Content(r, c))
  BY <1>8, <1>9, <1>10 DEF Content, Slot, slots
<1>17. Launch(s, r, X) BY <1>6, <1>7, <1>15, <1>16 DEF Launch
<1> QED BY <1>14, <1>17

(* The step at the batch: take the checkpoint, wait for it, or run. *)
LEMMA JBatch ==
  ASSUME NEW s, NEW U, NEW F, NEW R, NEW M, NEW V, K(s, U, F, R, M, V), NEW X, J(s, X), AtBatch(s),
         NEW r, r = RunBatch(s, Batch(s))
  PROVE  J(r, {}) /\ (StartsNone(s, r) \/ Launch(s, r, X))
<1> DEFINE C == Batch(s)
<1>0. s \in StateType /\ ~s.turn.soft BY DEF K, AtBatch, Cleared
<1>1. Ready(s) \subseteq DOMAIN s.turn.slots /\ Ready(s) # {} BY DEF Ready, Open, AtBatch
<1>2. C \in SUBSET Calls BY <1>0, <1>1, BatchSome, StateShape DEF Batch
<1>3. \/ s.turn.pre_ckpt = "pending" /\ r = s
      \/ s.turn.pre_ckpt = "none" /\ r = Issue(s, Checkpoint("batch", C))
      \/ s.turn.pre_ckpt = "done" /\ r = Issue(s, Execute(C))
      \/ (\A c \in C : ~NeedsCheckpoint(Slot(s, c).call)) /\ r = Issue(s, Execute(C))
  <2>1. s.turn.pre_ckpt \in {"none", "pending", "done"} BY <1>0, StateIs DEF TurnType
  <2> QED BY <2>1 DEF RunBatch
<1>c. C = Batch(s) OBVIOUS
<1> HIDE DEF C
<1>4. CASE s.turn.pre_ckpt = "pending" /\ r = s
  <2>1. J(s, {}) BY <1>0, <1>4 DEF J, Waiting, Free
  <2> QED BY <1>0, <1>4, <2>1, StartsNoneRefl
<1>5. CASE s.turn.pre_ckpt = "none" /\ r = Issue(s, Checkpoint("batch", C))
  <2> DEFINE e == Checkpoint("batch", C)
  <2>0. r = Issue(s, e) /\ e = Checkpoint("batch", C) /\ "batch" \in {"batch", "safe_point"} BY <1>5
  <2>b. e.point = "batch" BY DEF Checkpoint, Effect
  <2> HIDE DEF e
  <2>1. e \in EffectType /\ e.kind = "checkpoint" /\ Inert(e) /\ ~UserSubmit(e)
    BY <1>2, <2>0, CheckpointIs
  <2>2. ~PreSample(e) /\ ~Working(e) BY <2>1 DEF PreSample, Working
  <2>3. /\ Booked(s, r, e) /\ SameTurn(s, r) /\ r.turn.slots = s.turn.slots
        /\ r.turn.submit = s.turn.submit
    BY <1>0, <2>0, <2>1, IssueInert
  <2>4. /\ r.restoring = s.restoring /\ r.session_gate = s.session_gate
        /\ r.turn.presample = s.turn.presample /\ r.turn.stop = s.turn.stop /\ r.turn.reply = s.turn.reply
        /\ r.turn.pre_ckpt = "pending" /\ r.turn.pre_ckpt_id = s.n
    BY <1>0, <2>0, <2>b, <2>1, <2>2, RestInert
  <2>5. Adds(r.issued, s.issued, s.n, e) /\ StartsNone(s, r) BY <1>0, <2>1, <2>3, IssuedIs
  <2>6. s.turn.reply # "interrupted" /\ ~Asking(s) BY DEF AtBatch, Cleared
  <2>7. r.turn.reply # "interrupted" /\ ~Asking(r) BY <2>3, <2>4, <2>6 DEF Asking
  <2>8. AtBatch(r) /\ Batch(r) = Batch(s) /\ ~PreSampled(s) BY <2>3, <2>4, <2>7, JAt DEF SameTurn
  <2>9. Occupied(r) BY <2>2, <2>3, <2>5 DEF J, Occupied, Works, Adds
  <2>10. Presampling(r) BY <2>2, <2>5, <2>8 DEF Presampling, PreSampled, Adds
  <2>11. s.n # NoId BY <1>0, StateIs DEF NoId
  <2>12. Waiting(r, {}) BY <1>c, <2>0, <2>4, <2>5, <2>8, <2>11 DEF Waiting, Adds
  <2> QED BY <2>5, <2>9, <2>10, <2>12 DEF J
<1>6. CASE s.turn.pre_ckpt = "done" /\ r = Issue(s, Execute(C))
  <2>1. C \in X BY <1>0, <1>6, <1>c DEF J, Waiting, Free
  <2> QED BY <1>6, <1>c, <2>1, JLaunch
<1>7. CASE (\A c \in C : ~NeedsCheckpoint(Slot(s, c).call)) /\ r = Issue(s, Execute(C))
  BY <1>7, <1>c, JLaunch
<1> QED BY <1>3, <1>4, <1>5, <1>6, <1>7

(* One step of the kernel. *)
LEMMA JStep ==
  ASSUME NEW s, NEW U, NEW F, NEW R, NEW M, NEW V, K(s, U, F, R, M, V), NEW X, J(s, X),
         NEW r, r = Step(s)
  PROVE  J(r, {}) /\ (StartsNone(s, r) \/ Launch(s, r, X))
<1> DEFINE togate == {c \in Open(s) : Slot(s, c).gate \in {"unchecked", "need_hook", "need_human", "closed"}}
           ready == {c \in Open(s) : Slot(s, c).gate = "permitted" /\ Slot(s, c).exec = "idle"}
           asking == "waiting" \in {s.turn.submit, s.turn.presample, s.turn.stop, s.session_gate}
           still == togate = {} /\ s.turn.sample = NoId /\ ~s.turn.suspended /\ ~asking
                    /\ ~GateIn(s, {"deferred"}) /\ ~AwaitsVerdict(s) /\ ready = {} /\ ~Running(s)
<1>0. s \in StateType BY DEF K
<1>r. r \in StateType BY KStep DEF K
<1>1. CASE AtBatch(s)
  <2>1. r = RunBatch(s, Batch(s)) BY <1>1, AtBatchStep
  <2> QED BY <1>1, <2>1, JBatch
<1>2. CASE ~AtBatch(s)
  <2>0. Free(s) BY <1>2 DEF J, Waiting
  <2>1. \/ r = s
        \/ s.turn.cause = "none" /\ r = IdleStep(s)
        \/ r = WindDown(s)
        \/ togate # {} /\ r = GateStep(s, Min(togate))
        \/ ~asking /\ r = Suspend(s)
        \/ still /\ (r = StopStep(s) \/ r = PrepareAndSample(s))
    BY <1>2 DEF Step, HasTurn, AtBatch, Cleared, ToGate, Ready, Asking
  <2>2. CASE r = s BY <1>0, <2>0, <2>2, StartsNoneRefl, JFree
  <2>3. CASE s.turn.cause = "none" /\ r = IdleStep(s) BY <2>0, <2>3, JIdle
  <2>4. CASE r = WindDown(s) BY <1>0, <2>0, <2>4, JWindDown
  <2>5. CASE togate # {} /\ r = GateStep(s, Min(togate))
    <3>1. togate \subseteq Nat BY <1>0, StateShape, KernelAssumption DEF Open
    <3>2. Min(togate) \in togate BY <2>5, <3>1, MinIn
    <3> DEFINE c == Min(togate)
    <3>3. c \in Open(s) /\ s.turn.slots[c].gate \in {"unchecked", "need_hook", "need_human", "closed"}
      BY <3>2 DEF Slot
    <3>4. r = GateStep(s, c) BY <2>5
    <3> HIDE DEF c
    <3> QED BY <2>0, <3>3, <3>4, JGateStep
  <2>6. CASE ~asking /\ r = Suspend(s)
    <3>1. ~PreSampled(s) BY <2>6, AskingUnsampled DEF Asking
    <3> QED BY <1>0, <2>0, <2>6, <3>1, JSuspend
  <2>7. CASE still /\ (r = StopStep(s) \/ r = PrepareAndSample(s))
    <3>1. ~PreSampled(s) BY <2>7, AskingUnsampled DEF Asking
    <3>2. Open(s) = {}
      <4>1. SUFFICES ASSUME NEW c \in Open(s) PROVE FALSE OBVIOUS
      <4>2. /\ c \in DOMAIN s.turn.slots /\ ~s.turn.slots[c].result
            /\ s.turn.slots[c].gate \in Gatings /\ s.turn.slots[c].exec \in {"idle", "running", "done"}
            /\ SlotOK(s.turn.slots[c])
        BY <1>0, StateIs, InSlotMap, SlotIs DEF K, SlotsOK, Open
      <4>3. s.turn.slots[c].gate = "permitted"
        BY <2>7, <4>2 DEF Gatings, GateIn, AwaitsVerdict, Slot
      <4>4. s.turn.slots[c].exec # "idle" BY <2>7, <4>3 DEF Slot
      <4>5. ~Busy(s.turn.slots[c]) BY <2>7, <4>2 DEF Running, Slot
      <4> QED BY <4>2, <4>4, <4>5 DEF Busy, SlotOK
    <3>3. s.turn.sample = NoId /\ ~s.turn.suspended BY <2>7
    <3> HIDE DEF still
    <3> QED BY <1>0, <1>r, <2>0, <2>7, <3>1, <3>2, <3>3, JStop, JPrepare
  <2> HIDE DEF togate, asking, still
  <2> QED BY <2>1, <2>2, <2>3, <2>4, <2>5, <2>6, <2>7
<1> QED BY <1>1, <1>2

(* What was issued since I starts nothing, or has started one batch, after *)
(* its checkpoint if it needs one, and the kernel then waits; the          *)
(* checkpoints of X were outstanding in I and are no longer.               *)
Begins(I, s, X) ==
  /\ \A id \in DOMAIN s.issued \ DOMAIN I : s.issued[id].kind = "execute" =>
       /\ Stays(s)
       /\ \/ s.issued[id].calls \in X
          \/ \A c \in s.issued[id].calls : ~NeedsCheckpoint(Content(s, c))
  /\ \A id \in DOMAIN I : id < s.n
  /\ \A C \in X : \E j \in DOMAIN I \ DOMAIN s.issued : I[j] = Checkpoint("batch", C)

(* A step that starts nothing, or one batch. *)
LEMMA JBegins ==
  ASSUME NEW s \in StateType, NEW r \in StateType, NEW I, NEW X, Begins(I, s, X), DOMAIN I \subseteq Nat,
         \/ StartsNone(s, r) /\ (r = s \/ ~Stays(s))
         \/ Launch(s, r, X) /\ ~Stays(s)
  PROVE  Begins(I, r, X)
<1>1. /\ s.n \in Nat /\ r.n \in Nat /\ DOMAIN s.issued \subseteq Nat /\ DOMAIN r.issued \subseteq Nat
  BY StateShape
<1>2. CASE r = s BY <1>2
<1>3. CASE r # s
  <2>0. ~Stays(s) BY <1>3
  <2>1. \A id \in DOMAIN s.issued \ DOMAIN I : s.issued[id].kind # "execute" BY <2>0 DEF Begins
  <2>2. r.n >= s.n BY <1>1, <1>3 DEF StartsNone, Launch
  <2>3. \A id \in DOMAIN r.issued : id \in DOMAIN s.issued \/ id >= s.n
    BY <1>1, <1>3 DEF StartsNone, Launch, Adds
  <2>4. \A id \in DOMAIN I : id < s.n /\ id < r.n BY <1>1, <2>2 DEF Begins
  <2>5. \A C \in X : \E j \in DOMAIN I \ DOMAIN r.issued : I[j] = Checkpoint("batch", C)
    BY <1>1, <2>3, <2>4 DEF Begins
  <2>6. ASSUME NEW id \in DOMAIN r.issued \ DOMAIN I, r.issued[id].kind = "execute"
        PROVE  /\ Stays(r)
               /\ \/ r.issued[id].calls \in X
                  \/ \A c \in r.issued[id].calls : ~NeedsCheckpoint(Content(r, c))
    <3>1. CASE StartsNone(s, r) BY <1>1, <2>1, <2>6, <3>1 DEF StartsNone
    <3>2. CASE Launch(s, r, X) BY <1>1, <2>1, <2>6, <3>2 DEF Launch, Adds
    <3> QED BY <1>3, <3>1, <3>2
  <2> QED BY <2>4, <2>5, <2>6 DEF Begins
<1> QED BY <1>2, <1>3

(* One step of those that follow an input. *)
LEMMA JMore ==
  ASSUME NEW s, NEW U, NEW F, NEW R, NEW M, NEW V, K(s, U, F, R, M, V),
         NEW I, DOMAIN I \subseteq Nat, NEW X, NEW Y \in SUBSET X, J(s, Y), Begins(I, s, X),
         NEW r, r = Step(s)
  PROVE  J(r, {}) /\ Begins(I, r, X)
<1>1. s \in StateType /\ r \in StateType BY KStep DEF K
<1>2. J(r, {}) /\ (StartsNone(s, r) \/ Launch(s, r, Y)) BY JStep
<1>3. Launch(s, r, Y) => Launch(s, r, X) BY DEF Launch
<1>4. Stays(s) => r = s BY StaysStep
<1>5. CASE Stays(s) BY <1>2, <1>4, <1>5
<1>6. CASE ~Stays(s) BY <1>1, <1>2, <1>3, <1>6, JBegins
<1> QED BY <1>5, <1>6

(* All the steps that follow an input: after the first the kernel waits    *)
(* for what is outstanding, and has no checkpoint to use up.               *)
LEMMA JAdvance ==
  ASSUME NEW s, NEW U, NEW F, NEW R, NEW M, NEW V, K(s, U, F, R, M, V),
         NEW I, DOMAIN I \subseteq Nat, NEW X, J(s, X), Begins(I, s, X),
         NEW r, r = Advance(s)
  PROVE  J(r, {}) /\ Begins(I, r, X)
<1> DEFINE f == CHOOSE g : Runs(s, StepLimit, g)
           Good(x) == K(x, U, F, R, M, V) /\ J(x, {}) /\ Begins(I, x, X)
           S == {n \in Nat : n + 1 <= StepLimit => Good(f[n + 1].at)}
<1>0. StepLimit \in Nat /\ StepLimit - 1 \in Nat /\ (StepLimit - 1) + 1 = StepLimit
  BY KernelAssumption
<1>1. Runs(s, StepLimit, f) BY <1>0, RunsExists
<1>2. r = f[StepLimit].at BY AdvanceIs
<1> HIDE DEF f
<1>3. \A i \in 0..StepLimit : f[i] = IF i = 0 THEN Begun(s) ELSE More(f[i - 1]) BY <1>1 DEF Runs
<1>4. 0 \in S
  <2>1. f[0] = Begun(s) /\ f[1] = More(f[0])
    <3>1. 0 \in 0..StepLimit /\ 1 \in 0..StepLimit /\ 1 # 0 /\ 1 - 1 = 0 BY <1>0
    <3> QED BY <1>3, <3>1
  <2>2. f[1].at = Step(s) BY <2>1 DEF More, Begun
  <2>3. K(f[1].at, U, F, R, M, V) BY <2>2, KStep
  <2>4. X \in SUBSET X OBVIOUS
  <2>5. J(f[1].at, {}) /\ Begins(I, f[1].at, X) BY <2>2, <2>4, JMore
  <2> QED BY <2>3, <2>5
<1>5. ASSUME NEW n \in Nat, n \in S PROVE n + 1 \in S
  <2>1. SUFFICES ASSUME (n + 1) + 1 <= StepLimit PROVE Good(f[(n + 1) + 1].at) OBVIOUS
  <2> DEFINE x == f[n + 1]
             y == f[(n + 1) + 1]
  <2>2. Good(x.at) BY <1>0, <1>5, <2>1
  <2>3. y = More(x)
    <3>1. (n + 1) + 1 \in 0..StepLimit /\ (n + 1) + 1 # 0 /\ ((n + 1) + 1) - 1 = n + 1 BY <1>0, <2>1
    <3> QED BY <1>3, <3>1
  <2> HIDE DEF x, y
  <2>4. y = x \/ y.at = Step(x.at) BY <2>3 DEF More
  <2>5. CASE y = x BY <2>2, <2>5 DEF y
  <2>6. CASE y.at = Step(x.at)
    <3>1. K(y.at, U, F, R, M, V) BY <2>2, <2>6, KStep
    <3>2. {} \in SUBSET X OBVIOUS
    <3>3. J(y.at, {}) /\ Begins(I, y.at, X) BY <2>2, <2>6, <3>2, JMore
    <3> QED BY <3>1, <3>3 DEF y
  <2> QED BY <2>4, <2>5, <2>6
<1> HIDE DEF S
<1>6. StepLimit - 1 \in S BY <1>0, <1>4, <1>5, Upwards
<1>7. Good(f[StepLimit].at) BY <1>0, <1>6 DEF S
<1> QED BY <1>2, <1>7

(* What differs in other fields is the same here. *)
Alike(s, r) ==
  /\ r.n = s.n /\ r.issued = s.issued /\ r.turn = s.turn
  /\ r.restoring = s.restoring /\ r.session_gate = s.session_gate

(* Their invariant is the same. *)
LEMMA JAlike ==
  ASSUME NEW s \in StateType, NEW r, Alike(s, r), NEW X, J(s, X)
  PROVE  J(r, X) /\ StartsNone(s, r)
<1>1. Open(r) = Open(s) /\ ToGate(r) = ToGate(s) /\ Ready(r) = Ready(s)
  BY DEF Alike, Open, ToGate, Ready, Slot
<1>2. Cleared(r) <=> Cleared(s)
  BY <1>1 DEF Alike, Cleared, Asking, GateIn, AwaitsVerdict, Slot
<1>3. AtBatch(r) <=> AtBatch(s) BY <1>1, <1>2 DEF Alike, AtBatch, Running
<1>4. Batch(r) = Batch(s) BY <1>1 DEF Alike, Batch, NextBatch, Slot
<1>5. Occupied(r) BY DEF J, Alike, Occupied, Works
<1>6. Presampling(r) BY <1>1 DEF J, Alike, Presampling
<1>7. Waiting(r, X) BY <1>3, <1>4 DEF J, Alike, Waiting, Free
<1>8. s.n \in Nat BY StateIs
<1>9. StartsNone(s, r) BY <1>8, StartsNoneSame DEF Alike
<1> QED BY <1>5, <1>6, <1>7, <1>9 DEF J

(* Where the kernel waits is the same. *)
LEMMA StaysAlike ==
  ASSUME NEW s, NEW r, Alike(s, r)
  PROVE  Stays(r) <=> Stays(s)
<1>1. Open(r) = Open(s) /\ ToGate(r) = ToGate(s) BY DEF Alike, Open, ToGate, Slot
<1>2. Cleared(r) <=> Cleared(s)
  BY <1>1 DEF Alike, Cleared, Asking, GateIn, AwaitsVerdict, Slot
<1> QED BY <1>1, <1>2 DEF Alike, Stays, Running

(* What was begun is the same. *)
LEMMA BeginsAlike ==
  ASSUME NEW s, NEW r, Alike(s, r), NEW I, NEW X, Begins(I, s, X)
  PROVE  Begins(I, r, X)
<1>1. Stays(r) <=> Stays(s) BY StaysAlike
<1>2. \A c : Content(r, c) = Content(s, c) BY DEF Alike, Content, Slot
<1> QED BY <1>1, <1>2 DEF Begins, Alike

(* Where nothing was started since. *)
LEMMA BeginsNone ==
  ASSUME NEW s, NEW U, NEW F, NEW R, NEW M, NEW V, K(s, U, F, R, M, V),
         NEW r \in StateType, StartsNone(s, r)
  PROVE  DOMAIN s.issued \subseteq Nat /\ Begins(s.issued, r, {})
<1>1. s.n \in Nat /\ r.n \in Nat /\ DOMAIN s.issued \subseteq Nat BY StateShape DEF K
<1>2. \A id \in DOMAIN s.issued : id < r.n BY <1>1 DEF K, Ids, StartsNone
<1> QED BY <1>1, <1>2 DEF Begins, StartsNone

(* A decision begins with nothing to send. *)
LEMMA JEmptied ==
  ASSUME NEW s \in StateType, NEW r, r = Emptied(s)
  PROVE  Alike(s, r)
BY DEF Emptied, Alike, StateType

(* Between turns nothing waits for a checkpoint, and no request is judged. *)
LEMMA IdleFree ==
  ASSUME NEW s, NEW U, NEW F, NEW R, NEW M, NEW V, K(s, U, F, R, M, V), s.turn.cause = "none",
         NEW X, J(s, X)
  PROVE  Free(s) /\ ~PreSampled(s)
BY DEF K, NoTurn, PreSampled, PreSample, J, Waiting, AtBatch, Cleared

(* Nor in a turn that is put aside. *)
LEMMA SuspendedFree ==
  ASSUME NEW s, s.turn.suspended, NEW X, J(s, X)
  PROVE  Free(s) /\ ~PreSampled(s)
BY DEF PreSampled, J, Presampling, Waiting, AtBatch, Cleared

(* A signal. *)
LEMMA JSignal ==
  ASSUME NEW s, NEW U, NEW F, NEW R, NEW M, NEW V, K(s, U, F, R, M, V), NEW X, J(s, X),
         NEW sig \in Sent, NEW r, r = Signal(s, sig)
  PROVE  J(r, X) /\ StartsNone(s, r)
<1>0. s \in StateType BY DEF K
<1>1. CASE Idle(s) /\ sig \in {"submit", "queue", "steer", "wake"}
  <2>1. s.turn.cause = "none" BY <1>1 DEF Idle, HasTurn
  <2>2. ~PreSampled(s) BY <2>1, IdleFree
  <2>3. r = TurnStarted(s, "user") \/ r = TurnStarted(s, "wake")
    <3>1. ~s.turn.suspended BY <2>1, IdleIs
    <3> QED BY <1>1, <3>1 DEF Signal
  <2>4. "user" \in Causes /\ "wake" \in Causes BY DEF Causes
  <2> QED BY <1>0, <2>2, <2>3, <2>4, JStart
<1>2. CASE ~(Idle(s) /\ sig \in {"submit", "queue", "steer", "wake"}) /\ sig = "submit" /\ s.turn.suspended
  <2> DEFINE a == CloseOpen(s)
  <2>1. r = TurnStarted(a, "user") BY <1>2 DEF Signal
  <2>2. a = ToolsResulted(s, Open(s)) BY DEF CloseOpen
  <2> HIDE DEF a
  <2>3. a \in StateType /\ a.n = s.n /\ a.issued = s.issued BY <1>0, <2>2, ToolsResultedIs
  <2>4. ~PreSampled(s) BY <1>2, SuspendedFree
  <2>5. ~PreSampled(a) BY <2>3, <2>4 DEF PreSampled
  <2>6. "user" \in Causes BY DEF Causes
  <2>7. J(r, X) /\ StartsNone(a, r) BY <2>1, <2>3, <2>5, <2>6, JStart
  <2> QED BY <2>3, <2>7 DEF StartsNone
<1>3. CASE ~(Idle(s) /\ sig \in {"submit", "queue", "steer", "wake"}) /\ ~(sig = "submit" /\ s.turn.suspended)
  <2>1. r = Pending(s, sig) BY <1>3 DEF Signal
  <2>2. \/ r = [s EXCEPT !.queue = Append(@, "user")]
        \/ r = [s EXCEPT !.queue = Append(@, "wake")]
        \/ r = [s EXCEPT !.mailbox = @ \cup {sig}]
    BY <2>1 DEF Pending, Sent
  <2>3. Alike(s, r) BY <1>0, <2>2 DEF Alike, StateType
  <2> QED BY <1>0, <2>3, JAlike
<1> QED BY <1>1, <1>2, <1>3

(* A soft interrupt. *)
LEMMA JSoft ==
  ASSUME NEW s \in StateType, NEW X, J(s, X), NEW r, r = SoftInterrupt(s)
  PROVE  J(r, X) /\ StartsNone(s, r)
<1>1. CASE HasTurn(s) /\ ~s.turn.suspended
  <2>1. /\ r.n = s.n /\ r.issued = s.issued /\ r.turn.slots = s.turn.slots
        /\ r.turn.sample = s.turn.sample /\ r.turn.presample = s.turn.presample
        /\ r.turn.suspended = s.turn.suspended /\ r.turn.soft
        /\ r.turn.pre_ckpt = s.turn.pre_ckpt /\ r.turn.pre_ckpt_id = s.turn.pre_ckpt_id
    BY <1>1 DEF SoftInterrupt, StateType, TurnType
  <2>2. Occupied(r) BY <2>1 DEF J, Occupied, Works
  <2>3. Presampling(r) BY <2>1 DEF J, Presampling, Open
  <2>4. Waiting(r, X) BY <2>1 DEF J, Waiting, Free
  <2>5. StartsNone(s, r) BY <2>1, StateIs, StartsNoneSame
  <2> QED BY <2>2, <2>3, <2>4, <2>5 DEF J
<1>2. CASE ~(HasTurn(s) /\ ~s.turn.suspended)
  <2>1. r = s BY <1>2 DEF SoftInterrupt
  <2> QED BY <2>1, StartsNoneRefl
<1> QED BY <1>1, <1>2

(* Pause. *)
LEMMA JPause ==
  ASSUME NEW s \in StateType, NEW X, J(s, X), NEW r, r = Pause(s)
  PROVE  J(r, X) /\ StartsNone(s, r)
<1>1. Alike(s, r) BY DEF Pause, Alike, StateType
<1> QED BY <1>1, JAlike

(* Resume. *)
LEMMA JResume ==
  ASSUME NEW s \in StateType, NEW X, J(s, X), NEW r, r = Resume(s)
  PROVE  J(r, X) /\ StartsNone(s, r)
<1>1. CASE s.paused
  <2> DEFINE g == Restrict(s.issued, s.held \cap DOMAIN s.issued)
  <2>1. r = [s EXCEPT !.paused = FALSE, !.held = {}, !.out = g] BY <1>1 DEF Resume
  <2> HIDE DEF g
  <2>2. Alike(s, r) BY <2>1 DEF Alike, StateType
  <2> QED BY <2>2, JAlike
<1>2. CASE ~s.paused /\ s.turn.suspended
  <2>1. r = TurnStarted(s, "continuation") BY <1>2 DEF Resume
  <2>2. Free(s) /\ ~PreSampled(s) BY <1>2, SuspendedFree
  <2>3. /\ r \in StateType /\ Books(s, r)
        /\ r.turn.slots = [c \in DOMAIN s.turn.slots |-> Reopened(s.turn.slots[c])]
    BY <1>2, <2>1, ContinuedIs
  <2>4. Rest(s, r) /\ r.turn.soft = s.turn.soft BY <1>2, <2>1, RestContinued
  <2>5. Eased(s, r)
    <3>1. \A c \in DOMAIN s.turn.slots : s.turn.slots[c] \in SlotType BY StateIs, InSlotMap
    <3>2. \A c \in DOMAIN s.turn.slots :
            LET x == Reopened(s.turn.slots[c])
            IN /\ x.exec = s.turn.slots[c].exec /\ x.post = s.turn.slots[c].post
               /\ x.result = s.turn.slots[c].result /\ x.in_reply = s.turn.slots[c].in_reply
      BY <3>1, ReopenedIs
    <3> QED BY <2>3, <3>2 DEF Eased, Busy
  <2>6. StartsNone(s, r) /\ Mildly(s, r) BY <2>3, StateIs, StartsNoneSame DEF Books
  <2>7. J(r, X) BY <2>2, <2>4, <2>5, <2>6, JKeep DEF Rest
  <2> QED BY <2>6, <2>7
<1>3. CASE ~s.paused /\ ~s.turn.suspended
  <2>1. r = s BY <1>3 DEF Resume
  <2> QED BY <2>1, StartsNoneRefl
<1> QED BY <1>1, <1>2, <1>3

(* Rewind. *)
LEMMA JRewind ==
  ASSUME NEW s, NEW U, NEW F, NEW R, NEW M, NEW V, K(s, U, F, R, M, V), NEW X, J(s, X),
         NEW r, r = Rewind(s)
  PROVE  J(r, X) /\ StartsNone(s, r)
<1>0. s \in StateType BY DEF K
<1>1. CASE Idle(s)
  <2> DEFINE e == Restore
  <2>1. r = Issue(s, e) BY <1>1 DEF Rewind
  <2>2. e \in EffectType /\ e.kind = "restore"
    BY DEF Restore, Effect, EffectType, Levels
  <2> HIDE DEF e
  <2>3. Inert(e) /\ ~PreSample(e) /\ e.kind # "checkpoint" BY <2>2 DEF Inert, PreSample
  <2>4. Free(s) BY <1>1, IdleFree DEF Idle, HasTurn
  <2> QED BY <1>0, <2>1, <2>2, <2>3, <2>4, JInert
<1>2. CASE ~Idle(s)
  <2>1. r = s BY <1>2 DEF Rewind
  <2> QED BY <1>0, <2>1, StartsNoneRefl
<1> QED BY <1>1, <1>2

(* A hard interrupt drops what is outstanding, if anything happens. *)
LEMMA JHard ==
  ASSUME NEW s, NEW U, NEW F, NEW R, NEW M, NEW V, K(s, U, F, R, M, V), NEW X, J(s, X),
         NEW r, r = HardInterrupt(s)
  PROVE  J(r, X) /\ (r = s \/ (DOMAIN r.issued = {} /\ r.n >= s.n))
<1> DEFINE h == HardInterrupted(s)
           a == CloseOpen(h)
<1>0. s \in StateType /\ s.n \in Nat BY StateIs DEF K
<1>1. \/ r = s
      \/ s.turn.cause = "none" /\ r = h
      \/ r = EndTurn(a, "interrupted") /\ "interrupted" \in Outcomes
  BY DEF HardInterrupt, HasTurn, Outcomes
<1>2. h = HardInterrupted(s) /\ a = ToolsResulted(h, Open(h)) BY DEF CloseOpen
<1> HIDE DEF h, a
<1>3. /\ h \in StateType /\ h.n = s.n /\ h.issued = Restrict(s.issued, {})
      /\ (s.turn.cause = "none" => h.turn = s.turn)
  BY <1>0, <1>2, HardInterruptedIs
<1>4. DOMAIN h.issued = {} BY <1>3, RestrictIs
<1>5. CASE r = s BY <1>5
<1>6. CASE s.turn.cause = "none" /\ r = h
  <2>1. Free(s) /\ (s.turn.pre_ckpt = "pending" <=> s.turn.pre_ckpt_id # NoId)
    BY <1>6, IdleFree DEF J, Waiting
  <2>2. Waiting(r, X) BY <1>3, <1>6, <2>1 DEF Waiting, Free
  <2>3. Occupied(r) /\ Presampling(r) BY <1>4, <1>6 DEF Occupied, Presampling
  <2> QED BY <1>0, <1>3, <1>4, <1>6, <2>2, <2>3 DEF J
<1>7. CASE r = EndTurn(a, "interrupted") /\ "interrupted" \in Outcomes
  <2>1. a \in StateType /\ a.n = s.n /\ a.issued = h.issued BY <1>2, <1>3, ToolsResultedIs
  <2>2. J(r, X) /\ StartsNone(a, r) BY <1>7, <2>1, JEndTurn
  <2>3. r.issued = Restrict(a.issued, Survives(a.issued)) BY <1>7, <2>1, EndTurnIs
  <2>4. DOMAIN r.issued = {} BY <1>4, <2>1, <2>3, RestrictIs DEF Survives
  <2> QED BY <1>0, <2>1, <2>2, <2>4 DEF StartsNone
<1> QED BY <1>1, <1>5, <1>6, <1>7

(* Nothing is outstanding, so nothing was begun. *)
LEMMA BeginsEmpty ==
  ASSUME NEW s \in StateType, NEW r \in StateType, NEW I, Begins(I, s, {}), DOMAIN I \subseteq Nat,
         DOMAIN r.issued = {}, r.n >= s.n
  PROVE  Begins(I, r, {})
<1>1. s.n \in Nat /\ r.n \in Nat BY StateIs
<1> QED BY <1>1 DEF Begins

(* A call that writes nothing starts while its reply still streams. *)
LEMMA JStreamed ==
  ASSUME NEW s, NEW U, NEW F, NEW R, NEW M, NEW V, K(s, U, F, R, M, V), NEW X, J(s, X),
         s.turn.cause # "none", s.turn.sample # NoId,
         NEW c \in Calls, c \notin DOMAIN s.turn.slots, ~SideEffecting(c),
         NEW r, r = Issue(s, Execute({c}))
  PROVE  J(r, {}) /\ Begins(s.issued, r, {})
<1> DEFINE slots == s.turn.slots
           e == Execute({c})
<1>0. s \in StateType /\ slots \in SlotMap /\ {c} \in SUBSET Calls BY StateIs DEF K
<1>1. /\ e \in EffectType /\ Booked(s, r, e) /\ SameTurn(s, r)
      /\ r.turn.slots = Over([d \in {c} |-> Started(slots, d)], slots)
  BY <1>0, IssueExecute
<1>2. r.turn.pre_ckpt = "none" /\ r.turn.pre_ckpt_id = NoId BY <1>0, RestExecute
<1>3. e.kind = "execute" /\ e.calls = {c} BY DEF Execute, Effect
<1>4. ~PreSampled(s) /\ \A d \in DOMAIN slots : ~slots[d].in_reply
  BY DEF PreSampled, J, Presampling, K, Sampling
<1> HIDE DEF e
<1>5. Adds(r.issued, s.issued, s.n, e) /\ r.n = s.n + 1 /\ r \in StateType BY <1>0, <1>1, IssuedIs
<1>6. /\ DOMAIN r.turn.slots = DOMAIN slots \cup {c}
      /\ \A d \in DOMAIN slots : r.turn.slots[d] = slots[d]
      /\ r.turn.slots[c] = Started(slots, c)
  BY <1>1 DEF Over
<1>7. LET x == r.turn.slots[c] IN x.exec = "running" /\ x.call = c /\ ~x.in_reply
  <2> DEFINE sl == Started(slots, c)
             old == Before(slots, c)
             new == NewSlot(c, FALSE)
  <2>1. sl = Started(slots, c) /\ old = Before(slots, c) /\ old = new BY DEF Before
  <2>2. new.call = c /\ ~new.in_reply BY DEF NewSlot
  <2> HIDE DEF sl, old, new, slots
  <2>3. slots \in SlotMap /\ sl = Started(slots, c) /\ old = Before(slots, c) BY <1>0, <2>1
  <2>4. /\ sl.gate = "permitted" /\ sl.exec = "running" /\ sl.call = old.call
        /\ sl.in_reply = old.in_reply /\ sl.result = old.result
    BY <2>3, StartedIs
  <2> QED BY <1>6, <2>1, <2>2, <2>4 DEF sl
<1>8. Open(r) = {} BY <1>4, <1>6, <1>7 DEF Open
<1>9. ~PreSampled(r) BY <1>3, <1>4, <1>5 DEF PreSampled, Adds, PreSample
<1>10. Occupied(r)
  <2>1. Works(r, e) BY <1>3, <1>6, <1>7 DEF Works, Busy
  <2>2. ASSUME NEW x, Works(s, x) PROVE Works(r, x) BY <1>6, <1>7, <2>2 DEF Works, Busy
  <2> QED BY <1>5, <2>1, <2>2 DEF J, Occupied, Adds
<1>11. J(r, {}) BY <1>2, <1>9, <1>10 DEF J, Presampling, PreSampled, Waiting, Free
<1>12. Stays(r) BY <1>1, <1>8 DEF Stays, SameTurn
<1>13. ~NeedsCheckpoint(Content(r, c))
  BY <1>6, <1>7 DEF NeedsCheckpoint, SideEffecting, Content, Slot
<1>14. Begins(s.issued, r, {})
  <2>1. \A id \in DOMAIN s.issued : id < r.n BY <1>0, <1>5, StateIs DEF K, Ids
  <2> QED BY <1>3, <1>5, <1>12, <1>13, <2>1 DEF Begins, Adds
<1> QED BY <1>11, <1>14

(* The batches whose checkpoint the effect e was. *)
CheckpointOf(e) == {C \in SUBSET Calls : e = Checkpoint("batch", C)}

(* What settling changes. *)
LetGo(s, id, d) ==
  /\ d.n = s.n /\ d.issued = Restrict(s.issued, DOMAIN s.issued \ {id})
  /\ d.turn.slots = s.turn.slots /\ d.turn.cause = s.turn.cause
  /\ d.turn.sample = (IF s.turn.sample = id THEN NoId ELSE s.turn.sample)
  /\ d.turn.suspended = s.turn.suspended /\ d.turn.soft = s.turn.soft
  /\ d.turn.submit = s.turn.submit

(* To settle an effect does just that. *)
LEMMA SettledIs ==
  ASSUME NEW s \in StateType, NEW id, NEW d, d = Settle(s, id)
  PROVE  LetGo(s, id, d)
BY ZenonT(60) DEF Settle, Forget, StateType, TurnType, LetGo

(* An outstanding effect is settled. *)
LEMMA JSettle ==
  ASSUME NEW s, NEW U, NEW F, NEW R, NEW M, NEW V, K(s, U, F, R, M, V), J(s, {}),
         NEW id \in DOMAIN s.issued, NEW d, d = Settle(s, id)
  PROVE  /\ J(d, CheckpointOf(s.issued[id])) /\ Begins(s.issued, d, CheckpointOf(s.issued[id]))
         /\ StartsNone(s, d) /\ DOMAIN s.issued \subseteq Nat
<1>0. s \in StateType /\ id \in Nat /\ id # NoId /\ DOMAIN s.issued \subseteq Nat /\ s.n \in Nat
  BY StateShape DEF K, Ids, NoId
<1>1. /\ d.n = s.n /\ d.issued = Restrict(s.issued, DOMAIN s.issued \ {id})
      /\ d.turn.slots = s.turn.slots /\ d.turn.cause = s.turn.cause
      /\ d.turn.sample = (IF s.turn.sample = id THEN NoId ELSE s.turn.sample)
      /\ d.turn.suspended = s.turn.suspended /\ d.turn.soft = s.turn.soft
      /\ d.turn.submit = s.turn.submit
  BY <1>0, SettledIs DEF LetGo
<1> DEFINE e == s.issued[id]
           X == CheckpointOf(e)
<1>2. /\ d.restoring = (IF s.restoring = id THEN NoId ELSE s.restoring)
      /\ d.session_gate = s.session_gate
      /\ d.turn.presample = s.turn.presample /\ d.turn.stop = s.turn.stop /\ d.turn.reply = s.turn.reply
      /\ d.turn.pre_ckpt = (IF s.turn.pre_ckpt_id = id THEN "done" ELSE s.turn.pre_ckpt)
      /\ d.turn.pre_ckpt_id = (IF s.turn.pre_ckpt_id = id THEN NoId ELSE s.turn.pre_ckpt_id)
  BY <1>0, RestSettle
<1>3. /\ DOMAIN d.issued = DOMAIN s.issued \ {id}
      /\ \A j \in DOMAIN s.issued \ {id} : d.issued[j] = s.issued[j]
  BY <1>1, RestrictIs
<1>4. Occupied(d) BY <1>1, <1>3 DEF J, Occupied, Works
<1>5. Presampling(d)
  <2>1. Open(d) = Open(s) BY <1>1 DEF Open
  <2> QED BY <1>1, <1>2, <1>3, <2>1 DEF J, Presampling
<1>6. s.turn.pre_ckpt = "pending" <=> s.turn.pre_ckpt_id # NoId BY DEF J, Waiting
<1>7. d.turn.pre_ckpt = "pending" <=> d.turn.pre_ckpt_id # NoId BY <1>2, <1>6
<1>9. StartsNone(s, d) BY <1>0, <1>1, <1>3 DEF StartsNone
<1>10. Begins(s.issued, d, X)
  <2>1. \A j \in DOMAIN s.issued : j < d.n BY <1>0, <1>1 DEF K, Ids
  <2>2. \A C \in X : \E j \in DOMAIN s.issued \ DOMAIN d.issued : s.issued[j] = Checkpoint("batch", C)
    BY <1>3 DEF CheckpointOf
  <2> QED BY <1>3, <2>1, <2>2 DEF Begins
<1>11. J(d, X)
  <2>1. CASE Free(s)
    <3>1. Free(d) BY <1>0, <1>1, <1>2, <1>6, <2>1 DEF Free
    <3> QED BY <1>4, <1>5, <1>7, <3>1 DEF J, Waiting
  <2>2. CASE ~Free(s)
    <3>1. /\ AtBatch(s) /\ s.turn.pre_ckpt = "pending" /\ s.turn.pre_ckpt_id \in DOMAIN s.issued
          /\ s.issued[s.turn.pre_ckpt_id] = Checkpoint("batch", Batch(s))
      BY <2>2 DEF J, Waiting
    <3>2. /\ s.restoring = NoId /\ s.turn.sample = NoId /\ s.turn.reply # "interrupted" /\ ~Asking(s)
          /\ Ready(s) \subseteq DOMAIN s.turn.slots /\ Ready(s) # {}
      BY <3>1 DEF AtBatch, Cleared, Ready, Open
    <3>3. ~Asking(d) BY <1>1, <1>2, <3>2 DEF Asking
    <3>4. d.restoring = s.restoring /\ d.turn.sample = s.turn.sample BY <1>0, <1>1, <1>2, <3>2
    <3>5. AtBatch(d) /\ Batch(d) = Batch(s) BY <1>1, <1>2, <3>1, <3>2, <3>3, <3>4, JAt
    <3>6. Batch(s) \in SUBSET Calls BY <1>0, <3>2, BatchSome, StateShape DEF Batch
    <3>7. CASE s.turn.pre_ckpt_id = id
      <4>1. Batch(d) \in X BY <3>1, <3>5, <3>6, <3>7 DEF CheckpointOf
      <4>2. Waiting(d, X) BY <1>2, <1>7, <3>5, <3>7, <4>1 DEF Waiting
      <4> QED BY <1>4, <1>5, <4>2 DEF J
    <3>8. CASE s.turn.pre_ckpt_id # id
      <4>1. Waiting(d, X) BY <1>2, <1>3, <1>7, <3>1, <3>5, <3>8 DEF Waiting
      <4> QED BY <1>4, <1>5, <4>1 DEF J
    <3> QED BY <3>7, <3>8
  <2> QED BY <2>1, <2>2
<1> QED BY <1>0, <1>9, <1>10, <1>11

(* To fail the turn ends it. *)
LEMMA JFail ==
  ASSUME NEW s \in StateType, NEW r, r = FailTurn(s), NEW Y
  PROVE  J(r, Y) /\ StartsNone(s, r)
<1> DEFINE a == CloseOpen(s)
<1>1. r = EndTurn(a, "failed") /\ "failed" \in Outcomes BY DEF FailTurn, Outcomes
<1>2. a = ToolsResulted(s, Open(s)) BY DEF CloseOpen
<1> HIDE DEF a
<1>3. a \in StateType /\ a.n = s.n /\ a.issued = s.issued BY <1>2, ToolsResultedIs
<1>4. J(r, Y) /\ StartsNone(a, r) BY <1>1, <1>3, JEndTurn
<1> QED BY <1>3, <1>4 DEF StartsNone

(* What the turn is like when it no longer waits for the effect e. *)
Arrives(d, e) ==
  /\ Working(e) => Works(d, e)
  /\ PreSample(e) => Open(d) = {} /\ d.turn.sample = NoId /\ ~d.turn.suspended /\ ~PreSampled(d)
  /\ e.kind = "sample" => Free(d) /\ ~PreSampled(d)

(* An effect that lands leaves the turn so. *)
LEMMA JArrives ==
  ASSUME NEW s, NEW U, NEW F, NEW R, NEW M, NEW V, K(s, U, F, R, M, V), NEW X, J(s, X),
         NEW id \in DOMAIN s.issued, NEW d, d = Settle(s, id)
  PROVE  Arrives(d, s.issued[id])
<1>0. s \in StateType /\ id # NoId BY DEF K, Ids, NoId
<1>1. /\ d.issued = Restrict(s.issued, DOMAIN s.issued \ {id})
      /\ d.turn.slots = s.turn.slots
      /\ d.turn.sample = (IF s.turn.sample = id THEN NoId ELSE s.turn.sample)
      /\ d.turn.suspended = s.turn.suspended /\ d.turn.soft = s.turn.soft
  BY <1>0, SettledIs DEF LetGo
<1>2. d.turn.pre_ckpt = (IF s.turn.pre_ckpt_id = id THEN "done" ELSE s.turn.pre_ckpt)
  BY <1>0, RestSettle
<1>3. /\ DOMAIN d.issued = DOMAIN s.issued \ {id}
      /\ \A j \in DOMAIN s.issued \ {id} : d.issued[j] = s.issued[j]
  BY <1>1, RestrictIs
<1> DEFINE e == s.issued[id]
<1>4. Working(e) => Works(d, e) BY <1>1 DEF J, Occupied, Works
<1>5. ASSUME PreSample(e)
      PROVE  Open(d) = {} /\ d.turn.sample = NoId /\ ~d.turn.suspended /\ ~PreSampled(d)
  <2>1. Open(d) = Open(s) BY <1>1 DEF Open
  <2>2. /\ Open(s) = {} /\ s.turn.sample = NoId /\ ~s.turn.suspended
        /\ \A j \in DOMAIN s.issued : PreSample(s.issued[j]) => j = id
    BY <1>5 DEF J, Presampling
  <2>3. ~PreSampled(d) BY <1>3, <2>2 DEF PreSampled
  <2> QED BY <1>1, <2>1, <2>2, <2>3
<1>6. ASSUME e.kind = "sample" PROVE Free(d) /\ ~PreSampled(d)
  <2>1. s.turn.sample # NoId BY <1>0, <1>6 DEF K, SampleId
  <2>2. Free(s) BY <2>1 DEF J, Waiting, AtBatch, Cleared
  <2>3. ~PreSampled(s) BY <2>1 DEF J, Presampling, PreSampled
  <2>4. s.turn.pre_ckpt = "none" => s.turn.pre_ckpt_id = NoId BY DEF J, Waiting
  <2>5. Free(d) BY <1>0, <1>1, <1>2, <2>2, <2>4 DEF Free
  <2> QED BY <1>3, <2>3, <2>5 DEF PreSampled
<1> QED BY <1>4, <1>5, <1>6 DEF Arrives

(* The reply is there: a call it takes over was early, and no outstanding  *)
(* effect knows any other.                                                 *)
Expected(s, calls) ==
  \A c \in calls : c \in DOMAIN s.turn.slots \/ \A id \in DOMAIN s.issued : c \notin s.issued[id].calls

(* A reply comes. *)
LEMMA JReply ==
  ASSUME NEW s \in StateType, J(s, {}), Free(s), ~PreSampled(s),
         NEW calls \in SUBSET Calls, Expected(s, calls), NEW interrupted \in BOOLEAN,
         NEW r, r = OnReply(s, calls, interrupted)
  PROVE  J(r, {}) /\ StartsNone(s, r)
<1>1. /\ r.n = s.n /\ r.issued = s.issued
      /\ r.turn.slots = [c \in calls |-> ReplySlot(s.turn.slots, c)]
  BY OnReplyIs
<1>2. /\ r.turn.soft = s.turn.soft
      /\ r.turn.pre_ckpt = s.turn.pre_ckpt /\ r.turn.pre_ckpt_id = s.turn.pre_ckpt_id
  BY RestReply
<1>3. StartsNone(s, r) BY <1>1, StateIs, StartsNoneSame
<1>4. ~PreSampled(r) BY <1>1 DEF PreSampled
<1>5. ASSUME NEW c \in calls \cap DOMAIN s.turn.slots,
             s.turn.slots[c].result \/ Busy(s.turn.slots[c])
      PROVE  r.turn.slots[c].result \/ Busy(r.turn.slots[c])
  <2> DEFINE sl == ReplySlot(s.turn.slots, c)
             old == BeforeReply(s.turn.slots, c)
             slots == s.turn.slots
  <2>1. slots \in SlotMap /\ sl = ReplySlot(slots, c) /\ old = BeforeReply(slots, c) BY StateIs
  <2>2. r.turn.slots[c] = sl BY <1>1
  <2>3. old = s.turn.slots[c] BY DEF BeforeReply
  <2> HIDE DEF sl, old, slots
  <2>4. sl.exec = old.exec /\ sl.result = old.result /\ sl.post = old.post
    BY <2>1, ReplySlotIs
  <2> QED BY <1>5, <2>2, <2>3, <2>4 DEF Busy
<1>6. Occupied(r)
  <2>1. SUFFICES ASSUME NEW id \in DOMAIN s.issued, Working(s.issued[id]),
                        NEW c \in s.issued[id].calls \cap calls
                 PROVE  r.turn.slots[c].result \/ Busy(r.turn.slots[c])
    BY <1>1 DEF Occupied, Works
  <2>2. c \in DOMAIN s.turn.slots BY <2>1 DEF Expected
  <2>3. s.turn.slots[c].result \/ Busy(s.turn.slots[c]) BY <2>1, <2>2 DEF J, Occupied, Works
  <2> QED BY <1>5, <2>2, <2>3
<1>7. Waiting(r, {}) BY <1>2 DEF J, Waiting, Free
<1> QED BY <1>3, <1>4, <1>6, <1>7 DEF J, Presampling, PreSampled

(* Of the calls of a batch that has run none is left where the turn is to  *)
(* run another.                                                            *)
LEMMA NoneLeft ==
  ASSUME NEW s, AtBatch(s), NEW e, Works(s, e)
  PROVE  Unresulted(s, e.calls) = {}
BY DEF AtBatch, Running, Works, Unresulted

(* Nor does any call wait for a verdict there. *)
LEMMA NoneJudged ==
  ASSUME NEW s, AtBatch(s), NEW e, e.kind \in {"hook", "human"}, Judgeable(s, e)
  PROVE  Unresulted(s, e.calls) = {}
<1>1. ~AwaitsVerdict(s) BY DEF AtBatch, Cleared
<1> QED BY <1>1 DEF AwaitsVerdict, GateIn, Slot, Judgeable, Unresulted

(* Without results nothing happens. *)
LEMMA ResultsNone ==
  ASSUME NEW s \in StateType, NEW r, r = ToolsResulted(s, {})
  PROVE  Alike(s, r)
<1> DEFINE f == [c \in DOMAIN s.turn.slots |-> IF c \in {} THEN Resulted(s.turn.slots[c]) ELSE s.turn.slots[c]]
           p == [c \in Calls |-> IF c \in {} /\ s.turn.slots[c].in_reply THEN s.pairs[c] - 1 ELSE s.pairs[c]]
<1>1. r = [s EXCEPT !.turn.slots = f, !.pairs = p] BY DEF ToolsResulted
<1>2. s.turn.slots \in [DOMAIN s.turn.slots -> SlotType] BY StateIs, InSlotMap
<1>3. f = s.turn.slots BY <1>2
<1> HIDE DEF f, p
<1>4. s.turn \in TurnType BY StateIs
<1>5. [s.turn EXCEPT !.slots = f] = s.turn BY <1>3, <1>4 DEF TurnType
<1> QED BY <1>1, <1>5 DEF Alike, StateType

(* Nothing is delivered. *)
LEMMA DeliveredNone ==
  ASSUME NEW s, NEW r, r = DeliveredAll(s, {})
  PROVE  r = s
<1> DEFINE last == Max({0} \cup {})
           f == CHOOSE g : Delivery(s, {}, last, g)
<1>1. last \in Nat
  <2>1. {0} \cup {} \subseteq Calls \cup {0} /\ 0 \in {0} \cup {} OBVIOUS
  <2> QED BY <2>1, MaxIn
<1>2. r = f[last] BY DEF DeliveredAll
<1> HIDE DEF last
<1>3. Delivery(s, {}, last, f) BY <1>1, DeliveryExists
<1> HIDE DEF f
<1>4. \A c \in 0..last : f[c] = IF c = 0 THEN s ELSE f[c - 1] BY <1>3 DEF Delivery
<1> DEFINE S == {n \in Nat : n <= last => f[n] = s}
<1>5. 0 \in S BY <1>1, <1>4
<1>6. ASSUME NEW n \in Nat, n \in S PROVE n + 1 \in S
  <2>1. SUFFICES ASSUME n + 1 <= last PROVE f[n + 1] = s OBVIOUS
  <2>2. f[n] = s BY <1>1, <1>6, <2>1
  <2>3. n + 1 \in 0..last /\ n + 1 # 0 /\ (n + 1) - 1 = n BY <1>1, <2>1
  <2> QED BY <1>4, <2>2, <2>3
<1> HIDE DEF S
<1>7. last \in S BY <1>1, <1>5, <1>6, Upwards
<1> QED BY <1>1, <1>2, <1>7 DEF S

(* The results of a batch go to the hook one by one. *)
LEMMA JDelivered ==
  ASSUME NEW s \in StateType, J(s, {}), Free(s), NEW open \in SUBSET DOMAIN s.turn.slots,
         NEW r, r = DeliveredAll(s, open)
  PROVE  J(r, {}) /\ StartsNone(s, r)
<1> DEFINE last == Max({0} \cup open)
           f == CHOOSE g : Delivery(s, open, last, g)
<1>0. last \in Nat
  <2>1. {0} \cup open \subseteq Calls \cup {0} /\ 0 \in {0} \cup open BY StateShape
  <2> QED BY <2>1, MaxIn
<1>1. r = f[last] BY DEF DeliveredAll
<1> HIDE DEF last
<1>2. Delivery(s, open, last, f) BY <1>0, DeliveryExists
<1> HIDE DEF f
<1> DEFINE Good(x) == /\ x \in StateType /\ J(x, {}) /\ Free(x) /\ StartsNone(s, x)
                      /\ DOMAIN x.turn.slots = DOMAIN s.turn.slots
           S == {n \in Nat : n <= last => Good(f[n])}
<1>3. 0 \in S
  <2>1. f[0] = s BY <1>0, <1>2 DEF Delivery
  <2>2. StartsNone(s, s) BY StartsNoneRefl
  <2> QED BY <2>1, <2>2
<1>4. ASSUME NEW n \in Nat, n \in S PROVE n + 1 \in S
  <2>1. SUFFICES ASSUME n + 1 <= last PROVE Good(f[n + 1]) OBVIOUS
  <2> DEFINE c == n + 1
             x == f[n]
             y == f[c]
  <2>2. /\ x \in StateType /\ J(x, {}) /\ Free(x) /\ StartsNone(s, x)
        /\ DOMAIN x.turn.slots = DOMAIN s.turn.slots
    BY <1>0, <1>4, <2>1
  <2>3. y = IF c \in open THEN Issue(x, Hook("PostTool", {c})) ELSE x
    <3>1. c \in 0..last /\ c # 0 /\ c - 1 = n BY <1>0, <2>1
    <3> QED BY <1>2, <3>1 DEF Delivery
  <2> HIDE DEF c, x, y
  <2>4. CASE c \in open
    <3> DEFINE e == Hook("PostTool", {c})
    <3>1. y = Issue(x, e) /\ c \in DOMAIN x.turn.slots BY <2>2, <2>3, <2>4
    <3>2. CallGate(e, c) BY DEF CallGate
    <3> HIDE DEF e
    <3>3. J(y, {}) /\ Free(y) /\ StartsNone(x, y) /\ Eased(x, y) BY <2>2, <3>1, <3>2, JCallGate
    <3>4. y \in StateType BY <2>2, <3>1, <3>2, IssueCallGate, IssuedIs
    <3>5. StartsNone(s, y) BY <2>2, <3>3, <3>4, StateShape, StartsNoneTrans
    <3>6. Good(y) BY <2>2, <3>3, <3>4, <3>5 DEF Eased
    <3> QED BY <3>6 DEF y, c
  <2>5. CASE c \notin open
    <3>1. Good(y) BY <2>2, <2>3, <2>5
    <3> QED BY <3>1 DEF y, c
  <2> QED BY <2>4, <2>5
<1> HIDE DEF S
<1>5. last \in S BY <1>0, <1>3, <1>4, Upwards
<1>6. J(f[last], {}) /\ StartsNone(s, f[last]) BY <1>0, <1>5 DEF S
<1> QED BY <1>1, <1>6

(* A batch has run. *)
LEMMA JExecuted ==
  ASSUME NEW s \in StateType, J(s, {}), NEW e, Works(s, e), NEW r, r = Executed(s, e)
  PROVE  J(r, {}) /\ StartsNone(s, r)
<1> DEFINE open == Unresulted(s, e.calls)
<1>1. open \in SUBSET DOMAIN s.turn.slots BY DEF Unresulted
<1>2. r = DeliveredAll(s, open) \/ r = ToolsResulted(s, open) BY ExecutedIs
<1>3. AtBatch(s) => open = {} BY NoneLeft
<1> HIDE DEF open
<1>4. Free(s) \/ AtBatch(s) BY DEF J, Waiting
<1>5. CASE Free(s) /\ r = DeliveredAll(s, open) BY <1>1, <1>5, JDelivered
<1>6. CASE Free(s) /\ r = ToolsResulted(s, open) BY <1>6, JResults
<1>7. CASE AtBatch(s) /\ r = DeliveredAll(s, open) BY <1>3, <1>7, DeliveredNone, StartsNoneRefl
<1>8. CASE AtBatch(s) /\ r = ToolsResulted(s, open) BY <1>3, <1>8, ResultsNone, JAlike
<1> QED BY <1>2, <1>4, <1>5, <1>6, <1>7, <1>8

(* The hook after the calls has its verdict. *)
LEMMA JPosted ==
  ASSUME NEW s \in StateType, J(s, {}), NEW e, Works(s, e),
         NEW r, r = ToolsResulted(s, Unresulted(s, e.calls))
  PROVE  J(r, {}) /\ StartsNone(s, r)
<1> DEFINE open == Unresulted(s, e.calls)
<1>1. r = ToolsResulted(s, open) OBVIOUS
<1>2. AtBatch(s) => open = {} BY NoneLeft
<1> HIDE DEF open
<1>3. CASE Free(s) BY <1>1, <1>3, JResults
<1>4. CASE AtBatch(s) BY <1>1, <1>2, <1>4, ResultsNone, JAlike
<1> QED BY <1>3, <1>4 DEF J, Waiting

(* New slots leave all but themselves alone. *)
LEMMA PutFields ==
  ASSUME NEW s \in StateType, NEW f, NEW r, r = PutSlots(s, f)
  PROVE  /\ r.turn.slots = f /\ r.n = s.n /\ r.issued = s.issued /\ SameTurn(s, r) /\ Rest(s, r)
BY RestPut DEF PutSlots, StateType, TurnType, SameTurn

(* A question about calls has its verdict. *)
LEMMA JJudged ==
  ASSUME NEW s, NEW U, NEW F, NEW R, NEW M, NEW V, K(s, U, F, R, M, V), J(s, {}),
         NEW e, e.kind \in {"hook", "human"}, NEW v, VerdictOK(s, e, v), Judgeable(s, e),
         NEW r, r = Judged(s, e, v)
  PROVE  J(r, {}) /\ StartsNone(s, r)
<1>1. s \in StateType BY DEF K
<1> DEFINE f == JudgedSlots(s, e, v)
<1>2. r = PutSlots(s, f) BY DEF Judged, PutSlots, JudgedSlots, JudgedSlot
<1>3. /\ DOMAIN f = DOMAIN s.turn.slots
      /\ \A c \in Unresulted(s, e.calls) : f[c] = JudgedSlot(e, v, s.turn.slots[c])
      /\ \A c \in DOMAIN s.turn.slots \ Unresulted(s, e.calls) : f[c] = s.turn.slots[c]
  BY DEF JudgedSlots, Unresulted
<1>4. /\ s.turn.slots \in [DOMAIN s.turn.slots -> SlotType]
      /\ \A c \in DOMAIN s.turn.slots : SlotOK(s.turn.slots[c])
  BY <1>1, StateIs, InSlotMap DEF K, SlotsOK
<1>5. f = [c \in DOMAIN s.turn.slots |-> f[c]] BY DEF JudgedSlots
<1> HIDE DEF f
<1>6. ASSUME NEW c \in Unresulted(s, e.calls)
      PROVE  c \in DOMAIN s.turn.slots /\ SameRun(s.turn.slots[c], f[c])
  <2> DEFINE sl == s.turn.slots[c]
             q == f[c]
  <2>0. c \in DOMAIN s.turn.slots /\ sl \in SlotType /\ SlotOK(sl) BY <1>4 DEF Unresulted
  <2>1. CASE e.kind = "hook"
    <3>1. q = HookVerdict(sl, v) BY <1>3, <2>1 DEF JudgedSlot
    <3>2. sl.gate = "await_hook" /\ v \in VerdictType /\ v.tag # "continue" /\ (v.tag = "rewrite" => v.call \in Calls)
      BY <2>1 DEF Judgeable, VerdictOK
    <3> HIDE DEF sl, q
    <3>3. SameRun(sl, q) BY <2>0, <3>1, <3>2, HookVerdictOK
    <3> QED BY <2>0, <3>3 DEF sl, q
  <2>2. CASE e.kind = "human"
    <3>1. q = HumanVerdict(sl, v) BY <1>3, <2>2 DEF JudgedSlot
    <3>2. /\ sl.gate = "await_human" /\ sl.asked = e.level /\ v \in VerdictType
          /\ v.tag \in {"allow", "deny", "defer", "rewrite"} /\ (v.tag = "rewrite" => v.call \in Calls)
          /\ (v.tag = "allow" => MayApprove(e.level, v.by, sl))
      BY <2>2 DEF Judgeable, VerdictOK
    <3>4. v.tag = "allow" => MayApprove(sl.asked, v.by, sl) BY <3>2
    <3> HIDE DEF sl, q
    <3>3. SameRun(sl, q) BY <2>0, <3>1, <3>2, <3>4, HumanVerdictOK
    <3> QED BY <2>0, <3>3 DEF sl, q
  <2> QED BY <2>1, <2>2
<1>7. /\ r.turn.slots = f /\ r.n = s.n /\ r.issued = s.issued /\ SameTurn(s, r) /\ Rest(s, r)
  BY <1>1, <1>2, PutFields
<1>8. CASE Free(s)
  <2>1. Eased(s, r)
    <3>1. ASSUME NEW c \in DOMAIN s.turn.slots PROVE SameRun(s.turn.slots[c], f[c])
      <4>1. CASE c \in Unresulted(s, e.calls) BY <1>6, <4>1
      <4>2. CASE c \notin Unresulted(s, e.calls) BY <1>3, <4>2 DEF SameRun
      <4> QED BY <4>1, <4>2
    <3> QED BY <1>3, <1>7, <3>1 DEF Eased, SameRun, Busy
  <2>2. StartsNone(s, r) /\ Mildly(s, r) BY <1>1, <1>7, StateIs, StartsNoneSame
  <2>3. J(r, {}) BY <1>7, <1>8, <2>1, <2>2, JKeep DEF SameTurn, Rest
  <2> QED BY <2>2, <2>3
<1>9. CASE AtBatch(s)
  <2>1. Unresulted(s, e.calls) = {} BY <1>9, NoneJudged
  <2>2. f = s.turn.slots BY <1>3, <1>4, <1>5, <2>1
  <2>3. s.turn \in TurnType BY <1>1, StateIs
  <2>4. [s.turn EXCEPT !.slots = f] = s.turn BY <2>2, <2>3 DEF TurnType
  <2>5. r.turn = s.turn BY <1>1, <1>2, <2>4 DEF PutSlots, StateType
  <2>6. Alike(s, r) BY <1>7, <2>5 DEF Alike, Rest
  <2> QED BY <1>1, <2>6, JAlike
<1> QED BY <1>8, <1>9 DEF J, Waiting

(* A gate of the turn opens. *)
LEMMA JPassed ==
  ASSUME NEW s \in StateType, J(s, {}), NEW r,
         r.n = s.n, r.issued = s.issued, r.restoring = s.restoring,
         r.turn.slots = s.turn.slots, SameTurn(s, r),
         r.turn.pre_ckpt = s.turn.pre_ckpt, r.turn.pre_ckpt_id = s.turn.pre_ckpt_id,
         r.turn.presample = s.turn.presample \/ ~PreSampled(s),
         r.turn.reply = s.turn.reply \/ r.turn.reply = "none", Asking(r) => Asking(s)
  PROVE  J(r, {}) /\ StartsNone(s, r)
<1>1. StartsNone(s, r) /\ Mildly(s, r) BY StateIs, StartsNoneSame
<1>2. CASE Free(s)
  <2>1. Eased(s, r) BY DEF Eased
  <2>2. J(r, {}) BY <1>1, <1>2, <2>1, JKeep DEF SameTurn
  <2> QED BY <1>1, <2>2
<1>3. CASE AtBatch(s)
  <2>1. ~Asking(r) /\ r.turn.reply # "interrupted" BY <1>3 DEF AtBatch, Cleared
  <2>2. J(r, {}) BY <1>3, <2>1, JAtKeep DEF SameTurn
  <2> QED BY <1>1, <2>2
<1> QED BY <1>2, <1>3 DEF J, Waiting

(* The verdict on a gate of the turn. *)
LEMMA JTurnVerdict ==
  ASSUME NEW s \in StateType, J(s, {}),
         NEW e, e.kind \in {"hook", "human"}, Arrives(s, e),
         e.point \in {"SessionStart", "UserSubmit", "PreSample", "Stop"},
         NEW v, NEW r, r = TurnVerdict(s, e, v)
  PROVE  J(r, {}) /\ StartsNone(s, r)
<1>1. CASE e.point = "SessionStart"
  <2>1. r = [s EXCEPT !.session_gate = "passed"] BY <1>1 DEF TurnVerdict
  <2>2. /\ r.n = s.n /\ r.issued = s.issued /\ r.restoring = s.restoring /\ r.turn = s.turn
        /\ r.session_gate = "passed"
    BY <2>1 DEF StateType
  <2>3. Asking(r) => Asking(s) BY <2>2 DEF Asking
  <2> QED BY <2>2, <2>3, JPassed DEF SameTurn
<1>2. CASE e.point = "UserSubmit" /\ v.tag = "deny"
  <2>1. r = EndTurn(s, "failed") /\ "failed" \in Outcomes BY <1>2 DEF TurnVerdict, Outcomes
  <2> QED BY <2>1, JEndTurn
<1>3. CASE e.point = "UserSubmit" /\ v.tag # "deny"
  <2>1. r = [s EXCEPT !.turn.submit = "passed"] BY <1>3 DEF TurnVerdict
  <2>2. /\ r.n = s.n /\ r.issued = s.issued /\ r.restoring = s.restoring /\ r.session_gate = s.session_gate
        /\ r.turn.slots = s.turn.slots /\ SameTurn(s, r) /\ r.turn.submit = "passed"
        /\ r.turn.presample = s.turn.presample /\ r.turn.stop = s.turn.stop /\ r.turn.reply = s.turn.reply
        /\ r.turn.pre_ckpt = s.turn.pre_ckpt /\ r.turn.pre_ckpt_id = s.turn.pre_ckpt_id
    BY <2>1 DEF StateType, TurnType, SameTurn
  <2>3. Asking(r) => Asking(s) BY <2>2 DEF Asking
  <2> QED BY <2>2, <2>3, JPassed
<1>4. CASE e.point = "PreSample"
  <2>0. PreSample(e) BY <1>4 DEF PreSample
  <2>1. Open(s) = {} /\ s.turn.sample = NoId /\ ~s.turn.suspended /\ ~PreSampled(s)
    BY <2>0 DEF Arrives
  <2>2. CASE v.tag = "allow"
    <3>1. r = [s EXCEPT !.turn.presample = "passed"] BY <1>4, <2>2 DEF TurnVerdict
    <3>2. /\ r.n = s.n /\ r.issued = s.issued /\ r.restoring = s.restoring /\ r.session_gate = s.session_gate
          /\ r.turn.slots = s.turn.slots /\ SameTurn(s, r) /\ r.turn.submit = s.turn.submit
          /\ r.turn.presample = "passed" /\ r.turn.stop = s.turn.stop /\ r.turn.reply = s.turn.reply
          /\ r.turn.pre_ckpt = s.turn.pre_ckpt /\ r.turn.pre_ckpt_id = s.turn.pre_ckpt_id
      BY <3>1 DEF StateType, TurnType, SameTurn
    <3>3. Asking(r) => Asking(s) BY <3>2 DEF Asking
    <3> QED BY <2>1, <3>2, <3>3, JPassed
  <2>3. CASE v.tag = "ask" /\ e.kind = "hook"
    <3> DEFINE a == [s EXCEPT !.questions = s.questions \cup {Question(NoId, "policy")}]
               h == Human("PreSample", {}, "policy")
    <3>1. r = Issue(a, h) BY <1>4, <2>3 DEF TurnVerdict
    <3>2. a \in StateType
      <4>1. Question(NoId, "policy") \in QuestionType BY DEF Question, QuestionType, Levels, NoId
      <4> QED BY <4>1, StateIs DEF StateType
    <3>3. Alike(s, a) BY DEF StateType, Alike
    <3>4. h \in EffectType /\ PreSample(h) BY DEF Human, Effect, EffectType, HookPoints, Levels, PreSample
    <3> HIDE DEF a, h
    <3>5. J(a, {}) /\ StartsNone(s, a) BY <3>3, JAlike
    <3>6. Open(a) = {} /\ a.turn.sample = NoId /\ ~a.turn.suspended /\ ~PreSampled(a)
      BY <2>1, <3>3 DEF Alike, Open, PreSampled
    <3>7. Free(a) BY <3>5, <3>6 DEF J, Waiting, AtBatch, Ready
    <3>8. J(r, {}) /\ StartsNone(a, r) BY <3>1, <3>2, <3>4, <3>5, <3>6, <3>7, JPreSample
    <3> QED BY <3>3, <3>8 DEF StartsNone, Alike
  <2>4. CASE v.tag # "allow" /\ ~(v.tag = "ask" /\ e.kind = "hook")
    <3>1. r = FailTurn(s) BY <1>4, <2>4 DEF TurnVerdict
    <3> QED BY <3>1, JFail
  <2> QED BY <2>2, <2>3, <2>4
<1>5. CASE e.point = "Stop"
  <2>1. \/ r = [s EXCEPT !.turn.stop = "passed", !.turn.reply = "none", !.continuations = @ + 1]
        \/ r = [s EXCEPT !.turn.stop = "passed"]
    BY <1>5 DEF TurnVerdict
  <2>2. /\ r.n = s.n /\ r.issued = s.issued /\ r.restoring = s.restoring /\ r.session_gate = s.session_gate
        /\ r.turn.slots = s.turn.slots /\ SameTurn(s, r) /\ r.turn.submit = s.turn.submit
        /\ r.turn.presample = s.turn.presample /\ r.turn.stop = "passed"
        /\ (r.turn.reply = s.turn.reply \/ r.turn.reply = "none")
        /\ r.turn.pre_ckpt = s.turn.pre_ckpt /\ r.turn.pre_ckpt_id = s.turn.pre_ckpt_id
    <3>1. CASE r = [s EXCEPT !.turn.stop = "passed", !.turn.reply = "none", !.continuations = @ + 1]
      <4> DEFINE t == [s.turn EXCEPT !.stop = "passed", !.reply = "none"]
                 n == s.continuations + 1
      <4>1. r = PutTurn(s, t, n) BY <3>1 DEF PutTurn
      <4>2. s.turn \in TurnType BY StateIs
      <4>3. /\ t.slots = s.turn.slots /\ t.cause = s.turn.cause /\ t.sample = s.turn.sample
            /\ t.suspended = s.turn.suspended /\ t.soft = s.turn.soft /\ t.submit = s.turn.submit
            /\ t.presample = s.turn.presample /\ t.stop = "passed" /\ t.reply = "none"
            /\ t.pre_ckpt = s.turn.pre_ckpt /\ t.pre_ckpt_id = s.turn.pre_ckpt_id
        BY <4>2 DEF TurnType
      <4> HIDE DEF t, n
      <4>4. /\ r.n = s.n /\ r.issued = s.issued /\ r.restoring = s.restoring
            /\ r.session_gate = s.session_gate /\ r.turn = t
        BY <4>1 DEF PutTurn, StateType
      <4> QED BY <4>3, <4>4 DEF SameTurn
    <3>2. CASE r = [s EXCEPT !.turn.stop = "passed"] BY <3>2 DEF StateType, TurnType, SameTurn
    <3> QED BY <2>1, <3>1, <3>2
  <2>3. Asking(r) => Asking(s) BY <2>2 DEF Asking
  <2> QED BY <2>2, <2>3, JPassed
<1> QED BY <1>1, <1>2, <1>3, <1>4, <1>5

(* An answered question changes nothing else. *)
LEMMA AnsweredAlike ==
  ASSUME NEW s \in StateType, NEW e, NEW a, a = Answered(s, e)
  PROVE  Alike(s, a)
<1>1. CASE e.kind = "human"
  <2> DEFINE Q == s.questions \ {q \in s.questions : q.call \in e.calls \/ (e.calls = {} /\ q.call = NoId)}
  <2>1. a = [s EXCEPT !.questions = Q] BY <1>1 DEF Answered
  <2> HIDE DEF Q
  <2> QED BY <2>1 DEF StateType, Alike
<1>2. CASE e.kind # "human" BY <1>2 DEF Answered, Alike
<1> QED BY <1>1, <1>2

(* A gate has its verdict. *)
LEMMA JGated ==
  ASSUME NEW s, NEW U, NEW F, NEW R, NEW M, NEW V, K(s, U, F, R, M, V), J(s, {}),
         NEW e, e.kind \in {"hook", "human"}, Landing(s, U, e), Arrives(s, e),
         NEW u, VerdictFits(e, u), NEW r, r = Gated(s, e, u)
  PROVE  J(r, {}) /\ StartsNone(s, r)
<1> DEFINE v == CheckHuman(s, e, u)
           a == Answered(s, e)
<1>1. e.point \in HookPoints /\ e \in EffectType BY EffectIs DEF Landing
<1>2. r = CASE e.point = "PreTool"  -> Judged(a, e, v)
            [] e.point = "PostTool" -> ToolsResulted(a, Unresulted(a, e.calls))
            [] OTHER -> TurnVerdict(a, e, v)
  BY DEF Gated, Answered
<1>a. a = Answered(s, e) /\ v = CheckHuman(s, e, u) OBVIOUS
<1> HIDE DEF v, a
<1>s. s \in StateType BY DEF K
<1>3. K(a, U, F, R, M, V) /\ a.issued = s.issued /\ a.turn = s.turn BY <1>a, KAnsweredIs
<1>4. a \in StateType /\ Alike(s, a) BY <1>a, <1>s, <1>3, AnsweredAlike DEF K
<1>5. J(a, {}) BY <1>s, <1>4, JAlike
<1>6. Arrives(a, e) BY <1>3 DEF Arrives, Works, Open, PreSampled, Free
<1>7. J(r, {}) /\ StartsNone(a, r)
  <2>1. CASE e.point = "PreTool"
    <3>1. r = Judged(a, e, v) BY <1>2, <2>1
    <3>2. PreTool(e) BY <2>1 DEF PreTool
    <3>3. VerdictOK(s, e, v) BY <1>a, <3>2, CheckHumanOK
    <3>4. Judgeable(s, e) BY <3>2 DEF Landing
    <3>5. \A cs : Unresulted(a, cs) = Unresulted(s, cs) BY <1>3 DEF Unresulted
    <3>6. VerdictOK(a, e, v) BY <1>3, <3>3, <3>5 DEF VerdictOK
    <3>7. Judgeable(a, e) BY <1>3, <3>4, <3>5 DEF Judgeable, Unclaimed
    <3> QED BY <1>3, <1>5, <3>1, <3>6, <3>7, JJudged
  <2>2. CASE e.point = "PostTool"
    <3>1. r = ToolsResulted(a, Unresulted(a, e.calls)) BY <1>2, <2>2
    <3>2. Works(a, e) BY <1>6, <2>2 DEF Arrives, Working
    <3> QED BY <1>4, <1>5, <3>1, <3>2, JPosted
  <2>3. CASE e.point \notin {"PreTool", "PostTool"}
    <3>1. r = TurnVerdict(a, e, v) BY <1>2, <2>3
    <3>2. e.point \in {"SessionStart", "UserSubmit", "PreSample", "Stop"} BY <1>1, <2>3 DEF HookPoints
    <3> QED BY <1>4, <1>5, <1>6, <3>1, <3>2, JTurnVerdict
  <2> QED BY <2>1, <2>2, <2>3
<1> QED BY <1>4, <1>7 DEF StartsNone, Alike

(* An effect other than a checkpoint has failed. *)
LEMMA JFailed ==
  ASSUME NEW s, NEW U, NEW F, NEW R, NEW M, NEW V, K(s, U, F, R, M, V), J(s, {}),
         NEW e, Landing(s, U, e), Arrives(s, e), NEW r, r = OnFailed(s, e)
  PROVE  J(r, {}) /\ StartsNone(s, r)
<1>0. s \in StateType BY DEF K
<1>1. e.kind \in {"sample", "restore", "execute", "checkpoint", "hook", "human"}
  BY EffectIs DEF Landing
<1>2. CASE e.kind = "execute"
  <2> DEFINE cs == Unresulted(s, e.calls)
             a == ToolsResulted(s, cs)
  <2>1. r = FailTurn(a) /\ a = ToolsResulted(s, cs) BY <1>2 DEF OnFailed
  <2> HIDE DEF cs, a
  <2>2. a \in StateType /\ a.n = s.n /\ a.issued = s.issued BY <1>0, <2>1, ToolsResultedIs
  <2>3. J(r, {}) /\ StartsNone(a, r) BY <2>1, <2>2, JFail
  <2> QED BY <2>2, <2>3 DEF StartsNone
<1>3. CASE e.kind = "sample"
  <2>1. r = FailTurn(s) BY <1>3 DEF OnFailed
  <2> QED BY <1>0, <2>1, JFail
<1>4. CASE e.kind \in {"hook", "human"}
  <2> DEFINE u == [tag |-> IF e.point \in {"PreSample", "PreTool"} THEN "deny" ELSE "allow",
                   by |-> "kernel", call |-> NoId]
  <2>1. r = Gated(s, e, u) BY <1>4 DEF OnFailed
  <2>2. u.tag \in {"allow", "deny"} /\ u.by = "kernel" /\ u.call = NoId OBVIOUS
  <2>3. u \in VerdictType BY DEF VerdictType
  <2> HIDE DEF u
  <2>4. VerdictFits(e, u) BY <2>2, <2>3 DEF VerdictFits
  <2> QED BY <1>4, <2>1, <2>4, JGated
<1>5. CASE e.kind \in {"checkpoint", "restore"}
  <2>1. r = s BY <1>5 DEF OnFailed
  <2> QED BY <1>0, <2>1, StartsNoneRefl
<1> QED BY <1>1, <1>2, <1>3, <1>4, <1>5

(* What starts nothing in two parts starts nothing. *)
LEMMA NoneAfter ==
  ASSUME NEW s, NEW U, NEW F, NEW R, NEW M, NEW V, K(s, U, F, R, M, V),
         NEW d \in StateType, StartsNone(s, d), NEW r \in StateType, StartsNone(d, r)
  PROVE  DOMAIN s.issued \subseteq Nat /\ Begins(s.issued, r, {})
<1>1. s \in StateType BY DEF K
<1>2. s.n \in Nat /\ d.n \in Nat /\ r.n \in Nat /\ DOMAIN r.issued \subseteq Nat BY <1>1, StateShape
<1>3. StartsNone(s, r) BY <1>2, StartsNoneTrans
<1> QED BY <1>3, BeginsNone

(* Only a checkpoint is a checkpoint. *)
LEMMA CheckpointKind ==
  ASSUME NEW e, e.kind # "checkpoint"
  PROVE  CheckpointOf(e) = {}
BY DEF CheckpointOf, Checkpoint, Effect

(* The tokens of a reply are counted. *)
LEMMA JSpent ==
  ASSUME NEW s \in StateType, NEW b, NEW r, r = PutSpent(s, b)
  PROVE  Alike(s, r)
BY DEF PutSpent, Alike, StateType

(* No call of a reply that comes belongs to an effect that is outstanding, *)
(* and only an execution reports that it has run.                          *)
Awaited(s, id, x) ==
  /\ x.tag = "sampled" => x.calls \subseteq Calls /\ Expected(s, x.calls)
  /\ x.tag = "executed" => s.issued[id].kind = "execute"

(* An effect other than a checkpoint has completed. *)
LEMMA JOther ==
  ASSUME NEW s, NEW U, NEW F, NEW R, NEW M, NEW V, K(s, U, F, R, M, V), J(s, {}),
         NEW id \in DOMAIN s.issued, s.issued[id].kind # "checkpoint",
         NEW x, ResultOK(s, U, F, id, x), Awaited(s, id, x),
         NEW d, d = Settle(s, id), NEW r, r = Completed(s, id, x)
  PROVE  J(r, {}) /\ StartsNone(d, r)
<1> DEFINE e == s.issued[id]
           b == d.spent \/ x.spent
           a == PutSpent(d, b)
<1>1. r = CASE x.tag = "failed" -> OnFailed(d, e)
            [] x.tag = "sampled" -> OnReply(a, x.calls, x.interrupted)
            [] x.tag = "executed" -> Executed(d, e)
            [] x.tag = "gated" -> Gated(d, e, x.verdict)
            [] x.tag \in {"checkpointed", "restored"} -> d
  BY DEF Completed, PutSpent
<1>2. /\ K(d, U, F, R, M, V) /\ Landing(d, U, e) /\ d.turn.slots = s.turn.slots /\ d.out = s.out
      /\ Sheds(s, d)
  BY KSettle
<1>3. J(d, CheckpointOf(e)) /\ CheckpointOf(e) = {} BY JSettle, CheckpointKind
<1>4. Arrives(d, e) BY JArrives
<1>b. b \in BOOLEAN /\ a = PutSpent(d, b) OBVIOUS
<1>e. e = s.issued[id] /\ e.kind # "checkpoint" OBVIOUS
<1> HIDE DEF e, b, a
<1>5. d \in StateType /\ J(d, {}) BY <1>2, <1>3 DEF K
<1>6. CASE x.tag = "failed"
  <2>1. r = OnFailed(d, e) BY <1>1, <1>6
  <2> QED BY <1>2, <1>4, <1>5, <2>1, JFailed
<1>7. CASE x.tag = "sampled"
  <2> DEFINE calls == x.calls
             interrupted == x.interrupted
  <2>1. r = OnReply(a, calls, interrupted) BY <1>1, <1>7
  <2>2. e.kind = "sample" /\ calls \in SUBSET Calls /\ interrupted \in BOOLEAN /\ Expected(s, calls)
    BY <1>7, <1>e DEF ResultOK, Awaited
  <2> HIDE DEF calls, interrupted
  <2>3. K(a, U, F, R, M, V) /\ a.issued = d.issued /\ a.turn = d.turn /\ a.out = d.out /\ a.held = d.held
    BY <1>2, <1>b, KSpent
  <2>4. a \in StateType /\ Alike(d, a) BY <1>5, <1>b, <2>3, JSpent DEF K
  <2>5. J(a, {}) BY <1>5, <2>4, JAlike
  <2>6. Free(a) /\ ~PreSampled(a) BY <1>4, <2>2, <2>3 DEF Arrives, Free, PreSampled
  <2>7. Expected(a, calls)
    <3>1. DOMAIN a.issued \subseteq DOMAIN s.issued /\ \A j \in DOMAIN a.issued : a.issued[j] = s.issued[j]
      BY <1>2, <2>3 DEF Sheds
    <3> QED BY <1>2, <2>2, <2>3, <3>1 DEF Expected
  <2>8. J(r, {}) /\ StartsNone(a, r) BY <2>1, <2>2, <2>4, <2>5, <2>6, <2>7, JReply
  <2> QED BY <2>4, <2>8 DEF StartsNone, Alike
<1>8. CASE x.tag = "executed"
  <2>1. r = Executed(d, e) BY <1>1, <1>8
  <2>2. e.kind = "execute" BY <1>8, <1>e DEF Awaited
  <2>3. Works(d, e) BY <1>4, <2>2 DEF Arrives, Working
  <2> QED BY <1>5, <2>1, <2>3, JExecuted
<1>9. CASE x.tag = "gated"
  <2> DEFINE u == x.verdict
  <2>1. r = Gated(d, e, u) BY <1>1, <1>9
  <2>2. e.kind \in {"hook", "human"} /\ VerdictFits(e, u) BY <1>9, <1>e DEF ResultOK
  <2> HIDE DEF u
  <2> QED BY <1>2, <1>4, <1>5, <2>1, <2>2, JGated
<1>10. CASE x.tag \in {"checkpointed", "restored"}
  <2>1. r = d BY <1>1, <1>10
  <2> QED BY <1>5, <2>1, StartsNoneRefl
<1> QED BY <1>6, <1>7, <1>8, <1>9, <1>10 DEF ResultOK

(* An outstanding effect has completed. *)
LEMMA JCompleted ==
  ASSUME NEW s, NEW U, NEW F, NEW R, NEW M, NEW V, K(s, U, F, R, M, V), J(s, {}),
         NEW id \in DOMAIN s.issued, NEW x, ResultOK(s, U, F, id, x), Awaited(s, id, x),
         NEW r, r = Completed(s, id, x), r \in StateType,
         NEW X, X = CheckpointOf(s.issued[id])
  PROVE  J(r, X) /\ Begins(s.issued, r, X) /\ DOMAIN s.issued \subseteq Nat
<1> DEFINE e == s.issued[id]
           d == Settle(s, id)
<1>0. s \in StateType BY DEF K
<1>1. J(d, X) /\ Begins(s.issued, d, X) /\ StartsNone(s, d) /\ DOMAIN s.issued \subseteq Nat
  BY JSettle
<1>2. d \in StateType BY KSettle DEF K
<1>3. CASE e.kind = "checkpoint"
  <2>1. ~(x.tag \in {"sampled", "executed", "gated"}) BY <1>3 DEF ResultOK, Awaited
  <2>2. OnFailed(d, e) = d BY <1>3 DEF OnFailed
  <2>3. r = d BY <2>1, <2>2 DEF Completed, ResultOK
  <2> QED BY <1>1, <2>3
<1>4. CASE e.kind # "checkpoint"
  <2>1. X = {} BY <1>4, CheckpointKind
  <2>2. d = Settle(s, id) /\ s.issued[id].kind # "checkpoint" BY <1>4
  <2> HIDE DEF d, e
  <2>3. J(r, {}) /\ StartsNone(d, r) BY <2>2, JOther
  <2>4. Begins(s.issued, r, {}) BY <1>1, <1>2, <2>3, NoneAfter
  <2> QED BY <1>1, <2>1, <2>3, <2>4
<1> QED BY <1>3, <1>4

(* A hard interrupt, after whatever else was decided. *)
LEMMA JHardDecide ==
  ASSUME NEW s, NEW U, NEW F, NEW R, NEW M, NEW V, K(s, U, F, R, M, V), J(s, {}),
         NEW I, DOMAIN I \subseteq Nat, Begins(I, s, {}),
         NEW x, x.tag = "hard", NEW r, r = Decide(s, x)
  PROVE  J(r, {}) /\ Begins(I, r, {})
<1> DEFINE a == Emptied(s)
           b == HardInterrupt(a)
           X == {}
<1>1. r = Advance(b)
  <2>1. Folded(a, x) = b BY DEF Folded
  <2> QED BY <2>1, DecideIs
<1>a. a = Emptied(s) /\ b = HardInterrupt(a) /\ X = {} OBVIOUS
<1> HIDE DEF a, b, X
<1>2. K(a, U, F, R, M, V) BY <1>a, KEmptied
<1>3. K(b, U, F, R, M, V) BY <1>2, <1>a, KHard
<1>4. s \in StateType /\ a \in StateType /\ b \in StateType BY <1>2, <1>3 DEF K
<1>5. Alike(s, a) BY <1>4, <1>a, JEmptied
<1>6. J(a, X) /\ Begins(I, a, X) BY <1>4, <1>5, <1>a, JAlike, BeginsAlike
<1>7. J(b, X) /\ (b = a \/ (DOMAIN b.issued = {} /\ b.n >= a.n)) BY <1>2, <1>6, <1>a, JHard
<1>8. Begins(I, b, X)
  <2>1. CASE b = a BY <1>6, <2>1
  <2>2. CASE DOMAIN b.issued = {} /\ b.n >= a.n BY <1>4, <1>6, <1>a, <2>2, BeginsEmpty
  <2> QED BY <1>7, <2>1, <2>2
<1>9. J(r, {}) /\ Begins(I, r, X) BY <1>1, <1>3, <1>7, <1>8, JAdvance
<1> QED BY <1>9, <1>a

(* The batches that an input lets start. *)
Allows(s, x) ==
  IF x.tag \in {"signal", "soft", "hard", "pause", "resume", "rewind"} THEN {}
  ELSE CheckpointOf(s.issued[x.id])

(* What a report says of its effect, see Awaited. *)
Apt(s, x) == x.tag \in {"sampled", "executed"} => Awaited(s, x.id, x)

(* Every input but a hard interrupt, before the steps that follow. *)
LEMMA JFolded ==
  ASSUME NEW s, NEW U, NEW F, NEW R, NEW M, NEW V, K(s, U, F, R, M, V), J(s, {}),
         NEW x, InputOK(s, U, F, x), Apt(s, x), x.tag # "hard",
         NEW r, r = Folded(s, x), r \in StateType, NEW X, X = Allows(s, x)
  PROVE  J(r, X) /\ Begins(s.issued, r, X) /\ DOMAIN s.issued \subseteq Nat
<1>0. s \in StateType BY DEF K
<1>1. CASE x.tag \in {"signal", "soft", "pause", "resume", "rewind"}
  <2>0. X = {} BY <1>1 DEF Allows
  <2>1. J(r, X) /\ StartsNone(s, r)
    <3>1. CASE x.tag = "signal"
      <4> DEFINE sig == x.signal
      <4>1. r = Signal(s, sig) BY <3>1 DEF Folded
      <4>2. sig \in Sent BY <3>1 DEF InputOK, ResultOK
      <4> HIDE DEF sig
      <4> QED BY <2>0, <4>1, <4>2, JSignal
    <3>2. CASE x.tag = "soft"
      <4>1. r = SoftInterrupt(s) BY <3>2 DEF Folded
      <4> QED BY <1>0, <2>0, <4>1, JSoft
    <3>3. CASE x.tag = "pause"
      <4>1. r = Pause(s) BY <3>3 DEF Folded
      <4> QED BY <1>0, <2>0, <4>1, JPause
    <3>4. CASE x.tag = "resume"
      <4>1. r = Resume(s) BY <3>4 DEF Folded
      <4> QED BY <1>0, <2>0, <4>1, JResume
    <3>5. CASE x.tag = "rewind"
      <4>1. r = Rewind(s) BY <3>5 DEF Folded
      <4> QED BY <2>0, <4>1, JRewind
    <3> QED BY <1>1, <3>1, <3>2, <3>3, <3>4, <3>5
  <2>2. DOMAIN s.issued \subseteq Nat /\ Begins(s.issued, r, {}) BY <2>1, BeginsNone
  <2> QED BY <2>0, <2>1, <2>2
<1>2. CASE x.tag \notin {"signal", "soft", "hard", "pause", "resume", "rewind"}
  <2> DEFINE id == x.id
  <2>1. id \in DOMAIN s.issued /\ ResultOK(s, U, F, id, x) BY <1>2 DEF InputOK
  <2>2. x.tag \in {"failed", "sampled", "executed", "gated", "checkpointed", "restored"}
    BY <2>1 DEF ResultOK
  <2>3. r = Completed(s, id, x) BY <1>2, <2>2 DEF Folded
  <2>4. Awaited(s, id, x) BY DEF Apt, Awaited
  <2>5. X = CheckpointOf(s.issued[id]) BY <1>2 DEF Allows
  <2> HIDE DEF id
  <2> QED BY <2>1, <2>3, <2>4, <2>5, JCompleted
<1> QED BY <1>1, <1>2

(* One decision. *)
LEMMA JDecide ==
  ASSUME NEW s, NEW U, NEW F, NEW R, NEW M, NEW V, K(s, U, F, R, M, V), J(s, {}),
         NEW x, InputOK(s, U, F, x), Apt(s, x), x.tag # "hard",
         NEW W \in SUBSET Calls, x.tag = "sampled" \/ W = V,
         NEW r, r = Decide(s, x), NEW X, X = Allows(s, x)
  PROVE  J(r, {}) /\ Begins(s.issued, r, X)
<1> DEFINE a == Emptied(s)
           b == Folded(a, x)
           I == s.issued
<1>1. r = Advance(b) BY DecideIs
<1>a. a = Emptied(s) /\ b = Folded(a, x) /\ I = s.issued OBVIOUS
<1> HIDE DEF a, b, I
<1>2. /\ K(a, U, F, R, M, V) /\ DOMAIN a.out = {} /\ a.turn = s.turn /\ a.issued = s.issued
      /\ a.restoring = s.restoring /\ a.continuations = s.continuations /\ a.held = s.held
  BY <1>a, KEmptied
<1>3. InputOK(a, U, F, x)
  <2>1. \A c : Fresh(s, F, c) => Fresh(a, F, c) BY <1>2 DEF Fresh, Unstarted, Starts, Unclaimed
  <2>2. \A id : ResultOK(s, U, F, id, x) => ResultOK(a, U, F, id, x) BY <1>2, <2>1 DEF ResultOK
  <2>3. \A sig : Rejected(s, sig) <=> Rejected(a, sig) BY <1>2 DEF Rejected, Idle, HasTurn
  <2> QED BY <1>2, <2>2, <2>3 DEF InputOK
<1>4. K(b, U, F, R, M, W) BY <1>2, <1>3, <1>a, KFolded
<1>5. s \in StateType /\ a \in StateType /\ b \in StateType BY <1>2, <1>4 DEF K
<1>6. J(a, {})
  <2> DEFINE Y == {}
  <2>1. J(s, Y) OBVIOUS
  <2> HIDE DEF Y
  <2>2. J(a, Y) BY <1>5, <1>a, <2>1, JEmptied, JAlike
  <2> QED BY <2>2 DEF Y
<1>7. Apt(a, x) /\ X = Allows(a, x) BY <1>2 DEF Apt, Awaited, Expected, Allows
<1>8. J(b, X) /\ Begins(a.issued, b, X) /\ DOMAIN a.issued \subseteq Nat
  BY <1>2, <1>3, <1>5, <1>6, <1>7, <1>a, JFolded
<1>9. Begins(I, b, X) /\ DOMAIN I \subseteq Nat BY <1>2, <1>8, <1>a
<1>10. J(r, {}) /\ Begins(I, r, X) BY <1>1, <1>4, <1>8, <1>9, JAdvance
<1> QED BY <1>10, <1>a

(* A call starts while its reply still streams. *)
LEMMA JStreamedDecide ==
  ASSUME NEW s, NEW U, NEW F, NEW R, NEW M, NEW V, K(s, U, F, R, M, V), J(s, {}),
         NEW c \in Calls, c \notin U, NEW id, id # NoId, MayStartEarly(s, id, c),
         NEW x, x.tag = "streamed", x.call = c, NEW r, r = Decide(s, x)
  PROVE  J(r, {}) /\ Begins(s.issued, r, {})
<1> DEFINE a == Emptied(s)
           C == {c}
           b == Issue(a, Execute(C))
           U2 == U \cup {c}
           W == V \cup {c}
           I == s.issued
           X == {}
<1>1. Folded(a, x) = b BY DEF Folded
<1>2. r = Advance(b) BY <1>1, DecideIs
<1>3. /\ K(a, U, F, R, M, V) /\ DOMAIN a.out = {} /\ a.turn = s.turn /\ a.issued = s.issued
      /\ a.restoring = s.restoring /\ a.continuations = s.continuations /\ a.held = s.held
  BY KEmptied
<1>a. /\ b = Issue(a, Execute(C)) /\ a = Emptied(s) /\ C = {c} /\ U2 = U \cup {c} /\ W = V \cup {c}
      /\ I = s.issued /\ X = {}
  OBVIOUS
<1> HIDE DEF a, b, U2, W, I, X
<1>4. Fresh(a, F, c) /\ c \notin DOMAIN a.turn.slots BY <1>3, NewCall
<1>5. U2 \in SUBSET Calls /\ U \subseteq U2 /\ c \in U2 /\ R \in EffectMap
  BY <1>3, <1>a DEF K, Context
<1>6. K(a, U2, F, R, M, V) BY <1>3, <1>5, KWider
<1>7. Attr[c].rings = "allow" /\ ~SideEffecting(c)
  <2> DEFINE sl == NewSlot(c, FALSE)
  <2>1. Evaluate(s, sl) = "allow" /\ ~SideEffecting(c) BY DEF MayStartEarly
  <2>2. Rings(sl) = Attr[c].rings BY DEF Rings, NewSlot
  <2> HIDE DEF sl
  <2> QED BY <2>1, <2>2, EvaluateIs
<1>8. MayStart(a, U2, F, c) BY <1>4, <1>5, <1>7 DEF MayStart, Fresh
<1>9. a.turn.cause # "none" /\ a.turn.sample # NoId BY <1>3 DEF MayStartEarly, HasTurn
<1>10. C \in SUBSET Calls /\ (\A d \in C : MayStart(a, U2, F, d)) BY <1>8, <1>a
<1>11. W \in {V, V \cup C} BY <1>a
<1> HIDE DEF C
<1>12. K(b, U2, F, R, M, W) BY <1>6, <1>9, <1>10, <1>11, <1>a, KExecute
<1>13. s \in StateType /\ a \in StateType BY <1>3 DEF K
<1>14. J(a, X) BY <1>13, <1>a, JEmptied, JAlike
<1>15. J(b, {}) /\ Begins(a.issued, b, {}) BY <1>3, <1>4, <1>7, <1>9, <1>14, <1>a, JStreamed
<1>16. J(b, X) /\ Begins(I, b, X) BY <1>3, <1>15, <1>a
<1>17. DOMAIN I \subseteq Nat BY <1>13, <1>a, StateShape
<1>18. J(r, {}) /\ Begins(I, r, X) BY <1>2, <1>12, <1>16, <1>17, JAdvance
<1> QED BY <1>18, <1>a

(* The turn of the session waits for its checkpoints as it should. *)
StartsInv == SessionInv /\ J(k, {})

(* What Apply keeps of a decision. *)
LEMMA JCommit ==
  ASSUME NEW d \in StateType, J(d, {}), NEW X, Begins(k.issued, d, X),
         NEW running, NEW calls, Apply(d, running, calls)
  PROVE  J(k', {}) /\ CheckpointStep
<1> DEFINE r == Commit(d)
           Y == {}
<1>1. k' = r BY DEF Apply, Commit
<1>2. Alike(d, r) BY DEF Commit, Alike, StateType
<1>3. J(d, Y) OBVIOUS
<1> HIDE DEF r, Y
<1>4. J(r, Y) BY <1>2, <1>3, JAlike
<1>5. Begins(k.issued, r, X) BY <1>2, BeginsAlike
<1>6. CheckpointStep
  <2>1. SUFFICES ASSUME NEW id \in DOMAIN k'.issued \ DOMAIN k.issued,
                        k'.issued[id].kind = "execute",
                        \E c \in k'.issued[id].calls : NeedsCheckpoint(Content(k', c))
                 PROVE  \E j \in DOMAIN k.issued \ DOMAIN k'.issued :
                          k.issued[j] = Checkpoint("batch", k'.issued[id].calls)
    BY DEF CheckpointStep
  <2> DEFINE C == k'.issued[id].calls
  <2>2. C = r.issued[id].calls /\ id \in DOMAIN r.issued \ DOMAIN k.issued /\ r.issued[id].kind = "execute"
    BY <1>1, <2>1
  <2>3. C \in X \/ \A c \in C : ~NeedsCheckpoint(Content(r, c)) BY <1>5, <2>2 DEF Begins
  <2>4. C \in X BY <1>1, <2>1, <2>3
  <2> QED BY <1>1, <1>5, <2>4 DEF Begins
<1> QED BY <1>1, <1>4, <1>6 DEF Y

(* The books of the session before any decision. *)
LEMMA BooksNow ==
  ASSUME SessionInv
  PROVE  /\ K(k, used, fired, inflight, k.turn.sample, streamed) /\ streamed \in SUBSET Calls
         /\ DOMAIN k.issued \subseteq Nat /\ Begins(k.issued, k, {})
<1> DEFINE M == k.turn.sample
<1>1. K(k, used, fired, inflight, M, streamed) BY DEF SessionInv
<1> HIDE DEF M
<1>2. streamed \in SUBSET Calls BY <1>1 DEF K, Context
<1>3. k \in StateType BY <1>1 DEF K
<1>4. StartsNone(k, k) BY <1>3, StateIs, StartsNoneSame
<1>5. DOMAIN k.issued \subseteq Nat /\ Begins(k.issued, k, {}) BY <1>1, <1>3, <1>4, BeginsNone
<1> QED BY <1>1, <1>2, <1>5 DEF M

(* A decision that learns of no new call. *)
LEMMA DecidedStarts ==
  ASSUME StartsInv, NEW x, InputOK(k, used, fired, x), x.tag \notin {"sampled", "streamed"}, Apt(k, x),
         NEW d, d = Decide(k, x), NEW running, NEW calls, Apply(d, running, calls)
  PROVE  J(k', {}) /\ CheckpointStep
<1> DEFINE M == k.turn.sample
           I == k.issued
           X == Allows(k, x)
<1>1. /\ K(k, used, fired, inflight, M, streamed) /\ streamed \in SUBSET Calls
      /\ DOMAIN I \subseteq Nat /\ Begins(I, k, {})
  BY BooksNow DEF StartsInv
<1>2. J(k, {}) /\ X = Allows(k, x) /\ I = k.issued BY DEF StartsInv
<1> HIDE DEF M, I, X
<1>3. K(d, used, fired, inflight, M, streamed) BY <1>1, KDecide
<1>4. d \in StateType BY <1>3 DEF K
<1>5. CASE x.tag = "hard"
  <2> DEFINE Y == {}
  <2>1. J(d, {}) /\ Begins(I, d, {}) BY <1>1, <1>2, <1>5, JHardDecide
  <2>2. Begins(k.issued, d, Y) BY <1>2, <2>1
  <2> HIDE DEF Y
  <2> QED BY <1>4, <2>1, <2>2, JCommit
<1>6. CASE x.tag # "hard"
  <2>1. J(d, {}) /\ Begins(k.issued, d, X) BY <1>1, <1>2, <1>6, JDecide
  <2> QED BY <1>4, <2>1, JCommit
<1> QED BY <1>5, <1>6

(* A signal. *)
LEMMA SendStarts ==
  ASSUME StartsInv, NEW signal \in Signals, Send(signal)
  PROVE  J(k', {}) /\ CheckpointStep
<1> DEFINE x == [tag |-> "signal", signal |-> signal]
           d == Decide(k, x)
           none == {}
<1>1. ~Rejected(k, signal) /\ Apply(d, inflight, none) BY DEF Send
<1>2. x.tag = "signal" /\ x.signal = signal /\ d = Decide(k, x) OBVIOUS
<1> HIDE DEF x, d, none
<1>3. signal \in Sent BY SessionAssumption DEF Sent
<1>4. InputOK(k, used, fired, x) /\ Apt(k, x) BY <1>1, <1>2, <1>3 DEF InputOK, Apt
<1> QED BY <1>1, <1>2, <1>4, DecidedStarts

(* Pause, resume, rewind and a soft interrupt. *)
LEMMA ControlStarts ==
  ASSUME StartsInv, NEW control \in Controls \ {"hard"}, Control(control)
  PROVE  J(k', {}) /\ CheckpointStep
<1> DEFINE x == [tag |-> control]
           d == Decide(k, x)
           none == {}
<1>1. Apply(d, inflight, none) BY DEF Control
<1>2. x.tag = control /\ d = Decide(k, x) OBVIOUS
<1> HIDE DEF x, d, none
<1>3. control \in {"soft", "pause", "resume", "rewind"} BY SessionAssumption
<1>4. InputOK(k, used, fired, x) /\ Apt(k, x) BY <1>2, <1>3 DEF InputOK, Apt
<1> QED BY <1>1, <1>2, <1>3, <1>4, DecidedStarts

(* A reply, as a decision. *)
LEMMA JSampledDecide ==
  ASSUME StartsInv, NEW R, Within(R, inflight),
         NEW id \in DOMAIN k.issued, k.issued[id].kind = "sample",
         NEW calls \in Replies, NEW x, x.tag = "sampled", x.id = id, x.calls = calls,
         x.interrupted \in BOOLEAN, x.spent \in BOOLEAN,
         NEW d, d = Decide(k, x)
  PROVE  J(d, {}) /\ Begins(k.issued, d, {})
<1> DEFINE U == used \cup calls
           W == streamed \cup calls
           M == k.turn.sample
           X == Allows(k, x)
<1>0. SessionInv /\ J(k, {}) BY DEF StartsInv
<1>1. K(k, used, fired, R, M, streamed) BY <1>0, KFewer
<1>2. PICK new \in SUBSET (Calls \ used) : calls = streamed \cup new BY DEF Replies
<1>3. used \subseteq Calls /\ streamed \subseteq used /\ streamed \subseteq Calls
  BY <1>0, <1>1 DEF K, Context, SessionInv
<1>4. U \in SUBSET Calls /\ used \subseteq U /\ W \in SUBSET Calls BY <1>2, <1>3
<1>5. calls \subseteq U OBVIOUS
<1>x. X = {}
  <2>1. X = CheckpointOf(k.issued[id]) BY DEF Allows
  <2> QED BY <2>1, CheckpointKind
<1>y. X = Allows(k, x) OBVIOUS
<1> HIDE DEF U, W, X
<1>6. K(k, U, fired, R, M, streamed)
  <2>1. R \in EffectMap BY DEF Within
  <2> QED BY <1>1, <1>4, <2>1, KWider
<1>7. id = M /\ M # NoId BY <1>1 DEF K, SampleId, Ids, NoId
<1>8. streamed \subseteq DOMAIN k.turn.slots BY <1>1, <1>7 DEF K, Early
<1>9. ASSUME NEW c \in calls PROVE c \in DOMAIN k.turn.slots \/ Fresh(k, fired, c)
  <2>1. CASE c \in streamed BY <1>8, <2>1
  <2>2. CASE c \in new BY <1>1, <2>2, NewCall
  <2> QED BY <1>2, <2>1, <2>2
<1>10. InputOK(k, U, fired, x)
  <2>1. ResultOK(k, U, fired, x.id, x) BY <1>5, <1>9 DEF ResultOK
  <2> QED BY <2>1 DEF InputOK
<1>11. Apt(k, x)
  <2>1. ASSUME NEW c \in calls
        PROVE  c \in DOMAIN k.turn.slots \/ \A i \in DOMAIN k.issued : c \notin k.issued[i].calls
    <3>1. \A i \in DOMAIN k.issued : k.issued[i].calls \subseteq used BY <1>1 DEF K, Known
    <3> QED BY <1>2, <1>8, <3>1
  <2>2. calls \subseteq Calls BY <1>2, <1>3
  <2> QED BY <2>1, <2>2 DEF Apt, Awaited, Expected
<1> HIDE DEF M
<1>12. J(d, {}) /\ Begins(k.issued, d, X) BY <1>0, <1>4, <1>6, <1>10, <1>11, <1>y, JDecide
<1> QED BY <1>12, <1>x

(* A hard interrupt with its cancelled effects. *)
LEMMA HardStarts ==
  ASSUME StartsInv, HardInterruptAll
  PROVE  J(k', {}) /\ CheckpointStep
<1> DEFINE D == {id \in DOMAIN inflight : inflight[id].kind = "restore"}
           running == Restrict(inflight, D)
           sampling == DOMAIN inflight \cap {id \in DOMAIN k.issued : k.issued[id].kind = "sample"}
           hard == [tag |-> "hard"]
           partial(id, calls) == Decide(k, [tag |-> "sampled", id |-> id, calls |-> calls,
                                            interrupted |-> TRUE, spent |-> FALSE])
           after(id, calls) == Decide(partial(id, calls), hard)
           told(id, calls) == IF after(id, calls).finish = "none" /\ partial(id, calls).finish # "none"
                                THEN [after(id, calls) EXCEPT !.finish = "kept"] ELSE after(id, calls)
           none == {}
<1>1. \/ Apply(Decide(k, hard), running, none)
      \/ \E id \in sampling, calls \in Replies : Apply(told(id, calls), running, calls)
  BY DEF HardInterruptAll
<1>0. SessionInv BY DEF StartsInv
<1>2. Within(running, inflight)
  <2>1. D \in SUBSET DOMAIN inflight /\ running = Restrict(inflight, D) OBVIOUS
  <2> HIDE DEF D, running
  <2>2. inflight \in EffectMap BY <1>0, InflightWithin
  <2> QED BY <2>1, <2>2, RestrictWithin
<1>3. hard.tag = "hard" /\ none = {} OBVIOUS
<1> HIDE DEF running, hard, none
<1>4. CASE Apply(Decide(k, hard), running, none)
  <2> DEFINE d == Decide(k, hard)
  <2>1. d = Decide(k, hard) /\ Apply(d, running, none) BY <1>4
  <2> HIDE DEF d
  <2>2. InputOK(k, used, fired, hard) /\ Apt(k, hard) BY <1>3 DEF InputOK, Apt
  <2>3. hard.tag \notin {"sampled", "streamed"} BY <1>3
  <2> QED BY <2>1, <2>2, <2>3, DecidedStarts
<1>5. ASSUME NEW id \in sampling, NEW calls \in Replies, Apply(told(id, calls), running, calls)
      PROVE  J(k', {}) /\ CheckpointStep
  <2> DEFINE x == [tag |-> "sampled", id |-> id, calls |-> calls, interrupted |-> TRUE, spent |-> FALSE]
             p == Decide(k, x)
             a == Decide(p, hard)
             d == IF a.finish = "none" /\ p.finish # "none" THEN [a EXCEPT !.finish = "kept"] ELSE a
             U == used \cup calls
             W == streamed \cup calls
             M == k.turn.sample
             I == k.issued
             X == {}
  <2>1. Apply(d, running, calls) BY <1>5
  <2>2. /\ x.tag = "sampled" /\ x.id = id /\ x.calls = calls /\ x.interrupted \in BOOLEAN /\ x.spent \in BOOLEAN
        /\ p = Decide(k, x) /\ a = Decide(p, hard) /\ I = k.issued /\ X = {}
    OBVIOUS
  <2>3. d = a \/ d = PutFinish(a, "kept") BY DEF PutFinish
  <2>4. id \in DOMAIN k.issued /\ k.issued[id].kind = "sample" OBVIOUS
  <2> HIDE DEF x, p, a, d, I, X
  <2>5. K(p, U, fired, running, M, W) BY <1>0, <1>2, <2>2, <2>4, KSampled
  <2>6. J(p, {}) /\ Begins(k.issued, p, {}) BY <1>2, <2>2, <2>4, JSampledDecide
  <2>7. DOMAIN I \subseteq Nat /\ Begins(I, p, {}) BY <1>0, <2>2, <2>6, BooksNow
  <2>8. K(a, U, fired, running, M, W)
    <3>1. InputOK(p, U, fired, hard) BY <1>3 DEF InputOK
    <3>2. W \in SUBSET Calls BY <2>5 DEF K, Context
    <3> HIDE DEF U, W, M
    <3> QED BY <2>2, <2>5, <3>1, <3>2, KDecide
  <2>9. K(d, U, fired, running, M, W) BY <2>3, <2>8, KFinishPut
  <2> HIDE DEF U, W, M
  <2>10. J(a, {}) /\ Begins(I, a, {}) BY <1>3, <2>2, <2>5, <2>6, <2>7, JHardDecide
  <2>11. a \in StateType /\ d \in StateType BY <2>8, <2>9 DEF K
  <2>12. Alike(a, d) BY <2>3, <2>11 DEF PutFinish, Alike, StateType
  <2>13. J(a, X) /\ Begins(I, a, X) BY <2>2, <2>10
  <2>14. J(d, X) /\ Begins(I, d, X) BY <2>11, <2>12, <2>13, JAlike, BeginsAlike
  <2>15. J(d, {}) /\ Begins(k.issued, d, X) BY <2>2, <2>14
  <2> QED BY <2>1, <2>11, <2>15, JCommit
<1> QED BY <1>1, <1>4, <1>5

(* A call streamed early. *)
LEMMA StreamedStarts ==
  ASSUME StartsInv, NEW id \in DOMAIN inflight, NEW c \in Calls, Streamed(id, c)
  PROVE  J(k', {}) /\ CheckpointStep
<1> DEFINE x == [tag |-> "streamed", id |-> id, call |-> c]
           d == Decide(k, x)
           calls == {c}
           U == used \cup {c}
           W == streamed \cup {c}
           M == k.turn.sample
           X == {}
<1>0. SessionInv /\ J(k, {}) BY DEF StartsInv
<1>1. c \notin used /\ MayStartEarly(k, id, c) /\ Apply(d, inflight, calls) BY DEF Streamed
<1>2. x.tag = "streamed" /\ x.call = c /\ d = Decide(k, x) /\ U = used \cup {c} /\ W = streamed \cup {c}
      /\ X = {}
  OBVIOUS
<1> HIDE DEF x, d, U, W, M, X, calls
<1>3. K(k, used, fired, inflight, M, streamed) BY <1>0, BooksNow DEF M
<1>4. id # NoId BY <1>3 DEF K, Flight, NoId
<1>5. K(d, U, fired, inflight, M, W) BY <1>1, <1>2, <1>3, KStreamed
<1>6. J(d, {}) /\ Begins(k.issued, d, {}) BY <1>0, <1>1, <1>2, <1>3, <1>4, JStreamedDecide
<1>7. d \in StateType /\ Begins(k.issued, d, X) BY <1>2, <1>5, <1>6 DEF K
<1> QED BY <1>1, <1>6, <1>7, JCommit

(* A reply. *)
LEMMA RepliedStarts ==
  ASSUME StartsInv, NEW id \in DOMAIN inflight, Replied(id)
  PROVE  J(k', {}) /\ CheckpointStep
<1> DEFINE running == Landed(id)
<1>0. SessionInv BY DEF StartsInv
<1>1. /\ id \in DOMAIN k.issued /\ inflight[id].kind = "sample"
      /\ \E calls \in Replies, spent \in (IF Budgeted THEN BOOLEAN ELSE {FALSE}) :
            Apply(Decide(k, Sampled(id, calls, spent)), running, calls)
  BY DEF Replied
<1>2. PICK calls \in Replies, spent \in BOOLEAN :
         Apply(Decide(k, Sampled(id, calls, spent)), running, calls)
  BY <1>1
<1> DEFINE x == Sampled(id, calls, spent)
           d == Decide(k, x)
           X == {}
<1>3. Apply(d, running, calls) /\ d = Decide(k, x) /\ X = {} BY <1>2
<1>4. /\ x.tag = "sampled" /\ x.id = id /\ x.calls = calls /\ x.interrupted \in BOOLEAN /\ x.spent \in BOOLEAN
  BY DEF Sampled
<1> HIDE DEF x, d, X
<1>5. Within(running, inflight) BY <1>0, LandedWithin
<1>6. k.issued[id] = inflight[id] BY <1>0, <1>1 DEF SessionInv, K, Flight
<1>7. k.issued[id].kind = "sample" BY <1>1, <1>6
<1> HIDE DEF running
<1>8. K(d, used \cup calls, fired, running, k.turn.sample, streamed \cup calls)
  BY <1>0, <1>1, <1>3, <1>4, <1>5, <1>7, KSampled
<1>9. J(d, {}) /\ Begins(k.issued, d, {}) BY <1>1, <1>3, <1>4, <1>5, <1>7, JSampledDecide
<1>10. d \in StateType /\ Begins(k.issued, d, X) BY <1>3, <1>8, <1>9 DEF K
<1> QED BY <1>3, <1>9, <1>10, JCommit

(* The report of any other effect. *)
LEMMA ReportedStarts ==
  ASSUME StartsInv, NEW id \in DOMAIN inflight, Reported(id)
  PROVE  J(k', {}) /\ CheckpointStep
<1> DEFINE running == Landed(id)
           none == {}
<1>0. SessionInv BY DEF StartsInv
<1>1. PICK x : /\ InputOK(k, used, fired, x) /\ x.tag \notin {"sampled", "streamed"}
               /\ x.tag = "executed" => k.issued[x.id].kind = "execute"
               /\ Apply(Decide(k, x), running, none)
  BY <1>0, ReportIs
<1> DEFINE d == Decide(k, x)
<1>2. Apply(d, running, none) /\ d = Decide(k, x) BY <1>1
<1> HIDE DEF running, none, d
<1>3. Apt(k, x) BY <1>1 DEF Apt, Awaited
<1> QED BY <1>1, <1>2, <1>3, DecidedStarts

(* The kernel is not asked. *)
LEMMA SameStarts ==
  ASSUME StartsInv, UNCHANGED k
  PROVE  J(k', {}) /\ CheckpointStep
<1> DEFINE X == {}
<1>1. J(k, X) BY DEF StartsInv
<1> HIDE DEF X
<1>2. J(k', X) BY <1>1
<1> QED BY <1>2 DEF CheckpointStep, X

(* The session begins with a turn that waits for nothing. *)
LEMMA InitStarts ==
  ASSUME Init
  PROVE  StartsInv
<1> DEFINE X == {}
<1>1. k.turn = NewTurn("none") /\ k.issued = <<>> BY DEF Init, InitState
<1>2. ~PreSampled(k) BY <1>1, EmptyMaps DEF PreSampled
<1> HIDE DEF X
<1>3. J(k, X) BY <1>1, <1>2, JNew
<1> QED BY <1>3, InitInv DEF StartsInv, X

(* Every step of the session, with the checkpoints it owes. *)
LEMMA NextStarts ==
  ASSUME StartsInv, [Next]_vars
  PROVE  StartsInv' /\ CheckpointStep
<1>0. SessionInv' BY NextInv DEF StartsInv
<1>1. CASE \E signal \in Signals : Send(signal) BY <1>0, <1>1, SendStarts DEF StartsInv
<1>2. CASE \E control \in Controls \ {"hard"} : Control(control) BY <1>0, <1>2, ControlStarts DEF StartsInv
<1>3. CASE HardInterruptAll BY <1>0, <1>3, HardStarts DEF StartsInv
<1>4. CASE \E id \in DOMAIN inflight, c \in Calls : Streamed(id, c)
  BY <1>0, <1>4, StreamedStarts DEF StartsInv
<1>5. CASE \E id \in DOMAIN inflight : Replied(id) BY <1>0, <1>5, RepliedStarts DEF StartsInv
<1>6. CASE \E id \in DOMAIN inflight : Reported(id) BY <1>0, <1>6, ReportedStarts DEF StartsInv
<1>7. CASE \E id \in DOMAIN inflight : Stale(id)
  <2>1. UNCHANGED k BY <1>7 DEF Stale
  <2> QED BY <1>0, <2>1, SameStarts DEF StartsInv
<1>8. CASE Restart
  <2>1. UNCHANGED k BY <1>8 DEF Restart
  <2> QED BY <1>0, <2>1, SameStarts DEF StartsInv
<1>9. CASE UNCHANGED vars
  <2>1. UNCHANGED k BY <1>9 DEF vars
  <2> QED BY <1>0, <2>1, SameStarts DEF StartsInv
<1> QED BY <1>1, <1>2, <1>3, <1>4, <1>5, <1>6, <1>7, <1>8, <1>9 DEF Next, Complete

(* A batch that may write starts in the step in which the checkpoint taken *)
(* for exactly that batch has completed, whatever else happens meanwhile.  *)
THEOREM CheckpointsFirst == Spec => CheckpointFirst
<1>1. Init => StartsInv BY InitStarts
<1>2. StartsInv /\ [Next]_vars => StartsInv' /\ CheckpointStep BY NextStarts
<1>3. Spec => []StartsInv BY <1>1, <1>2, PTL DEF Spec
<1>4. Spec => [][Next]_vars BY PTL DEF Spec
<1>5. StartsInv /\ [Next]_vars => [CheckpointStep]_vars BY <1>2
<1> QED BY <1>3, <1>4, <1>5, PTL DEF CheckpointFirst
=============================================================================
