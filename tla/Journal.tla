------------------------------ MODULE Journal ------------------------------
(***************************************************************************)
(* One session's journal and the drivers that compete for it.              *)
(*                                                                         *)
(* The journal store (runtime/src/mem.rs, adapters/src/store/sqlite.rs)    *)
(* keeps an append-only log, a lease generation and one state snapshot.    *)
(* Every driver (runtime/src/driver.rs) is an actor that takes the lease,  *)
(* folds the log (or a snapshot and the events after it) into its private  *)
(* state, decides on that state, appends the decision under its lease and  *)
(* expected sequence number, and only then dispatches the effects.         *)
(*                                                                         *)
(* The folded state is abstracted to the sequence of entries it was folded *)
(* from: two drivers have the same state exactly when they folded the same *)
(* entries.  Of the events, only those that say which effects exist are    *)
(* told apart.                                                             *)
(***************************************************************************)
EXTENDS Integers, FiniteSets, Sequences

CONSTANTS
  Drivers,        \* actor instances that may drive the session
  SnapshotEvery,  \* RuntimeOptions::snapshot_every (0 = never)
  StoreErrors,    \* TRUE: an append may fail with StoreError::Io
  MaxGen,         \* bound on lease generations
  MaxLog,         \* bound on the length of the log
  MaxErrors       \* bound on store errors

ASSUME JournalAssumption ==
  /\ SnapshotEvery \in Nat
  /\ StoreErrors \in BOOLEAN
  /\ MaxGen \in Nat /\ MaxLog \in Nat /\ MaxErrors \in Nat

VARIABLES
  log,       \* the stored events
  lease,     \* the session's current lease generation
  snap,      \* the saved snapshot: the sequence number it covers and the state
  pc,        \* what each driver is doing
  gen,       \* the lease generation each driver holds
  st,        \* the state each driver has folded
  snapAt,    \* Actor::last_snapshot
  inflight,  \* effects each driver has running
  pending,   \* effects a commit has returned and the driver has yet to dispatch
  errors     \* store errors so far (bounds the model)

store == <<log, lease, snap>>
vars  == <<log, lease, snap, pc, gen, st, snapAt, inflight, pending, errors>>

-----------------------------------------------------------------------------
(* Entries, and what a fold of them knows about effects.                   *)

Kinds == {"start", "issue", "settle", "drop", "note"}
Entry == [kind : Kinds, id : Nat, gen : Nat]

NoSnap == [seq |-> 0, state |-> <<>>]

OfKind(k, s) == {s[i].id : i \in {j \in DOMAIN s : s[j].kind = k}}
Issued(s)    == OfKind("issue", s)
Settled(s)   == OfKind("settle", s)

(* The end of a turn and a hard interrupt forget every issued effect.      *)
Dropped(s) == {s[i].id : i \in {j \in DOMAIN s : /\ s[j].kind = "issue"
                                                 /\ \E k \in DOMAIN s : k > j /\ s[k].kind = "drop"}}

(* State::outstanding: what recovery re-dispatches.                        *)
Outstanding(s) == Issued(s) \ (Settled(s) \cup Dropped(s))

(* State::next_n: effects are numbered by the fold.                        *)
NextN(s) == Cardinality(Issued(s))

(* The decisions a driver can reach in state s: a new session's first      *)
(* events, an event without effects, a new effect, the end of a turn (or a *)
(* hard interrupt), the completion of a running effect, and a completion   *)
(* that issues the next effect.                                            *)
Start(d)      == <<[kind |-> "start", id |-> 0, gen |-> gen[d]]>>
Note(d)       == <<[kind |-> "note", id |-> 0, gen |-> gen[d]]>>
Issue(d, s)   == <<[kind |-> "issue", id |-> NextN(s), gen |-> gen[d]]>>
Clear(d)      == <<[kind |-> "drop", id |-> 0, gen |-> gen[d]]>>
Settle(d, e)  == <<[kind |-> "settle", id |-> e, gen |-> gen[d]]>>
Pipeline(d, e) == Settle(d, e) \o Issue(d, st[d] \o Settle(d, e))

-----------------------------------------------------------------------------
Init ==
  /\ log = <<>>
  /\ lease = 0
  /\ snap = NoSnap
  /\ pc = [d \in Drivers |-> "off"]
  /\ gen = [d \in Drivers |-> 0]
  /\ st = [d \in Drivers |-> <<>>]
  /\ snapAt = [d \in Drivers |-> 0]
  /\ inflight = [d \in Drivers |-> {}]
  /\ pending = [d \in Drivers |-> {}]
  /\ errors = 0

(* The driver's volatile state is gone.                                    *)
Drop(d) ==
  /\ pc' = [pc EXCEPT ![d] = "off"]
  /\ st' = [st EXCEPT ![d] = <<>>]
  /\ snapAt' = [snapAt EXCEPT ![d] = 0]
  /\ inflight' = [inflight EXCEPT ![d] = {}]
  /\ pending' = [pending EXCEPT ![d] = {}]

(***************************************************************************)
(* Runtime::create_session and resume_session both begin by taking (or     *)
(* stealing) the lease.                                                    *)
(***************************************************************************)
AcquireLease(d, how) ==
  /\ pc[d] = "off"
  /\ lease < MaxGen
  /\ lease' = lease + 1
  /\ gen' = [gen EXCEPT ![d] = lease + 1]
  /\ pc' = [pc EXCEPT ![d] = how]
  /\ UNCHANGED <<log, snap, st, snapAt, inflight, pending, errors>>

(* create_session: fails with AlreadyExists unless the log is empty; the   *)
(* actor starts from the default state.                                    *)
CreateCheck(d) ==
  /\ pc[d] = "create"
  /\ pc' = [pc EXCEPT ![d] = IF log = <<>> THEN "new" ELSE "off"]
  /\ UNCHANGED <<log, lease, snap, gen, st, snapAt, inflight, pending, errors>>

(* Runtime::load_snapshot.  A snapshot beyond the head, or one that does   *)
(* not decode, is ignored: the whole journal is folded.                    *)
LoadSnapshot(d) ==
  /\ pc[d] = "resume"
  /\ \/ /\ snap.seq # 0
        /\ snap.seq <= Len(log)
        /\ st' = [st EXCEPT ![d] = snap.state]
        /\ snapAt' = [snapAt EXCEPT ![d] = snap.seq]
     \/ /\ st' = [st EXCEPT ![d] = <<>>]
        /\ snapAt' = [snapAt EXCEPT ![d] = 0]
  /\ pc' = [pc EXCEPT ![d] = "load"]
  /\ UNCHANGED <<log, lease, snap, gen, inflight, pending, errors>>

(* Mutants of LoadEvents: nothing is dispatched; the snapshot is taken for *)
(* the whole state.                                                        *)
LoadEventsQuiet(d) ==
  /\ pc[d] = "load"
  /\ IF log = <<>>
       THEN Drop(d)
       ELSE /\ st' = [st EXCEPT ![d] = @ \o SubSeq(log, snapAt[d] + 1, Len(log))]
            /\ pc' = [pc EXCEPT ![d] = "live"]
            /\ UNCHANGED <<snapAt, inflight, pending>>
  /\ UNCHANGED <<log, lease, snap, gen, errors>>

LoadSnapshotOnly(d) ==
  /\ pc[d] = "load"
  /\ IF log = <<>>
       THEN Drop(d)
       ELSE /\ st' = [st EXCEPT ![d] = IF snapAt[d] = 0 THEN log ELSE @]
            /\ inflight' = [inflight EXCEPT ![d] = Outstanding(st'[d])]
            /\ pc' = [pc EXCEPT ![d] = "live"]
            /\ UNCHANGED <<snapAt, pending>>
  /\ UNCHANGED <<log, lease, snap, gen, errors>>

(* The rest of resume_session: load the events from the snapshot on, fold  *)
(* them, re-dispatch what the folded state has outstanding.  An empty      *)
(* journal is NotFound.                                                    *)
LoadEvents(d) ==
  /\ pc[d] = "load"
  /\ IF log = <<>>
       THEN Drop(d)
       ELSE LET folded == st[d] \o SubSeq(log, snapAt[d] + 1, Len(log))
            IN /\ st' = [st EXCEPT ![d] = folded]
               /\ inflight' = [inflight EXCEPT ![d] = Outstanding(folded)]
               /\ pc' = [pc EXCEPT ![d] = "live"]
               /\ UNCHANGED <<snapAt, pending>>
  /\ UNCHANGED <<log, lease, snap, gen, errors>>

(* Mutants of CommitWith, both on the append: nothing is checked; a        *)
(* refused batch is dispatched all the same.                               *)
Written(d, batch, running, fresh) ==
  /\ log' = log \o batch
  /\ st' = [st EXCEPT ![d] = @ \o batch]
  /\ pending' = [pending EXCEPT ![d] = Issued(batch)]
  /\ inflight' = [inflight EXCEPT ![d] = running]
  /\ pc' = [pc EXCEPT ![d] = fresh]
  /\ UNCHANGED <<lease, snap, gen, snapAt, errors>>

CommitUnchecked(d, batch, running, fresh, stale) == Written(d, batch, running, fresh)

CommitAnyway(d, batch, running, fresh, stale) ==
  IF gen[d] = lease /\ Len(log) = Len(st[d])
    THEN Written(d, batch, running, fresh)
    ELSE /\ pending' = [pending EXCEPT ![d] = Issued(batch)]
         /\ pc' = [pc EXCEPT ![d] = fresh]
         /\ UNCHANGED <<log, lease, snap, gen, st, snapAt, inflight, errors>>

(***************************************************************************)
(* Actor::commit_async.  The decision was made on st[d]; the append is     *)
(* checked against the lease and the expected sequence number and writes   *)
(* all of the batch or nothing.  A stale driver is fenced for good: it     *)
(* cancels everything it runs.  `running' is what is left in flight.       *)
(***************************************************************************)
CommitWith(d, batch, running, fresh, stale) ==
  \/ /\ gen[d] = lease
     /\ Len(log) = Len(st[d])
     /\ log' = log \o batch
     /\ st' = [st EXCEPT ![d] = @ \o batch]
     /\ pending' = [pending EXCEPT ![d] = Issued(batch)]
     /\ inflight' = [inflight EXCEPT ![d] = running]
     /\ pc' = [pc EXCEPT ![d] = fresh]
     /\ UNCHANGED <<lease, snap, gen, snapAt, errors>>
  \/ /\ gen[d] # lease \/ Len(log) # Len(st[d])
     /\ inflight' = [inflight EXCEPT ![d] = {}]
     /\ pc' = [pc EXCEPT ![d] = stale]
     /\ UNCHANGED <<log, lease, snap, gen, st, snapAt, pending, errors>>
  \/ /\ StoreErrors
     /\ errors < MaxErrors
     /\ errors' = errors + 1
     /\ inflight' = [inflight EXCEPT ![d] = running]
     /\ pc' = [pc EXCEPT ![d] = IF @ = "new" THEN "off" ELSE @]
     /\ UNCHANGED <<log, lease, snap, gen, st, snapAt, pending>>

(* create_session: commit the session's first events; on any error the     *)
(* actor is never started.                                                 *)
CreateCommit(d) ==
  /\ pc[d] = "new"
  /\ CommitWith(d, Start(d), {}, "committed", "off")

(* An input the kernel accepts without issuing an effect, one that issues  *)
(* an effect, and one that ends the turn: what the turn had issued is      *)
(* forgotten but goes on running.                                          *)
Input(d) ==
  /\ pc[d] = "live"
  /\ Len(st[d]) < MaxLog
  /\ \E batch \in {Note(d), Issue(d, st[d]), Clear(d)} :
        CommitWith(d, batch, inflight[d], "committed", "fenced")

(* Actor::hard_interrupt outside a rewind: what can be cancelled is, a     *)
(* merge runs on; then the kernel forgets every issued effect (and records *)
(* nothing if there is none).                                              *)
HardInterrupt(d) ==
  /\ pc[d] = "live"
  /\ Len(st[d]) < MaxLog
  /\ \E merges \in SUBSET inflight[d] :
        IF Outstanding(st[d]) = {}
          THEN /\ inflight' = [inflight EXCEPT ![d] = merges]
               /\ UNCHANGED <<log, lease, snap, pc, gen, st, snapAt, pending, errors>>
          ELSE CommitWith(d, Clear(d), merges, "committed", "fenced")

(* Msg::Completed: the effect leaves the in-flight table first; the kernel *)
(* ignores a completion of an effect it has not outstanding.               *)
Complete(d, e) ==
  /\ pc[d] = "live"
  /\ e \in inflight[d]
  /\ LET running == inflight[d] \ {e}
     IN IF e \notin Outstanding(st[d])
          THEN /\ inflight' = [inflight EXCEPT ![d] = running]
               /\ UNCHANGED <<log, lease, snap, pc, gen, st, snapAt, pending, errors>>
          ELSE \E batch \in {Settle(d, e)}
                            \cup (IF Len(st[d]) < MaxLog THEN {Pipeline(d, e)} ELSE {}) :
                  CommitWith(d, batch, running, "committed", "fenced")

(* Actor::maybe_snapshot: every SnapshotEvery events the folded state is   *)
(* saved; the store does not check the lease, and a failure is only logged.*)
SaveSnapshot(d) ==
  /\ pc[d] = "committed"
  /\ pc' = [pc EXCEPT ![d] = "saved"]
  /\ IF SnapshotEvery = 0 \/ Len(st[d]) < snapAt[d] + SnapshotEvery
       THEN UNCHANGED <<snap, snapAt, errors>>
       ELSE /\ snapAt' = [snapAt EXCEPT ![d] = Len(st[d])]
            /\ \/ /\ snap' = [seq |-> Len(st[d]), state |-> st[d]]
                  /\ UNCHANGED errors
               \/ /\ StoreErrors
                  /\ errors < MaxErrors
                  /\ errors' = errors + 1
                  /\ UNCHANGED snap
  /\ UNCHANGED <<log, lease, gen, st, inflight, pending>>

(* The end of Actor::apply: the effects of the committed decision start.   *)
Dispatch(d) ==
  /\ pc[d] = "saved"
  /\ inflight' = [inflight EXCEPT ![d] = @ \cup pending[d]]
  /\ pending' = [pending EXCEPT ![d] = {}]
  /\ pc' = [pc EXCEPT ![d] = "live"]
  /\ UNCHANGED <<log, lease, snap, gen, st, snapAt, errors>>

(* The process dies, or the session is closed, at any point.               *)
Crash(d) ==
  /\ pc[d] # "off"
  /\ Drop(d)
  /\ UNCHANGED <<log, lease, snap, gen, errors>>

(* "State snapshots: an optimisation, may be deleted at any time."         *)
DropSnapshot ==
  /\ snap # NoSnap
  /\ snap' = NoSnap
  /\ UNCHANGED <<log, lease, pc, gen, st, snapAt, inflight, pending, errors>>

Step(d) ==
  \/ CreateCheck(d)
  \/ LoadSnapshot(d)
  \/ LoadEvents(d)
  \/ CreateCommit(d)
  \/ SaveSnapshot(d)
  \/ Dispatch(d)
  \/ \E e \in inflight[d] : Complete(d, e)

Next ==
  \/ \E d \in Drivers :
        \/ AcquireLease(d, "create")
        \/ AcquireLease(d, "resume")
        \/ Input(d)
        \/ HardInterrupt(d)
        \/ Step(d)
        \/ Crash(d)
  \/ DropSnapshot

Spec == Init /\ [][Next]_vars

(* The actor task is scheduled, and every effect reports: its task ends    *)
(* with a result unless it is cancelled.                                   *)
Fairness == \A d \in Drivers : WF_vars(Step(d))

LiveSpec == Spec /\ Fairness

-----------------------------------------------------------------------------
(* Properties.                                                             *)

TypeOK ==
  /\ log \in Seq(Entry)
  /\ lease \in Nat
  /\ snap \in [seq : Nat, state : Seq(Entry)]
  /\ pc \in [Drivers -> {"off", "create", "new", "resume", "load", "live",
                         "committed", "saved", "fenced"}]
  /\ gen \in [Drivers -> Nat]
  /\ st \in [Drivers -> Seq(Entry)]
  /\ snapAt \in [Drivers -> Nat]
  /\ inflight \in [Drivers -> SUBSET Nat]
  /\ pending \in [Drivers -> SUBSET Nat]
  /\ errors \in Nat

IsPrefixOf(s, t) == Len(s) <= Len(t) /\ \A i \in 1..Len(s) : s[i] = t[i]

(* Whatever interleaving of drivers, fencings and crashes came before, the *)
(* state a driver decides on, and the saved snapshot, are folds of a       *)
(* prefix of the one journal: no driver ever folded an entry the journal   *)
(* does not have, in the place it has it.                                  *)
NoFork ==
  /\ \A d \in Drivers : IsPrefixOf(st[d], log)
  /\ IsPrefixOf(snap.state, log)
  /\ snap.seq = Len(snap.state)

(* Generations in the journal never go back: once a driver of a newer      *)
(* lease has written, nothing of an older one follows.                     *)
GenerationsOrdered ==
  /\ \A i, j \in DOMAIN log : i < j => log[i].gen <= log[j].gen
  /\ \A i \in DOMAIN log : log[i].gen <= lease

(* "Log first": nothing runs that the journal does not have as issued.     *)
LogFirst == \A d \in Drivers : inflight[d] \cup pending[d] \subseteq Issued(log)

(* The driver that holds the lease is never behind the journal once it has *)
(* loaded it, so its appends are never refused for the sequence number and *)
(* it is fenced only by a newer lease.                                     *)
HolderUpToDate ==
  \A d \in Drivers :
     gen[d] = lease /\ pc[d] \in {"new", "live", "committed", "saved", "fenced"}
        => st[d] = log /\ pc[d] # "fenced"

(* Leases are taken one at a time, so no two drivers hold one generation,  *)
(* and what a driver has folded is settled by what it is doing.  Together  *)
(* with the properties above this is preserved by every step.              *)
LeasesDiffer ==
  /\ \A d \in Drivers : gen[d] <= lease
  /\ \A d \in Drivers : pc[d] # "off" => gen[d] # 0
  /\ \A d, e \in Drivers : gen[d] = gen[e] /\ gen[d] # 0 => d = e

FoldedSoFar ==
  /\ \A d \in Drivers : pc[d] \in {"off", "create", "new", "resume"} => st[d] = <<>>
  /\ \A d \in Drivers : pc[d] = "load" => snapAt[d] = Len(st[d])

JournalInv ==
  /\ TypeOK
  /\ LeasesDiffer
  /\ FoldedSoFar
  /\ NoFork
  /\ HolderUpToDate
  /\ GenerationsOrdered

(* Every issued effect is settled or dropped in the end, provided the      *)
(* driver that took the lease last stays up and the store does not fail.   *)
(* The first entry issues none, so there are fewer effects than entries.   *)
EffectsSettle ==
  \A e \in 0..(MaxLog - 2) :
     (e \in Outstanding(log)) ~>
        \/ e \notin Outstanding(log)
        \/ \A d \in Drivers : gen[d] = lease => pc[d] = "off"
        \/ errors > 0

(* Drivers, fencings, crashes and store errors together keep the promise   *)
(* of the ledger: the effects the journal has, its results, and everything *)
(* that some driver runs.                                                  *)
Records(k, s) == {<<i, s[i].id>> : i \in {j \in DOMAIN s : s[j].kind = k}}
Running == UNION {inflight[d] : d \in Drivers}

Effects == INSTANCE Ledger WITH
              issued <- Records("issue", log), results <- Records("settle", log),
              open <- Outstanding(log), running <- Running

KeepsLedger == Effects!Spec
=============================================================================
