--------------------------- MODULE JournalProofs ---------------------------
(***************************************************************************)
(* What the two stores of a session keep, each in behaviours of its own.   *)
(*                                                                         *)
(* Journal, for any set of drivers and any bounds: the log never forks,    *)
(* and the journal keeps the promise of the ledger (Ledger).               *)
(*                                                                         *)
(* Shadow, for any paths, any batches, tasks and crashes and any bounds: a *)
(* rewind spares what the user wrote, and brings back what it goes back    *)
(* to.                                                                     *)
(***************************************************************************)
EXTENDS Journal, Shadow, FiniteSetTheorems, WellFoundedInduction, TLAPS


-----------------------------------------------------------------------------
(* Prefixes of sequences.                                                  *)

LEMMA PrefixRefl ==
  ASSUME NEW S, NEW s \in Seq(S)
  PROVE  IsPrefixOf(s, s)
  BY DEF IsPrefixOf

LEMMA PrefixExtend ==
  ASSUME NEW S, NEW s \in Seq(S), NEW t \in Seq(S), NEW u \in Seq(S), IsPrefixOf(s, t)
  PROVE  IsPrefixOf(s, t \o u)
  BY DEF IsPrefixOf

LEMMA PrefixJoin ==
  ASSUME NEW S, NEW s \in Seq(S), NEW t \in Seq(S), IsPrefixOf(s, t)
  PROVE  s \o SubSeq(t, Len(s) + 1, Len(t)) = t
<1> DEFINE r == SubSeq(t, Len(s) + 1, Len(t))
<1>1. r \in Seq(S) /\ Len(r) = Len(t) - Len(s)
  BY DEF IsPrefixOf
<1>2. s \o r \in Seq(S) /\ Len(s \o r) = Len(t)
  BY <1>1
<1>3. \A i \in 1..Len(t) : (s \o r)[i] = t[i]
  BY <1>1 DEF IsPrefixOf
<1> QED BY <1>2, <1>3

LEMMA PrefixFull ==
  ASSUME NEW S, NEW s \in Seq(S), NEW t \in Seq(S), IsPrefixOf(s, t), Len(s) = Len(t)
  PROVE  s = t
  BY DEF IsPrefixOf

LEMMA ConcatTwo ==
  ASSUME NEW S, NEW s \in Seq(S), NEW t \in Seq(S), Len(s) = 1, Len(t) = 1
  PROVE  (s \o t)[1] = s[1] /\ (s \o t)[2] = t[1]
  OBVIOUS

(* Two entries in a row.                                                   *)
LEMMA JoinTwo ==
  ASSUME NEW s \in Seq(Entry), NEW r \in Seq(Entry), Len(s) = 1, Len(r) = 1, NEW g,
         s[1].gen = g, r[1].gen = g
  PROVE  s \o r \in Seq(Entry) /\ \A i \in DOMAIN (s \o r) : (s \o r)[i].gen = g
<1>1. s \o r \in Seq(Entry) /\ Len(s \o r) = 2
  OBVIOUS
<1>2. (s \o r)[1] = s[1] /\ (s \o r)[2] = r[1]
  BY ConcatTwo
<1>3. DOMAIN (s \o r) = {1, 2}
  BY <1>1
<1> QED BY <1>1, <1>2, <1>3

-----------------------------------------------------------------------------
(* Only finitely many effects were ever issued, so their number is one.    *)
LEMMA IssuedFinite ==
  ASSUME NEW s \in Seq(Entry)
  PROVE  IsFiniteSet(Issued(s)) /\ NextN(s) \in Nat /\ Issued(s) \subseteq Nat
<1> DEFINE At == {j \in DOMAIN s : s[j].kind = "issue"}
           f  == [j \in At |-> s[j].id]
<1>1. IsFiniteSet(1..Len(s))
  BY FS_Interval
<1>2. IsFiniteSet(At)
  BY <1>1, FS_Subset
<1>3. IsFiniteSet(Issued(s))
  <2>1. f \in Surjection(At, Issued(s))
    BY DEF Surjection, Issued, OfKind
  <2> QED BY <1>2, <2>1, FS_Surjection
<1>4. Issued(s) \subseteq Nat
  <2> SUFFICES ASSUME NEW x \in Issued(s) PROVE x \in Nat
    OBVIOUS
  <2>1. PICK i \in DOMAIN s : x = s[i].id
    BY Zenon DEF Issued, OfKind
  <2>2. s[i] \in Entry
    OBVIOUS
  <2> QED BY <2>1, <2>2 DEF Entry
<1> QED BY <1>3, <1>4, FS_CardinalityType DEF NextN

(* Decisions are sequences of entries of the driver's own generation.      *)

LEMMA BatchType ==
  ASSUME TypeOK, NEW d \in Drivers, NEW e \in Nat,
         NEW b \in {Start(d), Note(d), Issue(d, st[d]), Clear(d), Settle(d, e), Pipeline(d, e)}
  PROVE  b \in Seq(Entry) /\ \A i \in DOMAIN b : b[i].gen = gen[d]
<1>0. ASSUME NEW s \in Seq(Entry)
      PROVE  Issue(d, s) \in Seq(Entry) /\ Len(Issue(d, s)) = 1 /\ Issue(d, s)[1].gen = gen[d]
  <2>1. NextN(s) \in Nat BY IssuedFinite
  <2> QED BY <2>1 DEF Issue, TypeOK, Entry, Kinds
<1> USE DEF TypeOK, Entry, Kinds
<1>1. Start(d) \in Seq(Entry) /\ \A i \in DOMAIN Start(d) : Start(d)[i].gen = gen[d]
  BY DEF Start
<1>2. Note(d) \in Seq(Entry) /\ \A i \in DOMAIN Note(d) : Note(d)[i].gen = gen[d]
  BY DEF Note
<1>3. Issue(d, st[d]) \in Seq(Entry) /\ \A i \in DOMAIN Issue(d, st[d]) : Issue(d, st[d])[i].gen = gen[d]
  BY <1>0
<1>4. Settle(d, e) \in Seq(Entry) /\ \A i \in DOMAIN Settle(d, e) : Settle(d, e)[i].gen = gen[d]
  BY DEF Settle
<1>6. Clear(d) \in Seq(Entry) /\ \A i \in DOMAIN Clear(d) : Clear(d)[i].gen = gen[d]
  BY DEF Clear
<1> HIDE DEF TypeOK, Entry, Kinds
<1>5. Pipeline(d, e) \in Seq(Entry) /\ \A i \in DOMAIN Pipeline(d, e) : Pipeline(d, e)[i].gen = gen[d]
  <2>1. Settle(d, e) \in Seq(Entry) /\ Len(Settle(d, e)) = 1 /\ Settle(d, e)[1].gen = gen[d]
    BY <1>4 DEF Settle
  <2>2. st[d] \o Settle(d, e) \in Seq(Entry)
    BY <2>1 DEF TypeOK
  <2> DEFINE r == Issue(d, st[d] \o Settle(d, e))
  <2>3. r \in Seq(Entry) /\ Len(r) = 1 /\ r[1].gen = gen[d]
    BY <1>0, <2>2
  <2>4. Pipeline(d, e) = Settle(d, e) \o r
    BY DEF Pipeline
  <2> HIDE DEF r
  <2> QED BY <2>1, <2>3, <2>4, JoinTwo
<1> QED BY <1>1, <1>2, <1>3, <1>4, <1>5, <1>6

-----------------------------------------------------------------------------
(* The inductive invariant.                                                *)

LEMMA InitInv == Init => JournalInv
  BY JournalAssumption
  DEF Init, JournalInv, TypeOK, LeasesDiffer, FoldedSoFar, NoFork, HolderUpToDate,
      GenerationsOrdered, IsPrefixOf, NoSnap, Entry, Kinds

(* A step that leaves the journal alone keeps NoFork if it sets a driver's *)
(* state and the snapshot to folds of a prefix the step starts with.       *)
LEMMA NoForkKept ==
  ASSUME TypeOK, NoFork, UNCHANGED log,
         \A e \in Drivers : st'[e] \in {st[e], snap.state, log, <<>>},
         \/ snap' \in {snap, NoSnap}
         \/ \E e \in Drivers : snap' = [seq |-> Len(st[e]), state |-> st[e]]
  PROVE  NoFork'
<1>1. IsPrefixOf(log, log) /\ IsPrefixOf(<<>>, log) /\ IsPrefixOf(snap.state, log)
  BY DEF IsPrefixOf, TypeOK, NoFork
<1>2. \A e \in Drivers : IsPrefixOf(st'[e], log)
  BY <1>1 DEF NoFork
<1>3. IsPrefixOf(snap'.state, log) /\ snap'.seq = Len(snap'.state)
  BY <1>1 DEF NoFork, NoSnap
<1>4. log' = log
  OBVIOUS
<1> QED BY <1>2, <1>3, <1>4 DEF NoFork

LEMMA GenerationsKept ==
  ASSUME TypeOK, GenerationsOrdered, UNCHANGED log, lease' \in {lease, lease + 1}
  PROVE  GenerationsOrdered'
<1>1. ASSUME NEW i \in DOMAIN log PROVE log[i].gen \in Nat
  <2>1. log[i] \in Entry
    BY DEF TypeOK
  <2> QED BY <2>1 DEF Entry
<1> QED BY <1>1 DEF GenerationsOrdered, TypeOK

(* A commit keeps the invariant: only the holder of the lease, which has   *)
(* folded the whole journal, can write, and what it writes both the        *)
(* journal and its state take over.                                        *)
LEMMA CommitInv ==
  ASSUME JournalInv, NEW d \in Drivers, pc[d] \in {"new", "live"},
         NEW suffix \in Seq(Entry), \A i \in DOMAIN suffix : suffix[i].gen = gen[d],
         NEW running \in SUBSET Nat,
         NEW stale \in {"off", "fenced"}, stale = "off" <=> pc[d] = "new",
         CommitWith(d, suffix, running, "committed", stale)
  PROVE  JournalInv'
<1> USE DEF JournalInv
<1>1. CASE /\ gen[d] = lease
           /\ Len(log) = Len(st[d])
           /\ log' = log \o suffix
           /\ st' = [st EXCEPT ![d] = @ \o suffix]
           /\ pending' = [pending EXCEPT ![d] = Issued(suffix)]
           /\ inflight' = [inflight EXCEPT ![d] = running]
           /\ pc' = [pc EXCEPT ![d] = "committed"]
           /\ UNCHANGED <<lease, snap, gen, snapAt, errors>>
  <2> USE <1>1
  <2>1. st[d] = log
    BY DEF HolderUpToDate, TypeOK
  <2>2. Issued(suffix) \subseteq Nat
    BY IssuedFinite
  <2>3. TypeOK'
    BY <2>2 DEF TypeOK
  <2>4. LeasesDiffer' /\ FoldedSoFar'
    BY DEF LeasesDiffer, FoldedSoFar, TypeOK
  <2>5. NoFork'
    <3>1. ASSUME NEW e \in Drivers PROVE IsPrefixOf(st'[e], log')
      <4>1. CASE e = d
        <5>1. log' \in Seq(Entry)
          BY <2>3 DEF TypeOK
        <5>2. st'[e] = log'
          BY <4>1, <2>1 DEF TypeOK
        <5> HIDE DEF JournalInv
        <5>3. IsPrefixOf(log', log')
          BY <5>1, PrefixRefl
        <5> QED BY <5>2, <5>3
      <4>2. CASE e # d
        BY <4>2, PrefixExtend DEF TypeOK, NoFork
      <4> QED BY <4>1, <4>2
    <3>2. IsPrefixOf(snap.state, log')
      BY PrefixExtend DEF TypeOK, NoFork
    <3> QED BY <3>1, <3>2 DEF NoFork, IsPrefixOf
  <2>6. HolderUpToDate'
    BY <2>1 DEF HolderUpToDate, LeasesDiffer, TypeOK
  <2>7. GenerationsOrdered'
    <3>1. \A i \in DOMAIN log : i \in DOMAIN log' /\ log'[i] = log[i]
      BY DEF TypeOK
    <3>2. \A i \in DOMAIN log' : i \notin DOMAIN log => i > Len(log) /\ log'[i].gen = lease
      BY DEF TypeOK
    <3>3. \A i \in DOMAIN log' : log'[i].gen <= lease
      BY <3>1, <3>2 DEF GenerationsOrdered, TypeOK
    <3>4. ASSUME NEW i \in DOMAIN log', NEW j \in DOMAIN log', i < j
          PROVE  log'[i].gen <= log'[j].gen
      BY <3>1, <3>2, <3>3, <3>4 DEF GenerationsOrdered, TypeOK
    <3> QED BY <3>3, <3>4 DEF GenerationsOrdered
  <2> QED BY <2>3, <2>4, <2>5, <2>6, <2>7
<1>2. CASE /\ gen[d] # lease \/ Len(log) # Len(st[d])
           /\ inflight' = [inflight EXCEPT ![d] = {}]
           /\ pc' = [pc EXCEPT ![d] = stale]
           /\ UNCHANGED <<log, lease, snap, gen, st, snapAt, pending, errors>>
  <2> USE <1>2
  <2>1. gen[d] # lease
    BY DEF HolderUpToDate
  <2>2. TypeOK'
    BY DEF TypeOK
  <2>3. LeasesDiffer' /\ FoldedSoFar'
    BY DEF LeasesDiffer, FoldedSoFar, TypeOK
  <2>4. HolderUpToDate'
    BY <2>1 DEF HolderUpToDate, TypeOK
  <2>5. NoFork' /\ GenerationsOrdered'
    BY DEF NoFork, GenerationsOrdered, IsPrefixOf
  <2> QED BY <2>2, <2>3, <2>4, <2>5
<1>3. CASE /\ StoreErrors
           /\ errors < MaxErrors
           /\ errors' = errors + 1
           /\ inflight' = [inflight EXCEPT ![d] = running]
           /\ pc' = [pc EXCEPT ![d] = IF @ = "new" THEN "off" ELSE @]
           /\ UNCHANGED <<log, lease, snap, gen, st, snapAt, pending>>
  <2> USE <1>3
  <2>1. TypeOK'
    BY DEF TypeOK
  <2>2. LeasesDiffer' /\ FoldedSoFar' /\ HolderUpToDate'
    BY DEF LeasesDiffer, FoldedSoFar, HolderUpToDate, TypeOK
  <2>3. NoFork' /\ GenerationsOrdered'
    BY DEF NoFork, GenerationsOrdered, IsPrefixOf
  <2> QED BY <2>1, <2>2, <2>3
<1> QED BY <1>1, <1>2, <1>3 DEF CommitWith

(* One step per action.                                                    *)
LEMMA StepInv ==
  ASSUME JournalInv, [Next]_vars
  PROVE  JournalInv'
<1> USE DEF JournalInv
<1>1. ASSUME NEW d \in Drivers, NEW how \in {"create", "resume"}, AcquireLease(d, how)
      PROVE  JournalInv'
  <2> USE <1>1 DEF AcquireLease
  <2>1. TypeOK'
    BY DEF TypeOK
  <2>2. LeasesDiffer'
    BY DEF TypeOK, LeasesDiffer
  <2>3. FoldedSoFar' /\ NoFork'
    BY NoForkKept DEF TypeOK, FoldedSoFar
  <2>4. HolderUpToDate'
    BY DEF TypeOK, HolderUpToDate, LeasesDiffer
  <2>5. GenerationsOrdered'
    BY GenerationsKept
  <2> QED BY <2>1, <2>2, <2>3, <2>4, <2>5
<1>2. ASSUME NEW d \in Drivers, CreateCheck(d)
      PROVE  JournalInv'
  <2> USE <1>2 DEF CreateCheck
  <2>1. TypeOK' /\ LeasesDiffer' /\ FoldedSoFar'
    BY DEF TypeOK, LeasesDiffer, FoldedSoFar
  <2>2. HolderUpToDate'
    BY DEF TypeOK, HolderUpToDate, FoldedSoFar
  <2>3. NoFork' /\ GenerationsOrdered'
    BY DEF NoFork, GenerationsOrdered, IsPrefixOf
  <2> QED BY <2>1, <2>2, <2>3
<1>3. ASSUME NEW d \in Drivers, LoadSnapshot(d)
      PROVE  JournalInv'
  <2> USE <1>3 DEF LoadSnapshot
  <2>0. snap.seq \in Nat /\ snap.state \in Seq(Entry) /\ <<>> \in Seq(Entry)
    BY DEF TypeOK
  <2>1. TypeOK'
    <3>1. st' \in [Drivers -> Seq(Entry)] /\ snapAt' \in [Drivers -> Nat]
      <4>1. \E s \in Seq(Entry), n \in Nat :
               st' = [st EXCEPT ![d] = s] /\ snapAt' = [snapAt EXCEPT ![d] = n]
        BY <2>0
      <4> HIDE DEF LoadSnapshot
      <4> QED BY <4>1 DEF TypeOK
    <3>2. pc' = [pc EXCEPT ![d] = "load"]
      OBVIOUS
    <3>3. UNCHANGED <<log, lease, snap, gen, inflight, pending, errors>>
      OBVIOUS
    <3> HIDE DEF LoadSnapshot
    <3> QED BY <3>1, <3>2, <3>3 DEF TypeOK
  <2>2. LeasesDiffer' /\ FoldedSoFar' /\ HolderUpToDate'
    BY DEF TypeOK, LeasesDiffer, FoldedSoFar, HolderUpToDate, NoFork
  <2>3. NoFork' /\ GenerationsOrdered'
    BY NoForkKept, GenerationsKept DEF TypeOK
  <2> QED BY <2>1, <2>2, <2>3
<1>4. ASSUME NEW d \in Drivers, LoadEvents(d)
      PROVE  JournalInv'
  <2> USE <1>4 DEF LoadEvents
  <2>1. CASE log = <<>>
    <3> USE <2>1 DEF Drop
    <3>0. pc' = [pc EXCEPT ![d] = "off"] /\ st' = [st EXCEPT ![d] = <<>>]
      OBVIOUS
    <3>1. TypeOK'
      <4>1. Drop(d) /\ UNCHANGED <<log, lease, snap, gen, errors>>
        OBVIOUS
      <4> HIDE DEF LoadEvents
      <4> QED BY <4>1 DEF TypeOK
    <3>3. LeasesDiffer' /\ FoldedSoFar' /\ HolderUpToDate'
      BY <3>0 DEF TypeOK, LeasesDiffer, FoldedSoFar, HolderUpToDate
    <3>2. NoFork' /\ GenerationsOrdered'
      BY NoForkKept, GenerationsKept DEF TypeOK
    <3> QED BY <3>1, <3>2, <3>3
  <2>2. CASE log # <<>>
    <3> USE <2>2
    <3>1. st[d] \o SubSeq(log, snapAt[d] + 1, Len(log)) = log
      <4>1. snapAt[d] = Len(st[d]) /\ IsPrefixOf(st[d], log)
        BY DEF NoFork, FoldedSoFar
      <4>2. st[d] \in Seq(Entry) /\ log \in Seq(Entry)
        BY DEF TypeOK
      <4> HIDE DEF JournalInv, LoadEvents
      <4> QED BY <4>1, <4>2, PrefixJoin
    <3>2. /\ st' = [st EXCEPT ![d] = log]
          /\ inflight' = [inflight EXCEPT ![d] = Outstanding(log)]
          /\ pc' = [pc EXCEPT ![d] = "live"]
          /\ UNCHANGED <<log, lease, snap, gen, errors, snapAt, pending>>
      BY <3>1
    <3> USE <3>2
    <3>3. Outstanding(log) \subseteq Nat
      BY IssuedFinite DEF TypeOK, Outstanding
    <3>4. TypeOK'
      BY <3>3 DEF TypeOK
    <3>5. LeasesDiffer' /\ FoldedSoFar' /\ HolderUpToDate'
      BY DEF TypeOK, LeasesDiffer, FoldedSoFar, HolderUpToDate
    <3>6. NoFork' /\ GenerationsOrdered'
      BY NoForkKept, GenerationsKept DEF TypeOK
    <3> QED BY <3>4, <3>5, <3>6
  <2> QED BY <2>1, <2>2
<1>5. ASSUME NEW d \in Drivers, CreateCommit(d)
      PROVE  JournalInv'
  <2>1. Start(d) \in Seq(Entry) /\ \A i \in DOMAIN Start(d) : Start(d)[i].gen = gen[d]
    BY BatchType, IssuedFinite DEF TypeOK
  <2> QED BY <1>5, <2>1, CommitInv DEF CreateCommit
<1>6. ASSUME NEW d \in Drivers, Input(d)
      PROVE  JournalInv'
  <2>1. NextN(st[d]) \in Nat /\ inflight[d] \in SUBSET Nat
    BY IssuedFinite DEF TypeOK
  <2>2. PICK suffix \in {Note(d), Issue(d, st[d]), Clear(d)} :
           CommitWith(d, suffix, inflight[d], "committed", "fenced")
    BY <1>6 DEF Input
  <2>3. suffix \in Seq(Entry) /\ \A i \in DOMAIN suffix : suffix[i].gen = gen[d]
    <3>1. CASE suffix = Note(d)
      BY <2>1, <3>1, BatchType
    <3>2. CASE suffix = Issue(d, st[d])
      BY <2>1, <3>2, BatchType
    <3>3. CASE suffix = Clear(d)
      BY <2>1, <3>3, BatchType
    <3> QED BY <2>2, <3>1, <3>2, <3>3
  <2>4. pc[d] = "live"
    BY <1>6 DEF Input
  <2> QED BY <2>1, <2>2, <2>3, <2>4, CommitInv
<1>7. ASSUME NEW d \in Drivers, NEW e \in inflight[d], Complete(d, e)
      PROVE  JournalInv'
  <2>1. NextN(st[d]) \in Nat /\ inflight[d] \ {e} \in SUBSET Nat /\ e \in Nat
    BY IssuedFinite DEF TypeOK
  <2>2. pc[d] = "live"
    BY <1>7 DEF Complete
  <2>3. CASE e \notin Outstanding(st[d])
    <3> USE <1>7, <2>1, <2>3 DEF Complete
    <3>1. TypeOK' /\ LeasesDiffer' /\ FoldedSoFar' /\ HolderUpToDate'
      BY DEF TypeOK, LeasesDiffer, FoldedSoFar, HolderUpToDate
    <3>2. NoFork' /\ GenerationsOrdered'
      BY DEF NoFork, GenerationsOrdered, IsPrefixOf
    <3> QED BY <3>1, <3>2
  <2>4. CASE e \in Outstanding(st[d])
    <3>1. PICK suffix \in {Settle(d, e), Pipeline(d, e)} :
             CommitWith(d, suffix, inflight[d] \ {e}, "committed", "fenced")
      BY <1>7, <2>4 DEF Complete
    <3> HIDE DEF JournalInv
    <3>2. TypeOK
      BY DEF JournalInv
    <3>3. suffix \in Seq(Entry) /\ \A i \in DOMAIN suffix : suffix[i].gen = gen[d]
      <4>1. CASE suffix = Settle(d, e)
        BY <2>1, <3>2, <4>1, BatchType
      <4>2. CASE suffix = Pipeline(d, e)
        BY <2>1, <3>2, <4>2, BatchType
      <4> QED BY <3>1, <4>1, <4>2
    <3> QED BY <2>1, <2>2, <3>1, <3>3, CommitInv
  <2> QED BY <2>3, <2>4
<1>8. ASSUME NEW d \in Drivers, SaveSnapshot(d)
      PROVE  JournalInv'
  <2> USE <1>8 DEF SaveSnapshot
  <2>1. TypeOK'
    BY DEF TypeOK
  <2>2. LeasesDiffer' /\ FoldedSoFar' /\ HolderUpToDate'
    BY DEF TypeOK, LeasesDiffer, FoldedSoFar, HolderUpToDate
  <2>3. NoFork' /\ GenerationsOrdered'
    BY NoForkKept, GenerationsKept DEF TypeOK
  <2> QED BY <2>1, <2>2, <2>3
<1>9. ASSUME NEW d \in Drivers, Dispatch(d)
      PROVE  JournalInv'
  <2> USE <1>9 DEF Dispatch
  <2>1. TypeOK'
    BY DEF TypeOK
  <2>2. LeasesDiffer' /\ FoldedSoFar' /\ HolderUpToDate'
    BY DEF TypeOK, LeasesDiffer, FoldedSoFar, HolderUpToDate
  <2>3. NoFork' /\ GenerationsOrdered'
    BY DEF NoFork, GenerationsOrdered, IsPrefixOf
  <2> QED BY <2>1, <2>2, <2>3
<1>10. ASSUME NEW d \in Drivers, Crash(d)
       PROVE  JournalInv'
  <2> USE <1>10 DEF Crash, Drop
  <2>1. TypeOK'
    BY DEF TypeOK
  <2>2. LeasesDiffer' /\ FoldedSoFar' /\ HolderUpToDate'
    BY DEF TypeOK, LeasesDiffer, FoldedSoFar, HolderUpToDate
  <2>3. NoFork' /\ GenerationsOrdered'
    BY NoForkKept, GenerationsKept DEF TypeOK
  <2> QED BY <2>1, <2>2, <2>3
<1>11. ASSUME DropSnapshot
       PROVE  JournalInv'
  <2> USE <1>11 DEF DropSnapshot, NoSnap
  <2>1. TypeOK' /\ LeasesDiffer' /\ FoldedSoFar' /\ HolderUpToDate'
    BY DEF TypeOK, LeasesDiffer, FoldedSoFar, HolderUpToDate
  <2>2. NoFork' /\ GenerationsOrdered'
    BY DEF NoFork, GenerationsOrdered, IsPrefixOf
  <2> QED BY <2>1, <2>2
<1>12. ASSUME UNCHANGED vars
       PROVE  JournalInv'
  BY <1>12
  DEF vars, TypeOK, LeasesDiffer, FoldedSoFar, HolderUpToDate, NoFork, GenerationsOrdered,
      IsPrefixOf
<1>13. ASSUME NEW d \in Drivers, HardInterrupt(d)
       PROVE  JournalInv'
  <2>1. PICK merges \in SUBSET inflight[d] :
           IF Outstanding(st[d]) = {}
             THEN /\ inflight' = [inflight EXCEPT ![d] = merges]
                  /\ UNCHANGED <<log, lease, snap, pc, gen, st, snapAt, pending, errors>>
             ELSE CommitWith(d, Clear(d), merges, "committed", "fenced")
    BY <1>13 DEF HardInterrupt
  <2>2. merges \in SUBSET Nat /\ pc[d] = "live"
    BY <1>13 DEF TypeOK, HardInterrupt
  <2>3. CASE Outstanding(st[d]) = {}
    <3> USE <2>1, <2>2, <2>3
    <3>1. TypeOK' /\ LeasesDiffer' /\ FoldedSoFar' /\ HolderUpToDate'
      BY DEF TypeOK, LeasesDiffer, FoldedSoFar, HolderUpToDate
    <3>2. NoFork' /\ GenerationsOrdered'
      BY DEF NoFork, GenerationsOrdered, IsPrefixOf
    <3> QED BY <3>1, <3>2
  <2>4. CASE Outstanding(st[d]) # {}
    <3>1. Clear(d) \in Seq(Entry) /\ \A i \in DOMAIN Clear(d) : Clear(d)[i].gen = gen[d]
      BY BatchType, IssuedFinite DEF TypeOK
    <3> QED BY <2>1, <2>2, <2>4, <3>1, CommitInv
  <2> QED BY <2>3, <2>4
<1> HIDE DEF JournalInv
<1> QED
  BY <1>1, <1>2, <1>3, <1>4, <1>5, <1>6, <1>7, <1>8, <1>9, <1>10, <1>11, <1>12, <1>13
  DEF Next, Step

(* Every reachable state satisfies the inductive invariant.                *)
THEOREM JournalInvariant == Spec => []JournalInv
<1>1. Init => JournalInv
  BY InitInv
<1>2. JournalInv /\ [Next]_vars => JournalInv'
  BY StepInv
<1> QED BY <1>1, <1>2, PTL DEF Spec

(* The journal and its drivers are well typed in every reachable state.    *)
THEOREM TypeCorrect == Spec => []TypeOK
<1>1. JournalInv => TypeOK
  BY DEF JournalInv
<1> QED BY <1>1, JournalInvariant, PTL

(* Every state a driver decides on, and every snapshot, is a fold of a     *)
(* prefix of the one journal.                                              *)
THEOREM JournalNeverForks == Spec => []NoFork
<1>1. JournalInv => NoFork
  BY DEF JournalInv
<1> QED BY <1>1, JournalInvariant, PTL

(* Nothing of an older lease follows a newer lease's entry.                *)
THEOREM FencedWritersStayOut == Spec => []GenerationsOrdered
<1>1. JournalInv => GenerationsOrdered
  BY DEF JournalInv
<1> QED BY <1>1, JournalInvariant, PTL

(* The holder of the lease is never behind the journal and never fenced.   *)
THEOREM HolderIsUpToDate == Spec => []HolderUpToDate
<1>1. JournalInv => HolderUpToDate
  BY DEF JournalInv
<1> QED BY <1>1, JournalInvariant, PTL

(***************************************************************************)
(* The ledger: what an entry does to the records of effects, and one step  *)
(* of the ledger for every step of a driver.                               *)
(***************************************************************************)
(* What a journal has issued is numbered without gaps, and what it has     *)
(* settled it has issued.                                                  *)
Sound(s) ==
  /\ Issued(s) = 0..(NextN(s) - 1)
  /\ Settled(s) \subseteq Issued(s)

(* What every step preserves.                                              *)
LedgerInv == JournalInv /\ Sound(log) /\ LogFirst

-----------------------------------------------------------------------------
(* One more entry.                                                         *)
Appends(t, s, x) ==
  /\ Len(s) + 1 \in Nat /\ DOMAIN t = (DOMAIN s) \cup {Len(s) + 1}
  /\ \A i \in DOMAIN s : i \in Nat /\ i < Len(s) + 1 /\ t[i] = s[i]
  /\ t[Len(s) + 1] = x

LEMMA Appended ==
  ASSUME NEW s \in Seq(Entry), NEW x \in Entry
  PROVE  s \o <<x>> \in Seq(Entry) /\ Appends(s \o <<x>>, s, x)
BY DEF Appends

LEMMA RecordsAppended ==
  ASSUME NEW s, NEW t, NEW x, NEW k, Appends(t, s, x)
  PROVE  /\ x.kind = k => Records(k, t) = Records(k, s) \cup {<<Len(s) + 1, x.id>>}
         /\ x.kind # k => Records(k, t) = Records(k, s)
         /\ <<Len(s) + 1, x.id>> \notin Records(k, s)
<1> DEFINE n == Len(s) + 1
<1>1. /\ DOMAIN t = (DOMAIN s) \cup {n}
      /\ \A i \in DOMAIN s : i # n /\ t[i] = s[i]
      /\ t[n] = x
  BY DEF Appends
<1> HIDE DEF n
<1>2. x.kind = k => {j \in DOMAIN t : t[j].kind = k} = {j \in DOMAIN s : s[j].kind = k} \cup {n}
  BY <1>1
<1>3. x.kind # k => {j \in DOMAIN t : t[j].kind = k} = {j \in DOMAIN s : s[j].kind = k}
  BY <1>1
<1>4. x.kind = k => Records(k, t) = Records(k, s) \cup {<<n, x.id>>}
  BY <1>1, <1>2 DEF Records
<1>5. x.kind # k => Records(k, t) = Records(k, s)
  BY <1>1, <1>3 DEF Records
<1>6. <<n, x.id>> \notin Records(k, s)
  BY <1>1 DEF Records
<1> QED BY <1>4, <1>5, <1>6 DEF n

LEMMA RecordsKept ==
  ASSUME NEW s, NEW t, NEW x, NEW k, Appends(t, s, x), x.kind # k
  PROVE  Records(k, t) = Records(k, s)
BY RecordsAppended

LEMMA OfKindAppended ==
  ASSUME NEW s, NEW t, NEW x, NEW k, Appends(t, s, x)
  PROVE  /\ x.kind = k => OfKind(k, t) = OfKind(k, s) \cup {x.id}
         /\ x.kind # k => OfKind(k, t) = OfKind(k, s)
<1> DEFINE n == Len(s) + 1
<1>1. /\ DOMAIN t = (DOMAIN s) \cup {n}
      /\ \A i \in DOMAIN s : i # n /\ t[i] = s[i]
      /\ t[n] = x
  BY DEF Appends
<1> HIDE DEF n
<1>2. x.kind = k => {j \in DOMAIN t : t[j].kind = k} = {j \in DOMAIN s : s[j].kind = k} \cup {n}
  BY <1>1
<1>3. x.kind # k => {j \in DOMAIN t : t[j].kind = k} = {j \in DOMAIN s : s[j].kind = k}
  BY <1>1
<1> QED BY <1>1, <1>2, <1>3 DEF OfKind

LEMMA DroppedAppended ==
  ASSUME NEW s, NEW t, NEW x, Appends(t, s, x)
  PROVE  /\ x.kind = "drop" => Dropped(t) = Issued(s)
         /\ x.kind # "drop" => Dropped(t) = Dropped(s)
         /\ Dropped(s) \subseteq Issued(s)
<1> DEFINE n == Len(s) + 1
           Before(u) == {j \in DOMAIN u : u[j].kind = "issue" /\ \E k \in DOMAIN u : k > j /\ u[k].kind = "drop"}
           IssuedAt(u) == {j \in DOMAIN u : u[j].kind = "issue"}
<1>1. /\ n \in Nat /\ DOMAIN t = (DOMAIN s) \cup {n}
      /\ \A i \in DOMAIN s : i \in Nat /\ i < n /\ ~(n < i) /\ t[i] = s[i]
      /\ t[n] = x /\ ~(n > n)
  BY DEF Appends
<1> HIDE DEF n
<1>2. x.kind = "drop" => Before(t) = IssuedAt(s)
  BY <1>1
<1>3. x.kind # "drop" => Before(t) = Before(s)
  BY <1>1
<1>4. \A u : Dropped(u) = {u[i].id : i \in Before(u)} /\ Issued(u) = {u[i].id : i \in IssuedAt(u)}
  BY DEF Dropped, Issued, OfKind
<1>5. Before(s) \subseteq IssuedAt(s) /\ Before(s) \subseteq DOMAIN s /\ IssuedAt(s) \subseteq DOMAIN s
  OBVIOUS
<1> HIDE DEF Before, IssuedAt
<1>6. x.kind = "drop" => Dropped(t) = Issued(s)
  BY <1>1, <1>2, <1>4, <1>5
<1>7. x.kind # "drop" => Dropped(t) = Dropped(s)
  BY <1>1, <1>3, <1>4, <1>5
<1>8. Dropped(s) \subseteq Issued(s)
  BY <1>4, <1>5
<1> QED BY <1>6, <1>7, <1>8

-----------------------------------------------------------------------------
(* What one more entry means for the ledger.                               *)
LEMMA IssuedAppended ==
  ASSUME NEW s, NEW t, NEW x, Appends(t, s, x)
  PROVE  /\ x.kind = "issue" => Issued(t) = Issued(s) \cup {x.id}
         /\ x.kind # "issue" => Issued(t) = Issued(s)
         /\ x.kind = "settle" => Settled(t) = Settled(s) \cup {x.id}
         /\ x.kind # "settle" => Settled(t) = Settled(s)
BY OfKindAppended DEF Issued, Settled

LEMMA OpenAppended ==
  ASSUME NEW s, NEW t, NEW x, Appends(t, s, x), Sound(s)
  PROVE  /\ x.kind \in {"start", "note"} => Outstanding(t) = Outstanding(s)
         /\ x.kind = "issue" /\ x.id \notin Issued(s) =>
               Outstanding(t) = Outstanding(s) \cup {x.id}
         /\ x.kind = "settle" => Outstanding(t) = Outstanding(s) \ {x.id}
         /\ x.kind = "drop" => Outstanding(t) = {}
<1>1. /\ x.kind = "issue" => Issued(t) = Issued(s) \cup {x.id}
      /\ x.kind # "issue" => Issued(t) = Issued(s)
      /\ x.kind = "settle" => Settled(t) = Settled(s) \cup {x.id}
      /\ x.kind # "settle" => Settled(t) = Settled(s)
  BY IssuedAppended
<1>2. /\ x.kind = "drop" => Dropped(t) = Issued(s)
      /\ x.kind # "drop" => Dropped(t) = Dropped(s)
      /\ Dropped(s) \subseteq Issued(s)
  BY DroppedAppended
<1>3. Settled(s) \subseteq Issued(s)
  BY DEF Sound
<1>4. x.kind \in {"start", "note"} => Outstanding(t) = Outstanding(s)
  BY <1>1, <1>2 DEF Outstanding
<1>5. x.kind = "issue" /\ x.id \notin Issued(s) => Outstanding(t) = Outstanding(s) \cup {x.id}
  BY <1>1, <1>2, <1>3 DEF Outstanding
<1>6. x.kind = "settle" => Outstanding(t) = Outstanding(s) \ {x.id}
  BY <1>1, <1>2 DEF Outstanding
<1>7. x.kind = "drop" => Outstanding(t) = {}
  BY <1>1, <1>2 DEF Outstanding
<1> QED BY <1>4, <1>5, <1>6, <1>7

(* Numbers are never given out twice: the next one is new, and so is the   *)
(* one after it.                                                           *)
LEMMA NumberNew ==
  ASSUME NEW s \in Seq(Entry), Sound(s)
  PROVE  NextN(s) \in Nat /\ NextN(s) \notin Issued(s)
<1>1. NextN(s) \in Nat
  BY IssuedFinite
<1> QED BY <1>1 DEF Sound

LEMMA SoundAppended ==
  ASSUME NEW s \in Seq(Entry), NEW t, NEW x, Appends(t, s, x), Sound(s),
         x.kind = "issue" => x.id = NextN(s),
         x.kind = "settle" => x.id \in Issued(s)
  PROVE  Sound(t)
<1>1. /\ x.kind = "issue" => Issued(t) = Issued(s) \cup {x.id}
      /\ x.kind # "issue" => Issued(t) = Issued(s)
      /\ x.kind = "settle" => Settled(t) = Settled(s) \cup {x.id}
      /\ x.kind # "settle" => Settled(t) = Settled(s)
  BY IssuedAppended
<1>2. NextN(s) \in Nat
  BY IssuedFinite
<1>3. CASE x.kind = "issue"
  <2> DEFINE n == NextN(s)
  <2>0. n \in Nat /\ x.id = n /\ Issued(s) = 0..(n - 1)
    BY <1>2, <1>3 DEF Sound
  <2> HIDE DEF n
  <2>6. 0..n = (0..(n - 1)) \cup {n}
    BY <2>0
  <2>1. Issued(t) = 0..n
    BY <1>1, <1>3, <2>0, <2>6
  <2>2. Cardinality(0..n) = n + 1
    BY <2>0, FS_Interval
  <2>3. NextN(t) = n + 1
    BY <2>1, <2>2 DEF NextN
  <2>4. Issued(t) = 0..(NextN(t) - 1)
    BY <2>0, <2>1, <2>3
  <2>5. Settled(t) \subseteq Issued(t)
    BY <1>1, <1>3 DEF Sound
  <2> QED BY <2>4, <2>5 DEF Sound
<1>4. CASE x.kind # "issue"
  <2>1. Issued(t) = Issued(s) /\ NextN(t) = NextN(s)
    BY <1>1, <1>4 DEF NextN
  <2>2. Settled(t) \subseteq Issued(t)
    BY <1>1, <2>1 DEF Sound
  <2>3. Issued(t) = 0..(NextN(t) - 1)
    BY <2>1 DEF Sound
  <2> QED BY <2>2, <2>3 DEF Sound
<1> QED BY <1>3, <1>4

LEMMA EffectsOfRecords ==
  ASSUME NEW s, NEW k
  PROVE  Effects!EffectsOf(Records(k, s)) = OfKind(k, s)
<1> DEFINE places == {j \in DOMAIN s : s[j].kind = k}
<1>1. Records(k, s) = {<<i, s[i].id>> : i \in places} /\ OfKind(k, s) = {s[i].id : i \in places}
  BY DEF Records, OfKind
<1>2. \A r \in Records(k, s) : r[2] \in OfKind(k, s)
  BY <1>1
<1>3. \A i \in places : <<i, s[i].id>> \in Records(k, s) /\ <<i, s[i].id>>[2] = s[i].id
  BY <1>1
<1>4. Effects!EffectsOf(Records(k, s)) = {r[2] : r \in Records(k, s)}
  BY DEF Effects!EffectsOf
<1> HIDE DEF places
<1>5. \A v \in OfKind(k, s) : \E r \in Records(k, s) : r[2] = v
  BY <1>1, <1>3
<1> QED BY <1>2, <1>4, <1>5

LEMMA IssuedJoined ==
  ASSUME NEW s \in Seq(Entry), NEW b \in Seq(Entry)
  PROVE  Issued(s) \cup Issued(b) \subseteq Issued(s \o b)
<1> DEFINE t == s \o b
<1>1. \A i \in DOMAIN s : i \in DOMAIN t /\ t[i] = s[i]
  OBVIOUS
<1>2. \A i \in DOMAIN b : Len(s) + i \in DOMAIN t /\ t[Len(s) + i] = b[i]
  OBVIOUS
<1> HIDE DEF t
<1>3. Issued(s) \subseteq Issued(t) /\ Issued(b) \subseteq Issued(t)
  BY <1>1, <1>2 DEF Issued, OfKind
<1> QED BY <1>3 DEF t

-----------------------------------------------------------------------------
(* An entry the journal gets is a step of the ledger.                      *)
LEMMA NumbersOnRecord == Effects!EffectsOf(Records("issue", log)) = Issued(log)
BY EffectsOfRecords DEF Issued

LEMMA OneEntry ==
  ASSUME NEW x, log \in Seq(Entry), Appends(log', log, x), Sound(log),
         x.kind \in {"start", "note", "issue", "drop", "settle"},
         x.kind = "issue" => x.id = NextN(log),
         x.kind = "settle" => x.id \in Outstanding(log) \cap Running
  PROVE  /\ Sound(log)'
         /\ \/ Effects!Issue \/ Effects!Settle \/ Effects!GiveUp
            \/ UNCHANGED <<Records("issue", log), Records("settle", log), Outstanding(log)>>
<1> DEFINE new == <<Len(log) + 1, x.id>>
<1>1. new[2] = x.id
  OBVIOUS
<1>2. /\ x.kind = "issue" => Records("issue", log') = Records("issue", log) \cup {new}
      /\ x.kind # "issue" => Records("issue", log') = Records("issue", log)
      /\ new \notin Records("issue", log)
  BY RecordsAppended
<1>3. /\ x.kind = "settle" => Records("settle", log') = Records("settle", log) \cup {new}
      /\ x.kind # "settle" => Records("settle", log') = Records("settle", log)
      /\ new \notin Records("settle", log)
  BY RecordsAppended
<1> HIDE DEF new
<1>4. NextN(log) \notin Issued(log)
  BY NumberNew
<1>5. /\ x.kind \in {"start", "note"} => Outstanding(log') = Outstanding(log)
      /\ x.kind = "issue" => Outstanding(log') = Outstanding(log) \cup {x.id}
      /\ x.kind = "settle" => Outstanding(log') = Outstanding(log) \ {x.id}
      /\ x.kind = "drop" => Outstanding(log') = {}
  BY <1>4, OpenAppended
<1>6. Outstanding(log) \subseteq Issued(log)
  BY DEF Outstanding
<1>7. Sound(log')
  BY <1>6, SoundAppended
<1>8. CASE x.kind \in {"start", "note"}
  BY <1>2, <1>3, <1>5, <1>7, <1>8
<1>9. CASE x.kind = "issue"
  <2>1. Effects!Opens(new, Outstanding(log))
    BY <1>1, <1>2, <1>4, <1>5, <1>9, NumbersOnRecord DEF Effects!Opens
  <2>2. Effects!Issue
    BY <1>2, <1>3, <1>9, <2>1 DEF Effects!Issue
  <2> QED BY <1>7, <2>2
<1>10. CASE x.kind = "settle"
  <2>1. Effects!Settle
    BY <1>1, <1>2, <1>3, <1>5, <1>10 DEF Effects!Settle
  <2> QED BY <1>7, <2>1
<1>11. CASE x.kind = "drop"
  <2>1. Effects!GiveUp
    BY <1>2, <1>3, <1>5, <1>11 DEF Effects!GiveUp
  <2> QED BY <1>7, <2>1
<1> QED BY <1>8, <1>9, <1>10, <1>11

(* A result and the effect it issues.                                      *)
LEMMA TwoEntries ==
  ASSUME NEW x, NEW y, NEW mid \in Seq(Entry), log \in Seq(Entry),
         Appends(mid, log, x), Appends(log', mid, y), Sound(log),
         x.kind = "settle", x.id \in Outstanding(log) \cap Running,
         y.kind = "issue", y.id = NextN(mid)
  PROVE  Sound(log)' /\ Effects!Settle
<1> DEFINE r   == <<Len(log) + 1, x.id>>
           new == <<Len(mid) + 1, y.id>>
<1>1. r[2] = x.id /\ new[2] = y.id
  OBVIOUS
<1>0. x.kind # "issue" /\ y.kind # "settle"
  OBVIOUS
<1>2. Records("issue", mid) = Records("issue", log)
  BY <1>0, RecordsKept
<1>3. /\ Records("issue", log') = Records("issue", mid) \cup {new}
      /\ new \notin Records("issue", mid)
  BY RecordsAppended
<1>4. /\ Records("settle", mid) = Records("settle", log) \cup {r}
      /\ r \notin Records("settle", log)
  BY RecordsAppended
<1>5. Records("settle", log') = Records("settle", mid)
  BY <1>0, RecordsKept
<1> HIDE DEF r, new
<1>6. Outstanding(log) \subseteq Issued(log)
  BY DEF Outstanding
<1>7. Sound(mid)
  BY <1>6, SoundAppended
<1>8. Sound(log')
  BY <1>7, SoundAppended
<1>9. NextN(mid) \notin Issued(mid) /\ Issued(mid) = Issued(log)
  BY <1>7, NumberNew, IssuedAppended
<1>10. Outstanding(mid) = Outstanding(log) \ {x.id}
  BY OpenAppended
<1>11. Outstanding(log') = Outstanding(mid) \cup {y.id}
  BY <1>7, <1>9, OpenAppended
<1>12. Effects!Opens(new, Outstanding(log) \ {r[2]})
  BY <1>1, <1>2, <1>3, <1>9, <1>10, <1>11, NumbersOnRecord DEF Effects!Opens
<1>13. Effects!Settle
  BY <1>1, <1>2, <1>3, <1>4, <1>5, <1>12 DEF Effects!Settle
<1> QED BY <1>8, <1>13

(* What a driver decides, when it has folded the whole journal, is one of  *)
(* these.                                                                  *)
LEMMA DecisionLedger ==
  ASSUME JournalInv, Sound(log), NEW d \in Drivers, st[d] = log, NEW suffix,
         \/ suffix \in {Start(d), Note(d), Issue(d, st[d]), Clear(d)}
         \/ \E e \in inflight[d] \cap Outstanding(st[d]) : suffix \in {Settle(d, e), Pipeline(d, e)},
         log' = log \o suffix
  PROVE  /\ Sound(log)'
         /\ Issued(log) \cup Issued(suffix) \subseteq Issued(log')
         /\ \/ Effects!Issue \/ Effects!Settle \/ Effects!GiveUp
            \/ UNCHANGED <<Records("issue", log), Records("settle", log), Outstanding(log)>>
<1>0. TypeOK /\ log \in Seq(Entry) /\ gen[d] \in Nat /\ inflight[d] \subseteq Nat
  BY DEF JournalInv, TypeOK
<1>1. \A e \in inflight[d] \cap Outstanding(st[d]) : e \in Nat /\ e \in Outstanding(log) \cap Running
  BY <1>0 DEF Running
<1>2. suffix \in Seq(Entry)
  BY <1>0, <1>1, BatchType
<1>3. Issued(log) \cup Issued(suffix) \subseteq Issued(log')
  BY <1>0, <1>2, IssuedJoined
<1>4. ASSUME NEW x \in Entry, suffix = <<x>>,
             x.kind \in {"start", "note", "issue", "drop", "settle"},
             x.kind = "issue" => x.id = NextN(log),
             x.kind = "settle" => x.id \in Outstanding(log) \cap Running
      PROVE  /\ Sound(log)'
             /\ \/ Effects!Issue \/ Effects!Settle \/ Effects!GiveUp
                \/ UNCHANGED <<Records("issue", log), Records("settle", log), Outstanding(log)>>
  <2>1. Appends(log', log, x)
    BY <1>0, <1>4, Appended
  <2> QED BY <1>0, <1>4, <2>1, OneEntry
<1>5. CASE suffix \in {Start(d), Note(d), Clear(d)}
  <2>1. PICK x : suffix = <<x>> /\ x.kind \in {"start", "note", "drop"}
    BY <1>5 DEF Start, Note, Clear
  <2>2. x \in Entry
    BY <1>2, <2>1
  <2> QED BY <1>3, <1>4, <2>1, <2>2
<1>6. CASE suffix = Issue(d, st[d])
  <2>1. PICK x : suffix = <<x>> /\ x.kind = "issue" /\ x.id = NextN(log)
    BY <1>6 DEF Issue
  <2>2. x \in Entry
    BY <1>2, <2>1
  <2> QED BY <1>3, <1>4, <2>1, <2>2
<1>7. ASSUME NEW e \in inflight[d] \cap Outstanding(st[d]), suffix = Settle(d, e)
      PROVE  /\ Sound(log)'
             /\ \/ Effects!Issue \/ Effects!Settle \/ Effects!GiveUp
                \/ UNCHANGED <<Records("issue", log), Records("settle", log), Outstanding(log)>>
  <2>1. PICK x : suffix = <<x>> /\ x.kind = "settle" /\ x.id = e
    BY <1>7 DEF Settle
  <2>2. x \in Entry
    BY <1>2, <2>1
  <2> QED BY <1>1, <1>4, <2>1, <2>2
<1>8. ASSUME NEW e \in inflight[d] \cap Outstanding(st[d]), suffix = Pipeline(d, e)
      PROVE  Sound(log)' /\ Effects!Settle
  <2>1. Settle(d, e) \in Seq(Entry)
    BY <1>0, <1>1, BatchType
  <2> DEFINE x   == [kind |-> "settle", id |-> e, gen |-> gen[d]]
             mid == log \o <<x>>
             y   == [kind |-> "issue", id |-> NextN(mid), gen |-> gen[d]]
  <2>2. Settle(d, e) = <<x>> /\ x.kind = "settle" /\ x.id = e
    BY DEF Settle
  <2>3. Issue(d, mid) = <<y>> /\ y.kind = "issue" /\ y.id = NextN(mid)
    BY DEF Issue
  <2> HIDE DEF x, y
  <2>4. suffix = <<x>> \o <<y>>
    BY <1>8, <2>2, <2>3 DEF Pipeline
  <2>5. x \in Entry
    BY <2>1, <2>2
  <2>6. y \in Entry
    <3>1. (<<x>> \o <<y>>)[2] = y /\ 2 \in DOMAIN (<<x>> \o <<y>>)
      OBVIOUS
    <3> QED BY <1>2, <2>4, <3>1
  <2>7. log' = mid \o <<y>> /\ mid \in Seq(Entry)
    BY <1>0, <2>4, <2>5, <2>6
  <2>8. Appends(mid, log, x)
    BY <1>0, <2>5, Appended
  <2>9. Appends(log', mid, y)
    BY <2>6, <2>7, Appended
  <2> HIDE DEF mid
  <2> QED BY <1>0, <1>1, <2>2, <2>3, <2>7, <2>8, <2>9, TwoEntries
<1> QED BY <1>3, <1>5, <1>6, <1>7, <1>8

-----------------------------------------------------------------------------
(* Every step of a driver is one of the ledger.                            *)
LEMMA QuietStep ==
  ASSUME LedgerInv, log' = log, \A d \in Drivers : inflight'[d] \cup pending'[d] \subseteq Issued(log)
  PROVE  Sound(log)' /\ LogFirst' /\ Effects!Next
<1>1. Sound(log)' /\ LogFirst'
  BY DEF LedgerInv, LogFirst
<1>2. Effects!Runs
  BY NumbersOnRecord DEF Effects!Runs, Running
<1>3. UNCHANGED <<Records("issue", log), Records("settle", log), Outstanding(log)>>
  OBVIOUS
<1> QED BY <1>1, <1>2, <1>3 DEF Effects!Next

LEMMA CommitStep ==
  ASSUME LedgerInv, NEW d \in Drivers, pc[d] \in {"new", "live"}, NEW suffix,
         \/ suffix \in {Start(d), Note(d), Issue(d, st[d]), Clear(d)}
         \/ \E e \in inflight[d] \cap Outstanding(st[d]) : suffix \in {Settle(d, e), Pipeline(d, e)},
         NEW running, running \subseteq inflight[d], NEW fresh, NEW stale,
         CommitWith(d, suffix, running, fresh, stale)
  PROVE  Sound(log)' /\ LogFirst' /\ Effects!Next
<1>0. /\ JournalInv /\ Sound(log)
      /\ \A e \in Drivers : inflight[e] \cup pending[e] \subseteq Issued(log)
      /\ inflight \in [Drivers -> SUBSET Nat] /\ pending \in [Drivers -> SUBSET Nat]
  BY DEF LedgerInv, LogFirst, JournalInv, TypeOK
<1>1. CASE /\ gen[d] = lease
           /\ log' = log \o suffix
           /\ pending' = [pending EXCEPT ![d] = Issued(suffix)]
           /\ inflight' = [inflight EXCEPT ![d] = running]
  <2>1. st[d] = log
    BY <1>0, <1>1 DEF JournalInv, HolderUpToDate
  <2>2. /\ Sound(log)'
        /\ Issued(log) \cup Issued(suffix) \subseteq Issued(log')
        /\ \/ Effects!Issue \/ Effects!Settle \/ Effects!GiveUp
           \/ UNCHANGED <<Records("issue", log), Records("settle", log), Outstanding(log)>>
    BY <1>0, <1>1, <2>1, DecisionLedger
  <2>3. \A e \in Drivers : /\ inflight'[e] \subseteq inflight[e]
                           /\ pending'[e] \subseteq pending[e] \cup Issued(suffix)
    BY <1>0, <1>1
  <2>4. LogFirst'
    BY <1>0, <2>2, <2>3 DEF LogFirst
  <2>5. Effects!Runs
    BY <2>3 DEF Effects!Runs, Running
  <2> QED BY <2>2, <2>4, <2>5 DEF Effects!Next
<1>2. CASE /\ log' = log /\ pending' = pending
           /\ \E some \in SUBSET running : inflight' = [inflight EXCEPT ![d] = some]
  <2>1. \A e \in Drivers : inflight'[e] \cup pending'[e] \subseteq Issued(log)
    BY <1>0, <1>2
  <2> QED BY <1>2, <2>1, QuietStep
<1> QED BY <1>1, <1>2 DEF CommitWith

LEMMA StepLedger ==
  ASSUME LedgerInv, Next
  PROVE  LedgerInv' /\ Effects!Next
<1>0. /\ JournalInv
      /\ \A e \in Drivers : inflight[e] \cup pending[e] \subseteq Issued(log)
      /\ inflight \in [Drivers -> SUBSET Nat] /\ pending \in [Drivers -> SUBSET Nat]
  BY DEF LedgerInv, LogFirst, JournalInv, TypeOK
<1>1. JournalInv'
  BY <1>0, StepInv
<1> SUFFICES Sound(log)' /\ LogFirst' /\ Effects!Next
  BY <1>1 DEF LedgerInv
<1>2. ASSUME NEW d \in Drivers,
             \/ AcquireLease(d, "create") \/ AcquireLease(d, "resume") \/ CreateCheck(d)
             \/ LoadSnapshot(d) \/ SaveSnapshot(d)
      PROVE  Sound(log)' /\ LogFirst' /\ Effects!Next
  <2>1. log' = log /\ inflight' = inflight /\ pending' = pending
    BY <1>2 DEF AcquireLease, CreateCheck, LoadSnapshot, SaveSnapshot
  <2> QED BY <1>0, <2>1, QuietStep
<1>3. ASSUME NEW d \in Drivers, LoadEvents(d)
      PROVE  Sound(log)' /\ LogFirst' /\ Effects!Next
  <2>1. log' = log
    BY <1>3 DEF LoadEvents
  <2>2. CASE log = <<>>
    <3>1. \A e \in Drivers : inflight'[e] \cup pending'[e] \subseteq inflight[e] \cup pending[e]
      BY <1>0, <1>3, <2>2 DEF LoadEvents, Drop
    <3> QED BY <1>0, <2>1, <3>1, QuietStep
  <2>3. CASE log # <<>>
    <3> DEFINE folded == st[d] \o SubSeq(log, snapAt[d] + 1, Len(log))
    <3>1. pc[d] = "load" /\ inflight' = [inflight EXCEPT ![d] = Outstanding(folded)] /\ pending' = pending
      BY <1>3, <2>3 DEF LoadEvents
    <3>2. folded = log
      <4>1. snapAt[d] = Len(st[d]) /\ IsPrefixOf(st[d], log)
        BY <1>0, <3>1 DEF JournalInv, NoFork, FoldedSoFar
      <4>2. st[d] \in Seq(Entry) /\ log \in Seq(Entry)
        BY <1>0 DEF JournalInv, TypeOK
      <4> QED BY <4>1, <4>2, PrefixJoin
    <3> HIDE DEF folded
    <3>3. Outstanding(log) \subseteq Issued(log)
      BY DEF Outstanding
    <3>4. \A e \in Drivers : inflight'[e] \cup pending'[e] \subseteq Issued(log)
      BY <1>0, <3>1, <3>2, <3>3
    <3> QED BY <2>1, <3>4, QuietStep
  <2> QED BY <2>2, <2>3
<1>4. ASSUME NEW d \in Drivers, CreateCommit(d)
      PROVE  Sound(log)' /\ LogFirst' /\ Effects!Next
  BY <1>4, CommitStep DEF CreateCommit
<1>5. ASSUME NEW d \in Drivers, Input(d)
      PROVE  Sound(log)' /\ LogFirst' /\ Effects!Next
  BY <1>5, CommitStep DEF Input
<1>6. ASSUME NEW d \in Drivers, HardInterrupt(d)
      PROVE  Sound(log)' /\ LogFirst' /\ Effects!Next
  <2>1. PICK merges \in SUBSET inflight[d] :
           IF Outstanding(st[d]) = {}
             THEN /\ inflight' = [inflight EXCEPT ![d] = merges]
                  /\ UNCHANGED <<log, lease, snap, pc, gen, st, snapAt, pending, errors>>
             ELSE CommitWith(d, Clear(d), merges, "committed", "fenced")
    BY <1>6 DEF HardInterrupt
  <2>2. CASE Outstanding(st[d]) = {}
    <3>1. \A e \in Drivers : inflight'[e] \cup pending'[e] \subseteq Issued(log)
      BY <1>0, <2>1, <2>2
    <3> QED BY <2>1, <2>2, <3>1, QuietStep
  <2>3. CASE Outstanding(st[d]) # {}
    <3>1. pc[d] = "live"
      BY <1>6 DEF HardInterrupt
    <3> QED BY <2>1, <2>3, <3>1, CommitStep
  <2> QED BY <2>2, <2>3
<1>7. ASSUME NEW d \in Drivers, NEW e \in inflight[d], Complete(d, e)
      PROVE  Sound(log)' /\ LogFirst' /\ Effects!Next
  <2>1. CASE e \notin Outstanding(st[d])
    <3>1. log' = log /\ inflight' = [inflight EXCEPT ![d] = @ \ {e}] /\ pending' = pending
      BY <1>7, <2>1 DEF Complete
    <3>2. \A c \in Drivers : inflight'[c] \cup pending'[c] \subseteq Issued(log)
      BY <1>0, <3>1
    <3> QED BY <3>1, <3>2, QuietStep
  <2>2. CASE e \in Outstanding(st[d])
    <3>1. PICK suffix \in {Settle(d, e), Pipeline(d, e)} :
             CommitWith(d, suffix, inflight[d] \ {e}, "committed", "fenced")
      BY <1>7, <2>2 DEF Complete
    <3>2. pc[d] = "live"
      BY <1>7 DEF Complete
    <3> QED BY <2>2, <3>1, <3>2, CommitStep
  <2> QED BY <2>1, <2>2
<1>8. ASSUME NEW d \in Drivers, Dispatch(d)
      PROVE  Sound(log)' /\ LogFirst' /\ Effects!Next
  <2>1. log' = log /\ \A e \in Drivers : inflight'[e] \cup pending'[e] \subseteq inflight[e] \cup pending[e]
    BY <1>0, <1>8 DEF Dispatch
  <2> QED BY <1>0, <2>1, QuietStep
<1>9. ASSUME NEW d \in Drivers, Crash(d)
      PROVE  Sound(log)' /\ LogFirst' /\ Effects!Next
  <2>1. log' = log /\ \A e \in Drivers : inflight'[e] \cup pending'[e] \subseteq inflight[e] \cup pending[e]
    BY <1>0, <1>9 DEF Crash, Drop
  <2> QED BY <1>0, <2>1, QuietStep
<1>10. ASSUME DropSnapshot
       PROVE  Sound(log)' /\ LogFirst' /\ Effects!Next
  <2>1. log' = log /\ inflight' = inflight /\ pending' = pending
    BY <1>10 DEF DropSnapshot
  <2> QED BY <1>0, <2>1, QuietStep
<1> QED BY <1>2, <1>3, <1>4, <1>5, <1>6, <1>7, <1>8, <1>9, <1>10 DEF Next, Step

LEMMA LedgerInit == Init => LedgerInv /\ Effects!Init
<1> SUFFICES ASSUME Init PROVE LedgerInv /\ Effects!Init
  OBVIOUS
<1>1. log = <<>> /\ inflight = [d \in Drivers |-> {}] /\ pending = [d \in Drivers |-> {}]
  BY DEF Init
<1>2. \A k : Records(k, log) = {} /\ OfKind(k, log) = {}
  BY <1>1 DEF Records, OfKind
<1>3. Issued(log) = {} /\ Settled(log) = {} /\ Outstanding(log) = {}
  BY <1>2 DEF Issued, Settled, Outstanding
<1>4. NextN(log) = 0
  BY <1>3, FS_EmptySet DEF NextN
<1>5. Sound(log)
  BY <1>3, <1>4 DEF Sound
<1>6. Running = {}
  BY <1>1 DEF Running
<1>7. Effects!Init
  BY <1>2, <1>3, <1>6 DEF Effects!Init
<1>8. LogFirst
  BY <1>1 DEF LogFirst
<1> QED BY <1>5, <1>7, <1>8, InitInv DEF LedgerInv

LEMMA LedgerStep == LedgerInv /\ [Next]_vars => LedgerInv' /\ [Effects!Next]_(Effects!ledger)
<1> SUFFICES ASSUME LedgerInv, [Next]_vars
             PROVE  LedgerInv' /\ [Effects!Next]_(Effects!ledger)
  OBVIOUS
<1>1. CASE Next
  BY <1>1, StepLedger
<1>2. CASE UNCHANGED vars
  <2>1. log' = log /\ inflight' = inflight /\ pending' = pending
    BY <1>2 DEF vars
  <2>2. UNCHANGED Effects!ledger
    BY <2>1 DEF Effects!ledger, Running
  <2>3. JournalInv'
    BY StepInv DEF LedgerInv
  <2>4. Sound(log)' /\ LogFirst'
    BY <2>1 DEF LedgerInv, LogFirst
  <2> QED BY <2>2, <2>3, <2>4 DEF LedgerInv
<1> QED BY <1>1, <1>2

(* Nothing runs that the journal does not have as issued.                  *)
THEOREM LogComesFirst == Spec => []LogFirst
<1>1. LedgerInv => LogFirst
  BY DEF LedgerInv
<1> QED BY <1>1, LedgerInit, LedgerStep, PTL DEF Spec

(* The journal and its drivers implement the ledger.                       *)
THEOREM JournalKeepsLedger == Spec => KeepsLedger
<1>1. Init => LedgerInv /\ Effects!Init
  BY LedgerInit
<1>2. LedgerInv /\ [Next]_vars => LedgerInv' /\ [Effects!Next]_(Effects!ledger)
  BY LedgerStep
<1> QED BY <1>1, <1>2, PTL DEF Spec, KeepsLedger, Effects!Spec

-----------------------------------------------------------------------------
(* What the ledger's own steps preserve.                                   *)
LEMMA OnceKept ==
  ASSUME Effects!ResultOnce, [Effects!Next]_(Effects!ledger)
  PROVE  Effects!ResultOnce'
<1> DEFINE issued  == Records("issue", log)
           results == Records("settle", log)
           open    == Outstanding(log)
           N(s)    == Effects!EffectsOf(s)
<1>1. /\ \A r, q \in results : r[2] = q[2] => r = q
      /\ open \cup N(results) \subseteq N(issued)
      /\ open \cap N(results) = {}
  BY DEF Effects!ResultOnce
<1>2. \A a, r : N(a \cup {r}) = N(a) \cup {r[2]}
  BY DEF Effects!EffectsOf
<1>3. \A a : \A r \in a : r[2] \in N(a)
  BY DEF Effects!EffectsOf
<1>4. CASE Effects!Issue
  <2>1. PICK new : /\ new[2] \notin N(issued) /\ issued' = issued \cup {new}
                   /\ open' = open \cup {new[2]} /\ results' = results
    BY <1>4 DEF Effects!Issue, Effects!Opens
  <2> HIDE DEF issued, results, open, N
  <2>2. /\ \A r, q \in results' : r[2] = q[2] => r = q
        /\ open' \cup N(results') \subseteq N(issued')
        /\ open' \cap N(results') = {}
    BY <1>1, <1>2, <2>1
  <2> QED BY <2>2 DEF Effects!ResultOnce, issued, results, open, N
<1>5. CASE Effects!Settle
  <2>1. PICK r : /\ r[2] \in open /\ results' = results \cup {r}
                 /\ \/ issued' = issued /\ open' = open \ {r[2]}
                    \/ \E new : /\ new[2] \notin N(issued) /\ issued' = issued \cup {new}
                                /\ open' = (open \ {r[2]}) \cup {new[2]}
    BY <1>5 DEF Effects!Settle, Effects!Opens
  <2> HIDE DEF issued, results, open, N
  <2>2. \A q, o \in results' : q[2] = o[2] => q = o
    BY <1>1, <1>3, <2>1
  <2>3. N(results') = N(results) \cup {r[2]}
    BY <1>2, <2>1
  <2>4. /\ open' \cup N(results') \subseteq N(issued')
        /\ open' \cap N(results') = {}
    <3>1. CASE issued' = issued /\ open' = open \ {r[2]}
      BY <1>1, <2>1, <2>3, <3>1
    <3>2. ASSUME NEW new, new[2] \notin N(issued), issued' = issued \cup {new},
                 open' = (open \ {r[2]}) \cup {new[2]}
          PROVE  /\ open' \cup N(results') \subseteq N(issued')
                 /\ open' \cap N(results') = {}
      <4>1. N(issued') = N(issued) \cup {new[2]}
        BY <1>2, <3>2
      <4>2. r[2] \in N(issued) /\ new[2] # r[2] /\ new[2] \notin N(results)
        BY <1>1, <2>1, <3>2
      <4>3. open' \cup N(results') \subseteq N(issued')
        BY <1>1, <2>3, <3>2, <4>1, <4>2
      <4>4. open' \cap N(results') = {}
        BY <1>1, <2>3, <3>2, <4>2
      <4> QED BY <4>3, <4>4
    <3> QED BY <2>1, <3>1, <3>2
  <2> QED BY <2>2, <2>4 DEF Effects!ResultOnce, issued, results, open, N
<1>6. CASE Effects!GiveUp
  BY <1>1, <1>6 DEF Effects!GiveUp, Effects!ResultOnce
<1>7. CASE UNCHANGED <<issued, results, open>>
  BY <1>1, <1>7 DEF Effects!ResultOnce
<1> QED BY <1>4, <1>5, <1>6, <1>7 DEF Effects!Next, Effects!ledger

(* However many drivers run an effect, the journal has at most one result  *)
(* of it, and none of an effect that is still to report.                   *)
THEOREM OneResultEach == Spec => []Effects!ResultOnce
<1>1. Effects!Init => Effects!ResultOnce
  BY DEF Effects!Init, Effects!ResultOnce, Effects!EffectsOf
<1>2. Effects!ResultOnce /\ [Effects!Next]_(Effects!ledger) => Effects!ResultOnce'
  BY OnceKept
<1> QED BY <1>1, <1>2, JournalKeepsLedger, PTL DEF KeepsLedger, Effects!Spec

(***************************************************************************)
(* Part 2: what a rewind does to the files (Shadow).                       *)
(***************************************************************************)

(* A finite sequence, of whatever.                                         *)
IsSeq(s) == s \in Seq(Range(s))

LEMMA SeqFacts ==
  ASSUME NEW s, IsSeq(s)
  PROVE  Len(s) \in Nat /\ DOMAIN s = 1..Len(s) /\ (s = <<>> <=> Len(s) = 0)
BY DEF IsSeq

LEMMA FunctionIsSeq ==
  ASSUME NEW n \in Nat, NEW s, DOMAIN s = 1..n, s = [i \in 1..n |-> s[i]]
  PROVE  IsSeq(s) /\ Len(s) = n
<1>1. \A i \in 1..n : s[i] \in Range(s)
  BY DEF Range
<1>2. s \in [1..n -> Range(s)]
  BY <1>1
<1> QED BY <1>2 DEF IsSeq

LEMMA IsSeqIn ==
  ASSUME NEW S, NEW s \in Seq(S)
  PROVE  IsSeq(s)
<1>1. Len(s) \in Nat /\ DOMAIN s = 1..Len(s) /\ s = [i \in 1..Len(s) |-> s[i]]
  OBVIOUS
<1> QED BY <1>1, FunctionIsSeq

LEMMA EmptyIsSeq == IsSeq(<<>>) /\ Len(<<>>) = 0 /\ DOMAIN <<>> = {}
<1>1. <<>> \in Seq({}) /\ Len(<<>>) = 0 /\ DOMAIN <<>> = {}
  OBVIOUS
<1> QED BY <1>1, IsSeqIn

LEMMA AppendFacts ==
  ASSUME NEW s, IsSeq(s), NEW e
  PROVE  /\ IsSeq(Append(s, e)) /\ Len(Append(s, e)) = Len(s) + 1
         /\ DOMAIN Append(s, e) = 1..(Len(s) + 1)
         /\ \A i \in 1..Len(s) : Append(s, e)[i] = s[i]
         /\ Append(s, e)[Len(s) + 1] = e
<1> DEFINE S == Range(s) \cup {e}
           t == Append(s, e)
<1>1. s \in Seq(Range(s)) /\ Range(s) \subseteq S /\ e \in S
  BY DEF IsSeq
<1> HIDE DEF S
<1>2. s \in Seq(S)
  BY <1>1
<1>3. t \in Seq(S) /\ Len(t) = Len(s) + 1 /\ (\A i \in 1..Len(s) : t[i] = s[i]) /\ t[Len(s) + 1] = e
  BY <1>1, <1>2
<1> HIDE DEF t
<1>4. IsSeq(t) /\ DOMAIN t = 1..(Len(s) + 1)
  BY <1>3, IsSeqIn
<1> QED BY <1>3, <1>4 DEF t

-----------------------------------------------------------------------------
(* The last and the first of a set of numbers of records.                  *)

First(S, j) == j \in S /\ \A k \in S : j <= k
Final(S, j) == j \in S /\ \A k \in S : k <= j

LEMMA HasFirst ==
  ASSUME NEW S \in SUBSET Nat, S # {}
  PROVE  \E j \in Nat : First(S, j)
<1> DEFINE R == OpToRel(<, Nat)
<1>1. IsWellFoundedOn(R, Nat)
  BY NatLessThanWellFounded
<1> HIDE DEF R
<1>2. PICK j \in S : \A k \in S : ~(<<k, j>> \in R)
  BY <1>1, WFMin
<1>3. \A k \in S : ~(k < j)
  <2> TAKE k \in S
  <2>1. k \in Nat /\ j \in Nat
    OBVIOUS
  <2>2. k < j => <<k, j>> \in R
    BY <2>1 DEF R, OpToRel
  <2> QED BY <1>2, <2>2
<1> QED BY <1>3 DEF First

LEMMA HasFinal ==
  ASSUME NEW n \in Nat, NEW S \in SUBSET (0..n), S # {}
  PROVE  \E j \in Nat : Final(S, j)
<1> DEFINE T == {i \in 0..n : n - i \in S}
<1>1. PICK i \in S : TRUE
  OBVIOUS
<1>2. i \in 0..n /\ n - i \in 0..n /\ n - (n - i) = i
  OBVIOUS
<1>3. n - i \in T
  BY <1>1, <1>2
<1> HIDE DEF T
<1>a. T \in SUBSET Nat /\ T # {}
  <2>1. \A t \in T : t \in 0..n
    BY DEF T
  <2> QED BY <1>3, <2>1
<1>4. PICK t \in Nat : First(T, t)
  BY <1>a, HasFirst
<1>5. t \in 0..n /\ n - t \in S /\ n - t \in Nat
  BY <1>4 DEF First, T
<1>6. \A k \in S : k <= n - t
  <2> TAKE k \in S
  <2>1. k \in 0..n /\ n - k \in 0..n /\ n - (n - k) = k
    OBVIOUS
  <2>2. n - k \in T
    BY <2>1 DEF T
  <2>3. t <= n - k
    BY <1>4, <2>2 DEF First
  <2> QED BY <1>5, <2>1, <2>3
<1> QED BY <1>5, <1>6 DEF Final

(* Records of the path after k, and what PlanOf makes of them.             *)
Touching(recs, k, p) == {i \in DOMAIN recs : i > k /\ p \in DOMAIN recs[i].agent}

LEMMA PlanFacts ==
  ASSUME NEW recs, IsSeq(recs), NEW k \in Nat, NEW P, P = PlanOf(recs, k), NEW p
  PROVE  /\ p \in DOMAIN P <=> Touching(recs, k, p) # {}
         /\ p \in DOMAIN P =>
              \E i, j \in Nat : /\ First(Touching(recs, k, p), i) /\ Final(Touching(recs, k, p), j)
                                /\ P[p].target = recs[i].agent[p].before
                                /\ P[p].left = recs[j].agent[p].after
<1> DEFINE S == Touching(recs, k, p)
           touched == UNION {DOMAIN recs[i].agent : i \in Since(recs, k)}
           a == CHOOSE i \in S : \A j \in S : i <= j
           b == CHOOSE i \in S : \A j \in S : j <= i
<1>1. S = {i \in Since(recs, k) : p \in DOMAIN recs[i].agent}
  BY DEF Touching, Since
<1>2. DOMAIN P = touched
  BY DEF PlanOf
<1>3. p \in touched <=> S # {}
  BY <1>1
<1>4. p \in touched => P[p].target = recs[a].agent[p].before /\ P[p].left = recs[b].agent[p].after
  BY <1>1 DEF PlanOf
<1>5. ASSUME S # {} PROVE First(S, a) /\ Final(S, b) /\ a \in Nat /\ b \in Nat
  <2>1. Len(recs) \in Nat /\ DOMAIN recs = 1..Len(recs)
    BY SeqFacts
  <2>2. S \in SUBSET Nat /\ S \in SUBSET (0..Len(recs))
    BY <2>1 DEF Touching
  <2> HIDE DEF S
  <2>3. \E j \in S : \A i \in S : j <= i
    BY <1>5, <2>2, HasFirst DEF First
  <2>4. \E j \in S : \A i \in S : i <= j
    BY <1>5, <2>1, <2>2, HasFinal DEF Final
  <2>5. a \in S /\ \A i \in S : a <= i
    BY <2>3
  <2>6. b \in S /\ \A i \in S : i <= b
    BY <2>4
  <2> QED BY <2>2, <2>5, <2>6 DEF First, Final
<1> HIDE DEF S, a, b, touched
<1> QED BY <1>2, <1>3, <1>4, <1>5 DEF S

-----------------------------------------------------------------------------
(* Types: no content is newer than the last write.                         *)

Contents == [sha : Nat, at : Nat]
FilesOK(f, c) == f \in [Paths -> Contents] /\ \A p \in Paths : f[p].sha <= c /\ f[p].at <= c

AgentOK(a, c) ==
  \A p \in DOMAIN a : p \in Paths /\ a[p].before \in 0..c /\ a[p].after \in 0..c
RecordOK(r, c) ==
  /\ r = [agent |-> r.agent, snap |-> r.snap, user |-> r.user, stale |-> r.stale]
  /\ AgentOK(r.agent, c)
RecordsOK(recs, c) == IsSeq(recs) /\ \A i \in DOMAIN recs : RecordOK(recs[i], c)

OriginalsOK(o, c) == \A p \in DOMAIN o : p \in Paths /\ o[p] \in 0..c

Waiting(k) == [NoRestore EXCEPT !.phase = "stopping", !.to = k]
RestoreOK(r, c) ==
  /\ r = [phase |-> r.phase, to |-> r.to, todo |-> r.todo, undo |-> r.undo, conflicts |-> r.conflicts]
  /\ r.phase \in {"none", "stopping", "writing", "report"}
  /\ r.phase = "none" => r = NoRestore
  /\ r.phase = "stopping" => r = Waiting(r.to)
  /\ r.to \in Nat
  /\ AgentOK(r.todo, c) /\ AgentOK(r.undo, c)

BatchOK(b) ==
  /\ b = [phase |-> b.phase, kind |-> b.kind]
  /\ b.phase \in {"none", "declaring", "saving", "closing", "running", "merging", "applying",
                  "applied", "recovering"}
  /\ b.kind \in {"exact", "opaque", "isolated", "lost"}
  /\ b.kind = "lost" => b.phase \in {"none", "merging", "applying", "applied"}
  /\ b.phase = "recovering" => b.kind = "exact"

ShadowTypes ==
  /\ clock \in Nat /\ FilesOK(file, clock) /\ FilesOK(scan, clock)
  /\ RecordsOK(records, clock)
  /\ OriginalsOK(pendingOriginals, clock) /\ OriginalsOK(stagedOriginals, clock)
  /\ RestoreOK(restore, clock)
  /\ BatchOK(batch)
  /\ author \in [Paths -> {"user", "agent", "under"}]

LEMMA Older ==
  ASSUME NEW c \in Nat, NEW d \in Nat, c <= d
  PROVE  /\ \A f : FilesOK(f, c) => FilesOK(f, d)
         /\ \A recs : RecordsOK(recs, c) => RecordsOK(recs, d)
         /\ \A o : OriginalsOK(o, c) => OriginalsOK(o, d)
         /\ \A r : RestoreOK(r, c) => RestoreOK(r, d)
<1>1. \A f : FilesOK(f, c) => FilesOK(f, d)
  BY DEF FilesOK, Contents
<1>2. \A a : AgentOK(a, c) => AgentOK(a, d)
  BY DEF AgentOK
<1>3. \A recs : RecordsOK(recs, c) => RecordsOK(recs, d)
  BY <1>2 DEF RecordsOK, RecordOK
<1>4. \A o : OriginalsOK(o, c) => OriginalsOK(o, d)
  BY DEF OriginalsOK
<1>5. \A r : RestoreOK(r, c) => RestoreOK(r, d)
  BY <1>2 DEF RestoreOK
<1> QED BY <1>1, <1>3, <1>4, <1>5

LEMMA TypesStart == ShadowInit => ShadowTypes
<1> SUFFICES ASSUME ShadowInit PROVE ShadowTypes
  OBVIOUS
<1> USE DEF ShadowInit
<1>1. clock \in Nat /\ FilesOK(file, clock) /\ FilesOK(scan, clock)
  BY DEF FilesOK, Contents, Absent
<1>2. RecordsOK(records, clock)
  BY EmptyIsSeq DEF RecordsOK
<1>3. OriginalsOK(pendingOriginals, clock) /\ OriginalsOK(stagedOriginals, clock)
  BY EmptyIsSeq DEF OriginalsOK
<1>4. AgentOK(<<>>, clock)
  BY EmptyIsSeq DEF AgentOK
<1>5. RestoreOK(restore, clock)
  BY <1>4 DEF RestoreOK, NoRestore
<1>6. BatchOK(batch)
  BY DEF BatchOK, NoBatch
<1> QED BY <1>1, <1>2, <1>3, <1>5, <1>6 DEF ShadowTypes

(* A write: of one path or several, by whoever.                            *)
LEMMA FilesWritten ==
  ASSUME NEW c \in Nat, NEW f, FilesOK(f, c), NEW p \in Paths, NEW sha \in 0..(c + 1),
         NEW g, g = [f EXCEPT ![p] = [sha |-> sha, at |-> c + 1]]
  PROVE  /\ FilesOK(g, c + 1) /\ g[p].sha = sha /\ g[p].at = c + 1
         /\ \A q \in Paths \ {p} : g[q] = f[q]
<1>1. g[p] = [sha |-> sha, at |-> c + 1] /\ \A q \in Paths \ {p} : g[q] = f[q]
  BY DEF FilesOK
<1>2. g \in [Paths -> Contents]
  BY DEF FilesOK, Contents
<1>3. \A q \in Paths : g[q].sha <= c + 1 /\ g[q].at <= c + 1
  BY <1>1 DEF FilesOK, Contents
<1> QED BY <1>1, <1>2, <1>3 DEF FilesOK

LEMMA FilesRewritten ==
  ASSUME NEW c \in Nat, NEW f, FilesOK(f, c), NEW W \in SUBSET Paths, NEW h, \A p \in W : h[p] \in 0..(c + 1),
         NEW g, g = [p \in Paths |-> IF p \in W THEN [sha |-> h[p], at |-> c + 1] ELSE f[p]]
  PROVE  /\ FilesOK(g, c + 1) /\ \A p \in W : g[p].sha = h[p] /\ g[p].at = c + 1
         /\ \A q \in Paths \ W : g[q] = f[q]
<1>1. /\ \A p \in W : g[p] = [sha |-> h[p], at |-> c + 1]
      /\ \A q \in Paths \ W : g[q] = f[q]
  OBVIOUS
<1>2. \A q \in Paths : g[q] \in Contents /\ g[q].sha <= c + 1 /\ g[q].at <= c + 1
  BY <1>1 DEF FilesOK, Contents
<1>3. g \in [Paths -> Contents]
  BY <1>2
<1> QED BY <1>1, <1>2, <1>3 DEF FilesOK

LEMMA ScannedFacts ==
  ASSUME ShadowTypes
  PROVE  /\ FilesOK(Scanned, clock)
         /\ \A p \in Paths : /\ Scanned[p] = scan[p] \/ Scanned[p] = file[p]
                             /\ file[p].at = scan[p].at => Scanned[p] = scan[p]
                             /\ file[p].at # scan[p].at => Scanned[p] = file[p]
                             /\ Scanned[p].at = file[p].at
<1>1. \A p \in Paths : Scanned[p] = IF file[p].at = scan[p].at THEN scan[p] ELSE file[p]
  BY DEF Scanned
<1>2. \A p \in Paths : file[p] \in Contents /\ scan[p] \in Contents
                       /\ file[p].sha <= clock /\ file[p].at <= clock
                       /\ scan[p].sha <= clock /\ scan[p].at <= clock
  BY DEF ShadowTypes, FilesOK
<1>3. Scanned \in [Paths -> Contents]
  BY <1>1, <1>2 DEF Scanned
<1>4. FilesOK(Scanned, clock)
  BY <1>1, <1>2, <1>3 DEF FilesOK
<1> QED BY <1>1, <1>4

(* A change found under a pattern: its content before it is the original   *)
(* kept for it, or the scan's.                                             *)
LEMMA AttributedFacts ==
  ASSUME NEW a, a = Attributed
  PROVE  /\ DOMAIN a = Changed \cap pendingPatterns
         /\ \A p \in DOMAIN a :
              /\ p \in Paths /\ p \in pendingPatterns /\ scannedOnce
              /\ scan[p].sha # Scanned[p].sha
              /\ a[p].after = Scanned[p].sha
              /\ p \in DOMAIN pendingOriginals => a[p].before = pendingOriginals[p]
              /\ p \notin DOMAIN pendingOriginals => a[p].before = scan[p].sha
<1>1. DOMAIN a = Changed \cap pendingPatterns
  BY DEF Attributed
<1>2. \A p \in DOMAIN a :
         a[p] = [before |-> IF p \in DOMAIN pendingOriginals THEN pendingOriginals[p]
                                                             ELSE scan[p].sha,
                 after |-> Scanned[p].sha]
  BY <1>1 DEF Attributed
<1>3. \A p \in Changed : p \in Paths /\ scannedOnce /\ scan[p].sha # Scanned[p].sha
  BY DEF Changed
<1> HIDE DEF Attributed, Changed, Scanned
<1> QED BY <1>1, <1>2, <1>3

LEMMA AttributedOK ==
  ASSUME ShadowTypes
  PROVE  AgentOK(Attributed, clock)
<1> DEFINE a == Attributed
<1>0. a = Attributed
  OBVIOUS
<1> HIDE DEF a
<1>1. \A p \in DOMAIN a :
              /\ p \in Paths
              /\ a[p].after = Scanned[p].sha
              /\ p \in DOMAIN pendingOriginals => a[p].before = pendingOriginals[p]
              /\ p \notin DOMAIN pendingOriginals => a[p].before = scan[p].sha
  BY <1>0, AttributedFacts
<1>2. \A p \in Paths : Scanned[p].sha \in 0..clock /\ scan[p].sha \in 0..clock
  BY ScannedFacts DEF ShadowTypes, FilesOK, Contents
<1>3. \A p \in DOMAIN pendingOriginals : pendingOriginals[p] \in 0..clock
  BY DEF ShadowTypes, OriginalsOK
<1>4. \A p \in DOMAIN a : p \in Paths /\ a[p].before \in 0..clock /\ a[p].after \in 0..clock
  <2> TAKE p \in DOMAIN a
  <2>1. p \in Paths /\ a[p].after \in 0..clock
    BY <1>1, <1>2
  <2>2. CASE p \in DOMAIN pendingOriginals
    BY <2>1, <2>2, <1>1, <1>3
  <2>3. CASE p \notin DOMAIN pendingOriginals
    BY <2>1, <2>3, <1>1, <1>2
  <2> QED BY <2>2, <2>3
<1> QED BY <1>0, <1>4 DEF AgentOK

(* The records and a new one.                                              *)
LEMMA RecordAdded ==
  ASSUME ShadowTypes, NEW a, AgentOK(a, clock), NEW recs, recs = Append(records, NewRecord(a))
  PROVE  /\ RecordsOK(recs, clock) /\ Len(recs) = Len(records) + 1
         /\ DOMAIN recs = 1..(Len(records) + 1) /\ DOMAIN records = 1..Len(records)
         /\ Len(records) \in Nat
         /\ \A i \in DOMAIN records : recs[i] = records[i]
         /\ recs[Len(records) + 1].agent = a
<1> DEFINE r == NewRecord(a)
<1>1. r = [agent |-> r.agent, snap |-> r.snap, user |-> r.user, stale |-> r.stale] /\ r.agent = a
  BY DEF NewRecord
<1>2. recs = Append(records, r)
  OBVIOUS
<1> HIDE DEF r
<1>3. IsSeq(records) /\ \A i \in DOMAIN records : RecordOK(records[i], clock)
  BY DEF ShadowTypes, RecordsOK
<1>4. /\ Len(records) \in Nat /\ DOMAIN records = 1..Len(records)
      /\ IsSeq(recs) /\ Len(recs) = Len(records) + 1
      /\ DOMAIN recs = 1..(Len(records) + 1)
      /\ \A i \in 1..Len(records) : recs[i] = records[i]
      /\ recs[Len(records) + 1] = r
  BY <1>2, <1>3, AppendFacts, SeqFacts
<1>5. RecordOK(r, clock)
  BY <1>1 DEF RecordOK
<1>6. \A i \in DOMAIN recs : RecordOK(recs[i], clock)
  <2> TAKE i \in DOMAIN recs
  <2>1. i \in 1..Len(records) \/ i = Len(records) + 1
    BY <1>4
  <2> QED BY <2>1, <1>3, <1>4, <1>5
<1> QED BY <1>1, <1>4, <1>6 DEF RecordsOK

LEMMA CheckpointFacts ==
  ASSUME ShadowTypes, NEW d, Checkpoint(d)
  PROVE  /\ RecordsOK(records', clock) /\ FilesOK(scan', clock)
         /\ OriginalsOK(pendingOriginals', clock) /\ OriginalsOK(stagedOriginals', clock)
         /\ DOMAIN records' = 1..(Len(records) + 1) /\ DOMAIN records = 1..Len(records)
         /\ Len(records) \in Nat
         /\ \A i \in DOMAIN records : records'[i] = records[i]
         /\ records'[Len(records) + 1].agent = Attributed
         /\ scan' = Scanned /\ pendingPatterns' = stagedPatterns \cup d
<1>1. /\ records' = Append(records, NewRecord(Attributed)) /\ scan' = Scanned
      /\ pendingOriginals' = stagedOriginals /\ stagedOriginals' = <<>>
      /\ pendingPatterns' = stagedPatterns \cup d
  BY DEF Checkpoint
<1>2. /\ RecordsOK(records', clock) /\ Len(records) \in Nat
      /\ DOMAIN records' = 1..(Len(records) + 1) /\ DOMAIN records = 1..Len(records)
      /\ \A i \in DOMAIN records : records'[i] = records[i]
      /\ records'[Len(records) + 1].agent = Attributed
  BY <1>1, AttributedOK, RecordAdded
<1>3. FilesOK(scan', clock)
  BY <1>1, ScannedFacts
<1>4. OriginalsOK(<<>>, clock)
  BY EmptyIsSeq DEF OriginalsOK
<1> QED BY <1>1, <1>2, <1>3, <1>4 DEF ShadowTypes

(* What is put aside for the interval opened next.                         *)
LEMMA OriginalsFacts ==
  ASSUME NEW P \in SUBSET Paths, NEW o, o = Originals(P)
  PROVE  /\ DOMAIN o = P \cup DOMAIN stagedOriginals
         /\ \A p \in DOMAIN stagedOriginals : o[p] = stagedOriginals[p]
         /\ \A p \in P \ DOMAIN stagedOriginals : o[p] = file[p].sha
BY DEF Originals

LEMMA OriginalsTyped ==
  ASSUME ShadowTypes, NEW P \in SUBSET Paths, NEW o, o = Originals(P)
  PROVE  OriginalsOK(o, clock)
<1>1. /\ DOMAIN o = P \cup DOMAIN stagedOriginals
      /\ \A p \in DOMAIN stagedOriginals : o[p] = stagedOriginals[p]
      /\ \A p \in P \ DOMAIN stagedOriginals : o[p] = file[p].sha
  BY DEF Originals
<1>4. \A p \in Paths : file[p].sha \in 0..clock
  BY DEF ShadowTypes, FilesOK, Contents
<1>5. \A p \in DOMAIN stagedOriginals : p \in Paths /\ stagedOriginals[p] \in 0..clock
  BY DEF ShadowTypes, OriginalsOK
<1>6. \A p \in DOMAIN o : p \in Paths /\ o[p] \in 0..clock
  <2> TAKE p \in DOMAIN o
  <2>1. CASE p \in DOMAIN stagedOriginals
    BY <2>1, <1>1, <1>5
  <2>2. CASE p \in P \ DOMAIN stagedOriginals
    BY <2>2, <1>1, <1>4
  <2> QED BY <2>1, <2>2, <1>1
<1> QED BY <1>6 DEF OriginalsOK

(* The next write: everything that was typed still is.                     *)
LEMMA Aged ==
  ASSUME ShadowTypes, NEW d, d = clock + 1
  PROVE  /\ d \in Nat /\ FilesOK(scan, d) /\ RecordsOK(records, d)
         /\ OriginalsOK(pendingOriginals, d) /\ OriginalsOK(stagedOriginals, d)
         /\ RestoreOK(restore, d)
<1>1. clock \in Nat /\ d \in Nat /\ clock <= d
  BY DEF ShadowTypes
<1> QED BY <1>1, Older DEF ShadowTypes

LEMMA WrittenFacts ==
  ASSUME ShadowTypes, NEW who, NEW p \in Paths, NEW content, Write(who, p, content)
  PROVE  /\ clock' = clock + 1 /\ FilesOK(file', clock')
         /\ content \in {clock + 1, Absent}
         /\ file'[p].sha = content /\ file'[p].at = clock + 1
         /\ \A q \in Paths \ {p} : file'[q] = file[q]
<1>1. /\ clock \in Nat /\ FilesOK(file, clock) /\ clock' = clock + 1
      /\ content \in {clock + 1, Absent} /\ content \in 0..(clock + 1)
      /\ file' = [file EXCEPT ![p] = [sha |-> content, at |-> clock + 1]]
  BY DEF Write, ShadowTypes, Absent
<1>2. file'[p] = [sha |-> content, at |-> clock + 1] /\ \A q \in Paths \ {p} : file'[q] = file[q]
  BY <1>1 DEF FilesOK
<1>3. file' \in [Paths -> Contents]
  BY <1>1 DEF FilesOK, Contents
<1>4. \A q \in Paths : file'[q].sha <= clock + 1 /\ file'[q].at <= clock + 1
  BY <1>1, <1>2 DEF FilesOK, Contents
<1> QED BY <1>1, <1>2, <1>3, <1>4 DEF FilesOK

(* A user's write marks the records.                                       *)
Mark(recs, p) == [i \in DOMAIN recs |-> [recs[i] EXCEPT !.user = @ \cup {p}]]
Marked(new, recs, p) ==
  /\ Len(new) = Len(recs) /\ DOMAIN new = DOMAIN recs
  /\ \A i \in DOMAIN recs : /\ new[i].agent = recs[i].agent /\ new[i].snap = recs[i].snap
                            /\ new[i].stale = recs[i].stale
                            /\ new[i].user = recs[i].user \cup {p}

LEMMA RecordsMarked ==
  ASSUME NEW c \in Nat, NEW recs, RecordsOK(recs, c), NEW p,
         NEW new, new = Mark(recs, p)
  PROVE  RecordsOK(new, c) /\ Marked(new, recs, p)
<1>0. new = [i \in DOMAIN recs |-> [recs[i] EXCEPT !.user = @ \cup {p}]]
  BY DEF Mark
<1>1. IsSeq(recs) /\ Len(recs) \in Nat /\ DOMAIN recs = 1..Len(recs)
      /\ \A i \in DOMAIN recs : RecordOK(recs[i], c)
  BY SeqFacts DEF RecordsOK
<1>2. DOMAIN new = 1..Len(recs) /\ new = [i \in 1..Len(recs) |-> new[i]]
  BY <1>0, <1>1
<1>3. IsSeq(new) /\ Len(new) = Len(recs)
  BY <1>1, <1>2, FunctionIsSeq
<1>4. ASSUME NEW i \in DOMAIN recs
      PROVE  /\ RecordOK(new[i], c)
             /\ new[i].agent = recs[i].agent /\ new[i].snap = recs[i].snap
             /\ new[i].stale = recs[i].stale /\ new[i].user = recs[i].user \cup {p}
  <2> DEFINE r == recs[i]
             n == new[i]
  <2>1. RecordOK(r, c) /\ n = [r EXCEPT !.user = @ \cup {p}]
    BY <1>0, <1>1
  <2>2. r = [agent |-> r.agent, snap |-> r.snap, user |-> r.user, stale |-> r.stale]
    BY <2>1 DEF RecordOK
  <2> HIDE DEF r, n
  <2>3. n = [agent |-> r.agent, snap |-> r.snap, user |-> r.user \cup {p}, stale |-> r.stale]
    BY <2>1, <2>2
  <2>4. /\ n.agent = r.agent /\ n.snap = r.snap /\ n.stale = r.stale
        /\ n.user = r.user \cup {p}
    BY <2>3
  <2>5. RecordOK(n, c)
    BY <2>1, <2>3, <2>4 DEF RecordOK
  <2> QED BY <2>4, <2>5 DEF r, n
<1> QED BY <1>1, <1>2, <1>3, <1>4 DEF RecordsOK, Marked

LEMMA WritesTyped ==
  ASSUME ShadowTypes
  PROVE  /\ \A p \in Paths : UserWrite(p) => ShadowTypes'
         /\ \A p \in Paths : TaskWrite(p) => ShadowTypes'
         /\ \A p \in Paths, c \in {clock + 1, Absent} : AgentWrite(p, c) => ShadowTypes'
<1>0. author \in [Paths -> {"user", "agent", "under"}]
  BY DEF ShadowTypes
<1>1. ASSUME NEW p \in Paths, UserWrite(p) PROVE ShadowTypes'
  <2>1. Write("user", p, clock + 1) /\ UNCHANGED <<scan, pendingOriginals, stagedOriginals, batch, restore>>
        /\ records' = [i \in DOMAIN records |-> [records[i] EXCEPT !.user = @ \cup {p}]]
    BY <1>1 DEF UserWrite
  <2>2. clock' = clock + 1 /\ FilesOK(file', clock')
    BY <2>1, WrittenFacts
  <2>3. /\ clock' \in Nat /\ FilesOK(scan', clock') /\ RecordsOK(records, clock')
        /\ OriginalsOK(pendingOriginals', clock') /\ OriginalsOK(stagedOriginals', clock')
        /\ RestoreOK(restore', clock')
    BY <2>1, <2>2, Aged
  <2>4. RecordsOK(records', clock')
    <3>1. records' = Mark(records, p) /\ clock' \in Nat
      BY <2>1, <2>3 DEF Mark
    <3> QED BY <3>1, <2>3, RecordsMarked
  <2>5. author' \in [Paths -> {"user", "agent", "under"}]
    BY <1>0, <1>1 DEF UserWrite
  <2>6. BatchOK(batch')
    BY <2>1 DEF ShadowTypes
  <2> QED BY <2>2, <2>3, <2>4, <2>5, <2>6 DEF ShadowTypes
<1>2. ASSUME NEW p \in Paths, NEW c, Write("agent", p, c), UNCHANGED <<kept, batch, restore>>,
             author' = [author EXCEPT ![p] = "agent"]
      PROVE  ShadowTypes'
  <2>1. UNCHANGED <<scan, pendingOriginals, stagedOriginals, batch, restore, records>>
    BY <1>2 DEF kept
  <2>2. clock' = clock + 1 /\ FilesOK(file', clock')
    BY <1>2, WrittenFacts
  <2>3. /\ clock' \in Nat /\ FilesOK(scan', clock') /\ RecordsOK(records', clock')
        /\ OriginalsOK(pendingOriginals', clock') /\ OriginalsOK(stagedOriginals', clock')
        /\ RestoreOK(restore', clock')
    BY <2>1, <2>2, Aged
  <2>5. author' \in [Paths -> {"user", "agent", "under"}]
    BY <1>0, <1>2
  <2>6. BatchOK(batch')
    BY <2>1 DEF ShadowTypes
  <2> QED BY <2>2, <2>3, <2>5, <2>6 DEF ShadowTypes
<1>3. ASSUME NEW p \in Paths, TaskWrite(p) PROVE ShadowTypes'
  BY <1>2, <1>3 DEF TaskWrite
<1>4. ASSUME NEW p \in Paths, NEW c \in {clock + 1, Absent}, AgentWrite(p, c) PROVE ShadowTypes'
  BY <1>2, <1>4 DEF AgentWrite
<1> QED BY <1>1, <1>3, <1>4

(* Steps that write no file and leave the records, the scan and the        *)
(* originals alone.                                                        *)
LEMMA ControlTyped ==
  ASSUME ShadowTypes, UNCHANGED <<file, clock, author, scan, records>>,
         OriginalsOK(pendingOriginals', clock), OriginalsOK(stagedOriginals', clock),
         RestoreOK(restore', clock), BatchOK(batch')
  PROVE  ShadowTypes'
BY DEF ShadowTypes

LEMMA BatchStepsTyped ==
  ASSUME ShadowTypes
  PROVE  /\ \A kind \in {"exact", "opaque", "isolated"} : PlanBatch(kind) => ShadowTypes'
         /\ BatchDeclare \/ BatchSave \/ BatchCheckpoint \/ BatchEnds \/ Cancel => ShadowTypes'
         /\ StartTask \/ TaskEnds \/ MergeSave \/ MergeEnds => ShadowTypes'
<1>0. /\ BatchOK(batch) /\ RestoreOK(restore, clock) /\ BatchOK(NoBatch)
      /\ OriginalsOK(pendingOriginals, clock) /\ OriginalsOK(stagedOriginals, clock)
  BY DEF ShadowTypes, BatchOK, NoBatch
<1>1. ASSUME NEW kind \in {"exact", "opaque", "isolated"}, PlanBatch(kind) PROVE ShadowTypes'
  <2>1. BatchOK(batch')
    BY <1>1 DEF PlanBatch, BatchOK
  <2> QED BY <1>0, <1>1, <2>1, ControlTyped DEF PlanBatch, kept
<1>2. CASE BatchDeclare
  <2>1. BatchOK(batch')
    BY <1>0, <1>2 DEF BatchDeclare, BatchOK
  <2> QED BY <1>0, <1>2, <2>1, ControlTyped DEF BatchDeclare, DeclareWrites
<1>3. CASE BatchSave
  <2>1. BatchOK(batch')
    BY <1>0, <1>3 DEF BatchSave, BatchOK
  <2>2. Declared \in SUBSET Paths
    BY DEF Paths
  <2>3. OriginalsOK(stagedOriginals', clock)
    <3>1. stagedOriginals' = Originals(Declared) \/ stagedOriginals' = stagedOriginals
      BY <1>3 DEF BatchSave, SaveOriginals
    <3>2. CASE stagedOriginals' = Originals(Declared)
      BY <2>2, <3>2, OriginalsTyped
    <3> QED BY <1>0, <3>1, <3>2
  <2> QED BY <1>0, <1>3, <2>1, <2>3, ControlTyped DEF BatchSave
<1>4. CASE BatchCheckpoint
  <2>1. BatchOK(batch')
    BY <1>0, <1>4 DEF BatchCheckpoint, BatchOK
  <2>2. Checkpoint(PatternsOf(batch.kind)) /\ UNCHANGED <<file, clock, author, restore>>
    BY <1>4 DEF BatchCheckpoint
  <2>3. /\ RecordsOK(records', clock) /\ FilesOK(scan', clock)
        /\ OriginalsOK(pendingOriginals', clock) /\ OriginalsOK(stagedOriginals', clock)
    BY <2>2, CheckpointFacts
  <2> QED BY <1>0, <2>1, <2>2, <2>3 DEF ShadowTypes
<1>5. CASE BatchEnds
  <2>1. BatchOK(batch')
    BY <1>0, <1>5 DEF BatchEnds, BatchOK
  <2> QED BY <1>0, <1>5, <2>1, ControlTyped DEF BatchEnds, kept
<1>6. CASE Cancel
  BY <1>0, <1>6, ControlTyped DEF Cancel, kept
<1>7. CASE StartTask \/ TaskEnds
  BY <1>0, <1>7, ControlTyped DEF StartTask, TaskEnds, kept
<1>8. CASE MergeSave
  <2>1. BatchOK(batch')
    BY <1>0, <1>8 DEF MergeSave, BatchOK
  <2>2. Staged \in SUBSET Paths
    BY DEF Paths
  <2>3. OriginalsOK(stagedOriginals', clock)
    BY <1>8, <2>2, OriginalsTyped DEF MergeSave
  <2> QED BY <1>0, <1>8, <2>1, <2>3, ControlTyped DEF MergeSave
<1>9. CASE MergeEnds
  BY <1>0, <1>9, ControlTyped DEF MergeEnds, kept
<1> QED BY <1>1, <1>2, <1>3, <1>4, <1>5, <1>6, <1>7, <1>8, <1>9

(* A step that rewrites files and leaves the records alone.                *)
LEMMA RewriteTyped ==
  ASSUME ShadowTypes, clock' = clock + 1, UNCHANGED kept,
         file' \in [Paths -> Contents],
         \A q \in Paths : file'[q] = file[q]
                          \/ (file'[q].sha \in 0..(clock + 1) /\ file'[q].at = clock + 1),
         author' \in [Paths -> {"user", "agent", "under"}],
         RestoreOK(restore', clock + 1), BatchOK(batch')
  PROVE  ShadowTypes'
<1>1. UNCHANGED <<scan, pendingOriginals, stagedOriginals, records>>
  BY DEF kept
<1>2. clock \in Nat /\ FilesOK(file, clock)
  BY DEF ShadowTypes
<1>3. /\ clock' \in Nat /\ FilesOK(scan', clock') /\ RecordsOK(records', clock')
      /\ OriginalsOK(pendingOriginals', clock') /\ OriginalsOK(stagedOriginals', clock')
      /\ RestoreOK(restore', clock')
  BY <1>1, Aged
<1>4. ASSUME NEW q \in Paths PROVE file'[q].sha <= clock' /\ file'[q].at <= clock'
  <2>1. CASE file'[q] = file[q]
    BY <1>2, <2>1 DEF FilesOK, Contents
  <2>2. CASE file'[q].sha \in 0..(clock + 1) /\ file'[q].at = clock + 1
    BY <1>2, <2>2
  <2> QED BY <2>1, <2>2
<1>5. FilesOK(file', clock')
  BY <1>4 DEF FilesOK
<1> QED BY <1>3, <1>5 DEF ShadowTypes

LEMMA RewritesTyped ==
  ASSUME ShadowTypes
  PROVE  /\ MergeApply => ShadowTypes'
         /\ Recover => ShadowTypes'
         /\ \A p \in Paths : RestoreWrite(p) => ShadowTypes'
<1>0. /\ clock \in Nat /\ FilesOK(file, clock) /\ RestoreOK(restore, clock) /\ BatchOK(batch)
      /\ author \in [Paths -> {"user", "agent", "under"}]
      /\ RestoreOK(restore, clock + 1)
      /\ OriginalsOK(pendingOriginals, clock) /\ OriginalsOK(stagedOriginals, clock)
  BY Aged DEF ShadowTypes
<1>1. CASE MergeApply
  <2>1. \A q \in Paths : IF q \in Staged THEN file'[q] = [sha |-> clock + 1, at |-> clock + 1]
                                        ELSE file'[q] = file[q]
    BY <1>1 DEF MergeApply
  <2>2. file' \in [Paths -> Contents]
    BY <1>0, <1>1 DEF MergeApply, FilesOK, Contents
  <2>3. \A q \in Paths : file'[q] = file[q]
                         \/ (file'[q].sha \in 0..(clock + 1) /\ file'[q].at = clock + 1)
    BY <1>0, <2>1
  <2>4. author' \in [Paths -> {"user", "agent", "under"}]
    BY <1>0, <1>1 DEF MergeApply
  <2>5. BatchOK(batch')
    BY <1>0, <1>1 DEF MergeApply, BatchOK
  <2>6. clock' = clock + 1 /\ UNCHANGED <<kept, restore>>
    BY <1>1 DEF MergeApply
  <2> QED BY <1>0, <2>2, <2>3, <2>4, <2>5, <2>6, RewriteTyped
<1>2. CASE Recover
  <2> DEFINE K == Declared \cap (DOMAIN stagedOriginals \cup DOMAIN pendingOriginals)
  <2>1. /\ file' = [p \in Paths |-> IF p \in K THEN [sha |-> Original(p), at |-> clock + 1]
                                             ELSE file[p]]
        /\ author' = [p \in Paths |-> IF p \in K THEN "agent" ELSE author[p]]
        /\ clock' = clock + 1 /\ UNCHANGED <<kept, restore>>
    BY <1>2 DEF Recover
  <2>2. \A p \in K : Original(p) \in 0..clock
    BY <1>0 DEF Original, OriginalsOK
  <2> HIDE DEF K
  <2>3. \A q \in Paths : IF q \in K THEN file'[q] = [sha |-> Original(q), at |-> clock + 1]
                                   ELSE file'[q] = file[q]
    BY <2>1
  <2>4. \A q \in Paths : file[q] \in Contents
    BY <1>0 DEF FilesOK
  <2>5. \A q \in Paths : file'[q] \in Contents
    <3> TAKE q \in Paths
    <3>1. CASE q \in K
      <4>1. Original(q) \in Nat /\ clock + 1 \in Nat
        BY <1>0, <2>2, <3>1
      <4>2. [sha |-> Original(q), at |-> clock + 1] \in Contents
        BY <4>1 DEF Contents
      <4> QED BY <2>3, <3>1, <4>2
    <3> QED BY <2>3, <2>4, <3>1
  <2>6. file' \in [Paths -> Contents]
    BY <2>1, <2>5
  <2>7. \A q \in Paths : file'[q] = file[q]
                         \/ (file'[q].sha \in 0..(clock + 1) /\ file'[q].at = clock + 1)
    <3> TAKE q \in Paths
    <3>1. CASE q \in K
      <4>a. file'[q] = [sha |-> Original(q), at |-> clock + 1]
        BY <2>3, <3>1
      <4>1. file'[q].sha = Original(q) /\ file'[q].at = clock + 1
        BY <4>a
      <4> QED BY <1>0, <2>2, <3>1, <4>1
    <3> QED BY <2>3, <3>1
  <2>8. author' \in [Paths -> {"user", "agent", "under"}]
    BY <1>0, <2>1
  <2>9. BatchOK(batch')
    BY <1>0, <1>2 DEF Recover, BatchOK
  <2> QED BY <1>0, <2>1, <2>6, <2>7, <2>8, <2>9, RewriteTyped
<1>3. ASSUME NEW p \in Paths, RestoreWrite(p) PROVE ShadowTypes'
  <2> DEFINE e == restore.todo[p]
             r == restore
             n == restore'
  <2>1. /\ p \in DOMAIN r.todo /\ clock' = clock + 1 /\ UNCHANGED <<kept, batch>>
        /\ file' = [file EXCEPT ![p] = [sha |-> e.after, at |-> clock + 1]]
        /\ n = [r EXCEPT !.todo = Without(@, p), !.undo = With(@, p, e)]
        /\ author' = [author EXCEPT ![p] = "agent"]
        /\ r.phase = "writing"
    BY <1>3 DEF RestoreWrite
  <2>2. RestoreOK(r, clock + 1) /\ e.before \in 0..(clock + 1) /\ e.after \in 0..(clock + 1)
    BY <1>0, <2>1 DEF RestoreOK, AgentOK
  <2>3. r = [phase |-> r.phase, to |-> r.to, todo |-> r.todo, undo |-> r.undo, conflicts |-> r.conflicts]
    BY <2>2 DEF RestoreOK
  <2> HIDE DEF e, r, n
  <2>4. n = [phase |-> r.phase, to |-> r.to, todo |-> Without(r.todo, p),
             undo |-> With(r.undo, p, e), conflicts |-> r.conflicts]
    BY <2>1, <2>3
  <2>5. n.todo = Without(r.todo, p) /\ n.undo = With(r.undo, p, e) /\ n.phase = "writing"
        /\ n.to = r.to /\ n.conflicts = r.conflicts
    BY <2>1, <2>4
  <2>6. AgentOK(n.todo, clock + 1)
    <3>1. \A q \in DOMAIN n.todo : q \in DOMAIN r.todo /\ n.todo[q] = r.todo[q]
      BY <2>5 DEF Without
    <3> QED BY <2>2, <3>1 DEF AgentOK, RestoreOK
  <2>7. AgentOK(n.undo, clock + 1)
    <3>1. \A q \in DOMAIN n.undo : (q = p /\ n.undo[q] = e)
                                   \/ (q \in DOMAIN r.undo /\ n.undo[q] = r.undo[q])
      BY <2>5 DEF With
    <3>2. AgentOK(r.undo, clock + 1)
      BY <2>2 DEF RestoreOK
    <3>3. \A q \in DOMAIN n.undo : q \in Paths /\ n.undo[q].before \in 0..(clock + 1)
                                  /\ n.undo[q].after \in 0..(clock + 1)
      <4> TAKE q \in DOMAIN n.undo
      <4>1. CASE q = p /\ n.undo[q] = e
        BY <2>2, <4>1
      <4>2. CASE q \in DOMAIN r.undo /\ n.undo[q] = r.undo[q]
        BY <3>2, <4>2 DEF AgentOK
      <4> QED BY <3>1, <4>1, <4>2
    <3> QED BY <3>3 DEF AgentOK
  <2>8. n = [phase |-> n.phase, to |-> n.to, todo |-> n.todo, undo |-> n.undo,
             conflicts |-> n.conflicts]
    BY <2>1, <2>4, <2>5
  <2>9. RestoreOK(n, clock + 1)
    BY <2>2, <2>5, <2>6, <2>7, <2>8 DEF RestoreOK
  <2>10. file' \in [Paths -> Contents]
    BY <1>0, <2>1, <2>2 DEF FilesOK, Contents
  <2>11. \A q \in Paths : file'[q] = file[q]
                         \/ (file'[q].sha \in 0..(clock + 1) /\ file'[q].at = clock + 1)
    BY <1>0, <2>1, <2>2 DEF FilesOK
  <2>12. author' \in [Paths -> {"user", "agent", "under"}]
    BY <1>0, <2>1
  <2> QED BY <1>0, <2>1, <2>9, <2>10, <2>11, <2>12, RewriteTyped DEF n
<1> QED BY <1>1, <1>2, <1>3

(* What a step of a rewind makes of its record.                            *)
LEMMA RestoreStarts ==
  ASSUME NEW phase, NEW to, NEW todo, NEW undo, NEW conflicts, NEW k, NEW r, NEW n,
         r = [phase |-> phase, to |-> to, todo |-> todo, undo |-> undo, conflicts |-> conflicts],
         n = [r EXCEPT !.phase = "stopping", !.to = k]
  PROVE  n = [phase |-> "stopping", to |-> k, todo |-> todo, undo |-> undo, conflicts |-> conflicts]
OBVIOUS

PlannedFor(r, t, c) == [r EXCEPT !.phase = "writing", !.todo = t, !.conflicts = c]
LEMMA RestorePlans ==
  ASSUME NEW phase, NEW to, NEW todo, NEW undo, NEW conflicts, NEW t, NEW c, NEW r, NEW n,
         r = [phase |-> phase, to |-> to, todo |-> todo, undo |-> undo, conflicts |-> conflicts],
         n = PlannedFor(r, t, c)
  PROVE  n = [phase |-> "writing", to |-> to, todo |-> t, undo |-> undo, conflicts |-> c]
BY DEF PlannedFor

LEMMA RestoreWaits ==
  ASSUME NEW c \in Nat, NEW k \in Nat
  PROVE  RestoreOK(Waiting(k), c) /\ RestoreOK(NoRestore, c)
<1>1. AgentOK(<<>>, c)
  BY EmptyIsSeq DEF AgentOK
<1>2. Waiting(k) = [phase |-> "stopping", to |-> k, todo |-> <<>>, undo |-> <<>>, conflicts |-> {}]
  <2> DEFINE r == NoRestore
  <2>1. r = [phase |-> "none", to |-> 0, todo |-> <<>>, undo |-> <<>>, conflicts |-> {}]
        /\ Waiting(k) = [r EXCEPT !.phase = "stopping", !.to = k]
    BY DEF Waiting, NoRestore
  <2> HIDE DEF r
  <2> QED BY <2>1, RestoreStarts
<1>3. RestoreOK(Waiting(k), c)
  BY <1>1, <1>2 DEF RestoreOK
<1>4. RestoreOK(NoRestore, c)
  BY <1>1 DEF RestoreOK, NoRestore
<1> QED BY <1>3, <1>4

LEMMA CaptureFacts ==
  ASSUME ShadowTypes, RestoreCapture
  PROVE  /\ Checkpoint({}) /\ UNCHANGED <<file, clock, author, batch, safe, task, crashes, branch>>
         /\ restore.phase = "stopping" /\ restore'.phase = "writing" /\ restore'.to = restore.to
         /\ restore'.undo = <<>>
         /\ restore' = [phase |-> restore'.phase, to |-> restore'.to, todo |-> restore'.todo,
                        undo |-> restore'.undo, conflicts |-> restore'.conflicts]
         /\ \E P : /\ P = PlanOf(records', restore.to)
                   /\ \A p : p \in DOMAIN restore'.todo <=>
                        /\ p \in DOMAIN P
                        /\ scan'[p].sha # P[p].target /\ scan'[p].sha = P[p].left
                   /\ \A p \in DOMAIN restore'.todo : /\ restore'.todo[p].before = scan'[p].sha
                                                      /\ restore'.todo[p].after = P[p].target
                   /\ \A p : p \in restore'.conflicts <=>
                        p \in DOMAIN P /\ scan'[p].sha \notin {P[p].target, P[p].left}
<1> DEFINE P == PlanOf(records', restore.to)
           mine == {p \in DOMAIN P : scan'[p].sha # P[p].target /\ scan'[p].sha = P[p].left}
           odd == {p \in DOMAIN P : scan'[p].sha \notin {P[p].target, P[p].left}}
           todo == [p \in mine |-> [before |-> scan'[p].sha, after |-> P[p].target]]
           r == restore
           n == restore'
<1>1. n = PlannedFor(r, todo, odd) /\ r.phase = "stopping"
  BY DEF RestoreCapture, PlannedFor
<1>2. Checkpoint({}) /\ UNCHANGED <<file, clock, author, batch, safe, task, crashes, branch>>
  BY DEF RestoreCapture
<1>3. r = Waiting(r.to)
  BY <1>1 DEF ShadowTypes, RestoreOK
<1>4. r = [phase |-> "stopping", to |-> r.to, todo |-> <<>>, undo |-> <<>>, conflicts |-> {}]
  BY <1>3 DEF Waiting, NoRestore
<1> HIDE DEF r, n, todo, odd, P
<1>5. n = [phase |-> "writing", to |-> r.to, todo |-> todo, undo |-> <<>>, conflicts |-> odd]
  BY <1>1, <1>4, RestorePlans
<1>6. /\ n.phase = "writing" /\ n.to = r.to /\ n.todo = todo /\ n.undo = <<>> /\ n.conflicts = odd
      /\ n = [phase |-> n.phase, to |-> n.to, todo |-> n.todo, undo |-> n.undo,
              conflicts |-> n.conflicts]
  BY <1>5
<1>7. \A p : p \in odd <=> p \in DOMAIN P /\ scan'[p].sha \notin {P[p].target, P[p].left}
  BY DEF odd
<1>8. \A p : p \in DOMAIN todo <=> p \in DOMAIN P /\ scan'[p].sha # P[p].target
                                   /\ scan'[p].sha = P[p].left
  BY DEF todo
<1>9. \A p \in DOMAIN todo : todo[p].before = scan'[p].sha /\ todo[p].after = P[p].target
  BY DEF todo
<1>10. P = PlanOf(records', restore.to)
  BY DEF P
<1> HIDE DEF mine
<1>11. /\ \A p : p \in DOMAIN n.todo <=> p \in DOMAIN P /\ scan'[p].sha # P[p].target
                                   /\ scan'[p].sha = P[p].left
       /\ \A p \in DOMAIN n.todo : n.todo[p].before = scan'[p].sha /\ n.todo[p].after = P[p].target
       /\ \A p : p \in n.conflicts <=> p \in DOMAIN P /\ scan'[p].sha \notin {P[p].target, P[p].left}
  BY <1>6, <1>7, <1>8, <1>9
<1>12. r = restore /\ n = restore'
  BY DEF r, n
<1> QED BY <1>1, <1>2, <1>6, <1>10, <1>11, <1>12

(* A path of the plan: its first and its last change are in the records.   *)
LEMMA PlanTyped ==
  ASSUME NEW recs, NEW c \in Nat, RecordsOK(recs, c), NEW k \in Nat, NEW P, P = PlanOf(recs, k),
         NEW p \in DOMAIN P
  PROVE  p \in Paths /\ P[p].target \in 0..c /\ P[p].left \in 0..c
<1>1. IsSeq(recs) /\ \A i \in DOMAIN recs : AgentOK(recs[i].agent, c)
  BY DEF RecordsOK, RecordOK
<1>2. PICK i, j \in Nat : /\ First(Touching(recs, k, p), i) /\ Final(Touching(recs, k, p), j)
                          /\ P[p].target = recs[i].agent[p].before
                          /\ P[p].left = recs[j].agent[p].after
  BY <1>1, PlanFacts
<1>3. i \in DOMAIN recs /\ p \in DOMAIN recs[i].agent /\ j \in DOMAIN recs /\ p \in DOMAIN recs[j].agent
  BY <1>2 DEF First, Final, Touching
<1> QED BY <1>1, <1>2, <1>3 DEF AgentOK

LEMMA CaptureTyped == ShadowTypes /\ RestoreCapture => ShadowTypes'
<1> SUFFICES ASSUME ShadowTypes, RestoreCapture PROVE ShadowTypes'
  OBVIOUS
<1>1. Checkpoint({}) /\ UNCHANGED <<file, clock, author, batch>> /\ restore'.phase = "writing"
      /\ restore'.to = restore.to /\ restore'.undo = <<>>
      /\ restore' = [phase |-> restore'.phase, to |-> restore'.to, todo |-> restore'.todo,
                     undo |-> restore'.undo, conflicts |-> restore'.conflicts]
  BY CaptureFacts
<1>2. PICK P : /\ P = PlanOf(records', restore.to)
               /\ \A p : p \in DOMAIN restore'.todo <=>
                    /\ p \in DOMAIN P
                    /\ scan'[p].sha # P[p].target /\ scan'[p].sha = P[p].left
               /\ \A p \in DOMAIN restore'.todo : /\ restore'.todo[p].before = scan'[p].sha
                                                  /\ restore'.todo[p].after = P[p].target
  BY CaptureFacts
<1>3. /\ RecordsOK(records', clock) /\ FilesOK(scan', clock)
      /\ OriginalsOK(pendingOriginals', clock) /\ OriginalsOK(stagedOriginals', clock)
  BY <1>1, CheckpointFacts
<1>4. clock \in Nat /\ restore.to \in Nat
  BY DEF ShadowTypes, RestoreOK
<1>5. AgentOK(restore'.todo, clock)
  <2>1. ASSUME NEW p \in DOMAIN restore'.todo
        PROVE  p \in Paths /\ restore'.todo[p].before \in 0..clock /\ restore'.todo[p].after \in 0..clock
    <3>1. p \in DOMAIN P
      BY <1>2, <2>1
    <3>2. p \in Paths /\ P[p].target \in 0..clock
      BY <1>2, <1>3, <1>4, <3>1, PlanTyped
    <3>3. scan'[p].sha \in 0..clock
      BY <1>3, <1>4, <3>2 DEF FilesOK, Contents
    <3> QED BY <1>2, <2>1, <3>2, <3>3
  <2> QED BY <2>1 DEF AgentOK
<1>6. AgentOK(<<>>, clock)
  BY EmptyIsSeq DEF AgentOK
<1>7. RestoreOK(restore', clock)
  BY <1>1, <1>4, <1>5, <1>6 DEF RestoreOK
<1> QED BY <1>1, <1>3, <1>7 DEF ShadowTypes

(* The scan as the end of a restore leaves it.                             *)
Rescan(sc, f, u) == [p \in Paths |-> IF p \in DOMAIN u THEN [sha |-> u[p].after, at |-> f[p].at] ELSE sc[p]]
LEMMA RescanFacts ==
  ASSUME NEW c \in Nat, NEW sc, FilesOK(sc, c), NEW f, FilesOK(f, c), NEW u, AgentOK(u, c),
         NEW new, new = Rescan(sc, f, u)
  PROVE  /\ FilesOK(new, c)
         /\ \A p \in Paths : IF p \in DOMAIN u THEN new[p].sha = u[p].after /\ new[p].at = f[p].at
                                               ELSE new[p] = sc[p]
<1>1. /\ \A p \in Paths : IF p \in DOMAIN u THEN new[p] = [sha |-> u[p].after, at |-> f[p].at]
                                           ELSE new[p] = sc[p]
      /\ new = [p \in Paths |-> new[p]]
  BY DEF Rescan
<1>2. /\ \A p \in Paths : /\ sc[p] \in Contents /\ sc[p].sha <= c /\ sc[p].at <= c
                          /\ f[p] \in Contents /\ f[p].at <= c /\ f[p].at \in Nat
      /\ \A p \in DOMAIN u : u[p].after \in 0..c
  BY DEF FilesOK, Contents, AgentOK
<1>3. ASSUME NEW p \in Paths
      PROVE  /\ new[p] \in Contents /\ new[p].sha <= c /\ new[p].at <= c
             /\ p \in DOMAIN u => new[p].sha = u[p].after /\ new[p].at = f[p].at
             /\ p \notin DOMAIN u => new[p] = sc[p]
  <2>1. CASE p \in DOMAIN u
    <3>1. new[p] = [sha |-> u[p].after, at |-> f[p].at]
      BY <1>1, <2>1
    <3>2. new[p].sha = u[p].after /\ new[p].at = f[p].at
      BY <3>1
    <3>3. u[p].after \in 0..c /\ f[p].at \in Nat /\ f[p].at <= c
      BY <1>2, <2>1
    <3>4. new[p] \in Contents
      BY <3>1, <3>3 DEF Contents
    <3> QED BY <2>1, <3>2, <3>3, <3>4
  <2>2. CASE p \notin DOMAIN u
    <3>1. new[p] = sc[p]
      BY <1>1, <2>2
    <3> QED BY <1>2, <2>2, <3>1
  <2> QED BY <2>1, <2>2
<1>4. new \in [Paths -> Contents]
  BY <1>1, <1>3
<1>5. FilesOK(new, c)
  BY <1>3, <1>4 DEF FilesOK
<1> QED BY <1>3, <1>5

LEMMA FinishFacts ==
  ASSUME ShadowTypes, RestoreFinish
  PROVE  /\ restore.phase = "writing" /\ restore.todo = <<>>
         /\ restore' = [restore EXCEPT !.phase = "report"]
         /\ restore'.phase = "report" /\ restore'.to = restore.to /\ restore'.todo = <<>>
         /\ restore'.undo = restore.undo /\ restore'.conflicts = restore.conflicts
         /\ UNCHANGED <<file, clock, written, scannedOnce, pendingPatterns, pendingOriginals,
                   stagedPatterns, stagedOriginals, batch, safe, task, crashes, branch, author>>
         /\ scan' = Rescan(scan, file, restore.undo)
         /\ RestoreOK(restore', clock) /\ RecordsOK(records', clock) /\ FilesOK(scan', clock)
         /\ restore.undo = <<>> => records' = records
         /\ restore.undo # <<>> => records' = Append(records, NewRecord(restore.undo))
<1>1. /\ restore.phase = "writing" /\ restore.todo = <<>>
      /\ restore' = [restore EXCEPT !.phase = "report"]
      /\ UNCHANGED <<file, clock, written, scannedOnce, pendingPatterns, pendingOriginals,
                   stagedPatterns, stagedOriginals, batch, safe, task, crashes, branch, author>>
      /\ scan' = Rescan(scan, file, restore.undo)
      /\ restore.undo = <<>> => records' = records
      /\ restore.undo # <<>> => records' = Append(records, NewRecord(restore.undo))
  BY DEF RestoreFinish, Rescan
<1>2. /\ RestoreOK(restore, clock) /\ RecordsOK(records, clock) /\ clock \in Nat
      /\ FilesOK(scan, clock) /\ FilesOK(file, clock) /\ AgentOK(restore.undo, clock)
  BY DEF ShadowTypes, RestoreOK
<1>3. FilesOK(scan', clock)
  BY <1>1, <1>2, RescanFacts
<1>4. RecordsOK(records', clock)
  BY <1>1, <1>2, RecordAdded
<1>5. restore = [phase |-> restore.phase, to |-> restore.to, todo |-> restore.todo,
                 undo |-> restore.undo, conflicts |-> restore.conflicts]
  BY <1>2 DEF RestoreOK
<1>6. restore' = [phase |-> "report", to |-> restore.to, todo |-> restore.todo,
                  undo |-> restore.undo, conflicts |-> restore.conflicts]
  BY <1>1, <1>5
<1>7. /\ restore'.phase = "report" /\ restore'.to = restore.to /\ restore'.todo = <<>>
      /\ restore'.undo = restore.undo /\ restore'.conflicts = restore.conflicts
  BY <1>1, <1>6
<1>8. restore' = [phase |-> restore'.phase, to |-> restore'.to, todo |-> restore'.todo,
                 undo |-> restore'.undo, conflicts |-> restore'.conflicts]
  BY <1>6
<1>9. RestoreOK(restore', clock)
  BY <1>1, <1>2, <1>7, <1>8 DEF RestoreOK
<1> QED BY <1>1, <1>3, <1>4, <1>7, <1>9

LEMMA CrashBatch ==
  ASSUME NEW b, BatchOK(b), NEW a, a = AfterCrash(b)
  PROVE  /\ BatchOK(a) /\ a.phase \notin {"saving", "closing", "running", "applying", "applied"}
         /\ a.phase # "none" => b.phase # "none"
         /\ a.phase = "recovering" => b.phase = "recovering" \/ (b.phase = "running" /\ b.kind = "exact")
         /\ a.kind = "isolated" => a.phase \notin {"running", "merging", "applying", "applied"}
<1>0. b = [phase |-> b.phase, kind |-> b.kind]
  BY DEF BatchOK
<1>1. CASE b.phase \in {"saving", "closing"}
  <2>1. a = [b EXCEPT !.phase = "declaring"]
    BY <1>1 DEF AfterCrash
  <2>2. a = [phase |-> "declaring", kind |-> b.kind]
    BY <1>0, <2>1
  <2> QED BY <1>1, <2>2 DEF BatchOK
<1>2. CASE b.phase = "running" /\ b.kind = "exact"
  <2>1. a = [b EXCEPT !.phase = "recovering"]
    BY <1>2 DEF AfterCrash
  <2>2. a = [phase |-> "recovering", kind |-> b.kind]
    BY <1>0, <2>1
  <2> QED BY <1>2, <2>2 DEF BatchOK
<1>3. CASE b.phase = "running" /\ b.kind # "exact"
  <2>1. a = [phase |-> "none", kind |-> "exact"]
    BY <1>3 DEF AfterCrash, NoBatch
  <2> QED BY <1>3, <2>1 DEF BatchOK
<1>4. CASE b.phase \in {"merging", "applying", "applied"}
  <2>1. a = [phase |-> "merging", kind |-> "lost"]
    BY <1>4 DEF AfterCrash
  <2> QED BY <1>4, <2>1 DEF BatchOK
<1>5. CASE b.phase \notin {"saving", "closing", "running", "merging", "applying", "applied"}
  <2>1. a = b
    BY <1>5 DEF AfterCrash
  <2> QED BY <1>5, <2>1 DEF BatchOK
<1> QED BY <1>1, <1>2, <1>3, <1>4, <1>5

LEMMA CrashRestore ==
  ASSUME ShadowTypes, ShadowCrash
  PROVE  restore' = NoRestore \/ restore' = Waiting(restore.to)
BY DEF ShadowCrash, ShadowTypes, RestoreOK, Waiting

LEMMA RestTyped ==
  ASSUME ShadowTypes
  PROVE  /\ SafePoint \/ SafeDeclare \/ SafeCheckpoint => ShadowTypes'
         /\ RestoreFinish \/ RestoreReported => ShadowTypes'
         /\ ShadowCrash \/ Unheard => ShadowTypes'
         /\ \A k \in Nat : Rewind(k) => ShadowTypes'
<1>0. /\ BatchOK(batch) /\ RestoreOK(restore, clock) /\ BatchOK(NoBatch) /\ clock \in Nat
      /\ OriginalsOK(pendingOriginals, clock) /\ OriginalsOK(stagedOriginals, clock)
      /\ restore.to \in Nat
  BY DEF ShadowTypes, BatchOK, NoBatch, RestoreOK
<1>1. CASE SafePoint
  BY <1>0, <1>1, ControlTyped DEF SafePoint, kept
<1>2. CASE SafeDeclare
  BY <1>0, <1>2, ControlTyped DEF SafeDeclare, DeclareWrites
<1>3. CASE SafeCheckpoint
  <2>1. Checkpoint({}) /\ UNCHANGED <<file, clock, author, restore, batch>>
    BY <1>3 DEF SafeCheckpoint
  <2>2. /\ RecordsOK(records', clock) /\ FilesOK(scan', clock)
        /\ OriginalsOK(pendingOriginals', clock) /\ OriginalsOK(stagedOriginals', clock)
    BY <2>1, CheckpointFacts
  <2> QED BY <1>0, <2>1, <2>2 DEF ShadowTypes
<1>4. CASE RestoreFinish
  BY <1>0, <1>4, FinishFacts DEF ShadowTypes
<1>5. CASE RestoreReported
  <2>1. RestoreOK(restore', clock)
    BY <1>0, <1>5, RestoreWaits DEF RestoreReported
  <2> QED BY <1>0, <1>5, <2>1, ControlTyped DEF RestoreReported, kept
<1>6. CASE Unheard
  <2>1. PICK d : Checkpoint(d)
    BY <1>6 DEF Unheard
  <2>2. /\ RecordsOK(records', clock) /\ FilesOK(scan', clock)
        /\ OriginalsOK(pendingOriginals', clock) /\ OriginalsOK(stagedOriginals', clock)
    BY <2>1, CheckpointFacts
  <2>3. UNCHANGED <<file, clock, author, restore>> /\ (batch' \in {NoBatch, batch, AfterCrash(batch)})
    BY <1>6 DEF Unheard, Dies
  <2>4. BatchOK(batch')
    BY <1>0, <2>3, CrashBatch
  <2> QED BY <1>0, <2>2, <2>3, <2>4 DEF ShadowTypes
<1>7. CASE ShadowCrash
  <2>1. RestoreOK(restore', clock) /\ RestoreOK(restore', clock + 1)
    BY <1>0, <1>7, CrashRestore, RestoreWaits
  <2>2. batch' = AfterCrash(batch) /\ UNCHANGED kept
    BY <1>7 DEF ShadowCrash, Dies
  <2>3. BatchOK(batch')
    BY <1>0, <2>2, CrashBatch
  <2>4. CASE UNCHANGED <<file, clock, author>>
    BY <1>0, <2>1, <2>2, <2>3, <2>4, ControlTyped DEF kept
  <2>5. ASSUME NEW p \in DOMAIN restore.todo, clock' = clock + 1,
               file' = [file EXCEPT ![p] = [sha |-> clock + 1, at |-> clock + 1]],
               author' = [author EXCEPT ![p] = "agent"]
        PROVE  ShadowTypes'
    <3>1. p \in Paths /\ FilesOK(file, clock) /\ author \in [Paths -> {"user", "agent", "under"}]
      BY <1>0 DEF RestoreOK, AgentOK, ShadowTypes
    <3>2. file' \in [Paths -> Contents]
      BY <1>0, <2>5, <3>1 DEF FilesOK, Contents
    <3>3. \A q \in Paths : file'[q] = file[q]
                          \/ (file'[q].sha \in 0..(clock + 1) /\ file'[q].at = clock + 1)
      BY <1>0, <2>5, <3>1 DEF FilesOK
    <3>4. author' \in [Paths -> {"user", "agent", "under"}]
      BY <2>5, <3>1
    <3> QED BY <2>1, <2>2, <2>3, <2>5, <3>2, <3>3, <3>4, RewriteTyped
  <2> QED BY <1>7, <2>4, <2>5 DEF ShadowCrash
<1>8. ASSUME NEW k \in Nat, Rewind(k) PROVE ShadowTypes'
  <2>1. restore' = Waiting(k) /\ UNCHANGED <<file, clock, author, scan, records, batch,
            pendingOriginals, stagedOriginals>>
    BY <1>8 DEF Rewind, Waiting, kept
  <2>2. RestoreOK(restore', clock)
    BY <1>0, <2>1, RestoreWaits
  <2> QED BY <1>0, <2>1, <2>2, ControlTyped
<1> QED BY <1>1, <1>2, <1>3, <1>4, <1>5, <1>6, <1>7, <1>8

-----------------------------------------------------------------------------
(* The branch has numbers of records; a rewind goes to one of them.        *)
TypeInv == ShadowTypes /\ branch \subseteq Nat

LEMMA TypesKept == TypeInv /\ [ShadowNext]_shadowVars => TypeInv'
<1> SUFFICES ASSUME TypeInv, [ShadowNext]_shadowVars PROVE TypeInv'
  OBVIOUS
<1>1. ShadowTypes /\ branch \subseteq Nat
  BY DEF TypeInv
<1>2. ASSUME NEW p \in Paths, UserWrite(p) \/ TaskWrite(p) \/ RestoreWrite(p) PROVE TypeInv'
  <2>1. UNCHANGED branch
    BY <1>2 DEF UserWrite, TaskWrite, RestoreWrite
  <2> QED BY <1>1, <1>2, <2>1, WritesTyped, RewritesTyped DEF TypeInv
<1>3. ASSUME NEW p \in Paths, NEW c \in {clock + 1, Absent}, AgentWrite(p, c) PROVE TypeInv'
  <2>1. UNCHANGED branch
    BY <1>3 DEF AgentWrite
  <2> QED BY <1>1, <1>3, <2>1, WritesTyped DEF TypeInv
<1>4. ASSUME NEW kind \in {"exact", "opaque", "isolated"}, PlanBatch(kind) PROVE TypeInv'
  <2>1. UNCHANGED branch
    BY <1>4 DEF PlanBatch
  <2> QED BY <1>1, <1>4, <2>1, BatchStepsTyped DEF TypeInv
<1>5. CASE BatchDeclare \/ BatchSave \/ BatchEnds \/ Cancel \/ StartTask \/ TaskEnds
           \/ MergeSave \/ MergeEnds
  <2>1. UNCHANGED branch
    BY <1>5 DEF BatchDeclare, BatchSave, BatchEnds, Cancel, StartTask, TaskEnds, MergeSave,
                MergeEnds, DeclareWrites
  <2> QED BY <1>1, <1>5, <2>1, BatchStepsTyped DEF TypeInv
<1>6. CASE BatchCheckpoint \/ SafeCheckpoint
  <2>1. branch' = branch \cup {Len(records) + 1}
    BY <1>6 DEF BatchCheckpoint, SafeCheckpoint, Reported
  <2>0. IsSeq(records)
    BY <1>1 DEF ShadowTypes, RecordsOK
  <2>2. Len(records) \in Nat
    BY <2>0, SeqFacts
  <2> DEFINE n == Len(records) + 1
  <2>a. n \in Nat /\ branch' = branch \cup {n}
    BY <2>1, <2>2
  <2> HIDE DEF n
  <2>3. branch' \subseteq Nat
    BY <1>1, <2>a
  <2>4. ShadowTypes'
    BY <1>1, <1>6, BatchStepsTyped, RestTyped
  <2> QED BY <2>3, <2>4 DEF TypeInv
<1>7. CASE SafePoint \/ SafeDeclare \/ RestoreCapture \/ RestoreFinish \/ ShadowCrash \/ Unheard
  <2>1. UNCHANGED branch
    BY <1>7 DEF SafePoint, SafeDeclare, DeclareWrites, RestoreCapture, RestoreFinish, ShadowCrash,
                Unheard
  <2> QED BY <1>1, <1>7, <2>1, CaptureTyped, RestTyped DEF TypeInv
<1>8. CASE RestoreReported
  <2>1. branch' \subseteq branch
    BY <1>8 DEF RestoreReported
  <2> QED BY <1>1, <1>8, <2>1, RestTyped DEF TypeInv
<1>9. CASE MergeApply \/ Recover
  <2>1. UNCHANGED branch
    BY <1>9 DEF MergeApply, Recover
  <2> QED BY <1>1, <1>9, <2>1, RewritesTyped DEF TypeInv
<1>10. ASSUME NEW k \in Targets, Rewind(k) PROVE TypeInv'
  <2>1. UNCHANGED branch /\ k \in Nat
    BY <1>1, <1>10 DEF Rewind, Targets
  <2> QED BY <1>1, <1>10, <2>1, RestTyped DEF TypeInv
<1>11. CASE UNCHANGED shadowVars
  BY <1>1, <1>11 DEF shadowVars, kept, TypeInv, ShadowTypes
<1> QED BY <1>2, <1>3, <1>4, <1>5, <1>6, <1>7, <1>8, <1>9, <1>10, <1>11 DEF ShadowNext

-----------------------------------------------------------------------------
(* What the user wrote outside every pattern: no record takes it for what  *)
(* the agent left, the next scan attributes it to nobody, and a restore    *)
(* that is running does not know the path.                                 *)
Unseen(p, f, s, patterns, recs, res) ==
  /\ p \notin patterns \/ s.sha = f.sha
  /\ f.at = s.at => f.sha = s.sha
  /\ \A i \in DOMAIN recs : p \in DOMAIN recs[i].agent => recs[i].agent[p].after # f.sha
  /\ res.phase = "writing" => p \notin DOMAIN res.todo /\ p \notin DOMAIN res.undo

Scouted ==
  \A p \in Paths :
    author[p] = "user" => Unseen(p, file[p], scan[p], pendingPatterns, records, restore)

(* A step that leaves such a path alone, and starts no restore.            *)
LEMMA UnseenKept ==
  ASSUME TypeInv, Scouted, UNCHANGED <<scan, pendingPatterns, records>>,
         restore'.phase = "writing" => restore.phase = "writing"
           /\ DOMAIN restore'.todo \cup DOMAIN restore'.undo
                \subseteq DOMAIN restore.todo \cup DOMAIN restore.undo,
         \A q \in Paths : author'[q] = "user" => author[q] = "user" /\ file'[q] = file[q]
  PROVE  Scouted'
<1> SUFFICES ASSUME NEW p \in Paths, author'[p] = "user"
             PROVE  Unseen(p, file'[p], scan'[p], pendingPatterns', records', restore')
  BY DEF Scouted
<1>1. Unseen(p, file[p], scan[p], pendingPatterns, records, restore)
  BY DEF Scouted
<1>2. file'[p] = file[p] /\ UNCHANGED <<scan, pendingPatterns, records>>
  OBVIOUS
<1>3. restore'.phase = "writing" => p \notin DOMAIN restore'.todo /\ p \notin DOMAIN restore'.undo
  BY <1>1 DEF Unseen
<1> QED BY <1>1, <1>2, <1>3 DEF Unseen

LEMMA UnseenUserWrite ==
  ASSUME TypeInv, Scouted, NEW p \in Paths, UserWrite(p)
  PROVE  Scouted'
<1> SUFFICES ASSUME NEW q \in Paths, author'[q] = "user"
             PROVE  Unseen(q, file'[q], scan'[q], pendingPatterns', records', restore')
  BY DEF Scouted
<1>1. /\ Write("user", p, clock + 1) /\ UNCHANGED <<scan, pendingPatterns, restore>>
      /\ author' = [author EXCEPT ![p] =
             IF p \in pendingPatterns \/ restore.phase = "writing" THEN "under" ELSE "user"]
      /\ records' = Mark(records, p)
  BY DEF UserWrite, Mark
<1>2. /\ clock \in Nat /\ RecordsOK(records, clock) /\ FilesOK(scan, clock)
      /\ author \in [Paths -> {"user", "agent", "under"}]
  BY DEF TypeInv, ShadowTypes
<1>3. Marked(records', records, p)
  BY <1>1, <1>2, RecordsMarked
<1>4. DOMAIN records' = DOMAIN records /\ \A i \in DOMAIN records : records'[i].agent = records[i].agent
  BY <1>3 DEF Marked
<1>5. /\ file'[p].sha = clock + 1 /\ file'[p].at = clock + 1
      /\ \A r \in Paths \ {p} : file'[r] = file[r]
  BY <1>1, WrittenFacts DEF TypeInv
<1>6. CASE q = p
  <2>1. p \notin pendingPatterns /\ restore.phase # "writing"
    BY <1>1, <1>2, <1>6
  <2>2. scan[p].at # clock + 1
    BY <1>2 DEF FilesOK, Contents
  <2>3. \A i \in DOMAIN records : p \in DOMAIN records[i].agent => records[i].agent[p].after # clock + 1
    BY <1>2 DEF RecordsOK, RecordOK, AgentOK
  <2> QED BY <1>1, <1>4, <1>5, <1>6, <2>1, <2>2, <2>3 DEF Unseen
<1>7. CASE q # p
  <2>1. author[q] = "user" /\ file'[q] = file[q]
    BY <1>1, <1>2, <1>5, <1>7
  <2>2. Unseen(q, file[q], scan[q], pendingPatterns, records, restore)
    BY <2>1 DEF Scouted
  <2> QED BY <1>1, <1>4, <2>1, <2>2 DEF Unseen
<1> QED BY <1>6, <1>7

(* A checkpoint: the scan has the content now, and the new record does not *)
(* name the path.                                                          *)
LEMMA UnseenCheckpoint ==
  ASSUME TypeInv, Scouted, NEW d, Checkpoint(d), NEW p \in Paths, author[p] = "user"
  PROVE  /\ scan'[p].sha = file[p].sha
         /\ \A i \in DOMAIN records' :
              p \in DOMAIN records'[i].agent => records'[i].agent[p].after # file[p].sha
<1>1. Unseen(p, file[p], scan[p], pendingPatterns, records, restore)
  BY DEF Scouted
<1>2. /\ DOMAIN records' = 1..(Len(records) + 1) /\ DOMAIN records = 1..Len(records)
      /\ Len(records) \in Nat
      /\ \A i \in DOMAIN records : records'[i] = records[i]
      /\ records'[Len(records) + 1].agent = Attributed
      /\ scan' = Scanned
  BY CheckpointFacts DEF TypeInv
<1>3. /\ file[p].at = scan[p].at => Scanned[p] = scan[p]
      /\ file[p].at # scan[p].at => Scanned[p] = file[p]
  BY ScannedFacts DEF TypeInv
<1>4. Scanned[p].sha = file[p].sha
  BY <1>1, <1>3 DEF Unseen
<1>5. p \notin DOMAIN Attributed
  <2> DEFINE a == Attributed
  <2>0. a = Attributed
    OBVIOUS
  <2> HIDE DEF a
  <2>1. \A q \in DOMAIN a : q \in pendingPatterns /\ scan[q].sha # Scanned[q].sha
    BY <2>0, AttributedFacts
  <2>2. p \notin DOMAIN a
    BY <1>1, <1>4, <2>1 DEF Unseen
  <2> QED BY <2>0, <2>2
<1>6. ASSUME NEW i \in DOMAIN records', p \in DOMAIN records'[i].agent
      PROVE  records'[i].agent[p].after # file[p].sha
  <2>1. i \in DOMAIN records \/ i = Len(records) + 1
    BY <1>2
  <2>2. i \in DOMAIN records
    BY <1>2, <1>5, <1>6, <2>1
  <2>3. records'[i] = records[i]
    BY <1>2, <2>2
  <2> QED BY <1>1, <1>6, <2>2, <2>3 DEF Unseen
<1> QED BY <1>2, <1>4, <1>6

LEMMA UnseenCheckpoints ==
  ASSUME TypeInv, Scouted, NEW d, Checkpoint(d), UNCHANGED <<file, author, restore>>
  PROVE  Scouted'
<1> SUFFICES ASSUME NEW p \in Paths, author'[p] = "user"
             PROVE  Unseen(p, file'[p], scan'[p], pendingPatterns', records', restore')
  BY DEF Scouted
<1>1. file' = file /\ restore' = restore /\ author[p] = "user"
  OBVIOUS
<1>2. /\ scan'[p].sha = file[p].sha
      /\ \A i \in DOMAIN records' :
           p \in DOMAIN records'[i].agent => records'[i].agent[p].after # file[p].sha
  BY <1>1, UnseenCheckpoint
<1>3. Unseen(p, file[p], scan[p], pendingPatterns, records, restore)
  BY <1>1 DEF Scouted
<1> QED BY <1>1, <1>2, <1>3 DEF Unseen

LEMMA UnseenCapture ==
  ASSUME TypeInv, Scouted, RestoreCapture
  PROVE  Scouted'
<1> SUFFICES ASSUME NEW p \in Paths, author'[p] = "user"
             PROVE  Unseen(p, file'[p], scan'[p], pendingPatterns', records', restore')
  BY DEF Scouted
<1>0. ShadowTypes
  BY DEF TypeInv
<1>1. Checkpoint({}) /\ file' = file /\ author[p] = "user" /\ restore'.undo = <<>>
      /\ restore'.to = restore.to /\ restore.to \in Nat /\ clock \in Nat
  BY <1>0, CaptureFacts DEF ShadowTypes, RestoreOK
<1>2. /\ scan'[p].sha = file[p].sha
      /\ \A i \in DOMAIN records' :
           p \in DOMAIN records'[i].agent => records'[i].agent[p].after # file[p].sha
  BY <1>1, UnseenCheckpoint
<1>3. PICK P : /\ P = PlanOf(records', restore.to)
               /\ \A q : q \in DOMAIN restore'.todo =>
                           q \in DOMAIN P /\ scan'[q].sha = P[q].left
  BY <1>0, CaptureFacts
<1>4. p \notin DOMAIN restore'.todo
  <2> SUFFICES ASSUME p \in DOMAIN restore'.todo PROVE FALSE
    OBVIOUS
  <2>1. p \in DOMAIN P /\ scan'[p].sha = P[p].left
    BY <1>3
  <2>2. IsSeq(records')
    BY <1>0, <1>1, CheckpointFacts DEF RecordsOK
  <2>3. PICK j \in Nat : Final(Touching(records', restore.to, p), j) /\ P[p].left = records'[j].agent[p].after
    BY <1>1, <1>3, <2>1, <2>2, PlanFacts
  <2>4. j \in DOMAIN records' /\ p \in DOMAIN records'[j].agent
    BY <2>3 DEF Final, Touching
  <2> QED BY <1>2, <2>1, <2>3, <2>4
<1>5. p \notin DOMAIN restore'.undo
  BY <1>1, EmptyIsSeq
<1> QED BY <1>1, <1>2, <1>4, <1>5 DEF Unseen

LEMMA UnseenFinish ==
  ASSUME TypeInv, Scouted, RestoreFinish
  PROVE  Scouted'
<1> SUFFICES ASSUME NEW p \in Paths, author'[p] = "user"
             PROVE  Unseen(p, file'[p], scan'[p], pendingPatterns', records', restore')
  BY DEF Scouted
<1>0. ShadowTypes
  BY DEF TypeInv
<1>1. /\ restore.phase = "writing" /\ restore'.phase = "report" /\ scan' = Rescan(scan, file, restore.undo)
      /\ UNCHANGED <<file, author, pendingPatterns>>
      /\ restore.undo = <<>> => records' = records
      /\ restore.undo # <<>> => records' = Append(records, NewRecord(restore.undo))
  BY <1>0, FinishFacts
<1>2. Unseen(p, file[p], scan[p], pendingPatterns, records, restore)
  BY <1>1 DEF Scouted
<1>3. p \notin DOMAIN restore.undo
  BY <1>1, <1>2 DEF Unseen
<1>4. scan'[p] = scan[p]
  BY <1>1, <1>3 DEF Rescan
<1>5. ASSUME NEW i \in DOMAIN records', p \in DOMAIN records'[i].agent
      PROVE  records'[i].agent[p].after # file[p].sha
  <2>1. CASE restore.undo = <<>>
    BY <1>1, <1>2, <1>5, <2>1 DEF Unseen
  <2>2. CASE restore.undo # <<>>
    <3>1. /\ DOMAIN records' = 1..(Len(records) + 1) /\ DOMAIN records = 1..Len(records)
          /\ Len(records) \in Nat
          /\ \A k \in DOMAIN records : records'[k] = records[k]
          /\ records'[Len(records) + 1].agent = restore.undo
      BY <1>0, <1>1, <2>2, RecordAdded DEF ShadowTypes, RestoreOK
    <3>2. i \in DOMAIN records
      BY <1>3, <1>5, <3>1
    <3>3. records'[i] = records[i]
      BY <3>1, <3>2
    <3> QED BY <1>2, <1>5, <3>2, <3>3 DEF Unseen
  <2> QED BY <2>1, <2>2
<1> QED BY <1>1, <1>2, <1>4, <1>5 DEF Unseen

LEMMA ScoutedStart == ShadowInit => TypeInv /\ Scouted
<1> SUFFICES ASSUME ShadowInit PROVE TypeInv /\ Scouted
  OBVIOUS
<1>1. TypeInv
  BY TypesStart DEF TypeInv, ShadowInit
<1>2. \A p \in Paths : author[p] # "user"
  BY DEF ShadowInit
<1> QED BY <1>1, <1>2 DEF Scouted

LEMMA ScoutedKept == TypeInv /\ Scouted /\ [ShadowNext]_shadowVars => Scouted'
<1> SUFFICES ASSUME TypeInv, Scouted, [ShadowNext]_shadowVars PROVE Scouted'
  OBVIOUS
<1>0. author \in [Paths -> {"user", "agent", "under"}] /\ FilesOK(file, clock) /\ RestoreOK(restore, clock)
  BY DEF TypeInv, ShadowTypes
<1>a. file \in [Paths -> Contents]
  BY <1>0 DEF FilesOK
<1>1. ASSUME NEW p \in Paths, UserWrite(p) PROVE Scouted'
  BY <1>1, UnseenUserWrite
<1>2. ASSUME NEW p \in Paths, NEW c, Write("agent", p, c), UNCHANGED <<kept, restore>>,
             author' = [author EXCEPT ![p] = "agent"]
      PROVE  Scouted'
  <2>1. \A q \in Paths : author'[q] = "user" => author[q] = "user" /\ file'[q] = file[q]
    BY <1>0, <1>a, <1>2 DEF Write
  <2>2. UNCHANGED <<scan, pendingPatterns, records, restore>>
    BY <1>2 DEF kept
  <2> QED BY <2>1, <2>2, UnseenKept
<1>3. ASSUME NEW p \in Paths, TaskWrite(p) PROVE Scouted'
  BY <1>2, <1>3 DEF TaskWrite
<1>4. ASSUME NEW p \in Paths, NEW c, AgentWrite(p, c) PROVE Scouted'
  BY <1>2, <1>4 DEF AgentWrite
<1>5. ASSUME NEW p \in Paths, RestoreWrite(p) PROVE Scouted'
  <2> DEFINE r == restore
             n == restore'
             e == restore.todo[p]
  <2>1. /\ UNCHANGED <<scan, pendingPatterns, records>> /\ r.phase = "writing" /\ p \in DOMAIN r.todo
        /\ file' = [file EXCEPT ![p] = [sha |-> e.after, at |-> clock + 1]]
        /\ author' = [author EXCEPT ![p] = "agent"]
        /\ n = [r EXCEPT !.todo = Without(@, p), !.undo = With(@, p, e)]
    BY <1>5 DEF RestoreWrite, kept
  <2>2. r = [phase |-> r.phase, to |-> r.to, todo |-> r.todo, undo |-> r.undo, conflicts |-> r.conflicts]
    BY <1>0 DEF RestoreOK
  <2>3. \A q \in Paths : author'[q] = "user" => author[q] = "user" /\ file'[q] = file[q]
    BY <1>0, <1>a, <2>1
  <2> HIDE DEF r, n, e
  <2>4. n.todo = Without(r.todo, p) /\ n.undo = With(r.undo, p, e)
    BY <2>1, <2>2
  <2>5. DOMAIN n.todo \cup DOMAIN n.undo \subseteq DOMAIN r.todo \cup DOMAIN r.undo
    BY <2>1, <2>4 DEF Without, With
  <2> QED BY <2>1, <2>3, <2>5, UnseenKept DEF r, n
<1>6. CASE MergeApply
  <2>1. /\ UNCHANGED <<scan, pendingPatterns, records, restore>>
        /\ file' = [p \in Paths |-> IF p \in Staged
                                    THEN [sha |-> clock + 1, at |-> clock + 1] ELSE file[p]]
        /\ author' = [p \in Paths |-> IF p \in Staged THEN "agent" ELSE author[p]]
    BY <1>6 DEF MergeApply, kept
  <2>2. \A q \in Paths : author'[q] = "user" => author[q] = "user" /\ file'[q] = file[q]
    BY <2>1
  <2> QED BY <2>1, <2>2, UnseenKept
<1>7. CASE Recover
  <2> DEFINE K == Declared \cap (DOMAIN stagedOriginals \cup DOMAIN pendingOriginals)
  <2>1. /\ file' = [p \in Paths |-> IF p \in K THEN [sha |-> Original(p), at |-> clock + 1]
                                             ELSE file[p]]
        /\ author' = [p \in Paths |-> IF p \in K THEN "agent" ELSE author[p]]
        /\ UNCHANGED <<scan, pendingPatterns, records, restore>>
    BY <1>7 DEF Recover, kept
  <2> HIDE DEF K
  <2>2. \A q \in Paths : author'[q] = "user" => author[q] = "user" /\ file'[q] = file[q]
    BY <2>1
  <2> QED BY <2>1, <2>2, UnseenKept
<1>8. CASE ShadowCrash
  <2>1. UNCHANGED <<scan, pendingPatterns, records>>
    BY <1>8 DEF ShadowCrash, kept
  <2>2. restore'.phase # "writing"
    <3>1. restore' = NoRestore \/ restore' = Waiting(restore.to)
      BY <1>8, CrashRestore DEF TypeInv
    <3>2. NoRestore.phase # "writing"
      BY DEF NoRestore
    <3>3. restore' = Waiting(restore.to) => restore'.phase # "writing"
      <4>1. restore.to \in Nat /\ clock \in Nat
        BY <1>0 DEF RestoreOK, TypeInv, ShadowTypes
      <4> QED BY DEF Waiting, NoRestore
    <3> QED BY <3>1, <3>2, <3>3
  <2>3. CASE UNCHANGED <<file, clock, author>>
    BY <2>1, <2>2, <2>3, UnseenKept
  <2>4. ASSUME NEW p \in DOMAIN restore.todo,
               file' = [file EXCEPT ![p] = [sha |-> clock + 1, at |-> clock + 1]],
               author' = [author EXCEPT ![p] = "agent"]
        PROVE  Scouted'
    <3>1. p \in Paths
      BY <1>0 DEF RestoreOK, AgentOK
    <3>2. \A q \in Paths : author'[q] = "user" => author[q] = "user" /\ file'[q] = file[q]
      BY <1>0, <1>a, <2>4, <3>1
    <3> QED BY <2>1, <2>2, <3>2, UnseenKept
  <2> QED BY <1>8, <2>3, <2>4 DEF ShadowCrash
<1>9. CASE BatchCheckpoint \/ SafeCheckpoint \/ Unheard
  <2>1. UNCHANGED <<file, author, restore>> /\ \E d : Checkpoint(d)
    BY <1>9 DEF BatchCheckpoint, SafeCheckpoint, Unheard
  <2> QED BY <2>1, UnseenCheckpoints
<1>10. CASE RestoreCapture
  BY <1>10, UnseenCapture
<1>11. CASE RestoreFinish
  BY <1>11, UnseenFinish
<1>12. CASE RestoreReported
  <2>1. UNCHANGED <<file, author, scan, pendingPatterns, records>> /\ restore' = NoRestore
    BY <1>12 DEF RestoreReported, kept
  <2>2. restore'.phase # "writing"
    BY <2>1 DEF NoRestore
  <2> QED BY <2>1, <2>2, UnseenKept
<1>13. ASSUME NEW k, Rewind(k) PROVE Scouted'
  <2>1. UNCHANGED <<file, author, scan, pendingPatterns, records>> /\ restore' = Waiting(k)
    BY <1>13 DEF Rewind, kept, Waiting
  <2>2. restore'.phase # "writing"
    BY <2>1 DEF Waiting, NoRestore
  <2> QED BY <2>1, <2>2, UnseenKept
<1>14. CASE \/ BatchDeclare \/ BatchSave \/ BatchEnds \/ Cancel \/ StartTask \/ TaskEnds
            \/ MergeSave \/ MergeEnds \/ SafePoint \/ SafeDeclare \/ UNCHANGED shadowVars
            \/ \E kind \in {"exact", "opaque", "isolated"} : PlanBatch(kind)
  <2>1. UNCHANGED <<file, author, scan, pendingPatterns, records, restore>>
    BY <1>14 DEF BatchDeclare, BatchSave, BatchEnds, Cancel, StartTask, TaskEnds, MergeSave,
       MergeEnds, SafePoint, SafeDeclare, DeclareWrites, shadowVars, kept, PlanBatch
  <2> QED BY <2>1, UnseenKept
<1> QED BY <1>1, <1>3, <1>4, <1>5, <1>6, <1>7, <1>8, <1>9, <1>10, <1>11, <1>12, <1>13, <1>14
     DEF ShadowNext

LEMMA RewriteSpares ==
  TypeInv /\ Scouted /\ [ShadowNext]_shadowVars =>
    [\A p \in Paths : RewriteOf(p) => author[p] # "user"]_shadowVars
<1> SUFFICES ASSUME Scouted, NEW p \in Paths, RewriteOf(p), author[p] = "user" PROVE FALSE
  OBVIOUS
<1>1. restore.phase = "writing" /\ p \in DOMAIN restore.todo
  BY DEF RewriteOf
<1>2. Unseen(p, file[p], scan[p], pendingPatterns, records, restore)
  BY DEF Scouted
<1> QED BY <1>1, <1>2 DEF Unseen

(* A rewind never writes over what the user wrote while no pattern of the  *)
(* agent covered the path and no restore was running, whatever happened to *)
(* the path before and after (shadow.rs: external changes are conflicts).  *)
THEOREM NothingOverwritten == ShadowSpec => Spared
<1>1. ShadowInit => TypeInv /\ Scouted
  BY ScoutedStart
<1>2. TypeInv /\ Scouted /\ [ShadowNext]_shadowVars => (TypeInv /\ Scouted)'
  BY TypesKept, ScoutedKept
<1>3. TypeInv /\ Scouted /\ [ShadowNext]_shadowVars =>
        [\A p \in Paths : RewriteOf(p) => author[p] # "user"]_shadowVars
  BY RewriteSpares
<1> QED BY <1>1, <1>2, <1>3, PTL DEF ShadowSpec, Spared

-----------------------------------------------------------------------------
(* The records and one more, of which the agent's changes are a.           *)
Grown(new, recs, a) ==
  /\ Len(recs) \in Nat /\ DOMAIN recs = 1..Len(recs) /\ DOMAIN new = 1..(Len(recs) + 1)
  /\ \A i \in DOMAIN recs : new[i] = recs[i]
  /\ new[Len(recs) + 1].agent = a

LEMMA TouchingGrown ==
  ASSUME NEW new, NEW recs, NEW a, Grown(new, recs, a), NEW i \in DOMAIN recs, NEW p
  PROVE  /\ p \in DOMAIN a => Touching(new, i, p) = Touching(recs, i, p) \cup {Len(recs) + 1}
         /\ p \notin DOMAIN a => Touching(new, i, p) = Touching(recs, i, p)
         /\ Touching(recs, i, p) \subseteq 1..Len(recs) /\ Len(recs) \in Nat
<1> DEFINE n == Len(recs) + 1
<1>1. /\ Len(recs) \in Nat /\ n \in Nat /\ DOMAIN recs = 1..Len(recs) /\ n > i /\ n \in DOMAIN new
      /\ \A j \in DOMAIN new : j \in DOMAIN recs \/ j = n
      /\ \A j \in DOMAIN recs : j \in DOMAIN new /\ new[j] = recs[j] /\ j # n
      /\ new[n].agent = a
  BY DEF Grown
<1> HIDE DEF n
<1>2. \A j : j \in Touching(new, i, p) <=> (j \in Touching(recs, i, p) \/ (j = n /\ p \in DOMAIN a))
  BY <1>1 DEF Touching
<1>3. p \in DOMAIN a => Touching(new, i, p) = Touching(recs, i, p) \cup {n}
  BY <1>2
<1>4. p \notin DOMAIN a => Touching(new, i, p) = Touching(recs, i, p)
  BY <1>2
<1>5. Touching(recs, i, p) \subseteq 1..Len(recs)
  BY <1>1 DEF Touching
<1> QED BY <1>1, <1>3, <1>4, <1>5 DEF n

Plus(S, n) == S \cup {n + 1}
LEMMA FirstGrown ==
  ASSUME NEW n \in Nat, NEW S \in SUBSET (1..n), NEW T, T = Plus(S, n), NEW j
  PROVE  /\ First(T, j) => IF S = {} THEN j = n + 1 ELSE First(S, j)
         /\ Final(T, j) => j = n + 1
<1>1. \A k \in S : k \in Nat /\ k < n + 1
  OBVIOUS
<1>2. T = S \cup {n + 1} /\ n + 1 \in T /\ \A k \in T : k \in Nat /\ k <= n + 1
  BY <1>1 DEF Plus
<1>3. First(T, j) /\ S = {} => j = n + 1
  BY <1>2 DEF First
<1>4. ASSUME First(T, j), S # {} PROVE First(S, j)
  <2>1. PICK k \in S : TRUE
    BY <1>4
  <2>2. j \in T /\ \A m \in T : j <= m
    BY <1>4 DEF First
  <2>3. j <= k /\ k < n + 1 /\ j \in Nat /\ k \in Nat
    BY <1>1, <1>2, <2>1, <2>2
  <2>4. j # n + 1
    BY <2>3
  <2> QED BY <1>2, <2>2, <2>4 DEF First
<1>5. ASSUME Final(T, j) PROVE j = n + 1
  <2>1. j \in T /\ n + 1 <= j
    BY <1>2, <1>5 DEF Final
  <2>2. j \in Nat /\ j <= n + 1
    BY <1>2, <2>1
  <2> QED BY <2>1, <2>2
<1> QED BY <1>3, <1>4, <1>5

(* A path since the checkpoint i, as long as the user leaves it alone and  *)
(* the store was not mistaken of it then: the agent's first change started *)
(* from the content it had, its last one ended at the content last scanned *)
(* unless a crash got in between, and a content not scanned yet is found   *)
(* at the next checkpoint.                                                 *)
Traced(recs, i, p, f, s, patterns, originals, died, res) ==
  /\ f.at = s.at => f.sha = s.sha
  /\ Touching(recs, i, p) = {} =>
       /\ s.sha = recs[i].snap[p]
       /\ p \in DOMAIN originals => originals[p] = s.sha
  /\ \A j \in DOMAIN recs : First(Touching(recs, i, p), j) =>
                              recs[j].agent[p].before = recs[i].snap[p]
  /\ \A j \in DOMAIN recs : Final(Touching(recs, i, p), j) /\ died = 0 =>
                              recs[j].agent[p].after = s.sha
  /\ f.sha # s.sha => \/ p \in patterns
                      \/ Touching(recs, i, p) # {} /\ died > 0
                      \/ res.phase = "writing" /\ p \in DOMAIN res.undo

(* A write of the path, or none; the process may die with it.              *)
LEMMA TracedWrite ==
  ASSUME NEW recs, NEW i, NEW p, NEW f, NEW s, NEW patterns, NEW originals, NEW died \in Nat,
         NEW res, Traced(recs, i, p, f, s, patterns, originals, died, res),
         NEW g, NEW died2 \in Nat, NEW res2, died <= died2,
         g = f \/ g.at # s.at,
         \/ p \in patterns
         \/ Touching(recs, i, p) # {} /\ died2 > 0
         \/ res2.phase = "writing" /\ p \in DOMAIN res2.undo
         \/ g = f /\ ~(res.phase = "writing" /\ p \in DOMAIN res.undo)
  PROVE  Traced(recs, i, p, g, s, patterns, originals, died2, res2)
<1>1. died2 = 0 => died = 0
  OBVIOUS
<1>2. died > 0 => died2 > 0
  OBVIOUS
<1>3. g.at = s.at => g.sha = s.sha
  BY DEF Traced
<1>4. g.sha # s.sha => \/ p \in patterns
                       \/ Touching(recs, i, p) # {} /\ died2 > 0
                       \/ res2.phase = "writing" /\ p \in DOMAIN res2.undo
  BY <1>2 DEF Traced
<1>5. \A j \in DOMAIN recs : Final(Touching(recs, i, p), j) /\ died2 = 0 =>
                               recs[j].agent[p].after = s.sha
  BY <1>1 DEF Traced
<1>6. /\ Touching(recs, i, p) = {} => /\ s.sha = recs[i].snap[p]
                                      /\ p \in DOMAIN originals => originals[p] = s.sha
      /\ \A j \in DOMAIN recs : First(Touching(recs, i, p), j) =>
                                  recs[j].agent[p].before = recs[i].snap[p]
  BY DEF Traced
<1> QED BY <1>3, <1>4, <1>5, <1>6 DEF Traced

(* Another path marked as the user's.                                      *)
LEMMA TracedMarked ==
  ASSUME NEW recs, NEW i \in DOMAIN recs, NEW p, NEW f, NEW s, NEW patterns, NEW originals, NEW died,
         NEW res, Traced(recs, i, p, f, s, patterns, originals, died, res),
         NEW new, NEW q, Marked(new, recs, q)
  PROVE  Traced(new, i, p, f, s, patterns, originals, died, res)
<1>1. DOMAIN new = DOMAIN recs
      /\ \A j \in DOMAIN recs : new[j].agent = recs[j].agent /\ new[j].snap = recs[j].snap
  BY DEF Marked
<1>2. Touching(new, i, p) = Touching(recs, i, p)
  BY <1>1 DEF Touching
<1>3. new[i].snap[p] = recs[i].snap[p]
  BY <1>1
<1> QED BY <1>1, <1>2, <1>3 DEF Traced

(* A checkpoint closes the interval.                                       *)
LEMMA TracedOld ==
  ASSUME NEW recs, NEW i \in DOMAIN recs, NEW p, NEW f, NEW s, NEW patterns, NEW originals,
         NEW died \in Nat, NEW res, Traced(recs, i, p, f, s, patterns, originals, died, res),
         NEW new, NEW a, Grown(new, recs, a),
         NEW scanned, scanned.sha = f.sha,
         p \in DOMAIN a => a[p].after = scanned.sha,
         p \in DOMAIN a /\ p \in DOMAIN originals => a[p].before = originals[p],
         p \in DOMAIN a /\ p \notin DOMAIN originals => a[p].before = s.sha,
         p \notin DOMAIN a => f.sha = s.sha \/ p \notin patterns,
         res.phase # "writing",
         NEW staged, p \in DOMAIN staged => staged[p] = f.sha \/ f.sha # s.sha,
         NEW patterns2, NEW died2 \in Nat, died <= died2, NEW res2
  PROVE  Traced(new, i, p, f, scanned, patterns2, staged, died2, res2)
<1> DEFINE n == Len(recs) + 1
           L == Touching(recs, i, p)
           M == Touching(new, i, p)
<1>1. /\ Len(recs) \in Nat /\ DOMAIN recs = 1..Len(recs)
      /\ new[i] = recs[i] /\ (\A j \in DOMAIN recs : new[j] = recs[j]) /\ new[n].agent = a
  BY DEF Grown
<1>2. /\ p \in DOMAIN a => M = L \cup {n}
      /\ p \notin DOMAIN a => M = L
      /\ L \subseteq 1..Len(recs)
  BY TouchingGrown
<1>3. /\ L = {} => /\ s.sha = recs[i].snap[p]
                   /\ p \in DOMAIN originals => originals[p] = s.sha
      /\ \A j \in DOMAIN recs : First(L, j) => recs[j].agent[p].before = recs[i].snap[p]
      /\ \A j \in DOMAIN recs : Final(L, j) /\ died = 0 => recs[j].agent[p].after = s.sha
      /\ f.sha # s.sha => p \in patterns \/ (L # {} /\ died > 0)
  BY DEF Traced
<1>4. died2 = 0 => died = 0
  OBVIOUS
<1> HIDE DEF n, L, M
<1>5. CASE p \in DOMAIN a
  <2>1. M = L \cup {n} /\ M # {}
    BY <1>2, <1>5
  <2>2. \A j : /\ First(M, j) /\ L = {} => j = n
               /\ First(M, j) /\ L # {} => First(L, j)
               /\ Final(M, j) => j = n
    <3> TAKE j
    <3>1. Len(recs) \in Nat /\ L \in SUBSET (1..Len(recs)) /\ M = Plus(L, Len(recs))
      BY <1>1, <1>2, <2>1 DEF n, Plus
    <3>2. /\ First(M, j) => IF L = {} THEN j = Len(recs) + 1 ELSE First(L, j)
          /\ Final(M, j) => j = Len(recs) + 1
      BY <3>1, FirstGrown
    <3> QED BY <3>2 DEF n
  <2>3. ASSUME NEW j, First(M, j) PROVE new[j].agent[p].before = new[i].snap[p]
    <3>1. CASE L = {}
      <4>1. j = n /\ new[j].agent = a
        BY <1>1, <2>2, <2>3, <3>1
      <4>2. a[p].before = recs[i].snap[p]
        BY <1>3, <1>5, <3>1
      <4> QED BY <1>1, <4>1, <4>2
    <3>2. CASE L # {}
      <4>1. First(L, j) /\ j \in L /\ j \in DOMAIN recs
        BY <1>1, <1>2, <2>2, <2>3, <3>2 DEF First
      <4> QED BY <1>1, <1>3, <4>1
    <3> QED BY <3>1, <3>2
  <2>4. ASSUME NEW j, Final(M, j) PROVE new[j].agent[p].after = scanned.sha
    <3>1. j = n /\ new[j].agent = a
      BY <1>1, <2>2, <2>4
    <3> QED BY <1>5, <3>1
  <2> QED BY <2>1, <2>3, <2>4 DEF Traced, M
<1>6. CASE p \notin DOMAIN a
  <2>1. M = L
    BY <1>2, <1>6
  <2>2. \A j : First(L, j) \/ Final(L, j) => j \in DOMAIN recs /\ new[j] = recs[j]
    BY <1>1, <1>2 DEF First, Final
  <2>3. \A j : First(M, j) => new[j].agent[p].before = new[i].snap[p]
    BY <1>1, <1>3, <2>1, <2>2
  <2>4. CASE f.sha = s.sha
    <3>1. \A j : Final(M, j) /\ died2 = 0 => new[j].agent[p].after = scanned.sha
      BY <1>3, <1>4, <2>1, <2>2, <2>4
    <3>2. M = {} => scanned.sha = new[i].snap[p] /\ (p \in DOMAIN staged => staged[p] = scanned.sha)
      BY <1>1, <1>3, <2>1, <2>4
    <3> QED BY <2>3, <3>1, <3>2 DEF Traced, M
  <2>5. CASE f.sha # s.sha
    <3>1. L # {} /\ died > 0 /\ died2 # 0
      BY <1>3, <1>4, <1>6, <2>5
    <3> QED BY <2>1, <2>3, <3>1 DEF Traced, M
  <2> QED BY <2>4, <2>5
<1> QED BY <1>5, <1>6

(* The end of a restore records it as a change of the agent.               *)
LEMMA TracedFinish ==
  ASSUME NEW recs, NEW i \in DOMAIN recs, NEW p, NEW f, NEW s, NEW patterns, NEW originals,
         NEW died \in Nat, NEW res, Traced(recs, i, p, f, s, patterns, originals, died, res),
         NEW u, u = res.undo, NEW new, Grown(new, recs, u), NEW scanned,
         p \in DOMAIN u => scanned.sha = u[p].after /\ scanned.sha = f.sha
                           /\ Touching(recs, i, p) # {},
         p \notin DOMAIN u => scanned = s,
         NEW res2
  PROVE  Traced(new, i, p, f, scanned, patterns, originals, died, res2)
<1> DEFINE n == Len(recs) + 1
           L == Touching(recs, i, p)
           M == Touching(new, i, p)
<1>1. /\ Len(recs) \in Nat /\ DOMAIN recs = 1..Len(recs)
      /\ new[i] = recs[i] /\ (\A j \in DOMAIN recs : new[j] = recs[j]) /\ new[n].agent = u
  BY DEF Grown
<1>2. /\ p \in DOMAIN u => M = L \cup {n}
      /\ p \notin DOMAIN u => M = L
      /\ L \subseteq 1..Len(recs)
  BY TouchingGrown
<1>3. /\ L = {} => /\ s.sha = recs[i].snap[p]
                   /\ p \in DOMAIN originals => originals[p] = s.sha
      /\ \A j \in DOMAIN recs : First(L, j) => recs[j].agent[p].before = recs[i].snap[p]
      /\ \A j \in DOMAIN recs : Final(L, j) /\ died = 0 => recs[j].agent[p].after = s.sha
      /\ f.at = s.at => f.sha = s.sha
      /\ f.sha # s.sha => p \in patterns \/ (L # {} /\ died > 0) \/ p \in DOMAIN u
  BY DEF Traced
<1> HIDE DEF n, L, M
<1>4. \A j : First(L, j) \/ Final(L, j) => j \in DOMAIN recs /\ new[j] = recs[j]
  BY <1>1, <1>2 DEF First, Final
<1>5. CASE p \in DOMAIN u
  <2>1. M = L \cup {n} /\ M # {} /\ L # {}
    BY <1>2, <1>5 DEF L
  <2>2. \A j : /\ First(M, j) => First(L, j)
               /\ Final(M, j) => j = n
    <3> TAKE j
    <3>1. Len(recs) \in Nat /\ L \in SUBSET (1..Len(recs)) /\ M = Plus(L, Len(recs))
      BY <1>1, <1>2, <2>1 DEF n, Plus
    <3>2. /\ First(M, j) => IF L = {} THEN j = Len(recs) + 1 ELSE First(L, j)
          /\ Final(M, j) => j = Len(recs) + 1
      BY <3>1, FirstGrown
    <3> QED BY <2>1, <3>2 DEF n
  <2>3. \A j : First(M, j) => new[j].agent[p].before = new[i].snap[p]
    BY <1>1, <1>3, <1>4, <2>2
  <2>4. ASSUME NEW j, Final(M, j) PROVE new[j].agent[p].after = scanned.sha
    <3>1. j = n /\ new[j].agent = u
      BY <1>1, <2>2, <2>4
    <3> QED BY <1>5, <3>1
  <2> QED BY <1>5, <2>1, <2>3, <2>4 DEF Traced, M
<1>6. CASE p \notin DOMAIN u
  <2>1. M = L /\ scanned = s
    BY <1>2, <1>6
  <2>2. \A j : First(M, j) => new[j].agent[p].before = new[i].snap[p]
    BY <1>1, <1>3, <1>4, <2>1
  <2>3. \A j : Final(M, j) /\ died = 0 => new[j].agent[p].after = scanned.sha
    BY <1>1, <1>3, <1>4, <2>1
  <2>4. M = {} => /\ scanned.sha = new[i].snap[p]
                  /\ p \in DOMAIN originals => originals[p] = scanned.sha
    BY <1>1, <1>3, <2>1
  <2> QED BY <1>3, <1>6, <2>1, <2>2, <2>3, <2>4 DEF Traced, M
<1> QED BY <1>5, <1>6

(* The checkpoint itself.                                                  *)
LEMMA TracedFresh ==
  ASSUME NEW recs, NEW i, NEW p, NEW f, NEW s, NEW patterns, NEW originals, NEW died, NEW res,
         Touching(recs, i, p) = {}, f.sha = s.sha, s.sha = recs[i].snap[p],
         p \in DOMAIN originals => originals[p] = s.sha
  PROVE  Traced(recs, i, p, f, s, patterns, originals, died, res)
<1>1. \A j : ~First(Touching(recs, i, p), j) /\ ~Final(Touching(recs, i, p), j)
  BY DEF First, Final
<1> QED BY <1>1 DEF Traced

-----------------------------------------------------------------------------
(* Checkpoints, batches and rewinds keep out of each other's way: a batch  *)
(* does not begin while a safe point's checkpoint is pending.              *)
Restoring == restore.phase \in {"writing", "report"}

Exclusive ==
  /\ batch.phase # "none" => ~SafePending /\ Quiet
  /\ SafePending => Quiet
  /\ Restoring => task = "none"
  /\ batch.phase \in {"running", "recovering"} \/ restore.phase = "writing" =>
       DOMAIN stagedOriginals = {}

(* Whatever is being written is under a pattern of the interval, and under *)
(* one of the next if a checkpoint is about to open it.                    *)
Patterns ==
  /\ task # "none" => Background \subseteq pendingPatterns
  /\ task # "none" /\ (batch.phase \in {"saving", "closing"} \/ safe = "closing") =>
       Background \subseteq stagedPatterns
  /\ batch.phase = "running" => WritesOf(batch.kind) \subseteq pendingPatterns
  /\ batch.phase = "recovering" => Declared \subseteq pendingPatterns
  /\ batch.kind = "isolated" /\ batch.phase \in {"running", "merging", "applying", "applied"} =>
       Paths \subseteq pendingPatterns

Ordered == Exclusive /\ Patterns

LEMMA OrderedStart == ShadowInit => Ordered
BY EmptyIsSeq DEF ShadowInit, Ordered, Exclusive, Patterns, Restoring, SafePending, Quiet, NoBatch, NoRestore

(* A step that starts nothing.                                             *)
LEMMA OrderedSame ==
  ASSUME Ordered, UNCHANGED <<batch, safe, task, pendingPatterns, stagedPatterns, stagedOriginals>>,
         restore'.phase = restore.phase
  PROVE  Ordered'
BY DEF Ordered, Exclusive, Patterns, Restoring, SafePending, Quiet

LEMMA Scopes ==
  ASSUME NEW kind
  PROVE  /\ WritesOf("opaque") = Paths /\ WritesOf("exact") = Declared
         /\ PatternsOf("isolated") = Paths /\ Background \subseteq Paths
         /\ kind \in {"exact", "opaque", "isolated", "lost"} => WritesOf(kind) \subseteq PatternsOf(kind)
                \/ kind = "lost"
<1>1. WritesOf("opaque") = Paths /\ WritesOf("exact") = Declared /\ WritesOf("isolated") = {}
  BY DEF WritesOf
<1>2. PatternsOf("isolated") = Paths /\ PatternsOf("opaque") = Paths /\ PatternsOf("exact") = Declared
  BY DEF PatternsOf
<1> QED BY <1>1, <1>2 DEF Paths

LEMMA OrderedBatch ==
  ASSUME TypeInv, Ordered, Overlap = FALSE
  PROVE  /\ \A kind : PlanBatch(kind) => Ordered'
         /\ BatchDeclare \/ BatchSave \/ BatchEnds \/ Cancel => Ordered'
         /\ BatchCheckpoint => Ordered'
         /\ StartTask \/ TaskEnds => Ordered'
         /\ MergeSave \/ MergeApply \/ MergeEnds => Ordered'
<1>0. BatchOK(batch)
  BY DEF TypeInv, ShadowTypes
<1> USE DEF Ordered, Exclusive, Restoring, SafePending, Quiet
<1>1. ASSUME NEW kind, PlanBatch(kind) PROVE Ordered'
  <2>1. /\ batch.phase = "none" /\ Quiet /\ ~SafePending
        /\ batch' = [phase |-> "declaring", kind |-> kind]
        /\ UNCHANGED <<kept, safe, task, restore>>
    BY <1>1 DEF PlanBatch
  <2> QED BY <2>1 DEF Patterns, kept
<1>2. CASE BatchDeclare
  <2>1. batch' = [phase |-> "saving", kind |-> batch.kind]
    BY <1>0, <1>2 DEF BatchDeclare, BatchOK
  <2>2. /\ stagedPatterns' = stagedPatterns \cup WriteScopes
        /\ UNCHANGED <<pendingPatterns, stagedOriginals, safe, task, restore>>
        /\ batch.phase = "declaring"
    BY <1>2 DEF BatchDeclare, DeclareWrites
  <2> QED BY <2>1, <2>2 DEF Patterns, WriteScopes
<1>3. CASE BatchSave
  <2>1. batch' = [phase |-> "closing", kind |-> batch.kind]
    BY <1>0, <1>3 DEF BatchSave, BatchOK
  <2>2. /\ stagedPatterns' = stagedPatterns \cup PatternsOf(batch.kind)
        /\ UNCHANGED <<pendingPatterns, safe, task, restore>>
        /\ batch.phase = "saving"
    BY <1>3 DEF BatchSave, SaveOriginals
  <2> QED BY <2>1, <2>2 DEF Patterns
<1>4. CASE BatchEnds
  <2>1. /\ batch' = NoBatch \/ (batch.kind = "isolated" /\ batch' = [phase |-> "merging", kind |-> batch.kind])
    BY <1>0, <1>4 DEF BatchEnds, BatchOK
  <2>2. /\ batch.phase = "running" /\ safe' = SafeDue
        /\ UNCHANGED <<pendingPatterns, stagedPatterns, stagedOriginals, task, restore>>
    BY <1>4 DEF BatchEnds, kept
  <2>3. CASE batch' = NoBatch
    BY <2>2, <2>3 DEF Patterns, NoBatch, SafeDue
  <2>4. CASE batch.kind = "isolated" /\ batch' = [phase |-> "merging", kind |-> batch.kind]
    BY <2>2, <2>4 DEF Patterns, SafeDue
  <2> QED BY <2>1, <2>3, <2>4
<1>5. CASE Cancel
  BY <1>5 DEF Cancel, NoBatch, Patterns, kept
<1>6. CASE BatchCheckpoint
  <2>1. batch' = [phase |-> "running", kind |-> batch.kind] /\ batch.phase = "closing"
    BY <1>0, <1>6 DEF BatchCheckpoint, BatchOK
  <2>2. /\ pendingPatterns' = stagedPatterns \cup PatternsOf(batch.kind)
        /\ stagedOriginals' = <<>> /\ stagedPatterns' = {}
        /\ UNCHANGED <<safe, task, restore>>
    BY <1>6 DEF BatchCheckpoint, Checkpoint
  <2>3. WritesOf(batch.kind) \subseteq PatternsOf(batch.kind)
    BY <1>0, <2>1, Scopes DEF BatchOK
  <2>4. batch.kind = "isolated" => Paths \subseteq PatternsOf(batch.kind)
    BY Scopes
  <2>5. safe # "closing"
    BY <2>1
  <2> QED BY <2>1, <2>2, <2>3, <2>4, <2>5, EmptyIsSeq DEF Patterns
<1>7. CASE StartTask
  <2>1. /\ batch.phase = "running" /\ batch.kind = "opaque" /\ task' = "running"
        /\ UNCHANGED <<pendingPatterns, stagedPatterns, stagedOriginals, batch, safe, restore>>
    BY <1>7 DEF StartTask, kept
  <2>2. Background \subseteq pendingPatterns
    BY <2>1, Scopes DEF Patterns
  <2> QED BY <2>1, <2>2 DEF Patterns
<1>8. CASE TaskEnds
  BY <1>8 DEF TaskEnds, Patterns, kept
<1>9. CASE MergeSave
  <2>1. batch' = [phase |-> "applying", kind |-> batch.kind] /\ batch.phase = "merging"
        /\ UNCHANGED <<pendingPatterns, safe, task, restore>>
    BY <1>0, <1>9 DEF MergeSave, BatchOK
  <2> QED BY <2>1 DEF Patterns
<1>10. CASE MergeApply
  <2>1. batch' = [phase |-> "applied", kind |-> batch.kind] /\ batch.phase = "applying"
        /\ UNCHANGED <<pendingPatterns, stagedPatterns, stagedOriginals, safe, task, restore>>
    BY <1>0, <1>10 DEF MergeApply, BatchOK, kept
  <2> QED BY <2>1 DEF Patterns
<1>11. CASE MergeEnds
  BY <1>11 DEF MergeEnds, NoBatch, Patterns, kept
<1> QED BY <1>1, <1>2, <1>3, <1>4, <1>5, <1>6, <1>7, <1>8, <1>9, <1>10, <1>11

LEMMA OrderedRest ==
  ASSUME TypeInv, Ordered, Overlap = FALSE
  PROVE  /\ SafePoint \/ SafeDeclare \/ SafeCheckpoint => Ordered'
         /\ \A k \in Nat : Rewind(k) => Ordered'
         /\ RestoreCapture \/ RestoreFinish \/ RestoreReported => Ordered'
         /\ Recover => Ordered'
<1>0. BatchOK(batch) /\ ShadowTypes
  BY DEF TypeInv, ShadowTypes
<1> USE DEF Ordered, Exclusive, Restoring, SafePending, Quiet
<1>1. CASE SafePoint
  BY <1>1 DEF SafePoint, Patterns, kept
<1>2. CASE SafeDeclare
  BY <1>2 DEF SafeDeclare, DeclareWrites, Patterns, WriteScopes
<1>3. CASE SafeCheckpoint
  <2>1. /\ pendingPatterns' = stagedPatterns /\ stagedOriginals' = <<>> /\ safe = "closing"
        /\ safe' = "idle" /\ UNCHANGED <<batch, task, restore>>
    BY <1>3 DEF SafeCheckpoint, Checkpoint
  <2>2. batch.phase = "none"
    BY <2>1
  <2> QED BY <2>1, <2>2, EmptyIsSeq DEF Patterns
<1>4. ASSUME NEW k \in Nat, Rewind(k) PROVE Ordered'
  <2>1. restore' = Waiting(k) /\ batch.phase = "none" /\ ~SafePending
        /\ (task' = "none" <=> task = "none")
        /\ UNCHANGED <<pendingPatterns, stagedPatterns, stagedOriginals, batch, safe>>
    BY <1>4 DEF Rewind, Waiting, kept
  <2>2. restore'.phase = "stopping"
    BY <2>1 DEF Waiting, NoRestore
  <2> QED BY <2>1, <2>2 DEF Patterns
<1>5. CASE RestoreCapture
  <2>1. restore.phase = "stopping" /\ task = "none" /\ restore'.phase = "writing"
        /\ UNCHANGED <<batch, safe, task>>
    BY <1>0, <1>5, CaptureFacts DEF RestoreCapture
  <2>2. stagedOriginals' = <<>>
    BY <1>5 DEF RestoreCapture, Checkpoint
  <2>3. batch.phase = "none" /\ ~SafePending
    BY <2>1
  <2> QED BY <2>1, <2>2, <2>3, EmptyIsSeq DEF Patterns
<1>6. CASE RestoreFinish
  <2>1. restore.phase = "writing" /\ restore'.phase = "report"
        /\ UNCHANGED <<pendingPatterns, stagedPatterns, stagedOriginals, batch, safe, task>>
    BY <1>0, <1>6, FinishFacts
  <2> QED BY <2>1 DEF Patterns
<1>7. CASE RestoreReported
  BY <1>7 DEF RestoreReported, NoRestore, Patterns, kept
<1>8. CASE Recover
  <2>1. batch' = [phase |-> "running", kind |-> batch.kind] /\ batch.phase = "recovering"
        /\ batch.kind = "exact"
        /\ UNCHANGED <<pendingPatterns, stagedPatterns, stagedOriginals, safe, task, restore>>
    BY <1>0, <1>8 DEF Recover, BatchOK, kept
  <2>2. WritesOf(batch.kind) \subseteq pendingPatterns
    BY <2>1, Scopes DEF Patterns
  <2> QED BY <2>1, <2>2 DEF Patterns
<1> QED BY <1>1, <1>2, <1>3, <1>4, <1>5, <1>6, <1>7, <1>8

LEMMA OrderedCrash ==
  ASSUME TypeInv, Ordered, Overlap = FALSE
  PROVE  ShadowCrash \/ Unheard => Ordered'
<1>0. BatchOK(batch) /\ ShadowTypes
  BY DEF TypeInv, ShadowTypes
<1> USE DEF Ordered, Exclusive, Restoring, SafePending, Quiet
<1>1. ASSUME Dies,
             restore'.phase = restore.phase \/ restore'.phase = "stopping",
             restore.phase = "none" => restore'.phase = "none",
             restore'.phase # "writing" \/ DOMAIN stagedOriginals' = {},
             batch.phase \in {"running", "recovering"} =>
               pendingPatterns' = pendingPatterns /\ stagedOriginals' = stagedOriginals
      PROVE  Ordered'
  <2>1. /\ task' = "none" /\ batch' = AfterCrash(batch)
        /\ safe' = IF SafePending THEN "declaring" ELSE safe
    BY <1>1 DEF Dies
  <2> DEFINE b == batch
             a == batch'
  <2>2. /\ a.phase \notin {"saving", "closing", "running", "applying", "applied"}
        /\ a.phase # "none" => b.phase # "none"
        /\ a.phase = "recovering" => b.phase = "recovering" \/ (b.phase = "running" /\ b.kind = "exact")
        /\ a.kind = "isolated" => a.phase \notin {"running", "merging", "applying", "applied"}
    BY <1>0, <2>1, CrashBatch
  <2>3. a.phase = "recovering" => DOMAIN stagedOriginals' = {} /\ Declared \subseteq pendingPatterns'
    BY <1>1, <2>2, Scopes DEF Patterns
  <2> HIDE DEF a, b
  <2>4. Patterns'
    BY <2>1, <2>2, <2>3 DEF Patterns, a
  <2>5. Exclusive'
    BY <1>1, <2>1, <2>2, <2>3 DEF a, b
  <2> QED BY <2>4, <2>5
<1>2. CASE ShadowCrash
  <2>1. Dies /\ UNCHANGED <<pendingPatterns, stagedOriginals>>
    BY <1>2 DEF ShadowCrash, kept
  <2>2. restore'.phase = restore.phase \/ restore'.phase = "stopping"
    BY <1>2 DEF ShadowCrash, NoRestore
  <2>3. restore.phase = "none" => restore'.phase = "none"
    BY <1>2 DEF ShadowCrash
  <2>4. restore'.phase # "writing"
    <3>1. restore' = NoRestore \/ restore' = Waiting(restore.to)
      BY <1>0, <1>2, CrashRestore
    <3>2. NoRestore.phase # "writing"
      BY DEF NoRestore
    <3>3. restore' = Waiting(restore.to) => restore'.phase # "writing"
      BY DEF Waiting, NoRestore
    <3> QED BY <3>1, <3>2, <3>3
  <2> QED BY <1>1, <2>1, <2>2, <2>3, <2>4
<1>3. CASE Unheard
  <2>1. UNCHANGED restore /\ stagedOriginals' = <<>>
        /\ (batch.phase = "closing" \/ safe = "closing")
    BY <1>3 DEF Unheard, Checkpoint
  <2>2. DOMAIN stagedOriginals' = {}
    BY <2>1, EmptyIsSeq
  <2>3. batch.phase \notin {"running", "recovering"} /\ restore.phase = "none"
    BY <2>1
  <2>4. CASE Dies
    BY <1>1, <2>1, <2>2, <2>3, <2>4
  <2>5. CASE ~Dies
    <3>1. CASE batch.phase = "closing"
      <4>1. ~SafePending /\ safe # "closing"
        BY <3>1
      <4>2. /\ batch' = NoBatch /\ UNCHANGED <<safe, task>>
            /\ pendingPatterns' = stagedPatterns \cup PatternsOf(batch.kind)
        BY <1>3, <2>5, <4>1 DEF Unheard, Checkpoint
      <4> QED BY <2>1, <2>2, <2>3, <3>1, <4>2 DEF Patterns, NoBatch
    <3>2. CASE batch.phase # "closing"
      <4>1. safe = "closing" /\ batch.phase = "none"
        BY <2>1, <3>2
      <4>2. /\ safe' = "idle" /\ UNCHANGED <<batch, task>>
            /\ pendingPatterns' = stagedPatterns \cup {}
        BY <1>3, <2>5, <3>2 DEF Unheard, Checkpoint
      <4>3. task # "none" => Background \subseteq pendingPatterns'
        BY <4>1, <4>2 DEF Patterns
      <4> QED BY <2>1, <2>2, <2>3, <4>1, <4>2, <4>3 DEF Patterns
    <3> QED BY <3>1, <3>2
  <2> QED BY <2>4, <2>5
<1> QED BY <1>2, <1>3

LEMMA OrderedKept == TypeInv /\ Ordered /\ Overlap = FALSE /\ [ShadowNext]_shadowVars => Ordered'
<1> SUFFICES ASSUME TypeInv, Ordered, Overlap = FALSE, [ShadowNext]_shadowVars PROVE Ordered'
  OBVIOUS
<1>0. branch \subseteq Nat
  BY DEF TypeInv
<1>1. ASSUME NEW p, NEW c, UserWrite(p) \/ TaskWrite(p) \/ AgentWrite(p, c) PROVE Ordered'
  <2>1. UNCHANGED <<batch, safe, task, pendingPatterns, stagedPatterns, stagedOriginals, restore>>
    BY <1>1 DEF UserWrite, TaskWrite, AgentWrite, kept
  <2> QED BY <2>1, OrderedSame
<1>2. ASSUME NEW p, RestoreWrite(p) PROVE Ordered'
  <2>1. UNCHANGED <<batch, safe, task, pendingPatterns, stagedPatterns, stagedOriginals>>
    BY <1>2 DEF RestoreWrite, kept
  <2>2. RestoreOK(restore, clock)
    BY DEF TypeInv, ShadowTypes
  <2> DEFINE r == restore
             n == restore'
  <2>3. r = [phase |-> r.phase, to |-> r.to, todo |-> r.todo, undo |-> r.undo, conflicts |-> r.conflicts]
        /\ n = [r EXCEPT !.todo = Without(@, p), !.undo = With(@, p, restore.todo[p])]
    BY <1>2, <2>2 DEF RestoreWrite, RestoreOK
  <2> HIDE DEF r, n
  <2>4. n.phase = r.phase
    BY <2>3
  <2> QED BY <2>1, <2>4, OrderedSame DEF r, n
<1>3. CASE UNCHANGED shadowVars
  BY <1>3, OrderedSame DEF shadowVars, kept
<1>4. ASSUME NEW k \in Targets, Rewind(k) PROVE Ordered'
  <2>1. k \in Nat
    BY <1>0, <1>4 DEF Targets
  <2> QED BY <1>4, <2>1, OrderedRest
<1> QED BY <1>1, <1>2, <1>3, <1>4, OrderedBatch, OrderedRest, OrderedCrash DEF ShadowNext

-----------------------------------------------------------------------------
(* The first record closes the interval before the first checkpoint: it    *)
(* changes nothing.  A rewind goes to a record of the branch.              *)
Numbered ==
  /\ branch \subseteq DOMAIN records
  /\ records = <<>> => ~scannedOnce
  /\ records # <<>> => scannedOnce /\ DOMAIN records[1].agent = {}
  /\ restore.to \in {0} \cup branch
  /\ Restoring => records # <<>>
  /\ restore.phase = "report" => restore.todo = <<>>
  /\ crashes \in Nat

LEMMA NumberedStart == ShadowInit => Numbered
BY DEF ShadowInit, Numbered, NoRestore, Restoring

LEMMA NumberedSame ==
  ASSUME Numbered, DOMAIN records' = DOMAIN records, (records' = <<>>) = (records = <<>>),
         \A i \in DOMAIN records : records'[i].agent = records[i].agent,
         records # <<>> => 1 \in DOMAIN records,
         UNCHANGED <<branch, scannedOnce>>,
         restore'.to \in {0} \cup branch,
         Restoring' => Restoring,
         restore'.phase = "report" => restore'.todo = <<>>,
         crashes' \in Nat
  PROVE  Numbered'
<1>1. branch' \subseteq DOMAIN records' /\ restore'.to \in {0} \cup branch'
  BY DEF Numbered
<1>2. records' = <<>> => ~scannedOnce'
  BY DEF Numbered
<1>3. records' # <<>> => scannedOnce' /\ DOMAIN records'[1].agent = {}
  BY DEF Numbered
<1>4. Restoring' => records' # <<>>
  BY DEF Numbered
<1> QED BY <1>1, <1>2, <1>3, <1>4 DEF Numbered

LEMMA RecordsNumbered ==
  ASSUME TypeInv
  PROVE  /\ IsSeq(records) /\ Len(records) \in Nat /\ DOMAIN records = 1..Len(records)
         /\ records = <<>> <=> Len(records) = 0
         /\ records # <<>> => 1 \in DOMAIN records
<1>1. IsSeq(records)
  BY DEF TypeInv, ShadowTypes, RecordsOK
<1> QED BY <1>1, SeqFacts

LEMMA NumberedCheckpoint ==
  ASSUME TypeInv, Numbered, NEW d, Checkpoint(d),
         branch' \in {branch, branch \cup {Len(records) + 1}},
         restore'.to = restore.to, restore'.phase # "report", crashes' \in Nat
  PROVE  Numbered'
<1>1. /\ DOMAIN records' = 1..(Len(records) + 1) /\ DOMAIN records = 1..Len(records)
      /\ Len(records) \in Nat
      /\ \A i \in DOMAIN records : records'[i] = records[i]
      /\ records'[Len(records) + 1].agent = Attributed
      /\ scannedOnce' = TRUE
  BY CheckpointFacts DEF TypeInv, Checkpoint
<1>2. /\ branch \subseteq DOMAIN records
      /\ records = <<>> => ~scannedOnce
      /\ records # <<>> => scannedOnce /\ DOMAIN records[1].agent = {}
      /\ restore.to \in {0} \cup branch
  BY DEF Numbered
<1> DEFINE n == Len(records) + 1
           B == branch \cup {n}
<1>3. n \in Nat /\ n \in DOMAIN records' /\ DOMAIN records \subseteq DOMAIN records'
  BY <1>1
<1>4. branch' = branch \/ branch' = B
  OBVIOUS
<1> HIDE DEF n
<1>5. branch' \subseteq DOMAIN records' /\ restore'.to \in {0} \cup branch'
  BY <1>2, <1>3, <1>4
<1>6. records' # <<>>
  BY <1>3, EmptyIsSeq
<1>7. DOMAIN records'[1].agent = {}
  <2>1. CASE records = <<>>
    <3>1. Len(records) = 0 /\ ~scannedOnce
      BY <1>2, <2>1
    <3>2. records'[1].agent = Attributed
      BY <1>1, <3>1
    <3> DEFINE a == Attributed
    <3>3. a = Attributed
      OBVIOUS
    <3> HIDE DEF a
    <3>4. DOMAIN a = {}
      BY <3>1, <3>3, AttributedFacts
    <3> QED BY <3>2, <3>3, <3>4
  <2>2. CASE records # <<>>
    <3>1. 1 \in DOMAIN records
      BY <2>2, RecordsNumbered
    <3> QED BY <1>1, <1>2, <2>2, <3>1
  <2> QED BY <2>1, <2>2
<1> QED BY <1>1, <1>5, <1>6, <1>7 DEF Numbered

LEMMA NumberedKept == TypeInv /\ Ordered /\ Numbered /\ [ShadowNext]_shadowVars => Numbered'
<1> SUFFICES ASSUME TypeInv, Ordered, Numbered, [ShadowNext]_shadowVars PROVE Numbered'
  OBVIOUS
<1>0. /\ ShadowTypes /\ RestoreOK(restore, clock) /\ clock \in Nat /\ RecordsOK(records, clock)
      /\ branch \subseteq Nat
      /\ restore.to \in {0} \cup branch /\ crashes \in Nat
      /\ restore.phase = "report" => restore.todo = <<>>
      /\ Restoring => records # <<>>
      /\ records # <<>> => 1 \in DOMAIN records
  BY RecordsNumbered DEF TypeInv, ShadowTypes, Numbered
<1>1. ASSUME NEW p \in Paths, UserWrite(p) PROVE Numbered'
  <2>1. records' = Mark(records, p) /\ UNCHANGED <<branch, scannedOnce, restore, crashes>>
    BY <1>1 DEF UserWrite, Mark
  <2>2. Marked(records', records, p) /\ RecordsOK(records', clock)
    BY <1>0, <2>1, RecordsMarked
  <2>3. Len(records') = Len(records) /\ DOMAIN records' = DOMAIN records
        /\ \A i \in DOMAIN records : records'[i].agent = records[i].agent
    BY <2>2 DEF Marked
  <2>4. (records' = <<>>) = (records = <<>>)
    <3>1. IsSeq(records') /\ IsSeq(records)
      BY <1>0, <2>2 DEF RecordsOK
    <3>2. records' = <<>> <=> Len(records') = 0
      BY <3>1, SeqFacts
    <3>3. records = <<>> <=> Len(records) = 0
      BY <3>1, SeqFacts
    <3> QED BY <2>3, <3>2, <3>3
  <2>5. Restoring' => Restoring
    BY <2>1 DEF Restoring
  <2> QED BY <1>0, <2>1, <2>3, <2>4, <2>5, NumberedSame
<1>2. ASSUME UNCHANGED <<records, branch, scannedOnce>>, crashes' \in Nat, Restoring' => Restoring,
             restore'.to \in {0} \cup branch, restore'.phase = "report" => restore'.todo = <<>>
      PROVE  Numbered'
  BY <1>0, <1>2, NumberedSame
<1>3. ASSUME UNCHANGED <<records, branch, scannedOnce, restore>>, crashes' \in Nat PROVE Numbered'
  BY <1>0, <1>2, <1>3 DEF Restoring
<1>4. ASSUME NEW p, NEW c, TaskWrite(p) \/ AgentWrite(p, c) PROVE Numbered'
  BY <1>0, <1>3, <1>4 DEF TaskWrite, AgentWrite, kept
<1>5. CASE \/ BatchDeclare \/ BatchSave \/ BatchEnds \/ Cancel \/ StartTask \/ TaskEnds
           \/ MergeSave \/ MergeEnds \/ SafePoint \/ SafeDeclare \/ UNCHANGED shadowVars
           \/ MergeApply \/ Recover
           \/ \E kind \in {"exact", "opaque", "isolated"} : PlanBatch(kind)
  <2>1. UNCHANGED <<records, branch, scannedOnce, restore, crashes>>
    BY <1>5 DEF BatchDeclare, BatchSave, BatchEnds, Cancel, StartTask, TaskEnds, MergeSave,
       MergeEnds, SafePoint, SafeDeclare, DeclareWrites, shadowVars, kept, PlanBatch, MergeApply, Recover
  <2> QED BY <1>0, <1>3, <2>1
<1>6. ASSUME NEW p, RestoreWrite(p) PROVE Numbered'
  <2> DEFINE r == restore
             n == restore'
  <2>1. r = [phase |-> r.phase, to |-> r.to, todo |-> r.todo, undo |-> r.undo, conflicts |-> r.conflicts]
        /\ n = [r EXCEPT !.todo = Without(@, p), !.undo = With(@, p, restore.todo[p])]
        /\ r.phase = "writing"
    BY <1>0, <1>6 DEF RestoreWrite, RestoreOK
  <2> HIDE DEF r, n
  <2>2. n.phase = "writing" /\ n.to = r.to
    BY <2>1
  <2>3. UNCHANGED <<records, branch, scannedOnce, crashes>>
    BY <1>6 DEF RestoreWrite, kept
  <2> QED BY <1>0, <1>2, <2>1, <2>2, <2>3 DEF r, n, Restoring
<1>7. CASE BatchCheckpoint
  <2>1. /\ Checkpoint(PatternsOf(batch.kind)) /\ UNCHANGED <<restore, crashes>>
        /\ branch' = branch \cup {Len(records) + 1} /\ batch.phase = "closing"
    BY <1>7 DEF BatchCheckpoint, Reported
  <2>2. restore.phase # "report"
    BY <2>1 DEF Ordered, Exclusive, Quiet
  <2> QED BY <1>0, <2>1, <2>2, NumberedCheckpoint
<1>8. CASE SafeCheckpoint
  <2>1. /\ Checkpoint({}) /\ UNCHANGED <<restore, crashes>>
        /\ branch' = branch \cup {Len(records) + 1} /\ safe = "closing"
    BY <1>8 DEF SafeCheckpoint, Reported
  <2>2. restore.phase # "report"
    BY <2>1 DEF Ordered, Exclusive, Quiet, SafePending
  <2> QED BY <1>0, <2>1, <2>2, NumberedCheckpoint
<1>9. CASE Unheard
  <2>1. /\ UNCHANGED <<restore, branch>> /\ (batch.phase = "closing" \/ safe = "closing")
        /\ (crashes' = crashes \/ crashes' = crashes + 1)
        /\ \E d : Checkpoint(d)
    BY <1>9 DEF Unheard, Dies
  <2>2. restore.phase # "report"
    BY <2>1 DEF Ordered, Exclusive, Quiet, SafePending
  <2>3. crashes' \in Nat
    BY <1>0, <2>1
  <2> QED BY <1>0, <2>1, <2>2, <2>3, NumberedCheckpoint
<1>10. CASE RestoreCapture
  <2>1. /\ Checkpoint({}) /\ UNCHANGED <<branch, crashes>> /\ restore'.to = restore.to
        /\ restore'.phase = "writing"
    BY <1>0, <1>10, CaptureFacts
  <2> QED BY <1>0, <2>1, NumberedCheckpoint
<1>11. CASE RestoreFinish
  <2>1. /\ restore.phase = "writing" /\ restore'.phase = "report" /\ restore'.to = restore.to
        /\ restore'.todo = <<>> /\ UNCHANGED <<branch, scannedOnce, crashes>>
        /\ restore.undo = <<>> => records' = records
        /\ restore.undo # <<>> => records' = Append(records, NewRecord(restore.undo))
    BY <1>0, <1>11, FinishFacts
  <2>2. Restoring /\ records # <<>>
    BY <1>0, <2>1 DEF Restoring
  <2>3. CASE restore.undo = <<>>
    BY <1>0, <1>2, <2>1, <2>2, <2>3
  <2>4. CASE restore.undo # <<>>
    <3>1. /\ Len(records) \in Nat /\ DOMAIN records = 1..Len(records)
          /\ DOMAIN records' = 1..(Len(records) + 1)
          /\ \A i \in DOMAIN records : records'[i] = records[i]
      BY <1>0, <2>1, <2>4, RecordAdded DEF RestoreOK
    <3>2. 1 \in DOMAIN records /\ 1 \in DOMAIN records' /\ DOMAIN records \subseteq DOMAIN records'
      BY <1>0, <2>2, <3>1
    <3>3. records' # <<>>
      BY <3>2, EmptyIsSeq
    <3> QED BY <1>0, <2>1, <2>2, <3>1, <3>2, <3>3 DEF Numbered
  <2> QED BY <2>3, <2>4
<1>12. CASE RestoreReported
  <2>1. /\ branch' \subseteq branch /\ UNCHANGED <<records, scannedOnce, crashes>>
        /\ restore'.to = 0 /\ restore'.phase = "none"
    BY <1>12 DEF RestoreReported, NoRestore, kept
  <2> QED BY <1>0, <2>1 DEF Numbered, Restoring
<1>13. CASE ShadowCrash
  <2>1. UNCHANGED <<records, branch, scannedOnce>> /\ crashes' = crashes + 1
    BY <1>13 DEF ShadowCrash, Dies, kept
  <2>2. restore' = NoRestore \/ restore' = Waiting(restore.to)
    BY <1>0, <1>13, CrashRestore
  <2>3. NoRestore.phase = "none" /\ NoRestore.to = 0
    BY DEF NoRestore
  <2>4. \A k : Waiting(k).phase = "stopping" /\ Waiting(k).to = k
    BY DEF Waiting, NoRestore
  <2>5. restore'.phase \notin {"writing", "report"} /\ restore'.to \in {0} \cup branch
    BY <1>0, <2>2, <2>3, <2>4
  <2> QED BY <1>0, <1>2, <2>1, <2>5 DEF Restoring
<1>14. ASSUME NEW k \in Targets, Rewind(k) PROVE Numbered'
  <2>1. UNCHANGED <<records, branch, scannedOnce, crashes>> /\ restore' = Waiting(k)
    BY <1>14 DEF Rewind, Waiting, kept
  <2>2. restore'.phase = "stopping" /\ restore'.to = k
    BY <2>1 DEF Waiting, NoRestore
  <2> QED BY <1>0, <1>2, <1>14, <2>1, <2>2 DEF Restoring, Targets
<1> QED BY <1>1, <1>4, <1>5, <1>6, <1>7, <1>8, <1>9, <1>10, <1>11, <1>12, <1>13, <1>14
     DEF ShadowNext

-----------------------------------------------------------------------------
(* An original put aside for the next interval is the path's content, or   *)
(* the path has been written since and the next scan finds a change.       *)
StagedInv ==
  \A p \in DOMAIN stagedOriginals :
    \/ stagedOriginals[p] = file[p].sha
    \/ file[p].at # scan[p].at /\ file[p].sha # scan[p].sha

LEMMA StagedSame ==
  ASSUME TypeInv, StagedInv, UNCHANGED <<stagedOriginals, scan>>,
         \A q \in DOMAIN stagedOriginals :
            file'[q] = file[q] \/ (file'[q].at = clock + 1 /\ file'[q].sha = clock + 1)
  PROVE  StagedInv'
<1>1. \A q \in Paths : scan[q].sha \in Nat /\ scan[q].at \in Nat /\ scan[q].sha <= clock
                       /\ scan[q].at <= clock /\ clock \in Nat
  BY DEF TypeInv, ShadowTypes, FilesOK, Contents
<1>2. \A q \in DOMAIN stagedOriginals : q \in Paths
  BY DEF TypeInv, ShadowTypes, OriginalsOK
<1>3. ASSUME NEW q \in DOMAIN stagedOriginals
      PROVE  stagedOriginals[q] = file'[q].sha \/ (file'[q].at # scan[q].at /\ file'[q].sha # scan[q].sha)
  <2>1. CASE file'[q] = file[q]
    BY <2>1 DEF StagedInv
  <2>2. CASE file'[q].at = clock + 1 /\ file'[q].sha = clock + 1
    BY <1>1, <1>2, <2>2
  <2> QED BY <1>3, <2>1, <2>2
<1> QED BY <1>3 DEF StagedInv

LEMMA StagedMore ==
  ASSUME StagedInv, UNCHANGED <<file, scan>>, NEW P \in SUBSET Paths, stagedOriginals' = Originals(P)
  PROVE  StagedInv'
<1>1. /\ DOMAIN stagedOriginals' = P \cup DOMAIN stagedOriginals
      /\ \A p \in DOMAIN stagedOriginals : stagedOriginals'[p] = stagedOriginals[p]
      /\ \A p \in P \ DOMAIN stagedOriginals : stagedOriginals'[p] = file[p].sha
  BY DEF Originals
<1>2. ASSUME NEW p \in DOMAIN stagedOriginals'
      PROVE  stagedOriginals'[p] = file[p].sha \/ (file[p].at # scan[p].at /\ file[p].sha # scan[p].sha)
  <2>1. CASE p \in DOMAIN stagedOriginals
    BY <1>1, <2>1 DEF StagedInv
  <2>2. CASE p \notin DOMAIN stagedOriginals
    BY <1>1, <1>2, <2>2
  <2> QED BY <2>1, <2>2
<1> QED BY <1>2 DEF StagedInv

LEMMA StagedNone ==
  ASSUME DOMAIN stagedOriginals' = {}
  PROVE  StagedInv'
BY DEF StagedInv

LEMMA StagedKept == TypeInv /\ Ordered /\ StagedInv /\ [ShadowNext]_shadowVars => StagedInv'
<1> SUFFICES ASSUME TypeInv, Ordered, StagedInv, [ShadowNext]_shadowVars PROVE StagedInv'
  OBVIOUS
<1>0. FilesOK(file, clock) /\ file \in [Paths -> Contents] /\ ShadowTypes /\ clock \in Nat
      /\ \A q \in DOMAIN stagedOriginals : q \in Paths
      /\ (batch.phase \in {"running", "recovering"} \/ restore.phase = "writing"
            => DOMAIN stagedOriginals = {})
  BY DEF TypeInv, ShadowTypes, FilesOK, OriginalsOK, Ordered, Exclusive
<1>1. ASSUME NEW who, NEW p \in Paths, Write(who, p, clock + 1), UNCHANGED <<stagedOriginals, scan>>
      PROVE  StagedInv'
  <2>1. file'[p].sha = clock + 1 /\ file'[p].at = clock + 1 /\ \A q \in Paths \ {p} : file'[q] = file[q]
    BY <1>1, WrittenFacts DEF TypeInv
  <2> QED BY <1>0, <1>1, <2>1, StagedSame
<1>2. ASSUME NEW p \in Paths, UserWrite(p) \/ TaskWrite(p) PROVE StagedInv'
  BY <1>1, <1>2 DEF UserWrite, TaskWrite, kept
<1>3. ASSUME UNCHANGED stagedOriginals,
             batch.phase \in {"running", "recovering"} \/ restore.phase = "writing"
      PROVE  StagedInv'
  BY <1>0, <1>3, StagedNone
<1>4. ASSUME NEW p, NEW c, AgentWrite(p, c) \/ RestoreWrite(p) \/ Recover PROVE StagedInv'
  BY <1>3, <1>4 DEF AgentWrite, RestoreWrite, Recover, kept
<1>5. CASE RestoreFinish
  <2>1. restore.phase = "writing" /\ UNCHANGED stagedOriginals
    BY <1>0, <1>5, FinishFacts
  <2> QED BY <1>3, <2>1
<1>6. CASE MergeApply
  <2>1. UNCHANGED <<stagedOriginals, scan>>
        /\ \A q \in Paths : IF q \in Staged THEN file'[q] = [sha |-> clock + 1, at |-> clock + 1]
                                            ELSE file'[q] = file[q]
    BY <1>6 DEF MergeApply, kept
  <2>2. \A q \in Paths : file'[q] = file[q] \/ (file'[q].at = clock + 1 /\ file'[q].sha = clock + 1)
    BY <2>1
  <2> QED BY <1>0, <2>1, <2>2, StagedSame
<1>7. CASE BatchSave
  <2>1. UNCHANGED <<file, scan>> /\ (stagedOriginals' = Originals(Declared) \/ UNCHANGED stagedOriginals)
    BY <1>7 DEF BatchSave, SaveOriginals
  <2>2. Declared \in SUBSET Paths
    BY DEF Paths
  <2> QED BY <2>1, <2>2, StagedSame, StagedMore
<1>8. CASE MergeSave
  <2>1. UNCHANGED <<file, scan>> /\ stagedOriginals' = Originals(Staged)
    BY <1>8 DEF MergeSave
  <2>2. Staged \in SUBSET Paths
    BY DEF Paths
  <2> QED BY <2>1, <2>2, StagedMore
<1>9. CASE BatchCheckpoint \/ SafeCheckpoint \/ Unheard \/ RestoreCapture
  <2>1. stagedOriginals' = <<>>
    BY <1>9 DEF BatchCheckpoint, SafeCheckpoint, Unheard, RestoreCapture, Checkpoint
  <2> QED BY <2>1, EmptyIsSeq, StagedNone
<1>10. CASE ShadowCrash
  <2>1. UNCHANGED <<stagedOriginals, scan>>
    BY <1>10 DEF ShadowCrash, kept
  <2>2. CASE restore.phase = "writing"
    BY <1>3, <2>1, <2>2
  <2>3. CASE restore.phase # "writing"
    <3>1. UNCHANGED file
      BY <1>10, <2>3 DEF ShadowCrash
    <3> QED BY <2>1, <3>1, StagedSame
  <2> QED BY <2>2, <2>3
<1>11. CASE \/ BatchDeclare \/ BatchEnds \/ Cancel \/ StartTask \/ TaskEnds
            \/ MergeEnds \/ SafePoint \/ SafeDeclare \/ UNCHANGED shadowVars \/ RestoreReported
            \/ (\E kind \in {"exact", "opaque", "isolated"} : PlanBatch(kind))
            \/ (\E k \in Targets : Rewind(k))
  <2>1. UNCHANGED <<file, scan, stagedOriginals>>
    BY <1>11 DEF BatchDeclare, BatchEnds, Cancel, StartTask, TaskEnds, RestoreReported, Rewind,
       MergeEnds, SafePoint, SafeDeclare, DeclareWrites, shadowVars, kept, PlanBatch
  <2> QED BY <2>1, StagedSame
<1> QED BY <1>2, <1>4, <1>5, <1>6, <1>7, <1>8, <1>9, <1>10, <1>11 DEF ShadowNext

-----------------------------------------------------------------------------
(* A record a rewind can go to, or has gone to, and a path the user has    *)
(* left alone since, and of which the store had the content then.          *)
OwnOf(i, p, recs, br, res) ==
  /\ i \in DOMAIN recs
  /\ i = 1 \/ (i \in br /\ (res.phase = "none" \/ i <= res.to))
  /\ p \notin recs[i].user /\ p \notin recs[i].stale

TracedInv ==
  \A i, p : p \in Paths /\ OwnOf(i, p, records, branch, restore) =>
    Traced(records, i, p, file[p], scan[p], pendingPatterns, pendingOriginals, crashes, restore)

(* What a restore has to do with a path that is written in a step.         *)
LEMMA TracedStep ==
  ASSUME TypeInv, Numbered, TracedInv,
         UNCHANGED <<scan, pendingPatterns, pendingOriginals, records>>,
         crashes' \in Nat, crashes <= crashes',
         \A i, p : OwnOf(i, p, records, branch', restore') => OwnOf(i, p, records, branch, restore),
         \A i, p : p \in Paths /\ OwnOf(i, p, records, branch, restore) =>
            \/ file'[p] = file[p] /\ ~(restore.phase = "writing" /\ p \in DOMAIN restore.undo)
            \/ /\ file'[p] = file[p] \/ file'[p].at = clock + 1
               /\ \/ p \in pendingPatterns
                  \/ Touching(records, i, p) # {} /\ crashes' > 0
                  \/ restore'.phase = "writing" /\ p \in DOMAIN restore'.undo
  PROVE  TracedInv'
<1> SUFFICES ASSUME NEW i, NEW p, p \in Paths, OwnOf(i, p, records', branch', restore')
             PROVE  Traced(records', i, p, file'[p], scan'[p], pendingPatterns', pendingOriginals',
                           crashes', restore')
  BY DEF TracedInv
<1>1. OwnOf(i, p, records, branch, restore) /\ crashes \in Nat
  BY DEF Numbered
<1>2. Traced(records, i, p, file[p], scan[p], pendingPatterns, pendingOriginals, crashes, restore)
  BY <1>1 DEF TracedInv
<1>3. scan[p].at # clock + 1
  BY DEF TypeInv, ShadowTypes, FilesOK, Contents
<1>4. file'[p] = file[p] \/ file'[p].at # scan[p].at
  BY <1>1, <1>3
<1>5. \/ p \in pendingPatterns
      \/ Touching(records, i, p) # {} /\ crashes' > 0
      \/ restore'.phase = "writing" /\ p \in DOMAIN restore'.undo
      \/ file'[p] = file[p] /\ ~(restore.phase = "writing" /\ p \in DOMAIN restore.undo)
  BY <1>1
<1>6. Traced(records, i, p, file'[p], scan[p], pendingPatterns, pendingOriginals, crashes', restore')
  BY <1>1, <1>2, <1>4, <1>5, TracedWrite
<1> QED BY <1>6

(* The user's write: of this path nothing is promised any more.            *)
LEMMA TracedUserWrite ==
  ASSUME TypeInv, Numbered, TracedInv, NEW q \in Paths, UserWrite(q)
  PROVE  TracedInv'
<1> SUFFICES ASSUME NEW i, NEW p, p \in Paths, OwnOf(i, p, records', branch', restore')
             PROVE  Traced(records', i, p, file'[p], scan'[p], pendingPatterns', pendingOriginals',
                           crashes', restore')
  BY DEF TracedInv
<1>1. /\ Write("user", q, clock + 1)
      /\ UNCHANGED <<scan, pendingPatterns, pendingOriginals, crashes, restore, branch>>
      /\ records' = Mark(records, q)
  BY DEF UserWrite, Mark
<1>2. RecordsOK(records, clock) /\ clock \in Nat
  BY DEF TypeInv, ShadowTypes
<1>3. Marked(records', records, q)
  BY <1>1, <1>2, RecordsMarked
<1>4. i \in DOMAIN records /\ p # q /\ OwnOf(i, p, records, branch, restore)
  <2>1. i \in DOMAIN records' /\ p \notin records'[i].user /\ p \notin records'[i].stale
        /\ (i = 1 \/ (i \in branch /\ (restore.phase = "none" \/ i <= restore.to)))
    BY <1>1 DEF OwnOf
  <2>2. i \in DOMAIN records /\ records'[i].user = records[i].user \cup {q}
        /\ records'[i].stale = records[i].stale
    BY <1>3, <2>1 DEF Marked
  <2> QED BY <2>1, <2>2 DEF OwnOf
<1>5. file'[p] = file[p]
  BY <1>1, <1>4, WrittenFacts DEF TypeInv
<1>6. Traced(records, i, p, file[p], scan[p], pendingPatterns, pendingOriginals, crashes, restore)
  BY <1>4 DEF TracedInv
<1>7. Traced(records', i, p, file[p], scan[p], pendingPatterns, pendingOriginals, crashes, restore)
  BY <1>3, <1>4, <1>6, TracedMarked
<1> QED BY <1>1, <1>5, <1>7

LEMMA CheckpointGrows ==
  ASSUME TypeInv, NEW d, Checkpoint(d)
  PROVE  /\ Grown(records', records, Attributed)
         /\ records'[Len(records) + 1] = NewRecord(Attributed)
         /\ scan' = Scanned /\ pendingOriginals' = stagedOriginals
<1>1. /\ records' = Append(records, NewRecord(Attributed)) /\ scan' = Scanned
      /\ pendingOriginals' = stagedOriginals
  BY DEF Checkpoint
<1> DEFINE r == NewRecord(Attributed)
<1>2. IsSeq(records) /\ records' = Append(records, r)
  BY <1>1 DEF TypeInv, ShadowTypes, RecordsOK
<1> HIDE DEF r
<1>3. records'[Len(records) + 1] = r
  BY <1>2, AppendFacts
<1>4. Grown(records', records, Attributed)
  BY CheckpointFacts DEF Grown, TypeInv
<1> QED BY <1>1, <1>3, <1>4 DEF r

(* What the scan finds of a path: its content, attributed if it is under a *)
(* pattern.                                                                *)
LEMMA AttributedOf ==
  ASSUME TypeInv, NEW a, a = Attributed, NEW p \in Paths, scannedOnce,
         file[p].at = scan[p].at => file[p].sha = scan[p].sha
  PROVE  /\ Scanned[p].sha = file[p].sha
         /\ p \in DOMAIN a => a[p].after = Scanned[p].sha
         /\ p \in DOMAIN a /\ p \in DOMAIN pendingOriginals => a[p].before = pendingOriginals[p]
         /\ p \in DOMAIN a /\ p \notin DOMAIN pendingOriginals => a[p].before = scan[p].sha
         /\ p \notin DOMAIN a => file[p].sha = scan[p].sha \/ p \notin pendingPatterns
<1>1. /\ file[p].at = scan[p].at => Scanned[p] = scan[p]
      /\ file[p].at # scan[p].at => Scanned[p] = file[p]
  BY ScannedFacts DEF TypeInv
<1>2. Scanned[p].sha = file[p].sha
  BY <1>1
<1>3. /\ p \in DOMAIN a => a[p].after = Scanned[p].sha
      /\ p \in DOMAIN a /\ p \in DOMAIN pendingOriginals => a[p].before = pendingOriginals[p]
      /\ p \in DOMAIN a /\ p \notin DOMAIN pendingOriginals => a[p].before = scan[p].sha
  BY AttributedFacts
<1>4. DOMAIN a = Changed \cap pendingPatterns
  BY AttributedFacts
<1>5. p \in Changed <=> scan[p].sha # Scanned[p].sha
  BY DEF Changed
<1> QED BY <1>2, <1>3, <1>4, <1>5

LEMMA TracedCheckpoint ==
  ASSUME TypeInv, Numbered, StagedInv, TracedInv, NEW d, Checkpoint(d), UNCHANGED file,
         crashes' \in Nat, crashes <= crashes', restore.phase # "writing",
         branch' \in {branch, branch \cup {Len(records) + 1}},
         restore'.to = restore.to, restore'.phase = "none" => restore.phase = "none"
  PROVE  /\ TracedInv'
         /\ \A i, p : p \in Paths /\ OwnOf(i, p, records', branch', restore') =>
                        scan'[p].sha = file[p].sha
<1> SUFFICES ASSUME NEW i, NEW p, p \in Paths, OwnOf(i, p, records', branch', restore')
             PROVE  /\ Traced(records', i, p, file'[p], scan'[p], pendingPatterns',
                              pendingOriginals', crashes', restore')
                    /\ scan'[p].sha = file[p].sha
  BY DEF TracedInv
<1> DEFINE a == Attributed
           n == Len(records) + 1
<1>0. a = Attributed
  OBVIOUS
<1>1. /\ Grown(records', records, a) /\ records'[n] = NewRecord(Attributed)
      /\ scan' = Scanned /\ pendingOriginals' = stagedOriginals
      /\ file'[p] = file[p]
  BY CheckpointGrows
<1>2. /\ Len(records) \in Nat /\ n \in Nat /\ DOMAIN records = 1..Len(records)
      /\ DOMAIN records' = 1..n
      /\ \A j \in DOMAIN records : records'[j] = records[j] /\ j # n
      /\ \A j \in DOMAIN records' : j \in DOMAIN records \/ j = n
  BY <1>1 DEF Grown
<1>3. crashes \in Nat /\ (records # <<>> => scannedOnce) /\ branch' \subseteq branch \cup {n}
  BY DEF Numbered
<1> HIDE DEF a, n
<1>4. CASE i \in DOMAIN records
  <2>1. OwnOf(i, p, records, branch, restore)
    <3>1. records'[i] = records[i] /\ i # n
      BY <1>2, <1>4
    <3>2. i = 1 \/ (i \in branch' /\ (restore'.phase = "none" \/ i <= restore'.to))
      BY DEF OwnOf
    <3>3. i = 1 \/ (i \in branch /\ (restore.phase = "none" \/ i <= restore.to))
      BY <1>3, <3>1, <3>2
    <3>4. p \notin records[i].user /\ p \notin records[i].stale
      BY <3>1 DEF OwnOf
    <3> QED BY <1>4, <3>3, <3>4 DEF OwnOf
  <2>2. Traced(records, i, p, file[p], scan[p], pendingPatterns, pendingOriginals, crashes, restore)
    BY <2>1 DEF TracedInv
  <2>3. scannedOnce
    <3>1. records # <<>>
      BY <1>4, EmptyIsSeq
    <3> QED BY <1>3, <3>1
  <2>4. /\ Scanned[p].sha = file[p].sha
        /\ p \in DOMAIN a => a[p].after = Scanned[p].sha
        /\ p \in DOMAIN a /\ p \in DOMAIN pendingOriginals => a[p].before = pendingOriginals[p]
        /\ p \in DOMAIN a /\ p \notin DOMAIN pendingOriginals => a[p].before = scan[p].sha
        /\ p \notin DOMAIN a => file[p].sha = scan[p].sha \/ p \notin pendingPatterns
    <3>1. file[p].at = scan[p].at => file[p].sha = scan[p].sha
      BY <2>2 DEF Traced
    <3> QED BY <1>0, <2>3, <3>1, AttributedOf
  <2>5. p \in DOMAIN stagedOriginals =>
          stagedOriginals[p] = file[p].sha \/ file[p].sha # scan[p].sha
    BY DEF StagedInv
  <2> DEFINE f == file[p]
             s == scan[p]
             s2 == Scanned[p]
  <2>6. Traced(records', i, p, f, s2, pendingPatterns', stagedOriginals, crashes', restore')
    <3>1. /\ Traced(records, i, p, f, s, pendingPatterns, pendingOriginals, crashes, restore)
          /\ s2.sha = f.sha
          /\ p \in DOMAIN a => a[p].after = s2.sha
          /\ p \in DOMAIN a /\ p \in DOMAIN pendingOriginals => a[p].before = pendingOriginals[p]
          /\ p \in DOMAIN a /\ p \notin DOMAIN pendingOriginals => a[p].before = s.sha
          /\ p \notin DOMAIN a => f.sha = s.sha \/ p \notin pendingPatterns
          /\ p \in DOMAIN stagedOriginals => stagedOriginals[p] = f.sha \/ f.sha # s.sha
      BY <2>2, <2>4, <2>5
    <3> HIDE DEF f, s, s2
    <3> QED BY <1>1, <1>3, <1>4, <3>1, TracedOld
  <2> QED BY <1>1, <2>4, <2>6
<1>5. CASE i = n
  <2>1. p \notin records'[n].stale
    BY <1>5 DEF OwnOf
  <2>2. /\ records'[n].stale = {q \in Paths : Mistaken(q)}
        /\ records'[n].snap = [q \in Paths |-> file[q].sha]
    BY <1>1 DEF NewRecord
  <2>3. ~Mistaken(p) /\ records'[n].snap[p] = file[p].sha
    BY <2>1, <2>2
  <2>4. /\ Scanned[p].sha = file[p].sha
        /\ p \in DOMAIN stagedOriginals => stagedOriginals[p] = file[p].sha
    BY <2>3 DEF Mistaken
  <2>5. Touching(records', n, p) = {}
    BY <1>2 DEF Touching
  <2> DEFINE f == file[p]
             s2 == Scanned[p]
  <2>6. Traced(records', n, p, f, s2, pendingPatterns', stagedOriginals, crashes', restore')
    <3>1. /\ f.sha = s2.sha /\ s2.sha = records'[n].snap[p]
          /\ p \in DOMAIN stagedOriginals => stagedOriginals[p] = s2.sha
      BY <2>3, <2>4
    <3> HIDE DEF f, s2
    <3> QED BY <2>5, <3>1, TracedFresh
  <2> QED BY <1>1, <1>5, <2>4, <2>6
<1> QED BY <1>2, <1>4, <1>5 DEF OwnOf

-----------------------------------------------------------------------------
(* A running restore: what is left to do puts back the content at the      *)
(* target, and everywhere else it is there already.  The paths it touches  *)
(* are paths the agent has changed since, and what it has written stays    *)
(* unless the user writes there.                                           *)
TargetOf(recs, k) == recs[IF k = 0 THEN 1 ELSE k]
PutBack(t, p, f, todo, conflicts, died) ==
  p \notin t.user /\ p \notin t.stale =>
    /\ p \in DOMAIN todo => todo[p].after = t.snap[p]
    /\ p \notin DOMAIN todo => f.sha = t.snap[p] \/ (p \in conflicts /\ died > 0)

Undoing ==
  Restoring =>
    /\ \A p \in DOMAIN restore.todo \cup DOMAIN restore.undo :
         Touching(records, restore.to, p) # {}
    /\ restore.phase = "writing" => \A p \in DOMAIN restore.undo :
         file[p].sha = restore.undo[p].after \/ \A i \in DOMAIN records : p \in records[i].user
    /\ \A p \in Paths : PutBack(TargetOf(records, restore.to), p, file[p], restore.todo,
                                restore.conflicts, crashes)

(* A change after the target is a change after any record before it.       *)
LEMMA TouchingSince ==
  ASSUME TypeInv, Numbered, NEW i, NEW p, i \in DOMAIN records, i = 1 \/ i <= restore.to,
         Touching(records, restore.to, p) # {}
  PROVE  Touching(records, i, p) # {}
<1>1. PICK j \in Touching(records, restore.to, p) : TRUE
  OBVIOUS
<1>2. /\ j \in DOMAIN records /\ j > restore.to /\ p \in DOMAIN records[j].agent
      /\ DOMAIN records = 1..Len(records) /\ Len(records) \in Nat /\ restore.to \in Nat
  BY <1>1, RecordsNumbered DEF Touching, TypeInv, ShadowTypes, RestoreOK
<1>3. DOMAIN records[1].agent = {}
  <2>1. records # <<>>
    BY <1>2, EmptyIsSeq
  <2> QED BY <2>1 DEF Numbered
<1>4. j # 1
  BY <1>2, <1>3
<1>5. j > i
  BY <1>2, <1>4
<1>6. j \in Touching(records, i, p)
  BY <1>2, <1>5 DEF Touching
<1> QED BY <1>6

LEMMA TracedTouched ==
  ASSUME TypeInv, Numbered, Undoing, Restoring, NEW i, NEW p,
         OwnOf(i, p, records, branch, restore),
         p \in DOMAIN restore.todo \cup DOMAIN restore.undo
  PROVE  Touching(records, i, p) # {}
<1>1. i \in DOMAIN records /\ (i = 1 \/ i <= restore.to)
  BY DEF OwnOf, Restoring
<1>2. Touching(records, restore.to, p) # {}
  BY DEF Undoing
<1> QED BY <1>1, <1>2, TouchingSince

LEMMA TracedFinished ==
  ASSUME TypeInv, Numbered, TracedInv, Undoing, RestoreFinish
  PROVE  TracedInv'
<1> SUFFICES ASSUME NEW i, NEW p, p \in Paths, OwnOf(i, p, records', branch', restore')
             PROVE  Traced(records', i, p, file'[p], scan'[p], pendingPatterns', pendingOriginals',
                           crashes', restore')
  BY DEF TracedInv
<1> DEFINE u == restore.undo
<1>0. /\ ShadowTypes /\ RestoreOK(restore, clock) /\ crashes \in Nat /\ branch \subseteq DOMAIN records
      /\ Len(records) \in Nat /\ DOMAIN records = 1..Len(records)
      /\ records # <<>> => 1 \in DOMAIN records
  BY RecordsNumbered DEF TypeInv, ShadowTypes, Numbered
<1>1. /\ restore.phase = "writing" /\ restore'.phase = "report" /\ restore'.to = restore.to
      /\ UNCHANGED <<file, pendingPatterns, pendingOriginals, crashes, branch>>
      /\ scan' = Rescan(scan, file, u)
      /\ u = <<>> => records' = records
      /\ u # <<>> => records' = Append(records, NewRecord(u))
  BY <1>0, FinishFacts
<1>2. Restoring /\ records # <<>> /\ 1 \in DOMAIN records
  BY <1>0, <1>1 DEF Numbered, Restoring
<1>3. i \in DOMAIN records
  BY <1>0, <1>1, <1>2 DEF OwnOf
<1>4. ASSUME u # <<>> PROVE Grown(records', records, u) /\ \A j \in DOMAIN records : records'[j] = records[j]
  <2>1. AgentOK(u, clock)
    BY <1>0 DEF RestoreOK
  <2> HIDE DEF u
  <2> QED BY <1>0, <1>1, <1>4, <2>1, RecordAdded DEF Grown
<1>5. records'[i] = records[i]
  BY <1>1, <1>3, <1>4
<1>6. OwnOf(i, p, records, branch, restore)
  BY <1>1, <1>3, <1>5 DEF OwnOf
<1>7. Traced(records, i, p, file[p], scan[p], pendingPatterns, pendingOriginals, crashes, restore)
  BY <1>6 DEF TracedInv
<1>8. p \in DOMAIN u => file[p].sha = u[p].after /\ Touching(records, i, p) # {}
  <2> SUFFICES ASSUME p \in DOMAIN u PROVE file[p].sha = u[p].after /\ Touching(records, i, p) # {}
    OBVIOUS
  <2>1. Touching(records, i, p) # {}
    BY <1>2, <1>6, TracedTouched
  <2>2. file[p].sha = u[p].after \/ \A j \in DOMAIN records : p \in records[j].user
    BY <1>1, <1>2 DEF Undoing
  <2>3. p \notin records[i].user
    BY <1>6 DEF OwnOf
  <2> QED BY <1>3, <2>1, <2>2, <2>3
<1>9. IF p \in DOMAIN u THEN scan'[p].sha = u[p].after ELSE scan'[p] = scan[p]
  BY <1>1 DEF Rescan
<1> DEFINE f == file[p]
           s == scan[p]
           s2 == scan'[p]
<1>10. /\ Traced(records, i, p, f, s, pendingPatterns, pendingOriginals, crashes, restore)
       /\ p \in DOMAIN u => s2.sha = u[p].after /\ s2.sha = f.sha /\ Touching(records, i, p) # {}
       /\ p \notin DOMAIN u => s2 = s
       /\ u = restore.undo
  BY <1>7, <1>8, <1>9
<1> HIDE DEF f, s, s2, u
<1>11. CASE u # <<>>
  <2>1. Grown(records', records, u)
    BY <1>4, <1>11
  <2>2. Traced(records', i, p, f, s2, pendingPatterns, pendingOriginals, crashes, restore')
    BY <1>0, <1>3, <1>10, <2>1, TracedFinish
  <2> QED BY <1>1, <2>2 DEF f, s2
<1>12. CASE u = <<>>
  <2>1. p \notin DOMAIN u /\ s2 = s
    BY <1>10, <1>12, EmptyIsSeq
  <2>2. Traced(records, i, p, f, s, pendingPatterns, pendingOriginals, crashes, restore')
    <3>1. ~(restore.phase = "writing" /\ p \in DOMAIN restore.undo) /\ crashes \in Nat
          /\ crashes <= crashes
      BY <1>0, <1>10, <2>1
    <3>2. \/ p \in pendingPatterns
          \/ Touching(records, i, p) # {} /\ crashes > 0
          \/ restore'.phase = "writing" /\ p \in DOMAIN restore'.undo
          \/ f = f /\ ~(restore.phase = "writing" /\ p \in DOMAIN restore.undo)
      BY <3>1
    <3>3. f = f \/ f.at # s.at
      OBVIOUS
    <3> QED BY <1>10, <3>1, <3>2, <3>3, TracedWrite
  <2> QED BY <1>1, <1>12, <2>1, <2>2 DEF f, s2
<1> QED BY <1>11, <1>12

(* Steps that write only under the agent's patterns.                       *)
LEMMA TracedUnder ==
  ASSUME TypeInv, Numbered, TracedInv,
         UNCHANGED <<scan, pendingPatterns, pendingOriginals, records, restore, branch, crashes>>,
         \A q \in Paths : file'[q] = file[q] \/ (file'[q].at = clock + 1 /\ q \in pendingPatterns)
  PROVE  TracedInv'
<1>1. crashes \in Nat /\ crashes' \in Nat /\ crashes <= crashes'
  BY DEF Numbered
<1>2. \A i, p : OwnOf(i, p, records, branch', restore') => OwnOf(i, p, records, branch, restore)
  OBVIOUS
<1>3. ASSUME NEW i, NEW p, p \in Paths
      PROVE  \/ file'[p] = file[p] /\ ~(restore.phase = "writing" /\ p \in DOMAIN restore.undo)
             \/ /\ file'[p] = file[p] \/ file'[p].at = clock + 1
                /\ \/ p \in pendingPatterns
                   \/ Touching(records, i, p) # {} /\ crashes' > 0
                   \/ restore'.phase = "writing" /\ p \in DOMAIN restore'.undo
  <2>1. CASE file'[p] = file[p]
    BY <2>1
  <2>2. CASE file'[p].at = clock + 1 /\ p \in pendingPatterns
    BY <2>2
  <2> QED BY <1>3, <2>1, <2>2
<1> QED BY <1>1, <1>2, <1>3, TracedStep

LEMMA TracedRestoreWrite ==
  ASSUME TypeInv, Numbered, TracedInv, NEW q \in Paths, RestoreWrite(q)
  PROVE  TracedInv'
<1> DEFINE r == restore
           n == restore'
           e == restore.todo[q]
<1>1. /\ UNCHANGED <<scan, pendingPatterns, pendingOriginals, records, branch, crashes>>
      /\ r.phase = "writing" /\ q \in DOMAIN r.todo
      /\ file' = [file EXCEPT ![q] = [sha |-> e.after, at |-> clock + 1]]
      /\ n = [r EXCEPT !.todo = Without(@, q), !.undo = With(@, q, e)]
  BY DEF RestoreWrite, kept
<1>2. r = [phase |-> r.phase, to |-> r.to, todo |-> r.todo, undo |-> r.undo, conflicts |-> r.conflicts]
      /\ file \in [Paths -> Contents] /\ crashes \in Nat
  BY DEF TypeInv, ShadowTypes, RestoreOK, FilesOK, Numbered
<1>3. \A p \in Paths : IF p = q THEN file'[p].at = clock + 1 ELSE file'[p] = file[p]
  BY <1>1, <1>2
<1> HIDE DEF r, n, e
<1>4. n.phase = "writing" /\ n.to = r.to /\ n.undo = With(r.undo, q, e)
  BY <1>1, <1>2
<1>5. \A p : p \in DOMAIN n.undo <=> p = q \/ p \in DOMAIN r.undo
  BY <1>4 DEF With
<1>6. \A i, p : OwnOf(i, p, records, branch', restore') => OwnOf(i, p, records, branch, restore)
  BY <1>1, <1>4 DEF OwnOf, r, n
<1>7. ASSUME NEW i, NEW p, p \in Paths
      PROVE  \/ file'[p] = file[p] /\ ~(restore.phase = "writing" /\ p \in DOMAIN restore.undo)
             \/ /\ file'[p] = file[p] \/ file'[p].at = clock + 1
                /\ \/ p \in pendingPatterns
                   \/ Touching(records, i, p) # {} /\ crashes' > 0
                   \/ restore'.phase = "writing" /\ p \in DOMAIN restore'.undo
  <2>1. CASE p = q \/ p \in DOMAIN r.undo
    BY <1>3, <1>4, <1>5, <1>7, <2>1 DEF n
  <2>2. CASE p # q /\ p \notin DOMAIN r.undo
    BY <1>3, <1>7, <2>2 DEF r
  <2> QED BY <2>1, <2>2
<1> QED BY <1>1, <1>2, <1>6, <1>7, TracedStep

(* The end of a rewind, the beginning of one, and a crash.                 *)
LEMMA TracedTurns ==
  ASSUME TypeInv, Numbered, TracedInv, Undoing
  PROVE  /\ RestoreReported => TracedInv'
         /\ \A k : Rewind(k) => TracedInv'
         /\ ShadowCrash => TracedInv'
<1>0. crashes \in Nat /\ RestoreOK(restore, clock) /\ file \in [Paths -> Contents]
  BY DEF Numbered, TypeInv, ShadowTypes, FilesOK
<1>1. CASE RestoreReported
  <2>1. /\ restore.phase = "report" /\ restore' = NoRestore
        /\ branch' = {i \in branch : i <= restore.to}
        /\ UNCHANGED <<file, scan, pendingPatterns, pendingOriginals, records, crashes>>
    BY <1>1 DEF RestoreReported, kept
  <2>2. \A i, p : OwnOf(i, p, records, branch', restore') => OwnOf(i, p, records, branch, restore)
    BY <2>1 DEF OwnOf
  <2>3. ~(restore.phase = "writing")
    BY <2>1
  <2> QED BY <1>0, <2>1, <2>2, <2>3, TracedStep
<1>2. ASSUME NEW k, Rewind(k) PROVE TracedInv'
  <2>1. /\ restore.phase = "none"
        /\ UNCHANGED <<file, scan, pendingPatterns, pendingOriginals, records, crashes, branch>>
    BY <1>2 DEF Rewind, kept, Quiet
  <2>2. \A i, p : OwnOf(i, p, records, branch', restore') => OwnOf(i, p, records, branch, restore)
    BY <2>1 DEF OwnOf
  <2>3. ~(restore.phase = "writing")
    BY <2>1
  <2> QED BY <1>0, <2>1, <2>2, <2>3, TracedStep
<1>3. CASE ShadowCrash
  <2>1. /\ UNCHANGED <<scan, pendingPatterns, pendingOriginals, records, branch>>
        /\ crashes' = crashes + 1
    BY <1>3 DEF ShadowCrash, Dies, kept
  <2>2. restore'.to = restore.to /\ (restore'.phase = "none" => restore.phase = "none")
    <3>1. CASE restore.phase = "none"
      BY <1>3, <3>1 DEF ShadowCrash
    <3>2. CASE restore.phase # "none"
      <4>1. restore' = Waiting(restore.to)
        BY <1>3, <3>2 DEF ShadowCrash, Waiting
      <4> QED BY <4>1 DEF Waiting, NoRestore
    <3> QED BY <3>1, <3>2
  <2>3. \A i, p : OwnOf(i, p, records, branch', restore') => OwnOf(i, p, records, branch, restore)
    BY <2>1, <2>2 DEF OwnOf
  <2>4. \A p \in Paths : \/ file'[p] = file[p]
                         \/ file'[p].at = clock + 1 /\ restore.phase = "writing" /\ p \in DOMAIN restore.todo
    <3>1. CASE UNCHANGED file
      BY <3>1
    <3>2. ASSUME NEW q \in DOMAIN restore.todo, restore.phase = "writing",
                 file' = [file EXCEPT ![q] = [sha |-> clock + 1, at |-> clock + 1]]
          PROVE  \A p \in Paths :
                    \/ file'[p] = file[p]
                    \/ file'[p].at = clock + 1 /\ restore.phase = "writing" /\ p \in DOMAIN restore.todo
      <4> TAKE p \in Paths
      <4>1. IF p = q THEN file'[p] = [sha |-> clock + 1, at |-> clock + 1] ELSE file'[p] = file[p]
        BY <1>0, <3>2
      <4>2. p = q => file'[p].at = clock + 1
        BY <4>1
      <4> QED BY <3>2, <4>1, <4>2
    <3> QED BY <1>3, <3>1, <3>2 DEF ShadowCrash
  <2>5. ASSUME NEW i, NEW p, p \in Paths, OwnOf(i, p, records, branch, restore)
        PROVE  \/ file'[p] = file[p] /\ ~(restore.phase = "writing" /\ p \in DOMAIN restore.undo)
               \/ /\ file'[p] = file[p] \/ file'[p].at = clock + 1
                  /\ \/ p \in pendingPatterns
                     \/ Touching(records, i, p) # {} /\ crashes' > 0
                     \/ restore'.phase = "writing" /\ p \in DOMAIN restore'.undo
    <3>1. CASE restore.phase = "writing" /\ p \in DOMAIN restore.todo \cup DOMAIN restore.undo
      <4>1. Touching(records, i, p) # {}
        BY <2>5, <3>1, TracedTouched DEF Restoring
      <4>2. crashes' > 0
        BY <1>0, <2>1
      <4> QED BY <2>4, <2>5, <4>1, <4>2
    <3>2. CASE ~(restore.phase = "writing" /\ p \in DOMAIN restore.todo \cup DOMAIN restore.undo)
      BY <2>4, <2>5, <3>2
    <3> QED BY <3>1, <3>2
  <2>6. crashes' \in Nat /\ crashes <= crashes'
    BY <1>0, <2>1
  <2> QED BY <2>1, <2>3, <2>5, <2>6, TracedStep
<1> QED BY <1>1, <1>2, <1>3

LEMMA TracedKept ==
  TypeInv /\ Ordered /\ Numbered /\ StagedInv /\ TracedInv /\ Undoing /\ [ShadowNext]_shadowVars
    => TracedInv'
<1> SUFFICES ASSUME TypeInv, Ordered, Numbered, StagedInv, TracedInv, Undoing,
                    [ShadowNext]_shadowVars
             PROVE  TracedInv'
  OBVIOUS
<1>0. crashes \in Nat /\ file \in [Paths -> Contents] /\ ShadowTypes /\ BatchOK(batch)
  BY DEF Numbered, TypeInv, ShadowTypes, FilesOK
<1>1. ASSUME NEW p \in Paths, UserWrite(p) PROVE TracedInv'
  BY <1>1, TracedUserWrite
<1>2. ASSUME NEW who, NEW p \in Paths, NEW c, Write(who, p, c), p \in pendingPatterns,
             UNCHANGED <<kept, restore, branch, crashes>>
      PROVE  TracedInv'
  <2>1. file'[p].at = clock + 1 /\ \A q \in Paths \ {p} : file'[q] = file[q]
    BY <1>2, WrittenFacts DEF TypeInv
  <2>2. \A q \in Paths : file'[q] = file[q] \/ (file'[q].at = clock + 1 /\ q \in pendingPatterns)
    BY <1>2, <2>1
  <2>3. UNCHANGED <<scan, pendingPatterns, pendingOriginals, records, restore, branch, crashes>>
    BY <1>2 DEF kept
  <2> QED BY <2>2, <2>3, TracedUnder
<1>3. ASSUME NEW p \in Paths, TaskWrite(p) PROVE TracedInv'
  <2>1. p \in pendingPatterns
    BY <1>3 DEF TaskWrite, Ordered, Patterns
  <2> QED BY <1>2, <1>3, <2>1 DEF TaskWrite
<1>4. ASSUME NEW p \in Paths, NEW c, AgentWrite(p, c) PROVE TracedInv'
  <2>1. p \in pendingPatterns
    BY <1>4 DEF AgentWrite, Ordered, Patterns
  <2> QED BY <1>2, <1>4, <2>1 DEF AgentWrite
<1>5. CASE MergeApply
  <2>1. Paths \subseteq pendingPatterns
    BY <1>5 DEF MergeApply, Ordered, Patterns
  <2>2. /\ UNCHANGED <<scan, pendingPatterns, pendingOriginals, records, restore, branch, crashes>>
        /\ \A q \in Paths : IF q \in Staged THEN file'[q] = [sha |-> clock + 1, at |-> clock + 1]
                                            ELSE file'[q] = file[q]
    BY <1>5 DEF MergeApply, kept
  <2>3. \A q \in Paths : file'[q] = file[q] \/ (file'[q].at = clock + 1 /\ q \in pendingPatterns)
    BY <2>1, <2>2
  <2> QED BY <2>2, <2>3, TracedUnder
<1>6. CASE Recover
  <2> DEFINE K == Declared \cap (DOMAIN stagedOriginals \cup DOMAIN pendingOriginals)
  <2>1. K \subseteq pendingPatterns
    BY <1>6 DEF Recover, Ordered, Patterns
  <2>2. UNCHANGED <<scan, pendingPatterns, pendingOriginals, records, restore, branch, crashes>>
    BY <1>6 DEF Recover, kept
  <2>4. file' = [q \in Paths |-> IF q \in K THEN [sha |-> Original(q), at |-> clock + 1] ELSE file[q]]
    BY <1>6 DEF Recover
  <2> HIDE DEF K
  <2>5. \A q \in Paths : IF q \in K THEN file'[q] = [sha |-> Original(q), at |-> clock + 1]
                                    ELSE file'[q] = file[q]
    BY <2>4
  <2>6. \A q \in Paths : IF q \in K THEN file'[q].at = clock + 1 ELSE file'[q] = file[q]
    <3> TAKE q \in Paths
    <3> DEFINE o == Original(q)
               e == file'[q]
    <3>1. IF q \in K THEN e = [sha |-> o, at |-> clock + 1] ELSE e = file[q]
      BY <2>5
    <3> HIDE DEF o, e
    <3>2. IF q \in K THEN e.at = clock + 1 ELSE e = file[q]
      BY <3>1
    <3> QED BY <3>2 DEF e
  <2>3. \A q \in Paths : file'[q] = file[q] \/ (file'[q].at = clock + 1 /\ q \in pendingPatterns)
    BY <2>1, <2>6
  <2> QED BY <2>2, <2>3, TracedUnder
<1>7. CASE \/ BatchDeclare \/ BatchSave \/ BatchEnds \/ Cancel \/ StartTask \/ TaskEnds
           \/ MergeSave \/ MergeEnds \/ SafePoint \/ SafeDeclare \/ UNCHANGED shadowVars
           \/ (\E kind \in {"exact", "opaque", "isolated"} : PlanBatch(kind))
  <2>1. UNCHANGED <<file, scan, pendingPatterns, pendingOriginals, records, restore, branch, crashes>>
    BY <1>7 DEF BatchDeclare, BatchSave, BatchEnds, Cancel, StartTask, TaskEnds, MergeSave,
       MergeEnds, SafePoint, SafeDeclare, DeclareWrites, shadowVars, kept, PlanBatch
  <2> QED BY <2>1, TracedUnder
<1>8. ASSUME NEW p \in Paths, RestoreWrite(p) PROVE TracedInv'
  BY <1>8, TracedRestoreWrite
<1>9. CASE BatchCheckpoint \/ SafeCheckpoint
  <2>1. /\ UNCHANGED <<file, restore, crashes>> /\ branch' = branch \cup {Len(records) + 1}
        /\ (batch.phase = "closing" \/ safe = "closing") /\ \E d : Checkpoint(d)
    BY <1>9 DEF BatchCheckpoint, SafeCheckpoint, Reported
  <2>2. restore.phase # "writing"
    BY <2>1 DEF Ordered, Exclusive, Quiet, SafePending
  <2>3. branch' \in {branch, branch \cup {Len(records) + 1}}
    BY <2>1
  <2> QED BY <1>0, <2>1, <2>2, <2>3, TracedCheckpoint
<1>10. CASE Unheard
  <2>1. /\ UNCHANGED <<file, restore, branch>> /\ (crashes' = crashes \/ crashes' = crashes + 1)
        /\ (batch.phase = "closing" \/ safe = "closing") /\ \E d : Checkpoint(d)
    BY <1>10 DEF Unheard, Dies
  <2>2. restore.phase # "writing"
    BY <2>1 DEF Ordered, Exclusive, Quiet, SafePending
  <2>3. branch' \in {branch, branch \cup {Len(records) + 1}} /\ crashes' \in Nat /\ crashes <= crashes'
    BY <1>0, <2>1
  <2> QED BY <1>0, <2>1, <2>2, <2>3, TracedCheckpoint
<1>11. CASE RestoreCapture
  <2>1. /\ UNCHANGED <<file, branch, crashes>> /\ restore.phase = "stopping" /\ restore'.phase = "writing"
        /\ restore'.to = restore.to /\ Checkpoint({})
    BY <1>0, <1>11, CaptureFacts
  <2>2. branch' \in {branch, branch \cup {Len(records) + 1}} /\ crashes' \in Nat /\ crashes <= crashes'
    BY <1>0, <2>1
  <2> QED BY <2>1, <2>2, TracedCheckpoint
<1>12. CASE RestoreFinish
  BY <1>12, TracedFinished
<1> QED BY <1>1, <1>3, <1>4, <1>5, <1>6, <1>7, <1>8, <1>9, <1>10, <1>11, <1>12, TracedTurns
     DEF ShadowNext

(* The record a rewind goes back to is there.                              *)
LEMMA TargetThere ==
  ASSUME TypeInv, Numbered, Restoring
  PROVE  \E t \in DOMAIN records : /\ t = IF restore.to = 0 THEN 1 ELSE restore.to
                                   /\ TargetOf(records, restore.to) = records[t]
                                   /\ restore.to \in Nat
<1>1. /\ restore.to \in {0} \cup branch /\ branch \subseteq DOMAIN records /\ records # <<>>
      /\ 1 \in DOMAIN records /\ restore.to \in Nat
  BY RecordsNumbered DEF Numbered, TypeInv, ShadowTypes, RestoreOK
<1>2. (IF restore.to = 0 THEN 1 ELSE restore.to) \in DOMAIN records
  BY <1>1
<1> QED BY <1>1, <1>2 DEF TargetOf

LEMMA UndoingSame ==
  ASSUME Numbered, Undoing, UNCHANGED <<file, records, restore>>, crashes' \in Nat, crashes <= crashes'
  PROVE  Undoing'
<1>0. crashes \in Nat /\ (crashes > 0 => crashes' > 0)
  BY DEF Numbered
<1> SUFFICES ASSUME Restoring PROVE Undoing'
  BY DEF Undoing, Restoring
<1> DEFINE t == TargetOf(records, restore.to)
<1>1. \A p \in Paths : PutBack(t, p, file[p], restore.todo, restore.conflicts, crashes)
  BY DEF Undoing
<1> HIDE DEF t
<1>2. \A p \in Paths : PutBack(t, p, file[p], restore.todo, restore.conflicts, crashes')
  BY <1>0, <1>1 DEF PutBack
<1> QED BY <1>2 DEF Undoing, t

LEMMA UndoingUserWrite ==
  ASSUME TypeInv, Numbered, Undoing, NEW q \in Paths, UserWrite(q)
  PROVE  Undoing'
<1>1. /\ Write("user", q, clock + 1) /\ UNCHANGED <<crashes, restore>>
      /\ records' = Mark(records, q)
  BY DEF UserWrite, Mark
<1> SUFFICES ASSUME Restoring PROVE Undoing'
  BY <1>1 DEF Undoing, Restoring
<1>2. RecordsOK(records, clock) /\ clock \in Nat
  BY DEF TypeInv, ShadowTypes
<1>3. Marked(records', records, q)
  BY <1>1, <1>2, RecordsMarked
<1>4. \A p \in Paths \ {q} : file'[p] = file[p]
  BY <1>1, WrittenFacts DEF TypeInv
<1>5. PICK t \in DOMAIN records : /\ t = IF restore.to = 0 THEN 1 ELSE restore.to
                                  /\ TargetOf(records, restore.to) = records[t]
                                  /\ restore.to \in Nat
  BY TargetThere
<1>6. TargetOf(records', restore'.to) = records'[t]
  BY <1>1, <1>5 DEF TargetOf
<1>7. /\ DOMAIN records' = DOMAIN records
      /\ \A i \in DOMAIN records : /\ records'[i].agent = records[i].agent
                                   /\ records'[i].user = records[i].user \cup {q}
      /\ records'[t].user = records[t].user \cup {q}
      /\ records'[t].snap = records[t].snap /\ records'[t].stale = records[t].stale
  BY <1>3 DEF Marked
<1>8. \A p : Touching(records', restore'.to, p) = Touching(records, restore.to, p)
  BY <1>1, <1>7 DEF Touching
<1>9. \A p \in DOMAIN restore'.todo \cup DOMAIN restore'.undo : Touching(records', restore'.to, p) # {}
  BY <1>1, <1>8 DEF Undoing
<1>10. ASSUME restore'.phase = "writing", NEW p \in DOMAIN restore'.undo
       PROVE  file'[p].sha = restore'.undo[p].after \/ \A i \in DOMAIN records' : p \in records'[i].user
  <2>1. restore.phase = "writing" /\ p \in DOMAIN restore.undo /\ restore'.undo = restore.undo
    BY <1>1, <1>10
  <2>2. p \in Paths
    BY <2>1 DEF TypeInv, ShadowTypes, RestoreOK, AgentOK
  <2>3. file[p].sha = restore.undo[p].after \/ \A i \in DOMAIN records : p \in records[i].user
    BY <2>1 DEF Undoing
  <2> QED BY <1>4, <1>7, <2>1, <2>2, <2>3
<1>11. ASSUME NEW p \in Paths
       PROVE  PutBack(records'[t], p, file'[p], restore'.todo, restore'.conflicts, crashes')
  <2>1. PutBack(records[t], p, file[p], restore.todo, restore.conflicts, crashes)
    BY <1>5 DEF Undoing
  <2>2. CASE p = q
    BY <1>7, <2>2 DEF PutBack
  <2>3. CASE p # q
    BY <1>1, <1>4, <1>7, <2>1, <2>3 DEF PutBack
  <2> QED BY <2>2, <2>3
<1> QED BY <1>6, <1>9, <1>10, <1>11 DEF Undoing

LEMMA UndoingWrite ==
  ASSUME TypeInv, Numbered, Undoing, NEW q \in Paths, RestoreWrite(q)
  PROVE  Undoing'
<1> DEFINE r == restore
           n == restore'
           e == restore.todo[q]
<1>1. /\ UNCHANGED <<records, crashes>>
      /\ r.phase = "writing" /\ q \in DOMAIN r.todo
      /\ file' = [file EXCEPT ![q] = [sha |-> e.after, at |-> clock + 1]]
      /\ n = [r EXCEPT !.todo = Without(@, q), !.undo = With(@, q, e)]
  BY DEF RestoreWrite, kept
<1>2. r = [phase |-> r.phase, to |-> r.to, todo |-> r.todo, undo |-> r.undo, conflicts |-> r.conflicts]
      /\ file \in [Paths -> Contents] /\ \A p \in DOMAIN r.todo \cup DOMAIN r.undo : p \in Paths
  BY DEF TypeInv, ShadowTypes, RestoreOK, FilesOK, AgentOK
<1>3. file'[q].sha = e.after /\ \A p \in Paths \ {q} : file'[p] = file[p]
  <2>1. file'[q] = [sha |-> e.after, at |-> clock + 1] /\ \A p \in Paths \ {q} : file'[p] = file[p]
    BY <1>1, <1>2
  <2> HIDE DEF e
  <2> QED BY <2>1
<1>4. Restoring
  BY <1>1 DEF Restoring
<1> DEFINE t == TargetOf(records, restore.to)
<1>5. /\ \A p \in DOMAIN r.todo \cup DOMAIN r.undo : Touching(records, r.to, p) # {}
      /\ \A p \in DOMAIN r.undo :
           file[p].sha = r.undo[p].after \/ \A i \in DOMAIN records : p \in records[i].user
      /\ \A p \in Paths : PutBack(t, p, file[p], r.todo, r.conflicts, crashes)
  BY <1>1, <1>4 DEF Undoing
<1>6. e = r.todo[q]
  OBVIOUS
<1> HIDE DEF r, n, e, t
<1>7. /\ n.phase = "writing" /\ n.to = r.to /\ n.conflicts = r.conflicts
      /\ n.undo = With(r.undo, q, e) /\ n.todo = Without(r.todo, q)
  BY <1>1, <1>2
<1>8. /\ \A p : p \in DOMAIN n.undo <=> p = q \/ p \in DOMAIN r.undo
      /\ \A p \in DOMAIN n.undo : IF p = q THEN n.undo[p] = e ELSE n.undo[p] = r.undo[p]
  BY <1>7 DEF With
<1>9. /\ \A p : p \in DOMAIN n.todo <=> p # q /\ p \in DOMAIN r.todo
      /\ \A p \in DOMAIN n.todo : n.todo[p] = r.todo[p]
  BY <1>7 DEF Without
<1>10. \A p \in DOMAIN n.todo \cup DOMAIN n.undo : Touching(records, n.to, p) # {}
  BY <1>1, <1>5, <1>7, <1>8, <1>9
<1>11. ASSUME NEW p \in DOMAIN n.undo
       PROVE  file'[p].sha = n.undo[p].after \/ \A i \in DOMAIN records : p \in records[i].user
  <2>1. CASE p = q
    BY <1>3, <1>8, <2>1
  <2>2. CASE p # q
    BY <1>2, <1>3, <1>5, <1>8, <2>2
  <2> QED BY <2>1, <2>2
<1>12. ASSUME NEW p \in Paths
       PROVE  PutBack(t, p, file'[p], n.todo, n.conflicts, crashes)
  <2>1. PutBack(t, p, file[p], r.todo, r.conflicts, crashes)
    BY <1>5
  <2>2. CASE p = q
    BY <1>1, <1>3, <1>6, <1>9, <2>1, <2>2 DEF PutBack
  <2>3. CASE p # q
    BY <1>3, <1>7, <1>9, <2>1, <2>3 DEF PutBack
  <2> QED BY <2>2, <2>3
<1>13. t = TargetOf(records', n.to)
  BY <1>1, <1>7 DEF t, r
<1>14. \A p \in Paths : PutBack(TargetOf(records', n.to), p, file'[p], n.todo, n.conflicts, crashes')
  BY <1>1, <1>12, <1>13
<1>15. \A p \in DOMAIN n.todo \cup DOMAIN n.undo : Touching(records', n.to, p) # {}
  BY <1>1, <1>10
<1>16. \A p \in DOMAIN n.undo :
         file'[p].sha = n.undo[p].after \/ \A i \in DOMAIN records' : p \in records'[i].user
  BY <1>1, <1>11
<1> QED BY <1>14, <1>15, <1>16 DEF Undoing, n

LEMMA UndoingFinish ==
  ASSUME TypeInv, Numbered, Undoing, RestoreFinish
  PROVE  Undoing'
<1> DEFINE u == restore.undo
<1>0. ShadowTypes /\ AgentOK(u, clock)
  BY DEF TypeInv, ShadowTypes, RestoreOK
<1>1. /\ restore.phase = "writing" /\ restore'.phase = "report" /\ restore'.to = restore.to
      /\ restore'.todo = <<>> /\ restore.todo = <<>> /\ restore'.undo = u
      /\ restore'.conflicts = restore.conflicts
      /\ UNCHANGED <<file, crashes>>
      /\ u = <<>> => records' = records
      /\ u # <<>> => records' = Append(records, NewRecord(u))
  BY <1>0, FinishFacts
<1>2. Restoring
  BY <1>1 DEF Restoring
<1>3. PICK t \in DOMAIN records : /\ t = IF restore.to = 0 THEN 1 ELSE restore.to
                                  /\ TargetOf(records, restore.to) = records[t]
                                  /\ restore.to \in Nat
  BY <1>2, TargetThere
<1> HIDE DEF u
<1>4. \A i \in DOMAIN records : i \in DOMAIN records' /\ records'[i] = records[i]
  <2>1. CASE u = <<>>
    BY <1>1, <2>1
  <2>2. CASE u # <<>>
    <3>1. /\ DOMAIN records' = 1..(Len(records) + 1) /\ DOMAIN records = 1..Len(records)
          /\ Len(records) \in Nat
          /\ \A i \in DOMAIN records : records'[i] = records[i]
      BY <1>0, <1>1, <2>2, RecordAdded
    <3> QED BY <3>1
  <2> QED BY <2>1, <2>2
<1>5. TargetOf(records', restore'.to) = records[t]
  BY <1>1, <1>3, <1>4 DEF TargetOf
<1>6. \A p : Touching(records, restore.to, p) \subseteq Touching(records', restore'.to, p)
  BY <1>1, <1>4 DEF Touching
<1>7. \A p \in DOMAIN restore'.todo \cup DOMAIN restore'.undo : Touching(records', restore'.to, p) # {}
  <2>1. \A p \in DOMAIN restore.todo \cup DOMAIN restore.undo : Touching(records, restore.to, p) # {}
    BY <1>2 DEF Undoing
  <2> QED BY <1>1, <1>6, <2>1 DEF u
<1>8. \A p \in Paths : PutBack(records[t], p, file[p], restore.todo, restore.conflicts, crashes)
  BY <1>2, <1>3 DEF Undoing
<1>9. \A p \in Paths : PutBack(records[t], p, file'[p], restore'.todo, restore'.conflicts, crashes')
  BY <1>1, <1>8
<1>10. restore'.phase # "writing"
  BY <1>1
<1> QED BY <1>5, <1>7, <1>9, <1>10 DEF Undoing

(* The plan of a rewind: with the agent's first change since the target    *)
(* starting from the content there, it leads back to it.                   *)
LEMMA UndoingCapture ==
  ASSUME TypeInv, TypeInv', Numbered, Numbered', StagedInv, TracedInv, RestoreCapture
  PROVE  Undoing'
<1>0. /\ ShadowTypes /\ IsSeq(records') /\ restore.to \in Nat
      /\ Len(records') \in Nat /\ DOMAIN records' = 1..Len(records')
      /\ records' # <<>> => 1 \in DOMAIN records' /\ DOMAIN records'[1].agent = {}
  <2>1. /\ IsSeq(records') /\ Len(records') \in Nat /\ DOMAIN records' = 1..Len(records')
        /\ records' # <<>> => 1 \in DOMAIN records'
    <3>1. IsSeq(records')
      BY DEF TypeInv, ShadowTypes, RecordsOK
    <3> QED BY <3>1, SeqFacts
  <2> QED BY <2>1 DEF TypeInv, ShadowTypes, RestoreOK, Numbered
<1>1. /\ Checkpoint({}) /\ UNCHANGED <<file, crashes, branch>>
      /\ restore.phase = "stopping" /\ restore'.phase = "writing" /\ restore'.to = restore.to
      /\ restore'.undo = <<>>
  BY <1>0, CaptureFacts
<1> DEFINE k == restore.to
           t == IF k = 0 THEN 1 ELSE k
           res == restore'
<1>2. /\ records' # <<>> /\ restore'.to \in {0} \cup branch' /\ branch' \subseteq DOMAIN records'
  BY <1>1 DEF Numbered, Restoring
<1>3. t \in DOMAIN records' /\ (t = 1 \/ (t \in branch' /\ t <= restore'.to))
      /\ TargetOf(records', restore'.to) = records'[t]
  BY <1>0, <1>1, <1>2 DEF TargetOf
<1>4. ASSUME NEW p PROVE Touching(records', k, p) = Touching(records', t, p)
  <2>1. k = 0 => \A i \in DOMAIN records' : p \in DOMAIN records'[i].agent => i > 1
    BY <1>0, <1>2
  <2> QED BY <1>0, <2>1 DEF Touching
<1>5. PICK P : /\ P = PlanOf(records', k)
               /\ \A p : p \in DOMAIN res.todo <=>
                    /\ p \in DOMAIN P
                    /\ scan'[p].sha # P[p].target /\ scan'[p].sha = P[p].left
               /\ \A p \in DOMAIN res.todo : /\ res.todo[p].before = scan'[p].sha
                                             /\ res.todo[p].after = P[p].target
               /\ \A p : p \in res.conflicts <=>
                    p \in DOMAIN P /\ scan'[p].sha \notin {P[p].target, P[p].left}
  BY <1>0, CaptureFacts
<1>6. /\ TracedInv'
      /\ \A i, p : p \in Paths /\ OwnOf(i, p, records', branch', restore') => scan'[p].sha = file[p].sha
  <2>1. crashes' \in Nat /\ crashes <= crashes' /\ branch' \in {branch, branch \cup {Len(records) + 1}}
    BY <1>1 DEF Numbered
  <2> QED BY <1>1, <2>1, TracedCheckpoint
<1>7. ASSUME NEW p PROVE p \in DOMAIN P <=> Touching(records', t, p) # {}
  BY <1>0, <1>4, <1>5, PlanFacts
<1>8. \A p \in DOMAIN restore'.todo \cup DOMAIN restore'.undo : Touching(records', restore'.to, p) # {}
  BY <1>1, <1>4, <1>5, <1>7, EmptyIsSeq
<1>9. DOMAIN restore'.undo = {}
  BY <1>1, EmptyIsSeq
<1>10. ASSUME NEW p \in Paths
       PROVE  PutBack(records'[t], p, file'[p], restore'.todo, restore'.conflicts, crashes')
  <2> SUFFICES ASSUME p \notin records'[t].user, p \notin records'[t].stale
               PROVE  /\ p \in DOMAIN res.todo => res.todo[p].after = records'[t].snap[p]
                      /\ p \notin DOMAIN res.todo =>
                           file'[p].sha = records'[t].snap[p] \/ (p \in res.conflicts /\ crashes' > 0)
    BY DEF PutBack
  <2>1. OwnOf(t, p, records', branch', restore')
    BY <1>3 DEF OwnOf
  <2>2. scan'[p].sha = file'[p].sha
    BY <1>1, <1>6, <2>1
  <2>3. Traced(records', t, p, file'[p], scan'[p], pendingPatterns', pendingOriginals', crashes', restore')
    BY <1>6, <2>1 DEF TracedInv
  <2>4. CASE p \in DOMAIN P
    <3>1. PICK i, j \in Nat : /\ First(Touching(records', k, p), i) /\ Final(Touching(records', k, p), j)
                              /\ P[p].target = records'[i].agent[p].before
                              /\ P[p].left = records'[j].agent[p].after
      BY <1>0, <1>5, <2>4, PlanFacts
    <3>2. First(Touching(records', t, p), i) /\ Final(Touching(records', t, p), j)
      BY <1>4, <3>1
    <3>3. i \in DOMAIN records' /\ j \in DOMAIN records'
      BY <3>2 DEF First, Final, Touching
    <3>4. P[p].target = records'[t].snap[p]
      BY <2>3, <3>1, <3>2, <3>3 DEF Traced
    <3>5. crashes' = 0 => P[p].left = scan'[p].sha
      BY <2>3, <3>1, <3>2, <3>3 DEF Traced
    <3>6. crashes' \in Nat
      BY <1>1 DEF Numbered
    <3> QED BY <1>5, <2>2, <2>4, <3>4, <3>5, <3>6
  <2>5. CASE p \notin DOMAIN P
    <3>1. Touching(records', t, p) = {}
      BY <1>7, <2>5
    <3>2. scan'[p].sha = records'[t].snap[p]
      BY <2>3, <3>1 DEF Traced
    <3> QED BY <1>5, <2>2, <2>5, <3>2
  <2> QED BY <2>4, <2>5
<1> QED BY <1>3, <1>8, <1>9, <1>10 DEF Undoing

LEMMA UndoingKept ==
  TypeInv /\ Ordered /\ Numbered /\ StagedInv /\ TracedInv /\ Undoing /\ [ShadowNext]_shadowVars
    => Undoing'
<1> SUFFICES ASSUME TypeInv, Ordered, Numbered, StagedInv, TracedInv, Undoing,
                    [ShadowNext]_shadowVars
             PROVE  Undoing'
  OBVIOUS
<1>0. crashes \in Nat /\ ShadowTypes /\ TypeInv' /\ Numbered'
  BY TypesKept, NumberedKept DEF TypeInv, Numbered
<1>1. ASSUME ~Restoring' PROVE Undoing'
  BY <1>1 DEF Undoing
<1>2. ASSUME UNCHANGED restore, ~Restoring PROVE Undoing'
  BY <1>1, <1>2 DEF Restoring
<1>3. ASSUME NEW p \in Paths, UserWrite(p) \/ RestoreWrite(p) PROVE Undoing'
  BY <1>3, UndoingUserWrite, UndoingWrite
<1>4. ASSUME NEW p, NEW c, TaskWrite(p) \/ AgentWrite(p, c) PROVE Undoing'
  <2>1. UNCHANGED restore /\ (task # "none" \/ batch.phase # "none")
    BY <1>4 DEF TaskWrite, AgentWrite
  <2>2. ~Restoring
    BY <2>1 DEF Ordered, Exclusive, Restoring, Quiet
  <2> QED BY <1>2, <2>1, <2>2
<1>5. CASE BatchCheckpoint \/ SafeCheckpoint \/ MergeApply \/ Recover \/ Unheard
  <2>1. UNCHANGED restore /\ (batch.phase # "none" \/ SafePending)
    BY <1>5 DEF BatchCheckpoint, SafeCheckpoint, MergeApply, Recover, Unheard, SafePending
  <2>2. ~Restoring
    BY <2>1 DEF Ordered, Exclusive, Restoring, Quiet
  <2> QED BY <1>2, <2>1, <2>2
<1>6. CASE \/ BatchDeclare \/ BatchSave \/ BatchEnds \/ Cancel \/ StartTask \/ TaskEnds
           \/ MergeSave \/ MergeEnds \/ SafePoint \/ SafeDeclare \/ UNCHANGED shadowVars
           \/ (\E kind \in {"exact", "opaque", "isolated"} : PlanBatch(kind))
  <2>1. UNCHANGED <<file, records, restore, crashes>>
    BY <1>6 DEF BatchDeclare, BatchSave, BatchEnds, Cancel, StartTask, TaskEnds, MergeSave,
       MergeEnds, SafePoint, SafeDeclare, DeclareWrites, shadowVars, kept, PlanBatch
  <2> QED BY <1>0, <2>1, UndoingSame
<1>7. CASE RestoreCapture
  BY <1>0, <1>7, UndoingCapture
<1>8. CASE RestoreFinish
  BY <1>8, UndoingFinish
<1>9. CASE RestoreReported \/ ShadowCrash
  <2>1. restore' = NoRestore \/ restore' = Waiting(restore.to)
    BY <1>0, <1>9, CrashRestore DEF RestoreReported
  <2>2. restore'.phase \in {"none", "stopping"}
    <3>1. Waiting(restore.to).phase = "stopping" /\ NoRestore.phase = "none"
      BY DEF Waiting, NoRestore
    <3> QED BY <2>1, <3>1
  <2>3. ~Restoring'
    BY <2>2 DEF Restoring
  <2> QED BY <1>1, <2>3
<1>10. ASSUME NEW k, Rewind(k) PROVE Undoing'
  <2>1. ~Restoring'
    BY <1>10 DEF Rewind, NoRestore, Restoring
  <2> QED BY <1>1, <2>1
<1> QED BY <1>3, <1>4, <1>5, <1>6, <1>7, <1>8, <1>9, <1>10 DEF ShadowNext

-----------------------------------------------------------------------------
RewindInv == TypeInv /\ Ordered /\ Numbered /\ StagedInv /\ TracedInv /\ Undoing

LEMMA RewindStart == ShadowInit => RewindInv
<1> SUFFICES ASSUME ShadowInit PROVE RewindInv
  OBVIOUS
<1>1. TypeInv
  BY ScoutedStart
<1>2. Ordered /\ Numbered
  BY OrderedStart, NumberedStart
<1>3. StagedInv
  BY EmptyIsSeq DEF ShadowInit, StagedInv
<1>4. TracedInv
  BY EmptyIsSeq DEF ShadowInit, TracedInv, OwnOf
<1>5. Undoing
  BY DEF ShadowInit, Undoing, Restoring, NoRestore
<1> QED BY <1>1, <1>2, <1>3, <1>4, <1>5 DEF RewindInv

LEMMA RewindKept ==
  ASSUME Overlap = FALSE
  PROVE  RewindInv /\ [ShadowNext]_shadowVars => RewindInv'
BY TypesKept, OrderedKept, NumberedKept, StagedKept, TracedKept, UndoingKept DEF RewindInv

LEMMA RewindUndoes == RewindInv => Undone
<1> SUFFICES ASSUME RewindInv, restore.phase = "report",
                    NEW p \in Paths \ (Target.user \cup Target.stale)
             PROVE  BackAt(p)
  BY DEF Undone
<1>1. Restoring /\ restore.todo = <<>>
  BY DEF RewindInv, Numbered, Restoring
<1>2. Target = TargetOf(records, restore.to)
  BY DEF Target, TargetOf
<1>3. PutBack(TargetOf(records, restore.to), p, file[p], restore.todo, restore.conflicts, crashes)
  BY <1>1 DEF RewindInv, Undoing
<1>4. file[p].sha = Target.snap[p] \/ (p \in restore.conflicts /\ crashes > 0)
  BY <1>1, <1>2, <1>3, EmptyIsSeq DEF PutBack
<1> QED BY <1>4 DEF BackAt

(* When a rewind reports, every path the user has left alone since the     *)
(* target checkpoint, and of which the store was not mistaken then, has    *)
(* the content it had there: for any sets of declared, background and      *)
(* staged paths, any number of batches, tasks, merges, earlier rewinds and *)
(* crashes, only a restore after a crash leaving a conflict instead.  The  *)
(* one hypothesis: no batch and no rewind starts while the checkpoint of a *)
(* safe point is pending.                                                  *)
THEOREM RewindGoesBack ==
  ASSUME Overlap = FALSE
  PROVE  ShadowSpec => []Undone
<1>1. ShadowInit => RewindInv
  BY RewindStart
<1>2. RewindInv /\ [ShadowNext]_shadowVars => RewindInv'
  BY RewindKept
<1>3. RewindInv => Undone
  BY RewindUndoes
<1> QED BY <1>1, <1>2, <1>3, PTL DEF ShadowSpec
=============================================================================
