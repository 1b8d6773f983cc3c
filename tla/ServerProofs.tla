---------------------------- MODULE ServerProofs ----------------------------
(***************************************************************************)
(* Why no terminal client misses an event or sees one twice, no observer   *)
(* misses one, whoever asks again gets the same reply, and the dialogs a   *)
(* client shows at rest are the right ones, for any number of clients,     *)
(* questions, commands and inputs, queues of any length and any memory of  *)
(* the journal.                                                            *)
(***************************************************************************)
EXTENDS Server, FiniteSetTheorems, SequenceTheorems, WellFoundedInduction, TLAPS

(* A finite sequence, of whatever.                                         *)
IsSeq(s) == s \in Seq(Range(s))

(* The events among the messages of s after the first i are numbered from  *)
(* lo up to hi, and come in this order; there is no kind of message the    *)
(* clients do not know.                                                    *)
IsEvent(m) == m.kind = "event"
Known(m) == m.kind \in {"event", "close", "question", "ack"}
Rest(s, i, lo, hi) ==
  /\ lo <= hi
  /\ \A j \in (i + 1)..Len(s) : Known(s[j])
  /\ \A j \in (i + 1)..Len(s) : IsEvent(s[j]) => s[j].seq \in lo..(hi - 1)
  /\ \A n \in lo..(hi - 1) : \E j \in (i + 1)..Len(s) : IsEvent(s[j]) /\ s[j].seq = n
  /\ \A j, k \in (i + 1)..Len(s) : j < k /\ IsEvent(s[j]) /\ IsEvent(s[k]) => s[j].seq < s[k].seq
Holds(s, lo, hi) == Rest(s, 0, lo, hi)

Messages(wait) == [i \in 1..Len(wait) |-> wait[i].msg]

(* What is under way on a connection are the events from lo up to hi, in   *)
(* the order in which they will be received.                               *)
Flow(conn, lo, hi) ==
  /\ IsSeq(conn.out) /\ IsSeq(conn.wait) /\ IsSeq(conn.todo)
  /\ \E a, b \in Nat : Holds(conn.out, lo, a) /\ Holds(Messages(conn.wait), a, b) /\ Holds(conn.todo, b, hi)

-----------------------------------------------------------------------------
(* Sequences.                                                              *)

LEMMA SeqFacts ==
  ASSUME NEW s, IsSeq(s)
  PROVE  Len(s) \in Nat /\ DOMAIN s = 1..Len(s) /\ (s = <<>> <=> Len(s) = 0)
BY DEF IsSeq

LEMMA SeqIsFunction ==
  ASSUME NEW s, IsSeq(s)
  PROVE  s = [i \in 1..Len(s) |-> s[i]]
BY DEF IsSeq

LEMMA FunctionIsSeq ==
  ASSUME NEW n \in Nat, NEW s, DOMAIN s = 1..n, s = [i \in 1..n |-> s[i]]
  PROVE  IsSeq(s) /\ Len(s) = n
<1>1. \A i \in 1..n : s[i] \in Range(s)
  BY DEF Range
<1>2. s \in [1..n -> Range(s)]
  BY <1>1
<1> QED BY <1>2 DEF IsSeq

LEMMA IsSeqIn ==
  ASSUME NEW S, NEW s \in Seq(S)
  PROVE  IsSeq(s)
<1>1. Len(s) \in Nat /\ DOMAIN s = 1..Len(s) /\ s = [i \in 1..Len(s) |-> s[i]]
  OBVIOUS
<1> QED BY <1>1, FunctionIsSeq

LEMMA EmptyIsSeq == IsSeq(<<>>) /\ Len(<<>>) = 0
<1>1. <<>> \in Seq({}) /\ Len(<<>>) = 0
  OBVIOUS
<1> QED BY <1>1, IsSeqIn

LEMMA AppendFacts ==
  ASSUME NEW s, IsSeq(s), NEW e
  PROVE  /\ IsSeq(Append(s, e)) /\ Len(Append(s, e)) = Len(s) + 1
         /\ \A i \in 1..Len(s) : Append(s, e)[i] = s[i]
         /\ Append(s, e)[Len(s) + 1] = e
<1> DEFINE S == Range(s) \cup {e}
           t == Append(s, e)
<1>1. s \in Seq(Range(s)) /\ Range(s) \subseteq S /\ e \in S
  BY DEF IsSeq
<1> HIDE DEF S
<1>2. s \in Seq(S)
  BY <1>1
<1>3. t \in Seq(S) /\ Len(t) = Len(s) + 1 /\ (\A i \in 1..Len(s) : t[i] = s[i]) /\ t[Len(s) + 1] = e
  BY <1>1, <1>2
<1>4. IsSeq(t)
  BY <1>3, IsSeqIn
<1> QED BY <1>3, <1>4

LEMMA TailFacts ==
  ASSUME NEW s, IsSeq(s), s # <<>>, NEW t, t = Tail(s)
  PROVE  /\ IsSeq(t) /\ Len(t) = Len(s) - 1 /\ Len(s) >= 1
         /\ \A i \in 1..Len(t) : t[i] = s[i + 1]
         /\ Head(s) = s[1]
<1>1. s \in Seq(Range(s))
  BY DEF IsSeq
<1>2. t \in Seq(Range(s)) /\ Len(t) = Len(s) - 1 /\ Len(s) >= 1 /\ (\A i \in 1..Len(t) : t[i] = s[i + 1]) /\ Head(s) = s[1]
  BY <1>1
<1> QED BY <1>2, IsSeqIn

(* A single message, followed by a sequence.                               *)
LEMMA ConsFacts ==
  ASSUME NEW m, NEW s, IsSeq(s)
  PROVE  /\ IsSeq(<<m>> \o s) /\ Len(<<m>> \o s) = Len(s) + 1
         /\ (<<m>> \o s)[1] = m /\ \A i \in 1..Len(s) : (<<m>> \o s)[i + 1] = s[i]
<1> DEFINE S == Range(s) \cup {m}
           t == <<m>> \o s
<1>1. s \in Seq(Range(s)) /\ Range(s) \subseteq S /\ m \in S
  BY DEF IsSeq
<1> HIDE DEF S
<1>2. s \in Seq(S) /\ <<m>> \in Seq(S) /\ Len(<<m>>) = 1 /\ <<m>>[1] = m
  BY <1>1
<1>3. t \in Seq(S) /\ Len(t) = Len(s) + 1 /\ t[1] = m /\ \A i \in 1..Len(s) : t[i + 1] = s[i]
  BY <1>2
<1>4. IsSeq(t)
  BY <1>3, IsSeqIn
<1> QED BY <1>3, <1>4

LEMMA MessagesFacts ==
  ASSUME NEW w, IsSeq(w)
  PROVE  /\ IsSeq(Messages(w)) /\ Len(Messages(w)) = Len(w)
         /\ \A i \in 1..Len(w) : Messages(w)[i] = w[i].msg
<1>1. Len(w) \in Nat
  BY SeqFacts
<1>2. DOMAIN Messages(w) = 1..Len(w) /\ \A i \in 1..Len(w) : Messages(w)[i] = w[i].msg
  BY DEF Messages
<1>3. Messages(w) = [i \in 1..Len(w) |-> Messages(w)[i]]
  BY DEF Messages
<1> QED BY <1>1, <1>2, <1>3, FunctionIsSeq

(* What SetToSeq makes of a finite set.                                    *)
LEMMA SetToSeqFacts ==
  ASSUME NEW S, IsFiniteSet(S)
  PROVE  IsSeq(SetToSeq(S))
<1>1. PICK n \in Nat : ExistsBijection(1..n, S)
  BY FS_NatBijection
<1>2. Cardinality(S) = n
  BY <1>1, FS_CountingElements
<1>3. \E f \in [1..Cardinality(S) -> S] : IsInjective(f)
  BY <1>1, <1>2 DEF ExistsBijection, Bijection, Injection, IsInjective
<1>4. SetToSeq(S) \in [1..Cardinality(S) -> S]
  BY <1>3 DEF SetToSeq
<1>5. SetToSeq(S) \in Seq(S)
  BY <1>2, <1>4
<1> QED BY <1>5, IsSeqIn

(* Induction over the numbers, for a set of them.                          *)
LEMMA Upwards ==
  ASSUME NEW S, 0 \in S, \A n \in Nat : n \in S => n + 1 \in S
  PROVE  Nat \subseteq S
<1> DEFINE R == OpToRel(<, Nat)
           T == Nat \ S
<1>1. IsWellFoundedOn(R, Nat)
  BY NatLessThanWellFounded
<1>2. SUFFICES ASSUME T # {} PROVE FALSE
  OBVIOUS
<1>3. T \subseteq Nat
  OBVIOUS
<1> HIDE DEF R, T
<1>4. PICK x \in T : \A y \in T : ~(<<y, x>> \in R)
  BY <1>1, <1>2, <1>3, WFMin
<1>5. x \in Nat /\ x # 0
  BY DEF T
<1>6. x - 1 \in Nat /\ (x - 1 \in S => x \in S)
  BY <1>5
<1>7. x - 1 \in T
  BY <1>4, <1>5, <1>6 DEF T
<1>8. <<x - 1, x>> \in R
  BY <1>5 DEF R, OpToRel
<1> QED BY <1>4, <1>7, <1>8

-----------------------------------------------------------------------------
(* What a sequence holds when it is begun, extended and shortened.         *)

LEMMA HoldsNothing ==
  ASSUME NEW s, IsSeq(s), s = <<>>, NEW lo \in Nat
  PROVE  Holds(s, lo, lo) /\ \A hi \in Nat : Holds(s, lo, hi) => lo = hi
<1>1. Len(s) = 0
  BY SeqFacts
<1>2. (0 + 1)..Len(s) = {}
  BY <1>1
<1>3. \A n \in lo..(lo - 1) : FALSE
  OBVIOUS
<1>4. Holds(s, lo, lo)
  BY <1>2, <1>3 DEF Holds, Rest
<1>5. ASSUME NEW hi \in Nat, Holds(s, lo, hi) PROVE lo = hi
  <2>1. lo <= hi /\ \A n \in lo..(hi - 1) : FALSE
    BY <1>2, <1>5 DEF Holds, Rest
  <2> QED BY <2>1
<1> QED BY <1>4, <1>5

LEMMA HoldsAppend ==
  ASSUME NEW s, IsSeq(s), NEW lo \in Nat, NEW hi \in Nat, Holds(s, lo, hi),
         NEW m, Known(m), IsEvent(m) => m.seq = hi, NEW t, t = Append(s, m)
  PROVE  IF IsEvent(m) THEN Holds(t, lo, hi + 1) ELSE Holds(t, lo, hi)
<1> DEFINE n == Len(s)
<1>1. /\ n \in Nat /\ Len(t) = n + 1 /\ IsSeq(t) /\ (\A i \in 1..n : t[i] = s[i]) /\ t[n + 1] = m
  <2>1. n \in Nat
    BY SeqFacts
  <2>2. /\ Len(t) = Len(s) + 1 /\ IsSeq(t) /\ (\A i \in 1..Len(s) : t[i] = s[i])
        /\ t[Len(s) + 1] = m
    BY AppendFacts
  <2> QED BY <2>1, <2>2
<1>2. /\ lo <= hi
      /\ \A j \in 1..n : IsEvent(s[j]) => s[j].seq \in lo..(hi - 1)
      /\ \A x \in lo..(hi - 1) : \E j \in 1..n : IsEvent(s[j]) /\ s[j].seq = x
      /\ \A j, k \in 1..n : j < k /\ IsEvent(s[j]) /\ IsEvent(s[k]) => s[j].seq < s[k].seq
      /\ \A j \in 1..n : Known(s[j])
  BY DEF Holds, Rest
<1> HIDE DEF n
<1>3. 0 + 1 = 1 /\ 1..Len(t) = 1..n \cup {n + 1}
  BY <1>1
<1>6. \A j \in 1..Len(t) : Known(t[j])
  BY <1>1, <1>2, <1>3
<1>4. CASE IsEvent(m)
  <2>1. m.seq = hi /\ lo..((hi + 1) - 1) = lo..(hi - 1) \cup {hi} /\ lo <= hi + 1
    BY <1>2, <1>4
  <2>2. \A j \in 1..Len(t) : IsEvent(t[j]) => t[j].seq \in lo..((hi + 1) - 1)
    BY <1>1, <1>2, <1>3, <2>1
  <2>3. \A x \in lo..((hi + 1) - 1) : \E j \in 1..Len(t) : IsEvent(t[j]) /\ t[j].seq = x
    BY <1>1, <1>2, <1>3, <1>4, <2>1
  <2>4. ASSUME NEW j \in 1..Len(t), NEW k \in 1..Len(t), j < k, IsEvent(t[j]), IsEvent(t[k])
        PROVE  t[j].seq < t[k].seq
    <3>1. j \in 1..n
      BY <1>1, <1>3, <2>4
    <3>2. CASE k \in 1..n
      BY <1>1, <1>2, <2>4, <3>1, <3>2
    <3>3. CASE k = n + 1
      <4>1. t[j] = s[j] /\ s[j].seq \in lo..(hi - 1) /\ t[k].seq = hi
        BY <1>1, <1>2, <2>1, <2>4, <3>1, <3>3
      <4> QED BY <4>1
    <3> QED BY <1>3, <3>2, <3>3
  <2> QED BY <1>3, <1>4, <1>6, <2>1, <2>2, <2>3, <2>4 DEF Holds, Rest
<1>5. CASE ~IsEvent(m)
  <2>1. \A j \in 1..Len(t) : IsEvent(t[j]) => j \in 1..n /\ t[j] = s[j]
    BY <1>1, <1>3, <1>5
  <2>2. \A j \in 1..n : j \in 1..Len(t) /\ t[j] = s[j]
    BY <1>1, <1>3
  <2> QED BY <1>2, <1>3, <1>5, <1>6, <2>1, <2>2 DEF Holds, Rest
<1> QED BY <1>4, <1>5

(* The first event is the one with the lowest number.                      *)
LEMMA RestNext ==
  ASSUME NEW s, IsSeq(s), NEW i \in Nat, i < Len(s), NEW lo \in Nat, NEW hi \in Nat, Rest(s, i, lo, hi)
  PROVE  /\ Known(s[i + 1])
         /\ IF IsEvent(s[i + 1]) THEN s[i + 1].seq = lo /\ Rest(s, i + 1, lo + 1, hi) ELSE Rest(s, i + 1, lo, hi)
<1> DEFINE n == Len(s)
           m == s[i + 1]
<1>1. n \in Nat
  BY SeqFacts
<1>2. /\ lo <= hi
      /\ \A j \in (i + 1)..n : IsEvent(s[j]) => s[j].seq \in lo..(hi - 1)
      /\ \A x \in lo..(hi - 1) : \E j \in (i + 1)..n : IsEvent(s[j]) /\ s[j].seq = x
      /\ \A j, k \in (i + 1)..n : j < k /\ IsEvent(s[j]) /\ IsEvent(s[k]) => s[j].seq < s[k].seq
      /\ \A j \in (i + 1)..n : Known(s[j])
  BY DEF Rest
<1> HIDE DEF n
<1>3. (i + 1)..n = {i + 1} \cup (i + 1 + 1)..n /\ i + 1 \notin (i + 1 + 1)..n
  BY <1>1 DEF n
<1>6. Known(m) /\ \A j \in (i + 1 + 1)..n : Known(s[j])
  BY <1>2, <1>3
<1>4. CASE IsEvent(m)
  <2>1. m.seq \in lo..(hi - 1)
    BY <1>2, <1>3, <1>4
  <2>2. PICK j \in (i + 1)..n : IsEvent(s[j]) /\ s[j].seq = lo
    <3>1. lo \in lo..(hi - 1)
      BY <2>1
    <3> QED BY <1>2, <3>1
  <2>3. j = i + 1
    <3>1. SUFFICES ASSUME j # i + 1 PROVE FALSE
      OBVIOUS
    <3>2. i + 1 < j /\ i + 1 \in (i + 1)..n
      BY <1>1, <1>3, <3>1
    <3>3. m.seq < lo
      BY <1>2, <1>4, <2>2, <3>2
    <3> QED BY <2>1, <3>3
  <2>4. m.seq = lo
    BY <2>2, <2>3
  <2>5. lo + 1 <= hi /\ (lo + 1)..(hi - 1) \subseteq lo..(hi - 1)
    BY <2>1
  <2>6. ASSUME NEW k \in (i + 1 + 1)..n, IsEvent(s[k]) PROVE s[k].seq \in (lo + 1)..(hi - 1)
    <3>1. i + 1 < k /\ i + 1 \in (i + 1)..n /\ k \in (i + 1)..n
      BY <1>1, <1>3, <2>6
    <3>2. m.seq < s[k].seq /\ s[k].seq \in lo..(hi - 1)
      BY <1>2, <1>4, <2>6, <3>1
    <3> QED BY <2>4, <3>2
  <2>7. ASSUME NEW x \in (lo + 1)..(hi - 1) PROVE \E k \in (i + 1 + 1)..n : IsEvent(s[k]) /\ s[k].seq = x
    <3>1. x \in lo..(hi - 1) /\ x # lo
      BY <2>7
    <3>2. PICK k \in (i + 1)..n : IsEvent(s[k]) /\ s[k].seq = x
      BY <1>2, <3>1
    <3>3. k # i + 1
      BY <2>4, <3>1, <3>2
    <3> QED BY <1>3, <3>2, <3>3
  <2>8. \A k, l \in (i + 1 + 1)..n : k < l /\ IsEvent(s[k]) /\ IsEvent(s[l]) => s[k].seq < s[l].seq
    BY <1>2, <1>3
  <2>9. Rest(s, i + 1, lo + 1, hi)
    BY <1>6, <2>5, <2>6, <2>7, <2>8 DEF Rest, n
  <2> QED BY <1>4, <1>6, <2>4, <2>9
<1>5. CASE ~IsEvent(m)
  <2>1. \A j \in (i + 1)..n : IsEvent(s[j]) => j \in (i + 1 + 1)..n
    BY <1>3, <1>5
  <2>2. Rest(s, i + 1, lo, hi)
    BY <1>2, <1>3, <1>6, <2>1 DEF Rest, n
  <2> QED BY <1>5, <1>6, <2>2
<1> QED BY <1>4, <1>5

LEMMA RestTail ==
  ASSUME NEW s, IsSeq(s), s # <<>>, NEW t, t = Tail(s), NEW lo \in Nat, NEW hi \in Nat, Rest(s, 1, lo, hi)
  PROVE  Holds(t, lo, hi)
<1> DEFINE n == Len(t)
<1>1. n \in Nat /\ Len(s) = n + 1 /\ IsSeq(t) /\ \A i \in 1..n : t[i] = s[i + 1]
  <2>1. IsSeq(t) /\ n = Len(s) - 1 /\ Len(s) \in Nat /\ \A i \in 1..n : t[i] = s[i + 1]
    BY TailFacts, SeqFacts
  <2>2. n \in Nat
    BY <2>1, SeqFacts
  <2> HIDE DEF n
  <2> QED BY <2>1, <2>2
<1>2. /\ lo <= hi
      /\ \A j \in 2..(n + 1) : IsEvent(s[j]) => s[j].seq \in lo..(hi - 1)
      /\ \A x \in lo..(hi - 1) : \E j \in 2..(n + 1) : IsEvent(s[j]) /\ s[j].seq = x
      /\ \A j, k \in 2..(n + 1) : j < k /\ IsEvent(s[j]) /\ IsEvent(s[k]) => s[j].seq < s[k].seq
      /\ \A j \in 2..(n + 1) : Known(s[j])
  <2>1. 1 + 1 = 2
    OBVIOUS
  <2> QED BY <1>1, <2>1 DEF Rest
<1> HIDE DEF n
<1>3. \A j \in 1..n : j + 1 \in 2..(n + 1)
  BY <1>1
<1>4. \A j \in 2..(n + 1) : j - 1 \in 1..n /\ (j - 1) + 1 = j
  BY <1>1
<1>5. \A j \in 1..n : IsEvent(t[j]) => t[j].seq \in lo..(hi - 1)
  BY <1>1, <1>2, <1>3
<1>6. ASSUME NEW x \in lo..(hi - 1) PROVE \E j \in 1..n : IsEvent(t[j]) /\ t[j].seq = x
  <2>1. PICK j \in 2..(n + 1) : IsEvent(s[j]) /\ s[j].seq = x
    BY <1>2
  <2>2. j - 1 \in 1..n /\ t[j - 1] = s[j]
    BY <1>1, <1>4
  <2> QED BY <2>1, <2>2
<1>7. ASSUME NEW j \in 1..n, NEW k \in 1..n, j < k, IsEvent(t[j]), IsEvent(t[k]) PROVE t[j].seq < t[k].seq
  <2>1. j + 1 \in 2..(n + 1) /\ k + 1 \in 2..(n + 1) /\ j + 1 < k + 1
    BY <1>1, <1>3, <1>7
  <2> QED BY <1>1, <1>2, <1>7, <2>1
<1>8. 0 + 1 = 1
  OBVIOUS
<1>9. \A j \in 1..n : Known(t[j])
  BY <1>1, <1>2, <1>3
<1> QED BY <1>2, <1>5, <1>6, <1>7, <1>8, <1>9 DEF Holds, Rest, n

LEMMA HoldsTail ==
  ASSUME NEW s, IsSeq(s), s # <<>>, NEW t, t = Tail(s), NEW lo \in Nat, NEW hi \in Nat, Holds(s, lo, hi)
  PROVE  /\ Known(s[1])
         /\ IF IsEvent(s[1]) THEN s[1].seq = lo /\ Holds(t, lo + 1, hi) ELSE Holds(t, lo, hi)
<1>1. 0 < Len(s) /\ 0 + 1 = 1
  BY TailFacts
<1>2. /\ Known(s[1])
      /\ IF IsEvent(s[1]) THEN s[1].seq = lo /\ Rest(s, 1, lo + 1, hi) ELSE Rest(s, 1, lo, hi)
  BY <1>1, RestNext DEF Holds
<1>3. lo + 1 \in Nat
  OBVIOUS
<1> QED BY <1>2, <1>3, RestTail

-----------------------------------------------------------------------------
(* Connections.                                                            *)
Fields == {"up", "out", "wait", "todo", "reqs", "busy", "closed", "sub", "cursor", "open", "asks"}
Shape(conn) == DOMAIN conn = Fields

(* What the sending of messages leaves alone.                              *)
Kept(conn, new) ==
  /\ Shape(new) /\ new.up = conn.up /\ new.sub = conn.sub /\ new.cursor = conn.cursor
  /\ new.reqs = conn.reqs /\ new.busy = conn.busy /\ new.open = conn.open /\ new.asks = conn.asks

(* While there is more to send, the pump waits for its turn.               *)
Ready(conn) == conn.todo # <<>> => Waiting(conn, "pump")

LEMMA KeptTwice ==
  ASSUME NEW x, NEW y, NEW z, Kept(x, y), Kept(y, z)
  PROVE  Kept(x, z)
BY DEF Kept

LEMMA OfferKeeps ==
  ASSUME NEW conn, Shape(conn), NEW by, NEW m, NEW r, r = Offer(conn, by, m)
  PROVE  Kept(conn, r) /\ r.todo = conn.todo
<1>1. CASE conn.wait = <<>> /\ Len(conn.out) < Capacity
  <2>1. r = [conn EXCEPT !.out = Append(conn.out, m)]
    BY <1>1 DEF Offer
  <2> QED BY <2>1 DEF Kept, Shape, Fields
<1>2. CASE ~(conn.wait = <<>> /\ Len(conn.out) < Capacity)
  <2>1. r = [conn EXCEPT !.wait = Append(conn.wait, [by |-> by, msg |-> m])]
    BY <1>2 DEF Offer
  <2> QED BY <2>1 DEF Kept, Shape, Fields
<1> QED BY <1>1, <1>2

LEMMA OfferIs ==
  ASSUME NEW conn, Shape(conn), NEW by, NEW m, NEW r, r = Offer(conn, by, m)
  PROVE  /\ Kept(conn, r) /\ r.todo = conn.todo
         /\ \/ conn.wait = <<>> /\ r.wait = conn.wait /\ r.out = Append(conn.out, m)
            \/ r.out = conn.out /\ r.wait = Append(conn.wait, [by |-> by, msg |-> m])
<1>1. CASE conn.wait = <<>> /\ Len(conn.out) < Capacity
  <2>1. r = [conn EXCEPT !.out = Append(conn.out, m)]
    BY <1>1 DEF Offer
  <2> QED BY <1>1, <2>1 DEF Kept, Shape, Fields
<1>2. CASE ~(conn.wait = <<>> /\ Len(conn.out) < Capacity)
  <2>1. r = [conn EXCEPT !.wait = Append(conn.wait, [by |-> by, msg |-> m])]
    BY <1>2 DEF Offer
  <2> QED BY <1>2, <2>1 DEF Kept, Shape, Fields
<1> QED BY <1>1, <1>2

(* Messages of what waits, with one more.                                  *)
LEMMA MessagesAppend ==
  ASSUME NEW w, IsSeq(w), NEW by, NEW m
  PROVE  Messages(Append(w, [by |-> by, msg |-> m])) = Append(Messages(w), m)
<1> DEFINE e == [by |-> by, msg |-> m]
           x == Append(w, e)
           y == Append(Messages(w), m)
           n == Len(w)
<1>1. /\ IsSeq(x) /\ Len(x) = n + 1 /\ (\A i \in 1..n : x[i] = w[i]) /\ x[n + 1] = e
  BY AppendFacts
<1>2. n \in Nat
  BY SeqFacts
<1>3. IsSeq(Messages(w)) /\ Len(Messages(w)) = n /\ \A i \in 1..n : Messages(w)[i] = w[i].msg
  BY MessagesFacts
<1>4. IsSeq(y) /\ Len(y) = n + 1 /\ (\A i \in 1..n : y[i] = w[i].msg) /\ y[n + 1] = m
  BY <1>3, AppendFacts
<1>5. IsSeq(Messages(x)) /\ Len(Messages(x)) = n + 1 /\ \A i \in 1..(n + 1) : Messages(x)[i] = x[i].msg
  BY <1>1, MessagesFacts
<1>6. e.msg = m
  OBVIOUS
<1> HIDE DEF e, x, y, n
<1>7. \A i \in 1..(n + 1) : Messages(x)[i] = y[i]
  <2>1. TAKE i \in 1..(n + 1)
  <2>2. CASE i = n + 1
    BY <1>1, <1>4, <1>5, <1>6, <2>2
  <2>3. CASE i # n + 1
    <3>1. i \in 1..n
      BY <1>2, <2>3
    <3> QED BY <1>1, <1>4, <1>5, <3>1
  <2> QED BY <2>2, <2>3
<1>8. Messages(x) = [i \in 1..(n + 1) |-> Messages(x)[i]]
  BY <1>5, SeqIsFunction
<1>9. y = [i \in 1..(n + 1) |-> y[i]]
  BY <1>4, SeqIsFunction
<1>10. Messages(x) = [i \in 1..(n + 1) |-> Messages(x)[i]] /\ y = [i \in 1..(n + 1) |-> y[i]]
  BY <1>8, <1>9
<1>11. Messages(x) = y
  BY <1>7, <1>10
<1> QED BY <1>11 DEF x, e, y

(* A message waits for its sender.                                         *)
LEMMA WaitingAppend ==
  ASSUME NEW conn, IsSeq(conn.wait), NEW by, NEW m, NEW r, r.wait = Append(conn.wait, [by |-> by, msg |-> m])
  PROVE  Waiting(r, by) /\ \A other : Waiting(conn, other) => Waiting(r, other)
<1> DEFINE n == Len(conn.wait)
<1>1. /\ IsSeq(r.wait) /\ Len(r.wait) = n + 1 /\ (\A i \in 1..n : r.wait[i] = conn.wait[i])
      /\ r.wait[n + 1] = [by |-> by, msg |-> m]
  BY AppendFacts
<1>2. n \in Nat /\ DOMAIN conn.wait = 1..n
  BY SeqFacts
<1>3. DOMAIN r.wait = 1..(n + 1)
  BY <1>1, SeqFacts
<1> HIDE DEF n
<1>4. n + 1 \in DOMAIN r.wait /\ r.wait[n + 1].by = by
  BY <1>1, <1>2, <1>3
<1>5. \A i \in DOMAIN conn.wait : i \in DOMAIN r.wait /\ r.wait[i] = conn.wait[i]
  BY <1>1, <1>2, <1>3
<1> QED BY <1>4, <1>5 DEF Waiting

-----------------------------------------------------------------------------
(* What is under way stays in order, whatever is offered.                  *)

LEMMA FlowSame ==
  ASSUME NEW conn, NEW lo, NEW hi, Flow(conn, lo, hi),
         NEW r, r.out = conn.out, r.wait = conn.wait, r.todo = conn.todo
  PROVE  Flow(r, lo, hi)
BY DEF Flow

(* Messages that are no events, by whomever.                               *)
LEMMA FlowOther ==
  ASSUME NEW conn, Shape(conn), NEW lo \in Nat, NEW hi \in Nat, Flow(conn, lo, hi),
         NEW by, NEW m, Known(m), ~IsEvent(m), NEW r, r = Offer(conn, by, m)
  PROVE  Flow(r, lo, hi)
<1>1. PICK a \in Nat, b \in Nat :
         Holds(conn.out, lo, a) /\ Holds(Messages(conn.wait), a, b) /\ Holds(conn.todo, b, hi)
  BY DEF Flow
<1>2. IsSeq(conn.out) /\ IsSeq(conn.wait) /\ IsSeq(conn.todo)
  BY DEF Flow
<1>3. /\ r.todo = conn.todo
      /\ \/ conn.wait = <<>> /\ r.wait = conn.wait /\ r.out = Append(conn.out, m)
         \/ r.out = conn.out /\ r.wait = Append(conn.wait, [by |-> by, msg |-> m])
  BY OfferIs
<1>4. CASE r.wait = conn.wait /\ r.out = Append(conn.out, m)
  <2>1. Holds(r.out, lo, a)
    BY <1>1, <1>2, <1>4, HoldsAppend
  <2>2. IsSeq(Append(conn.out, m))
    BY <1>2, AppendFacts
  <2> QED BY <1>1, <1>2, <1>3, <1>4, <2>1, <2>2 DEF Flow
<1>5. CASE r.out = conn.out /\ r.wait = Append(conn.wait, [by |-> by, msg |-> m])
  <2>1. Messages(r.wait) = Append(Messages(conn.wait), m) /\ IsSeq(Messages(conn.wait))
    BY <1>2, <1>5, MessagesAppend, MessagesFacts
  <2>2. Holds(Messages(r.wait), a, b)
    BY <1>1, <2>1, HoldsAppend
  <2>3. IsSeq(Append(conn.wait, [by |-> by, msg |-> m]))
    BY <1>2, AppendFacts
  <2> QED BY <1>1, <1>2, <1>3, <1>5, <2>2, <2>3 DEF Flow
<1> QED BY <1>3, <1>4, <1>5

(* The next event, when there is nothing more to send.                     *)
LEMMA FlowEvent ==
  ASSUME NEW conn, Shape(conn), NEW lo \in Nat, NEW hi \in Nat, Flow(conn, lo, hi), conn.todo = <<>>,
         NEW by, NEW m, IsEvent(m), m.seq = hi, NEW r, r = Offer(conn, by, m)
  PROVE  Flow(r, lo, hi + 1)
<1>7. Known(m)
  BY DEF Known, IsEvent
<1>1. PICK a \in Nat, b \in Nat :
         Holds(conn.out, lo, a) /\ Holds(Messages(conn.wait), a, b) /\ Holds(conn.todo, b, hi)
  BY DEF Flow
<1>2. IsSeq(conn.out) /\ IsSeq(conn.wait) /\ IsSeq(conn.todo) /\ hi + 1 \in Nat
  BY DEF Flow
<1>3. /\ r.todo = conn.todo
      /\ \/ conn.wait = <<>> /\ r.wait = conn.wait /\ r.out = Append(conn.out, m)
         \/ r.out = conn.out /\ r.wait = Append(conn.wait, [by |-> by, msg |-> m])
  BY OfferIs
<1>4. b = hi /\ Holds(r.todo, hi + 1, hi + 1)
  BY <1>1, <1>2, <1>3, HoldsNothing
<1>5. CASE conn.wait = <<>> /\ r.wait = conn.wait /\ r.out = Append(conn.out, m)
  <2>1. IsSeq(Messages(conn.wait)) /\ Messages(conn.wait) = <<>>
    <3>1. Len(conn.wait) = 0 /\ IsSeq(Messages(conn.wait)) /\ Len(Messages(conn.wait)) = Len(conn.wait)
      BY <1>2, <1>5, EmptyIsSeq, MessagesFacts
    <3> QED BY <3>1, SeqFacts
  <2>2. a = hi /\ Holds(Messages(r.wait), hi + 1, hi + 1)
    BY <1>1, <1>2, <1>4, <1>5, <2>1, HoldsNothing
  <2>3. Holds(conn.out, lo, hi)
    BY <1>1, <2>2
  <2>4. Holds(r.out, lo, hi + 1)
    BY <1>2, <1>5, <1>7, <2>3, HoldsAppend
  <2>5. IsSeq(r.out)
    BY <1>2, <1>5, AppendFacts
  <2> QED BY <1>2, <1>3, <1>4, <1>5, <2>2, <2>4, <2>5 DEF Flow
<1>6. CASE r.out = conn.out /\ r.wait = Append(conn.wait, [by |-> by, msg |-> m])
  <2>1. Messages(r.wait) = Append(Messages(conn.wait), m) /\ IsSeq(Messages(conn.wait))
    BY <1>2, <1>6, MessagesAppend, MessagesFacts
  <2>2. Holds(Messages(conn.wait), a, hi)
    BY <1>1, <1>4
  <2>3. Holds(Messages(r.wait), a, hi + 1)
    BY <1>7, <2>1, <2>2, HoldsAppend
  <2>4. IsSeq(r.wait)
    BY <1>2, <1>6, AppendFacts
  <2> QED BY <1>1, <1>2, <1>3, <1>4, <1>6, <2>3, <2>4 DEF Flow
<1> QED BY <1>3, <1>5, <1>6

(* The same of any message of the pump.                                    *)
LEMMA PumpItemIs ==
  ASSUME NEW conn, Shape(conn), NEW lo \in Nat, NEW hi \in Nat, Flow(conn, lo, hi), Ready(conn),
         NEW m, Known(m), IsEvent(m) => m.seq = hi, NEW r, r = PumpItem(conn, m)
  PROVE  /\ Kept(conn, r) /\ Ready(r)
         /\ IF IsEvent(m) THEN Flow(r, lo, hi + 1) ELSE Flow(r, lo, hi)
<1>1. CASE Waiting(conn, "pump")
  <2>1. r = [conn EXCEPT !.todo = Append(conn.todo, m)]
    BY <1>1 DEF PumpItem
  <2>2. Kept(conn, r) /\ r.out = conn.out /\ r.wait = conn.wait /\ r.todo = Append(conn.todo, m)
    BY <2>1 DEF Kept, Shape, Fields
  <2>3. Ready(r)
    BY <1>1, <2>2 DEF Ready, Waiting
  <2>4. PICK a \in Nat, b \in Nat :
          Holds(conn.out, lo, a) /\ Holds(Messages(conn.wait), a, b) /\ Holds(conn.todo, b, hi)
    BY DEF Flow
  <2>5. IsSeq(conn.out) /\ IsSeq(conn.wait) /\ IsSeq(conn.todo)
    BY DEF Flow
  <2>6. IF IsEvent(m) THEN Holds(r.todo, b, hi + 1) ELSE Holds(r.todo, b, hi)
    BY <2>2, <2>4, <2>5, HoldsAppend
  <2>7. IsSeq(r.todo)
    BY <2>2, <2>5, AppendFacts
  <2>8. CASE IsEvent(m)
    BY <2>2, <2>3, <2>4, <2>5, <2>6, <2>7, <2>8 DEF Flow
  <2>9. CASE ~IsEvent(m)
    BY <2>2, <2>3, <2>4, <2>5, <2>6, <2>7, <2>9 DEF Flow
  <2> QED BY <2>8, <2>9
<1>2. CASE ~Waiting(conn, "pump") /\ m.kind # "close"
  <2>1. r = Offer(conn, "pump", m) /\ conn.todo = <<>>
    BY <1>2 DEF PumpItem, Ready
  <2>2. Kept(conn, r) /\ r.todo = conn.todo
    BY <2>1, OfferKeeps
  <2>3. Ready(r)
    BY <2>1, <2>2 DEF Ready
  <2>4. CASE IsEvent(m)
    BY <2>1, <2>2, <2>3, <2>4, FlowEvent
  <2>5. CASE ~IsEvent(m)
    BY <2>1, <2>2, <2>3, <2>5, FlowOther
  <2> QED BY <2>4, <2>5
<1>3. CASE ~Waiting(conn, "pump") /\ m.kind = "close" /\ m.q \in conn.closed
  <2>1. r = conn /\ ~IsEvent(m)
    BY <1>3 DEF PumpItem, IsEvent
  <2> QED BY <2>1 DEF Kept
<1>4. CASE ~Waiting(conn, "pump") /\ m.kind = "close" /\ m.q \notin conn.closed
  <2> DEFINE marked == [conn EXCEPT !.closed = conn.closed \cup {m.q}]
  <2>1. r = Offer(marked, "pump", m) /\ ~IsEvent(m) /\ conn.todo = <<>>
    BY <1>4 DEF PumpItem, IsEvent, Ready
  <2>20. /\ marked.up = conn.up /\ marked.sub = conn.sub /\ marked.cursor = conn.cursor
         /\ marked.reqs = conn.reqs /\ marked.busy = conn.busy /\ marked.open = conn.open /\ marked.asks = conn.asks
         /\ DOMAIN marked = DOMAIN conn
    BY DEF Shape, Fields
  <2>21. marked.out = conn.out /\ marked.wait = conn.wait /\ marked.todo = conn.todo
    BY DEF Shape, Fields
  <2>2. Kept(conn, marked) /\ marked.out = conn.out /\ marked.wait = conn.wait /\ marked.todo = conn.todo
    BY <2>20, <2>21 DEF Kept, Shape
  <2> HIDE DEF marked
  <2>3. Shape(marked) /\ Flow(marked, lo, hi)
    BY <2>2, FlowSame DEF Kept
  <2>4. Kept(marked, r) /\ r.todo = marked.todo
    BY <2>1, <2>3, OfferKeeps
  <2>5. Flow(r, lo, hi)
    BY <2>1, <2>3, FlowOther
  <2>6. Kept(conn, r)
    BY <2>2, <2>4, KeptTwice
  <2> QED BY <2>1, <2>2, <2>4, <2>5, <2>6 DEF Ready
<1> QED BY <1>1, <1>2, <1>3, <1>4

(* Closing a question sends no event.                                      *)
LEMMA CloseQuestionIs ==
  ASSUME NEW conn, Shape(conn), NEW lo \in Nat, NEW hi \in Nat, Flow(conn, lo, hi),
         NEW q, NEW r, r = CloseQuestion(conn, q)
  PROVE  Kept(conn, r) /\ Flow(r, lo, hi)
<1>1. CASE q \in conn.closed
  BY <1>1 DEF CloseQuestion, Kept
<1>2. CASE q \notin conn.closed
  <2> DEFINE marked == [conn EXCEPT !.closed = conn.closed \cup {q}]
             m == Msg("close", q, -1)
  <2>1. r = Offer(marked, "other", m)
    BY <1>2 DEF CloseQuestion
  <2>20. /\ marked.up = conn.up /\ marked.sub = conn.sub /\ marked.cursor = conn.cursor
         /\ marked.reqs = conn.reqs /\ marked.busy = conn.busy /\ marked.open = conn.open /\ marked.asks = conn.asks
         /\ DOMAIN marked = DOMAIN conn
    BY DEF Shape, Fields
  <2>21. marked.out = conn.out /\ marked.wait = conn.wait /\ marked.todo = conn.todo
    BY DEF Shape, Fields
  <2>2. Kept(conn, marked) /\ marked.out = conn.out /\ marked.wait = conn.wait /\ marked.todo = conn.todo
    BY <2>20, <2>21 DEF Kept, Shape
  <2>3. ~IsEvent(m) /\ Known(m)
    BY DEF Msg, IsEvent, Known
  <2> HIDE DEF marked, m
  <2>4. Shape(marked) /\ Flow(marked, lo, hi)
    BY <2>2, FlowSame DEF Kept
  <2>5. Kept(marked, r)
    BY <2>1, <2>4, OfferKeeps
  <2>6. Flow(r, lo, hi)
    BY <2>1, <2>3, <2>4, FlowOther
  <2> QED BY <2>2, <2>5, <2>6, KeptTwice
<1> QED BY <1>1, <1>2

-----------------------------------------------------------------------------
(* Many messages of the pump, one after the other.                         *)
Sent(conn, items, n, f) == f = [i \in 0..n |-> IF i = 0 THEN conn ELSE PumpItem(f[i-1], items[i])]

LEMMA PumpItemsIs ==
  ASSUME NEW conn, NEW items
  PROVE  PumpItems(conn, items) = (CHOOSE f : Sent(conn, items, Len(items), f))[Len(items)]
BY DEF PumpItems, Sent

LEMMA SentExists ==
  ASSUME NEW conn, NEW items, NEW n \in Nat
  PROVE  \E f : Sent(conn, items, n, f)
<1> DEFINE S == {m \in Nat : \E f : Sent(conn, items, m, f)}
<1>1. 0 \in S
  <2> DEFINE f == [i \in 0..0 |-> conn]
  <2>1. Sent(conn, items, 0, f)
    BY DEF Sent
  <2> QED BY <2>1
<1>2. ASSUME NEW m \in Nat, m \in S PROVE m + 1 \in S
  <2>1. PICK f : Sent(conn, items, m, f)
    BY <1>2
  <2> DEFINE g == [i \in 0..(m + 1) |-> IF i = m + 1 THEN PumpItem(f[m], items[m + 1]) ELSE f[i]]
  <2>2. \A i \in 0..m : f[i] = IF i = 0 THEN conn ELSE PumpItem(f[i-1], items[i])
    BY <2>1 DEF Sent
  <2>3. g = [i \in 0..(m + 1) |-> IF i = 0 THEN conn ELSE PumpItem(g[i-1], items[i])]
    <3>1. ASSUME NEW i \in 0..(m + 1) PROVE g[i] = IF i = 0 THEN conn ELSE PumpItem(g[i-1], items[i])
      <4>1. CASE i = m + 1
        <5>1. i - 1 = m /\ i - 1 \in 0..(m + 1) /\ i # 0
          BY <4>1
        <5>2. g[i - 1] = f[m]
          BY <5>1
        <5> QED BY <4>1, <5>1, <5>2
      <4>2. CASE i # m + 1 /\ i # 0
        <5>1. i - 1 \in 0..(m + 1) /\ i - 1 # m + 1 /\ i \in 0..m
          BY <4>2
        <5>2. g[i] = f[i] /\ g[i - 1] = f[i - 1]
          BY <4>2, <5>1
        <5> QED BY <2>2, <4>2, <5>1, <5>2
      <4>3. CASE i = 0
        BY <2>2, <4>3
      <4> QED BY <4>1, <4>2, <4>3
    <3> HIDE DEF g
    <3>2. g = [i \in 0..(m + 1) |-> g[i]]
      BY DEF g
    <3> QED BY <3>1, <3>2
  <2>4. Sent(conn, items, m + 1, g)
    BY <2>3 DEF Sent
  <2> QED BY <2>4
<1> HIDE DEF S
<1>3. Nat \subseteq S
  BY <1>1, <1>2, Upwards
<1> QED BY <1>3 DEF S

(* What is sent so far, and what is left to send.                          *)
Halfway(conn, now, items, i, lo, hi) ==
  /\ Kept(conn, now) /\ Ready(now)
  /\ \E g \in Nat : Flow(now, lo, g) /\ Rest(items, i, g, hi)

LEMMA PumpItemsFlow ==
  ASSUME NEW conn, Shape(conn), Ready(conn), NEW items, IsSeq(items),
         NEW lo \in Nat, NEW g \in Nat, NEW hi \in Nat, Flow(conn, lo, g), Holds(items, g, hi),
         NEW r, r = PumpItems(conn, items)
  PROVE  Kept(conn, r) /\ Ready(r) /\ Flow(r, lo, hi)
<1> DEFINE n == Len(items)
           f == CHOOSE x : Sent(conn, items, n, x)
           S == {i \in Nat : i <= n => Halfway(conn, f[i], items, i, lo, hi)}
<1>1. n \in Nat
  BY SeqFacts
<1>2. Sent(conn, items, n, f)
  <2> HIDE DEF n
  <2> QED BY <1>1, SentExists
<1>3. r = f[n]
  BY PumpItemsIs
<1> HIDE DEF f
<1>4. \A i \in 0..n : f[i] = IF i = 0 THEN conn ELSE PumpItem(f[i-1], items[i])
  BY <1>2 DEF Sent
<1>5. 0 \in S
  <2>1. f[0] = conn
    BY <1>1, <1>4
  <2>2. Kept(conn, f[0]) /\ Ready(f[0]) /\ Flow(f[0], lo, g) /\ Rest(items, 0, g, hi)
    BY <2>1 DEF Kept, Holds
  <2> QED BY <2>2 DEF Halfway
<1>6. ASSUME NEW i \in Nat, i \in S PROVE i + 1 \in S
  <2>1. SUFFICES ASSUME i + 1 <= n PROVE Halfway(conn, f[i + 1], items, i + 1, lo, hi)
    OBVIOUS
  <2>2. i < n /\ i + 1 \in 0..n /\ i + 1 # 0 /\ (i + 1) - 1 = i
    BY <1>1, <2>1
  <2>3. f[i + 1] = PumpItem(f[i], items[i + 1])
    BY <1>4, <2>2
  <2>4. Halfway(conn, f[i], items, i, lo, hi)
    BY <1>1, <1>6, <2>2
  <2>5. PICK h \in Nat : Flow(f[i], lo, h) /\ Rest(items, i, h, hi)
    BY <2>4 DEF Halfway
  <2> DEFINE now == f[i]
             m == items[i + 1]
             new == f[i + 1]
  <2>6. /\ Known(m)
        /\ IF IsEvent(m) THEN m.seq = h /\ Rest(items, i + 1, h + 1, hi) ELSE Rest(items, i + 1, h, hi)
    BY <2>2, <2>5, RestNext
  <2>7. Kept(conn, now) /\ Shape(now) /\ Ready(now) /\ Flow(now, lo, h) /\ new = PumpItem(now, m)
    BY <2>3, <2>4, <2>5 DEF Halfway, Kept
  <2> HIDE DEF now, m, new
  <2>8. /\ Kept(now, new) /\ Ready(new)
        /\ IF IsEvent(m) THEN Flow(new, lo, h + 1) ELSE Flow(new, lo, h)
    BY <2>6, <2>7, PumpItemIs
  <2>9. Kept(conn, new)
    BY <2>7, <2>8, KeptTwice
  <2>10. Halfway(conn, new, items, i + 1, lo, hi)
    <3>1. CASE IsEvent(m)
      <4>1. h + 1 \in Nat
        OBVIOUS
      <4> QED BY <2>6, <2>8, <2>9, <3>1, <4>1 DEF Halfway
    <3>2. CASE ~IsEvent(m)
      BY <2>6, <2>8, <2>9, <3>2 DEF Halfway
    <3> QED BY <3>1, <3>2
  <2> QED BY <2>10 DEF new
<1> HIDE DEF S
<1>7. n \in S
  BY <1>1, <1>5, <1>6, Upwards
<1>8. Halfway(conn, r, items, n, lo, hi)
  BY <1>1, <1>3, <1>7 DEF S
<1>9. PICK h \in Nat : Flow(r, lo, h) /\ Rest(items, n, h, hi)
  BY <1>8 DEF Halfway
<1>10. h = hi
  <2>1. h <= hi /\ \A x \in h..(hi - 1) : \E j \in (n + 1)..n : items[j].seq = x
    BY <1>9 DEF Rest
  <2>2. (n + 1)..n = {}
    BY <1>1
  <2> QED BY <2>1, <2>2
<1> QED BY <1>8, <1>9, <1>10 DEF Halfway

-----------------------------------------------------------------------------
(* A connection that has its subscription, with n events in the journal,   *)
(* carries what its client has not seen up to the cursor of the pump; one  *)
(* that has not yet will ask for it from where the client is.              *)
Books(conn, n) ==
  /\ conn.reqs = <<>> \/ (conn.reqs = <<Head(conn.reqs)>> /\ Head(conn.reqs).kind # "subscribe")
  /\ IsSeq(conn.asks) /\ \A i \in 1..Len(conn.asks) : Known(conn.asks[i]) /\ ~IsEvent(conn.asks[i])
  /\ IsFiniteSet(conn.open)
  /\ conn.cursor \in Nat /\ conn.cursor <= n
Live(conn, next, n) == Books(conn, n) /\ Flow(conn, next, conn.cursor)
Fresh(conn, next) ==
  /\ conn.reqs = <<[kind |-> "subscribe", from |-> next]>>
  /\ conn.out = <<>> /\ conn.wait = <<>> /\ conn.todo = <<>> /\ conn.busy = <<>>
Connection(conn, next, n) ==
  /\ Shape(conn)
  /\ conn.up /\ conn.sub => Live(conn, next, n)
  /\ conn.up /\ ~conn.sub => Fresh(conn, next)

ClientFields == {"next", "got", "pending", "shown", "keys", "acks", "hint"}
Client(m, n) ==
  /\ DOMAIN m = ClientFields
  /\ m.next \in Nat /\ m.next <= n
  /\ m.got = 0..m.next-1

Good(cs, ms, n) ==
  /\ DOMAIN cs = Clients /\ DOMAIN ms = Clients
  /\ \A c \in Clients : Connection(cs[c], ms[c].next, n) /\ Client(ms[c], n)

Inv == IsSeq(log) /\ Good(conns, clients, NextSeq)

(* Sending keeps the books.                                                *)
LEMMA LiveKept ==
  ASSUME NEW x, NEW n, Books(x, n), x.up, x.sub,
         NEW r, Kept(x, r), NEW next, Flow(r, next, x.cursor)
  PROVE  Connection(r, next, n)
<1>1. Shape(r) /\ r.up = x.up /\ r.sub = x.sub /\ r.cursor = x.cursor
  BY DEF Kept
<1>2. r.reqs = x.reqs /\ r.open = x.open /\ r.asks = x.asks
  BY DEF Kept
<1>3. Books(r, n)
  BY <1>1, <1>2 DEF Books
<1>4. Flow(r, next, r.cursor)
  BY <1>1
<1> QED BY <1>1, <1>3, <1>4 DEF Connection, Live

LEMMA LongerJournal ==
  ASSUME NEW cs, NEW ms, NEW n \in Nat, Good(cs, ms, n)
  PROVE  Good(cs, ms, n + 1)
<1>1. ASSUME NEW c \in Clients PROVE Connection(cs[c], ms[c].next, n + 1) /\ Client(ms[c], n + 1)
  <2> DEFINE conn == cs[c]
             next == ms[c].next
             m == ms[c]
  <2>1. Connection(conn, next, n) /\ Client(m, n)
    BY DEF Good
  <2> HIDE DEF conn, next, m
  <2>2. Client(m, n + 1)
    BY <2>1 DEF Client
  <2>3. Books(conn, n) => Books(conn, n + 1)
    <3>1. conn.cursor \in Nat /\ conn.cursor <= n => conn.cursor <= n + 1
      OBVIOUS
    <3> QED BY <3>1 DEF Books
  <2>4. Connection(conn, next, n + 1)
    BY <2>1, <2>3 DEF Connection, Live
  <2> QED BY <2>2, <2>4 DEF conn, next, m
<1> QED BY <1>1 DEF Good

LEMMA OneConnection ==
  ASSUME NEW cs, NEW ms, NEW n, Good(cs, ms, n), NEW c \in Clients, NEW r, Connection(r, ms[c].next, n)
  PROVE  Good([cs EXCEPT ![c] = r], ms, n)
BY DEF Good

LEMMA OneClient ==
  ASSUME NEW cs, NEW ms, NEW n, Good(cs, ms, n), NEW c \in Clients, NEW m, Client(m, n), m.next = ms[c].next
  PROVE  Good(cs, [ms EXCEPT ![c] = m], n)
BY DEF Good

LEMMA Both ==
  ASSUME NEW cs, NEW ms, NEW n, Good(cs, ms, n), NEW c \in Clients,
         NEW r, NEW m, Connection(r, m.next, n), Client(m, n)
  PROVE  Good([cs EXCEPT ![c] = r], [ms EXCEPT ![c] = m], n)
BY DEF Good

LEMMA NoConnection == ASSUME NEW next, NEW n PROVE Connection(NoConn, next, n)
BY DEF Connection, Shape, NoConn, Fields

(* Messages that are no events, all of them.                               *)
LEMMA NoEvents ==
  ASSUME NEW s, IsSeq(s), \A i \in 1..Len(s) : Known(s[i]) /\ ~IsEvent(s[i]), NEW n \in Nat
  PROVE  Holds(s, n, n)
<1>1. n..(n - 1) = {} /\ 0 + 1 = 1
  OBVIOUS
<1> QED BY <1>1 DEF Holds, Rest

(* A connection without messages is even.                                  *)
LEMMA FlowNothing ==
  ASSUME NEW conn, conn.out = <<>>, conn.wait = <<>>, conn.todo = <<>>, NEW n \in Nat
  PROVE  Flow(conn, n, n) /\ \A hi \in Nat : Flow(conn, n, hi) => n = hi
<1>1. IsSeq(conn.out) /\ IsSeq(conn.wait) /\ IsSeq(conn.todo)
  BY EmptyIsSeq
<1>2. IsSeq(Messages(conn.wait)) /\ Messages(conn.wait) = <<>>
  <2>1. Len(conn.wait) = 0 /\ IsSeq(Messages(conn.wait)) /\ Len(Messages(conn.wait)) = Len(conn.wait)
    BY <1>1, EmptyIsSeq, MessagesFacts
  <2> QED BY <2>1, SeqFacts
<1>3. Holds(conn.out, n, n) /\ Holds(Messages(conn.wait), n, n) /\ Holds(conn.todo, n, n)
  BY <1>1, <1>2, HoldsNothing
<1>4. Flow(conn, n, n)
  BY <1>1, <1>3 DEF Flow
<1>5. ASSUME NEW hi \in Nat, Flow(conn, n, hi) PROVE n = hi
  <2>1. PICK a \in Nat, b \in Nat :
          Holds(conn.out, n, a) /\ Holds(Messages(conn.wait), a, b) /\ Holds(conn.todo, b, hi)
    BY <1>5 DEF Flow
  <2>2. n = a
    BY <1>1, <2>1, HoldsNothing
  <2>3. a = b
    BY <1>2, <2>1, HoldsNothing
  <2>4. b = hi
    BY <1>1, <2>1, HoldsNothing
  <2> QED BY <2>2, <2>3, <2>4
<1> QED BY <1>4, <1>5

-----------------------------------------------------------------------------
(* The pump.                                                               *)

(* Of what a step starts from: a connection and its client.                *)
LEMMA At ==
  ASSUME Inv, NEW c \in Clients
  PROVE  /\ Connection(conns[c], clients[c].next, NextSeq) /\ Client(clients[c], NextSeq)
         /\ clients[c].next \in Nat /\ NextSeq \in Nat
BY SeqFacts DEF Inv, Good, Client, NextSeq

LEMMA SubscribedAt ==
  ASSUME Inv, NEW c \in Clients, conns[c].up, conns[c].sub
  PROVE  /\ Shape(conns[c]) /\ Books(conns[c], NextSeq) /\ conns[c].cursor \in Nat
         /\ Flow(conns[c], clients[c].next, conns[c].cursor)
BY At DEF Connection, Live, Books

LEMMA BehindIs ==
  ASSUME NEW conn, conn.cursor \in Nat, Len(log) \in Nat
  PROVE  Behind(conn) <=> conn.cursor < NextSeq
BY ServerAssumption DEF Behind, Fetch, InMemory, Oldest, NextSeq

(* Which questions are followed stays finite.                              *)
LEMMA FollowedFinite ==
  ASSUME NEW open, IsFiniteSet(open), NEW e
  PROVE  IsFiniteSet(Closes(open, e)) /\ IsFiniteSet(Tracked(open, e))
<1>1. IsFiniteSet({}) /\ IsFiniteSet({e.q})
  BY FS_EmptySet, FS_Singleton
<1>2. IsFiniteSet(Closes(open, e))
  BY <1>1 DEF Closes
<1>3. IsFiniteSet(open \cup {e.q})
  BY FS_AddElement
<1>4. open \ Closes(open, e) \subseteq open
  OBVIOUS
<1>5. IsFiniteSet(open \ Closes(open, e))
  BY <1>4, FS_Subset
<1> QED BY <1>2, <1>3, <1>5 DEF Tracked

(* A list of messages about questions.                                     *)
LEMMA ListFacts ==
  ASSUME NEW s, IsSeq(s), NEW kind \in {"close", "question"}, NEW n,
         NEW items, items = [i \in DOMAIN s |-> Msg(kind, s[i], n)]
  PROVE  IsSeq(items) /\ \A i \in 1..Len(items) : Known(items[i]) /\ ~IsEvent(items[i])
<1>1. DOMAIN s = 1..Len(s) /\ Len(s) \in Nat
  BY SeqFacts
<1>2. DOMAIN items = 1..Len(s) /\ items = [i \in 1..Len(s) |-> items[i]]
  BY <1>1
<1>3. IsSeq(items) /\ Len(items) = Len(s)
  BY <1>1, <1>2, FunctionIsSeq
<1>4. \A i \in 1..Len(items) : items[i].kind = kind
  BY <1>1, <1>3 DEF Msg
<1>5. \A i \in 1..Len(items) : Known(items[i]) /\ ~IsEvent(items[i])
  BY <1>4 DEF Known, IsEvent
<1> QED BY <1>3, <1>5

(* An event and messages about questions after it.                         *)
LEMMA EventFirst ==
  ASSUME NEW s, IsSeq(s), \A i \in 1..Len(s) : Known(s[i]) /\ ~IsEvent(s[i]),
         NEW m, IsEvent(m), NEW n \in Nat, m.seq = n, NEW items, items = <<m>> \o s
  PROVE  IsSeq(items) /\ Holds(items, n, n + 1)
<1>1. IsSeq(items) /\ Len(items) = Len(s) + 1 /\ items[1] = m /\ \A i \in 1..Len(s) : items[i + 1] = s[i]
  BY ConsFacts
<1>2. Len(s) \in Nat
  BY SeqFacts
<1>3. \A j \in 2..Len(items) : Known(items[j]) /\ ~IsEvent(items[j])
  <2>1. TAKE j \in 2..Len(items)
  <2>2. j - 1 \in 1..Len(s) /\ (j - 1) + 1 = j
    BY <1>1, <1>2
  <2> QED BY <1>1, <2>2
<1>4. 1..Len(items) = {1} \cup 2..Len(items) /\ n..((n + 1) - 1) = {n} /\ 0 + 1 = 1
  BY <1>1, <1>2
<1>5. \A j \in 1..Len(items) : Known(items[j])
  BY <1>1, <1>3, <1>4 DEF Known, IsEvent
<1>6. \A j \in 1..Len(items) : IsEvent(items[j]) => j = 1 /\ items[j].seq = n
  BY <1>1, <1>3, <1>4
<1>7. \A x \in n..((n + 1) - 1) : \E j \in 1..Len(items) : IsEvent(items[j]) /\ items[j].seq = x
  BY <1>1, <1>4
<1>8. \A j, k \in 1..Len(items) : j < k /\ IsEvent(items[j]) /\ IsEvent(items[k]) => items[j].seq < items[k].seq
  BY <1>6
<1> QED BY <1>1, <1>4, <1>5, <1>6, <1>7, <1>8 DEF Holds, Rest

LEMMA StepPumpEvent ==
  ASSUME Inv, NEW c \in Clients, PumpEvent(c)
  PROVE  Inv'
<1> DEFINE conn   == conns[c]
           next   == clients[c].next
           e      == log[conn.cursor + 1]
           closes == SetToSeq(Closes(conn.open, e))
           first  == [kind |-> "event", q |-> e.q, seq |-> conn.cursor, event |-> e.kind]
           after  == [i \in DOMAIN closes |-> Msg("close", closes[i], conn.cursor + 1)]
           items  == <<first>> \o after
           open   == Tracked(conn.open, e)
           x      == [conn EXCEPT !.cursor = conn.cursor + 1, !.open = open]
           r      == PumpItems(x, items)
<1>1. /\ conn.up /\ conn.sub /\ conn.todo = <<>> /\ ~Waiting(conn, "pump") /\ Behind(conn)
      /\ conns' = [conns EXCEPT ![c] = r] /\ clients' = clients /\ log' = log
  BY DEF PumpEvent, Pumps
<1>2. Shape(conn) /\ Books(conn, NextSeq) /\ conn.cursor \in Nat /\ Flow(conn, next, conn.cursor)
  BY <1>1, SubscribedAt
<1>3. next \in Nat /\ NextSeq \in Nat /\ Good(conns, clients, NextSeq)
  BY At DEF Inv
<1>4. conn.cursor < NextSeq
  BY <1>1, <1>2, <1>3, BehindIs DEF NextSeq
<1>5. IsFiniteSet(Closes(conn.open, e)) /\ IsFiniteSet(open)
  BY <1>2, FollowedFinite DEF Books
<1>6. IsSeq(closes)
  BY <1>5, SetToSeqFacts
<1> HIDE DEF closes
<1>7. IsSeq(after) /\ \A i \in 1..Len(after) : Known(after[i]) /\ ~IsEvent(after[i])
  BY <1>6, ListFacts
<1>8. IsEvent(first) /\ first.seq = conn.cursor
  BY DEF IsEvent
<1> HIDE DEF first, after
<1>9. IsSeq(items) /\ Holds(items, conn.cursor, conn.cursor + 1)
  BY <1>2, <1>7, <1>8, EventFirst
<1> HIDE DEF items, open
<1>10. /\ Shape(x) /\ x.out = conn.out /\ x.wait = conn.wait /\ x.todo = conn.todo
       /\ x.cursor = conn.cursor + 1 /\ x.open = open
  BY <1>2 DEF Shape, Fields
<1>11. x.reqs = conn.reqs /\ x.asks = conn.asks /\ x.up /\ x.sub
  BY <1>1, <1>2 DEF Shape, Fields
<1> HIDE DEF x
<1>12. Books(x, NextSeq)
  <2>1. x.cursor \in Nat /\ x.cursor <= NextSeq
    BY <1>2, <1>3, <1>4, <1>10
  <2> QED BY <1>2, <1>5, <1>10, <1>11, <2>1 DEF Books
<1>13. Flow(x, next, conn.cursor) /\ Ready(x) /\ conn.cursor + 1 \in Nat
  BY <1>1, <1>2, <1>10, FlowSame DEF Ready
<1>14. Kept(x, r) /\ Flow(r, next, conn.cursor + 1)
  BY <1>2, <1>3, <1>9, <1>10, <1>13, PumpItemsFlow
<1> HIDE DEF r
<1>15. Connection(r, next, NextSeq)
  BY <1>10, <1>11, <1>12, <1>14, LiveKept
<1>16. Good(conns', clients, NextSeq)
  BY <1>1, <1>3, <1>15, OneConnection
<1> QED BY <1>1, <1>16 DEF Inv, NextSeq

LEMMA StepPumpAsk ==
  ASSUME Inv, NEW c \in Clients, PumpAsk(c)
  PROVE  Inv'
<1> DEFINE conn == conns[c]
           next == clients[c].next
           asks == Tail(conn.asks)
           m    == Head(conn.asks)
           x    == [conn EXCEPT !.asks = asks]
           r    == PumpItem(x, m)
<1>1. /\ conn.up /\ conn.sub /\ conn.todo = <<>> /\ conn.asks # <<>>
      /\ conns' = [conns EXCEPT ![c] = r] /\ clients' = clients /\ log' = log
  BY DEF PumpAsk, Pumps
<1>2. Shape(conn) /\ Books(conn, NextSeq) /\ conn.cursor \in Nat /\ Flow(conn, next, conn.cursor)
  BY <1>1, SubscribedAt
<1>3. next \in Nat /\ NextSeq \in Nat /\ Good(conns, clients, NextSeq)
  BY At DEF Inv
<1>4. IsSeq(conn.asks) /\ \A i \in 1..Len(conn.asks) : Known(conn.asks[i]) /\ ~IsEvent(conn.asks[i])
  BY <1>2 DEF Books
<1>5. /\ IsSeq(asks) /\ Len(asks) = Len(conn.asks) - 1 /\ Len(conn.asks) >= 1 /\ Len(conn.asks) \in Nat
      /\ (\A i \in 1..Len(asks) : asks[i] = conn.asks[i + 1]) /\ m = conn.asks[1]
  BY <1>1, <1>4, TailFacts, SeqFacts
<1>6. Known(m) /\ ~IsEvent(m)
  BY <1>4, <1>5
<1>7. \A i \in 1..Len(asks) : Known(asks[i]) /\ ~IsEvent(asks[i])
  <2>1. TAKE i \in 1..Len(asks)
  <2>2. i + 1 \in 1..Len(conn.asks)
    BY <1>5
  <2> QED BY <1>4, <1>5, <2>2
<1> HIDE DEF asks, m
<1>8. /\ Shape(x) /\ x.out = conn.out /\ x.wait = conn.wait /\ x.todo = conn.todo
      /\ x.cursor = conn.cursor /\ x.open = conn.open
  BY <1>2 DEF Shape, Fields
<1>9. x.reqs = conn.reqs /\ x.asks = asks /\ x.up /\ x.sub
  BY <1>1, <1>2 DEF Shape, Fields
<1> HIDE DEF x
<1>10. Books(x, NextSeq)
  BY <1>2, <1>5, <1>7, <1>8, <1>9 DEF Books
<1>11. Flow(x, next, conn.cursor) /\ Ready(x)
  BY <1>1, <1>2, <1>8, FlowSame DEF Ready
<1>12. Kept(x, r) /\ Flow(r, next, x.cursor)
  BY <1>2, <1>3, <1>6, <1>8, <1>11, PumpItemIs
<1> HIDE DEF r
<1>13. Connection(r, next, NextSeq)
  BY <1>9, <1>10, <1>12, LiveKept
<1>14. Good(conns', clients, NextSeq)
  BY <1>1, <1>3, <1>13, OneConnection
<1> QED BY <1>1, <1>14 DEF Inv, NextSeq

LEMMA StepPumpOn ==
  ASSUME Inv, NEW c \in Clients, PumpOn(c)
  PROVE  Inv'
<1> DEFINE conn == conns[c]
           next == clients[c].next
           x    == [conn EXCEPT !.todo = <<>>]
           r    == PumpItems(x, conn.todo)
<1>1. /\ conn.up /\ conn.todo # <<>>
      /\ conns' = [conns EXCEPT ![c] = r] /\ clients' = clients /\ log' = log
  BY DEF PumpOn
<1>2. conn.sub
  BY <1>1, At DEF Connection, Fresh
<1>3. Shape(conn) /\ Books(conn, NextSeq) /\ conn.cursor \in Nat /\ Flow(conn, next, conn.cursor)
  BY <1>1, <1>2, SubscribedAt
<1>4. next \in Nat /\ NextSeq \in Nat /\ Good(conns, clients, NextSeq)
  BY At DEF Inv
<1>5. /\ Shape(x) /\ x.out = conn.out /\ x.wait = conn.wait /\ x.todo = <<>>
      /\ x.cursor = conn.cursor /\ x.open = conn.open
  BY <1>3 DEF Shape, Fields
<1>6. x.reqs = conn.reqs /\ x.asks = conn.asks /\ x.up /\ x.sub
  BY <1>1, <1>2, <1>3 DEF Shape, Fields
<1> HIDE DEF x
<1>7. Books(x, NextSeq) /\ Ready(x)
  BY <1>3, <1>5, <1>6 DEF Books, Ready
<1>8. PICK a \in Nat, b \in Nat :
         Holds(conn.out, next, a) /\ Holds(Messages(conn.wait), a, b) /\ Holds(conn.todo, b, conn.cursor)
  BY <1>3 DEF Flow
<1>9. IsSeq(conn.out) /\ IsSeq(conn.wait) /\ IsSeq(conn.todo)
  BY <1>3 DEF Flow
<1>10. Holds(x.todo, b, b) /\ IsSeq(x.todo)
  BY <1>5, EmptyIsSeq, HoldsNothing
<1>11. Flow(x, next, b)
  BY <1>5, <1>8, <1>9, <1>10 DEF Flow
<1>12. Kept(x, r) /\ Flow(r, next, x.cursor)
  BY <1>3, <1>4, <1>5, <1>7, <1>8, <1>9, <1>11, PumpItemsFlow
<1> HIDE DEF r
<1>13. Connection(r, next, NextSeq)
  BY <1>6, <1>7, <1>12, LiveKept
<1>14. Good(conns', clients, NextSeq)
  BY <1>1, <1>4, <1>13, OneConnection
<1> QED BY <1>1, <1>14 DEF Inv, NextSeq

-----------------------------------------------------------------------------
(* Requests.                                                               *)

(* The request of a connection that has no subscription yet asks for it.   *)
LEMMA RequestOf ==
  ASSUME Inv, NEW c \in Clients, NEW kind, Request(c, kind)
  PROVE  /\ conns[c].up /\ Shape(conns[c])
         /\ kind # "subscribe" => conns[c].sub /\ conns[c].reqs = <<Head(conns[c].reqs)>>
         /\ kind = "subscribe" => ~conns[c].sub /\ Fresh(conns[c], clients[c].next)
<1>1. /\ conns[c].up /\ conns[c].reqs # <<>> /\ Head(conns[c].reqs).kind = kind
      /\ Connection(conns[c], clients[c].next, NextSeq)
  BY At DEF Request
<1>2. CASE conns[c].sub
  BY <1>1, <1>2 DEF Connection, Live, Books
<1>3. CASE ~conns[c].sub
  <2>1. Fresh(conns[c], clients[c].next)
    BY <1>1, <1>3 DEF Connection
  <2>2. Head(conns[c].reqs).kind = "subscribe"
    BY <2>1 DEF Fresh
  <2> QED BY <1>1, <1>3, <2>1, <2>2 DEF Connection
<1> QED BY <1>2, <1>3

(* A connection whose request has been taken.                              *)
LEMMA TakenIs ==
  ASSUME NEW conn, Shape(conn), NEW n, Books(conn, n), conn.reqs = <<Head(conn.reqs)>>,
         NEW x, x = Taken(conn)
  PROVE  /\ Shape(x) /\ Books(x, n) /\ x.up = conn.up /\ x.sub = conn.sub /\ x.cursor = conn.cursor
         /\ x.out = conn.out /\ x.wait = conn.wait /\ x.todo = conn.todo
<1> DEFINE h == Head(conn.reqs)
<1>1. Tail(conn.reqs) = <<>>
  <2>1. \A e : Tail(<<e>>) = <<>>
    OBVIOUS
  <2> QED BY <2>1
<1>2. x = [conn EXCEPT !.reqs = <<>>]
  BY <1>1 DEF Taken
<1>3. /\ Shape(x) /\ x.reqs = <<>> /\ x.asks = conn.asks /\ x.open = conn.open /\ x.cursor = conn.cursor
  BY <1>2 DEF Shape, Fields
<1>4. x.up = conn.up /\ x.sub = conn.sub /\ x.out = conn.out /\ x.wait = conn.wait /\ x.todo = conn.todo
  BY <1>2 DEF Shape, Fields
<1> QED BY <1>3, <1>4 DEF Books

LEMMA StepSubscribe ==
  ASSUME Inv, NEW c \in Clients, Subscribe(c)
  PROVE  Inv'
<1> DEFINE conn    == conns[c]
           next    == clients[c].next
           taken   == Taken(conn)
           from    == Head(conn.reqs).from
           pending == SetToSeq({q \in Forwarded : Open(q)})
           items   == [i \in DOMAIN pending |-> Msg("question", pending[i], -1)]
           x       == [taken EXCEPT !.sub = TRUE, !.cursor = from, !.open = {}, !.asks = <<>>]
           r       == PumpItems(x, items)
<1>1. Request(c, "subscribe") /\ conns' = [conns EXCEPT ![c] = r] /\ clients' = clients /\ log' = log
  BY DEF Subscribe
<1>2. conn.up /\ Shape(conn) /\ Fresh(conn, next)
  BY <1>1, RequestOf
<1>3. next \in Nat /\ NextSeq \in Nat /\ next <= NextSeq /\ Good(conns, clients, NextSeq)
  BY At DEF Inv, Client
<1>4. IsSeq(pending)
  <2>1. {q \in Forwarded : Open(q)} \subseteq Forwarded /\ IsFiniteSet(Forwarded)
    BY ServerAssumption
  <2>2. IsFiniteSet({q \in Forwarded : Open(q)})
    BY <2>1, FS_Subset
  <2> QED BY <2>2, SetToSeqFacts
<1> HIDE DEF pending
<1>5. IsSeq(items) /\ Holds(items, next, next)
  BY <1>3, <1>4, ListFacts, NoEvents
<1> HIDE DEF items
<1>6. from = next /\ Tail(conn.reqs) = <<>>
  <2>1. \A e : Head(<<e>>) = e /\ Tail(<<e>>) = <<>>
    OBVIOUS
  <2> QED BY <1>2, <2>1 DEF Fresh
<1> HIDE DEF from
<1>7. taken = [conn EXCEPT !.reqs = <<>>]
  BY <1>6 DEF Taken
<1>8. /\ Shape(taken) /\ taken.reqs = <<>> /\ taken.up
      /\ taken.out = <<>> /\ taken.wait = <<>> /\ taken.todo = <<>>
  BY <1>2, <1>7 DEF Shape, Fields, Fresh
<1> HIDE DEF taken
<1>9. /\ Shape(x) /\ x.reqs = <<>> /\ x.up /\ x.sub /\ x.asks = <<>> /\ x.open = {} /\ x.cursor = from
  BY <1>8 DEF Shape, Fields
<1>10. x.out = <<>> /\ x.wait = <<>> /\ x.todo = <<>>
  BY <1>8 DEF Shape, Fields
<1> HIDE DEF x
<1>11. Books(x, NextSeq)
  <2>1. IsSeq(x.asks) /\ 1..Len(x.asks) = {}
    BY <1>9, EmptyIsSeq
  <2>2. IsFiniteSet(x.open)
    BY <1>9, FS_EmptySet
  <2> QED BY <1>3, <1>6, <1>9, <2>1, <2>2 DEF Books
<1>12. Flow(x, next, next) /\ Ready(x)
  BY <1>3, <1>10, FlowNothing DEF Ready
<1>13. Kept(x, r) /\ Flow(r, next, next)
  BY <1>3, <1>5, <1>9, <1>12, PumpItemsFlow
<1> HIDE DEF r
<1>14. Connection(r, next, NextSeq)
  BY <1>6, <1>9, <1>11, <1>13, LiveKept
<1>15. Good(conns', clients, NextSeq)
  BY <1>1, <1>3, <1>14, OneConnection
<1> QED BY <1>1, <1>15 DEF Inv, NextSeq

(* An ack is no event.                                                     *)
LEMMA AckSent ==
  ASSUME NEW x, Shape(x), NEW n, Books(x, n), x.up, x.sub, NEW next \in Nat, Flow(x, next, x.cursor),
         NEW key, NEW accepted, NEW r, r = Offer(x, "processor", AckOf(key, accepted))
  PROVE  Connection(r, next, n)
<1> DEFINE m == AckOf(key, accepted)
<1>1. Known(m) /\ ~IsEvent(m) /\ x.cursor \in Nat
  BY DEF AckOf, Known, IsEvent, Books
<1>2. r = Offer(x, "processor", m)
  OBVIOUS
<1> HIDE DEF m
<1>3. Kept(x, r)
  BY <1>2, OfferKeeps
<1>4. Flow(r, next, x.cursor)
  BY <1>1, <1>2, FlowOther
<1> QED BY <1>3, <1>4, LiveKept

(* One more event of the journal.                                          *)
LEMMA OneMore ==
  ASSUME Inv, NEW e, log' = Append(log, e), Good(conns', clients', NextSeq)
  PROVE  Inv'
<1>1. IsSeq(log) /\ NextSeq \in Nat
  BY SeqFacts DEF Inv, NextSeq
<1>2. IsSeq(log') /\ Len(log') = Len(log) + 1
  BY <1>1, AppendFacts
<1>3. Good(conns', clients', NextSeq + 1)
  BY <1>1, LongerJournal
<1>4. NextSeq' = NextSeq + 1
  BY <1>2 DEF NextSeq
<1> QED BY <1>2, <1>3, <1>4 DEF Inv

LEMMA StepCommand ==
  ASSUME Inv, NEW c \in Clients, Command(c)
  PROVE  Inv'
<1> DEFINE conn == conns[c]
           next == clients[c].next
           key  == Head(conn.reqs).key
           x    == Taken(conn)
           r    == Offer(x, "processor", AckOf(key, TRUE))
<1>1. /\ Request(c, "command") /\ conns' = [conns EXCEPT ![c] = r] /\ clients' = clients
      /\ log' = log \/ log' = Append(log, Event("input", key[2]))
  BY DEF Command
<1>2. conn.up /\ Shape(conn) /\ conn.sub /\ conn.reqs = <<Head(conn.reqs)>>
  BY <1>1, RequestOf
<1>3. Books(conn, NextSeq) /\ Flow(conn, next, conn.cursor)
  BY <1>2, SubscribedAt
<1>4. next \in Nat /\ NextSeq \in Nat /\ Good(conns, clients, NextSeq)
  BY At DEF Inv
<1>5. /\ Shape(x) /\ Books(x, NextSeq) /\ x.up = conn.up /\ x.sub = conn.sub /\ x.cursor = conn.cursor
      /\ x.out = conn.out /\ x.wait = conn.wait /\ x.todo = conn.todo
  BY <1>2, <1>3, TakenIs
<1> HIDE DEF x, key
<1>6. x.up /\ x.sub /\ Flow(x, next, x.cursor)
  BY <1>2, <1>3, <1>5, FlowSame
<1>7. Connection(r, next, NextSeq)
  BY <1>4, <1>5, <1>6, AckSent
<1> HIDE DEF r
<1>8. Good(conns', clients', NextSeq)
  BY <1>1, <1>4, <1>7, OneConnection
<1>9. CASE log' = log
  BY <1>8, <1>9 DEF Inv, NextSeq
<1>10. CASE log' = Append(log, Event("input", key[2]))
  BY <1>8, <1>10, OneMore
<1> QED BY <1>1, <1>9, <1>10

LEMMA StepAnswerAgain ==
  ASSUME Inv, NEW c \in Clients, AnswerAgain(c)
  PROVE  Inv'
<1> DEFINE conn == conns[c]
           next == clients[c].next
           key  == Head(conn.reqs).key
           acc  == Original(answers, key)
           x    == Taken(conn)
           r    == Offer(x, "processor", AckOf(key, acc))
<1>1. Request(c, "answer") /\ conns' = [conns EXCEPT ![c] = r] /\ clients' = clients /\ log' = log
  BY DEF AnswerAgain
<1>2. conn.up /\ Shape(conn) /\ conn.sub /\ conn.reqs = <<Head(conn.reqs)>>
  BY <1>1, RequestOf
<1>3. Books(conn, NextSeq) /\ Flow(conn, next, conn.cursor)
  BY <1>2, SubscribedAt
<1>4. next \in Nat /\ NextSeq \in Nat /\ Good(conns, clients, NextSeq)
  BY At DEF Inv
<1>5. /\ Shape(x) /\ Books(x, NextSeq) /\ x.up = conn.up /\ x.sub = conn.sub /\ x.cursor = conn.cursor
      /\ x.out = conn.out /\ x.wait = conn.wait /\ x.todo = conn.todo
  BY <1>2, <1>3, TakenIs
<1> HIDE DEF x, key, acc
<1>6. x.up /\ x.sub /\ Flow(x, next, x.cursor)
  BY <1>2, <1>3, <1>5, FlowSame
<1>7. Connection(r, next, NextSeq)
  BY <1>4, <1>5, <1>6, AckSent
<1> HIDE DEF r
<1>8. Good(conns', clients', NextSeq)
  BY <1>1, <1>4, <1>7, OneConnection
<1> QED BY <1>1, <1>8 DEF Inv, NextSeq

(* What the board reports is no event.                                     *)
LEMMA ReportedGood ==
  ASSUME NEW cs, NEW ms, NEW n, Good(cs, ms, n), NEW q, NEW kind \in {"question", "close"}
  PROVE  Good(Reported(cs, q, kind), ms, n)
<1>1. CASE q \in Own
  BY <1>1 DEF Reported
<1>2. CASE q \notin Own
  <2> DEFINE m  == Msg(kind, q, -1)
             new == [c \in Clients |-> IF cs[c].up /\ cs[c].sub
                                       THEN [cs[c] EXCEPT !.asks = Append(@, m)] ELSE cs[c]]
  <2>1. Reported(cs, q, kind) = new
    BY <1>2 DEF Reported
  <2>2. Known(m) /\ ~IsEvent(m)
    BY DEF Msg, Known, IsEvent
  <2> HIDE DEF m
  <2>3. ASSUME NEW c \in Clients PROVE Connection(new[c], ms[c].next, n) /\ Client(ms[c], n)
    <3> DEFINE conn == cs[c]
               x    == [conn EXCEPT !.asks = Append(conn.asks, m)]
    <3>1. Connection(conn, ms[c].next, n) /\ Client(ms[c], n)
      BY DEF Good
    <3>2. CASE conn.up /\ conn.sub
      <4>1. new[c] = x
        BY <3>2
      <4>2. Shape(conn) /\ Books(conn, n) /\ Flow(conn, ms[c].next, conn.cursor)
        BY <3>1, <3>2 DEF Connection, Live
      <4>3. IsSeq(conn.asks) /\ \A i \in 1..Len(conn.asks) : Known(conn.asks[i]) /\ ~IsEvent(conn.asks[i])
        BY <4>2 DEF Books
      <4> HIDE DEF new, conn
      <4>4. /\ Shape(x) /\ x.out = conn.out /\ x.wait = conn.wait /\ x.todo = conn.todo
            /\ x.cursor = conn.cursor /\ x.open = conn.open
        BY <4>2 DEF Shape, Fields
      <4>5. x.reqs = conn.reqs /\ x.up = conn.up /\ x.sub = conn.sub
        BY <4>2 DEF Shape, Fields
      <4>6. x.asks = Append(conn.asks, m)
        BY <4>2 DEF Shape, Fields
      <4> HIDE DEF x
      <4>7. /\ IsSeq(x.asks) /\ Len(x.asks) = Len(conn.asks) + 1 /\ Len(conn.asks) \in Nat
            /\ (\A i \in 1..Len(conn.asks) : x.asks[i] = conn.asks[i]) /\ x.asks[Len(conn.asks) + 1] = m
        BY <4>3, <4>6, AppendFacts, SeqFacts
      <4>8. \A i \in 1..Len(x.asks) : Known(x.asks[i]) /\ ~IsEvent(x.asks[i])
        BY <2>2, <4>3, <4>7
      <4>9. Books(x, n)
        BY <4>2, <4>4, <4>5, <4>7, <4>8 DEF Books
      <4>10. Flow(x, ms[c].next, x.cursor)
        BY <4>2, <4>4, FlowSame
      <4> QED BY <3>1, <3>2, <4>1, <4>4, <4>5, <4>9, <4>10 DEF Connection, Live
    <3>3. CASE ~(conn.up /\ conn.sub)
      <4>1. new[c] = conn
        BY <3>3
      <4> QED BY <3>1, <4>1
    <3> QED BY <3>2, <3>3
  <2>4. DOMAIN new = Clients /\ DOMAIN ms = Clients
    BY DEF Good
  <2> HIDE DEF new
  <2> QED BY <2>1, <2>3, <2>4 DEF Good
<1> QED BY <1>1, <1>2

LEMMA StepAnswer ==
  ASSUME Inv, NEW c \in Clients, Answer(c)
  PROVE  Inv'
<1> DEFINE conn == conns[c]
           next == clients[c].next
           req  == Head(conn.reqs)
           x    == Taken(conn)
           fresh == req.q \notin conn.closed
           r    == [x EXCEPT !.closed = @ \cup {req.q}, !.busy = <<req.key, req.q, fresh, Open(req.q)>>]
           cs   == [conns EXCEPT ![c] = r]
<1>1. /\ Request(c, "answer") /\ clients' = clients /\ log' = log
      /\ conns' = Reported(cs, req.q, "close") \/ conns' = cs
  BY DEF Answer
<1>2. conn.up /\ Shape(conn) /\ conn.sub /\ conn.reqs = <<Head(conn.reqs)>>
  BY <1>1, RequestOf
<1>3. Books(conn, NextSeq) /\ Flow(conn, next, conn.cursor)
  BY <1>2, SubscribedAt
<1>4. next \in Nat /\ NextSeq \in Nat /\ Good(conns, clients, NextSeq)
  BY At DEF Inv
<1>5. /\ Shape(x) /\ Books(x, NextSeq) /\ x.up = conn.up /\ x.sub = conn.sub /\ x.cursor = conn.cursor
      /\ x.out = conn.out /\ x.wait = conn.wait /\ x.todo = conn.todo
  BY <1>2, <1>3, TakenIs
<1> HIDE DEF x, req, fresh
<1>6. /\ Shape(r) /\ r.out = x.out /\ r.wait = x.wait /\ r.todo = x.todo
      /\ r.cursor = x.cursor /\ r.open = x.open
  BY <1>5 DEF Shape, Fields
<1>7. r.reqs = x.reqs /\ r.asks = x.asks /\ r.up = x.up /\ r.sub = x.sub
  BY <1>5 DEF Shape, Fields
<1> HIDE DEF r
<1>8. Books(r, NextSeq)
  BY <1>5, <1>6, <1>7 DEF Books
<1>9. Flow(r, next, r.cursor)
  BY <1>3, <1>5, <1>6, FlowSame
<1>10. Connection(r, next, NextSeq)
  BY <1>2, <1>5, <1>6, <1>7, <1>8, <1>9 DEF Connection, Live
<1>11. Good(cs, clients, NextSeq)
  BY <1>4, <1>10, OneConnection
<1> HIDE DEF cs
<1>12. Good(conns', clients', NextSeq)
  BY <1>1, <1>11, ReportedGood
<1> QED BY <1>1, <1>12 DEF Inv, NextSeq

LEMMA StepAnswerDone ==
  ASSUME Inv, NEW c \in Clients, AnswerDone(c)
  PROVE  Inv'
<1> DEFINE conn   == conns[c]
           next   == clients[c].next
           key    == conn.busy[1]
           q      == conn.busy[2]
           won    == conn.busy[4]
           closed == IF ~won /\ conn.busy[3] THEN conn.closed \ {q} ELSE conn.closed
           mine   == [conn EXCEPT !.busy = <<>>, !.closed = closed]
           r      == Offer(mine, "processor", AckOf(key, won))
           others == {d \in Clients \ {c} : conns[d].up /\ conns[d].sub}
           cs     == [d \in Clients |->
                       IF d = c THEN r ELSE IF won /\ d \in others THEN CloseQuestion(conns[d], q) ELSE conns[d]]
<1>1. conn.up /\ conn.busy # <<>> /\ conns' = cs /\ clients' = clients /\ log' = log
  BY DEF AnswerDone
<1>2. conn.sub
  BY <1>1, At DEF Connection, Fresh
<1>3. Shape(conn) /\ Books(conn, NextSeq) /\ Flow(conn, next, conn.cursor)
  BY <1>1, <1>2, SubscribedAt
<1>4. next \in Nat /\ NextSeq \in Nat /\ Good(conns, clients, NextSeq)
  BY At DEF Inv
<1> HIDE DEF key, q, won, closed
<1>5. /\ Shape(mine) /\ mine.out = conn.out /\ mine.wait = conn.wait /\ mine.todo = conn.todo
      /\ mine.cursor = conn.cursor /\ mine.open = conn.open
  BY <1>3 DEF Shape, Fields
<1>6. mine.reqs = conn.reqs /\ mine.asks = conn.asks /\ mine.up /\ mine.sub
  BY <1>1, <1>2, <1>3 DEF Shape, Fields
<1> HIDE DEF mine
<1>7. Books(mine, NextSeq)
  BY <1>3, <1>5, <1>6 DEF Books
<1>8. Flow(mine, next, mine.cursor)
  BY <1>3, <1>5, FlowSame
<1>9. Connection(r, next, NextSeq)
  BY <1>4, <1>5, <1>6, <1>7, <1>8, AckSent
<1> HIDE DEF r
<1>10. ASSUME NEW d \in Clients PROVE Connection(cs[d], clients[d].next, NextSeq) /\ Client(clients[d], NextSeq)
  <2>1. Connection(conns[d], clients[d].next, NextSeq) /\ Client(clients[d], NextSeq) /\ clients[d].next \in Nat
    BY At
  <2>2. CASE d = c
    BY <1>9, <2>1, <2>2
  <2>3. CASE d # c /\ won /\ d \in others
    <3> DEFINE y == CloseQuestion(conns[d], q)
    <3>1. cs[d] = y /\ conns[d].up /\ conns[d].sub
      BY <2>3
    <3>2. /\ Shape(conns[d]) /\ Books(conns[d], NextSeq) /\ conns[d].cursor \in Nat
          /\ Flow(conns[d], clients[d].next, conns[d].cursor)
      BY <3>1, SubscribedAt
    <3>3. Kept(conns[d], y) /\ Flow(y, clients[d].next, conns[d].cursor)
      BY <2>1, <3>2, CloseQuestionIs
    <3> HIDE DEF y, cs
    <3>4. Connection(y, clients[d].next, NextSeq)
      BY <3>1, <3>2, <3>3, LiveKept
    <3> QED BY <2>1, <3>1, <3>4
  <2>4. CASE d # c /\ ~(won /\ d \in others)
    <3>1. cs[d] = conns[d]
      BY <2>4
    <3> QED BY <2>1, <3>1
  <2> QED BY <2>2, <2>3, <2>4
<1>11. DOMAIN cs = Clients /\ DOMAIN clients = Clients
  BY <1>4 DEF Good
<1> HIDE DEF cs
<1>12. Good(conns', clients', NextSeq)
  BY <1>1, <1>10, <1>11 DEF Good
<1> QED BY <1>1, <1>12 DEF Inv, NextSeq

-----------------------------------------------------------------------------
(* A message reaches the client.                                           *)

LEMMA MessagesTail ==
  ASSUME NEW w, IsSeq(w), w # <<>>, NEW v, v = Tail(w)
  PROVE  /\ IsSeq(v) /\ IsSeq(Messages(w)) /\ Messages(w) # <<>>
         /\ Messages(v) = Tail(Messages(w)) /\ Head(w).msg = Messages(w)[1]
<1> DEFINE n == Len(v)
           y == Tail(Messages(w))
<1>1. IsSeq(v) /\ n = Len(w) - 1 /\ Len(w) >= 1 /\ (\A i \in 1..n : v[i] = w[i + 1]) /\ Head(w) = w[1]
  BY TailFacts
<1>2. Len(w) \in Nat
  BY SeqFacts
<1>3. IsSeq(Messages(w)) /\ Len(Messages(w)) = Len(w) /\ \A i \in 1..Len(w) : Messages(w)[i] = w[i].msg
  BY MessagesFacts
<1>4. Messages(w) # <<>>
  BY <1>1, <1>2, <1>3, SeqFacts
<1>5. IsSeq(y) /\ Len(y) = Len(Messages(w)) - 1 /\ \A i \in 1..Len(y) : y[i] = Messages(w)[i + 1]
  BY <1>3, <1>4, TailFacts
<1>6. IsSeq(Messages(v)) /\ Len(Messages(v)) = n /\ \A i \in 1..n : Messages(v)[i] = v[i].msg
  BY <1>1, MessagesFacts
<1> HIDE DEF n, y
<1>7. Len(y) = n /\ n \in Nat
  BY <1>1, <1>2, <1>3, <1>5
<1>8. \A i \in 1..n : Messages(v)[i] = y[i]
  <2>1. TAKE i \in 1..n
  <2>2. i + 1 \in 1..Len(w)
    BY <1>1, <1>2
  <2>3. y[i] = w[i + 1].msg
    BY <1>3, <1>5, <1>7, <2>2
  <2> QED BY <1>1, <1>6, <2>3
<1>9. Messages(v) = [i \in 1..n |-> Messages(v)[i]]
  BY <1>6, SeqIsFunction
<1>10. y = [i \in 1..n |-> y[i]]
  BY <1>5, <1>7, SeqIsFunction
<1>11. Messages(v) = [i \in 1..n |-> Messages(v)[i]] /\ y = [i \in 1..n |-> y[i]]
  BY <1>9, <1>10
<1>12. Messages(v) = y
  BY <1>8, <1>11
<1>13. Head(w).msg = Messages(w)[1]
  BY <1>1, <1>2, <1>3
<1> QED BY <1>1, <1>3, <1>4, <1>12, <1>13 DEF y

(* What waits first moves into the queue.                                  *)
LEMMA MovedUp ==
  ASSUME NEW t, IsSeq(t), NEW w, IsSeq(w), w # <<>>, NEW lo \in Nat, NEW a \in Nat, NEW b \in Nat,
         Holds(t, lo, a), Holds(Messages(w), a, b), NEW v, v = Tail(w), NEW u, u = Append(t, Head(w).msg)
  PROVE  /\ IsSeq(u) /\ IsSeq(v)
         /\ \E c \in Nat : Holds(u, lo, c) /\ Holds(Messages(v), c, b)
<1> DEFINE h == Head(w).msg
           x == Messages(w)
           y == Messages(v)
<1>1. IsSeq(v) /\ IsSeq(x) /\ x # <<>> /\ y = Tail(x) /\ h = x[1]
  BY MessagesTail
<1>2. u = Append(t, h) /\ IsSeq(u)
  BY AppendFacts
<1>3. Holds(x, a, b)
  OBVIOUS
<1> HIDE DEF h, x, y
<1>4. Known(h) /\ IF IsEvent(h) THEN h.seq = a /\ Holds(y, a + 1, b) ELSE Holds(y, a, b)
  BY <1>1, <1>3, HoldsTail
<1>5. IF IsEvent(h) THEN Holds(u, lo, a + 1) ELSE Holds(u, lo, a)
  BY <1>2, <1>4, HoldsAppend
<1>6. a + 1 \in Nat
  OBVIOUS
<1>7. \E c \in Nat : Holds(u, lo, c) /\ Holds(y, c, b)
  BY <1>4, <1>5, <1>6
<1> QED BY <1>1, <1>2, <1>7 DEF y

LEMMA FlowOrder ==
  ASSUME NEW conn, NEW lo \in Nat, NEW hi \in Nat, Flow(conn, lo, hi)
  PROVE  lo <= hi
<1>1. PICK a \in Nat, b \in Nat :
         Holds(conn.out, lo, a) /\ Holds(Messages(conn.wait), a, b) /\ Holds(conn.todo, b, hi)
  BY DEF Flow
<1>2. lo <= a /\ a <= b /\ b <= hi
  BY <1>1 DEF Holds, Rest
<1> QED BY <1>2

Moved(conn) ==
  IF conn.wait = <<>> THEN [conn EXCEPT !.out = Tail(@)]
  ELSE [conn EXCEPT !.out = Append(Tail(@), Head(conn.wait).msg), !.wait = Tail(@)]

LEMMA MovedIs ==
  ASSUME NEW conn, Shape(conn), NEW lo \in Nat, NEW hi \in Nat, Flow(conn, lo, hi), conn.out # <<>>,
         NEW r, r = Moved(conn), NEW m, m = Head(conn.out)
  PROVE  /\ Kept(conn, r) /\ Known(m)
         /\ IF IsEvent(m) THEN m.seq = lo /\ Flow(r, lo + 1, hi) ELSE Flow(r, lo, hi)
<1> DEFINE t == Tail(conn.out)
<1>1. PICK a \in Nat, b \in Nat :
         Holds(conn.out, lo, a) /\ Holds(Messages(conn.wait), a, b) /\ Holds(conn.todo, b, hi)
  BY DEF Flow
<1>2. IsSeq(conn.out) /\ IsSeq(conn.wait) /\ IsSeq(conn.todo)
  BY DEF Flow
<1>3. IsSeq(t) /\ m = conn.out[1]
  BY <1>2, TailFacts
<1>4. Known(m) /\ IF IsEvent(m) THEN m.seq = lo /\ Holds(t, lo + 1, a) ELSE Holds(t, lo, a)
  BY <1>1, <1>2, <1>3, HoldsTail
<1>5. ASSUME NEW l \in Nat, Holds(t, l, a) PROVE Kept(conn, r) /\ Flow(r, l, hi)
  <2>1. CASE conn.wait = <<>>
    <3>1. r = [conn EXCEPT !.out = t]
      BY <2>1 DEF Moved
    <3> HIDE DEF t
    <3>2. Kept(conn, r)
      BY <3>1 DEF Kept, Shape, Fields
    <3>3. r.out = t /\ r.wait = conn.wait /\ r.todo = conn.todo
      BY <3>1 DEF Shape, Fields
    <3> QED BY <1>1, <1>2, <1>3, <1>5, <3>2, <3>3 DEF Flow
  <2>2. CASE conn.wait # <<>>
    <3> DEFINE u == Append(t, Head(conn.wait).msg)
               v == Tail(conn.wait)
    <3>1. r = [conn EXCEPT !.out = u, !.wait = v]
      BY <2>2 DEF Moved
    <3>2. IsSeq(u) /\ IsSeq(v) /\ \E c \in Nat : Holds(u, l, c) /\ Holds(Messages(v), c, b)
      BY <1>1, <1>2, <1>3, <1>5, <2>2, MovedUp
    <3> HIDE DEF t, u, v
    <3>3. Kept(conn, r)
      BY <3>1 DEF Kept, Shape, Fields
    <3>4. r.out = u /\ r.wait = v /\ r.todo = conn.todo
      BY <3>1 DEF Shape, Fields
    <3> QED BY <1>1, <1>2, <3>2, <3>3, <3>4 DEF Flow
  <2> QED BY <2>1, <2>2
<1>6. lo + 1 \in Nat
  OBVIOUS
<1> QED BY <1>4, <1>5, <1>6

(* What a client makes of a message.                                       *)
LEMMA ApplyIs ==
  ASSUME NEW m, NEW n \in Nat, Client(m, n), NEW msg, Known(msg), IsEvent(msg) => msg.seq = m.next /\ m.next + 1 <= n,
         NEW new, new = Apply(m, msg)
  PROVE  Client(new, n) /\ new.next = IF IsEvent(msg) THEN m.next + 1 ELSE m.next
<1>0. DOMAIN m = ClientFields /\ m.next \in Nat /\ m.next <= n /\ m.got = 0..m.next-1
  BY DEF Client
<1>1. CASE msg.kind = "event"
  <2> DEFINE pending == CASE msg.event = "asked" -> m.pending \cup {msg.q}
                          [] msg.event = "answered" -> m.pending \ {msg.q}
                          [] msg.event = "hard" -> {}
                          [] OTHER -> m.pending
             got == m.got \cup {msg.seq}
  <2>1. msg.seq = m.next /\ m.next + 1 <= n /\ IsEvent(msg)
    BY <1>1 DEF IsEvent
  <2>2. new = Shown(m, msg)
    BY <1>1 DEF Apply
  <2>3. ~(msg.seq < m.next)
    BY <1>0, <2>1
  <2>4. new = [m EXCEPT !.next = msg.seq + 1, !.got = got, !.pending = pending]
    BY <2>2, <2>3 DEF Shown
  <2> HIDE DEF pending, got
  <2>5. DOMAIN new = ClientFields /\ new.next = msg.seq + 1 /\ new.got = got
    BY <1>0, <2>4 DEF ClientFields
  <2>6. got = 0..(m.next + 1)-1
    BY <1>0, <2>1 DEF got
  <2> QED BY <1>0, <2>1, <2>5, <2>6 DEF Client
<1>2. CASE msg.kind = "close"
  <2> DEFINE pending == m.pending \ {msg.q}
  <2>1. new = [m EXCEPT !.pending = pending] /\ ~IsEvent(msg)
    BY <1>2 DEF Apply, IsEvent
  <2> HIDE DEF pending
  <2>2. DOMAIN new = ClientFields /\ new.next = m.next /\ new.got = m.got
    BY <1>0, <2>1 DEF ClientFields
  <2> QED BY <1>0, <2>1, <2>2 DEF Client
<1>3. CASE msg.kind = "question"
  <2> DEFINE pending == m.pending \cup {msg.q}
             shown == m.shown \cup {msg.q}
  <2>1. new = [m EXCEPT !.pending = pending, !.shown = shown] /\ ~IsEvent(msg)
    BY <1>3 DEF Apply, IsEvent
  <2> HIDE DEF pending, shown
  <2>2. DOMAIN new = ClientFields /\ new.next = m.next /\ new.got = m.got
    BY <1>0, <2>1 DEF ClientFields
  <2> QED BY <1>0, <2>1, <2>2 DEF Client
<1>4. CASE msg.kind = "ack"
  <2> DEFINE acks == m.acks \cup {<<msg.key, msg.accepted>>}
  <2>1. new = [m EXCEPT !.acks = acks] /\ ~IsEvent(msg)
    BY <1>4 DEF Apply, IsEvent
  <2> HIDE DEF acks
  <2>2. DOMAIN new = ClientFields /\ new.next = m.next /\ new.got = m.got
    BY <1>0, <2>1 DEF ClientFields
  <2> QED BY <1>0, <2>1, <2>2 DEF Client
<1> QED BY <1>1, <1>2, <1>3, <1>4 DEF Known

LEMMA StepReceive ==
  ASSUME Inv, NEW c \in Clients, Receive(c)
  PROVE  Inv'
<1> DEFINE conn == conns[c]
           m    == clients[c]
           msg  == Head(conn.out)
           r    == Moved(conn)
           new  == Apply(m, msg)
<1>1. /\ conn.up /\ conn.out # <<>> /\ log' = log
      /\ conns' = [conns EXCEPT ![c] = r] /\ clients' = [clients EXCEPT ![c] = new]
  BY DEF Receive, Moved
<1>2. conn.sub
  BY <1>1, At DEF Connection, Fresh
<1>3. Shape(conn) /\ Books(conn, NextSeq) /\ conn.cursor \in Nat /\ Flow(conn, m.next, conn.cursor)
  BY <1>1, <1>2, SubscribedAt
<1>4. m.next \in Nat /\ NextSeq \in Nat /\ Client(m, NextSeq) /\ Good(conns, clients, NextSeq)
  BY At DEF Inv
<1> HIDE DEF m
<1>5. /\ Kept(conn, r) /\ Known(msg)
      /\ IF IsEvent(msg) THEN msg.seq = m.next /\ Flow(r, m.next + 1, conn.cursor) ELSE Flow(r, m.next, conn.cursor)
  BY <1>1, <1>3, <1>4, MovedIs
<1> HIDE DEF msg, r
<1>6. IsEvent(msg) => msg.seq = m.next /\ m.next + 1 <= NextSeq
  <2>1. SUFFICES ASSUME IsEvent(msg) PROVE m.next + 1 <= NextSeq
    BY <1>5
  <2>2. m.next + 1 <= conn.cursor
    <3>1. m.next + 1 \in Nat
      BY <1>4
    <3> QED BY <1>3, <1>5, <2>1, <3>1, FlowOrder
  <2>3. conn.cursor <= NextSeq
    BY <1>3 DEF Books
  <2> QED BY <1>3, <1>4, <2>2, <2>3
<1>7. Client(new, NextSeq) /\ new.next = IF IsEvent(msg) THEN m.next + 1 ELSE m.next
  BY <1>4, <1>5, <1>6, ApplyIs
<1> HIDE DEF new
<1>8. Flow(r, new.next, conn.cursor)
  BY <1>5, <1>7
<1>9. Connection(r, new.next, NextSeq)
  BY <1>1, <1>2, <1>3, <1>5, <1>8, LiveKept
<1>10. Good(conns', clients', NextSeq)
  BY <1>1, <1>4, <1>7, <1>9, Both
<1> QED BY <1>1, <1>10 DEF Inv, NextSeq

-----------------------------------------------------------------------------
(* Connections come and go.                                                *)

(* The other fields of a client may change.                                *)
LEMMA ClientKept ==
  ASSUME NEW m, NEW n, Client(m, n), NEW new, DOMAIN new = DOMAIN m, new.next = m.next, new.got = m.got
  PROVE  Client(new, n)
BY DEF Client

LEMMA StepStall ==
  ASSUME Inv, NEW c \in Clients, Stall(c)
  PROVE  Inv'
<1> DEFINE m == clients[c]
<1>1. /\ conns' = [conns EXCEPT ![c] = NoConn] /\ log' = log
      /\ \E hint : clients' = [clients EXCEPT ![c].hint = hint]
  BY DEF Stall
<1>2. PICK hint : clients' = [clients EXCEPT ![c].hint = hint]
  BY <1>1
<1> DEFINE new == [m EXCEPT !.hint = hint]
<1>3. clients' = [clients EXCEPT ![c] = new]
  BY <1>2
<1>4. Client(m, NextSeq) /\ Good(conns, clients, NextSeq)
  BY At DEF Inv
<1> HIDE DEF m
<1>5. DOMAIN new = DOMAIN m /\ new.next = m.next /\ new.got = m.got
  BY <1>4 DEF Client, ClientFields
<1> HIDE DEF new
<1>6. Client(new, NextSeq) /\ Connection(NoConn, new.next, NextSeq)
  BY <1>4, <1>5, ClientKept, NoConnection
<1>7. Good(conns', clients', NextSeq)
  BY <1>1, <1>3, <1>4, <1>6, Both
<1> QED BY <1>1, <1>7 DEF Inv, NextSeq

LEMMA StepDisconnect ==
  ASSUME Inv, NEW c \in Clients, Disconnect(c)
  PROVE  Inv'
<1>1. conns' = [conns EXCEPT ![c] = NoConn] /\ clients' = clients /\ log' = log
  BY DEF Disconnect
<1>2. Good(conns', clients', NextSeq)
  BY <1>1, NoConnection, OneConnection DEF Inv
<1> QED BY <1>1, <1>2 DEF Inv, NextSeq

LEMMA StepRestart ==
  ASSUME Inv, Restart
  PROVE  Inv'
<1>1. conns' = [c \in Clients |-> NoConn] /\ clients' = clients /\ log' = log
  BY DEF Restart
<1>2. \A c \in Clients : conns'[c] = NoConn
  BY <1>1
<1>3. Good(conns', clients', NextSeq)
  BY <1>1, <1>2, NoConnection DEF Inv, Good
<1> QED BY <1>1, <1>3 DEF Inv, NextSeq

LEMMA StepConnect ==
  ASSUME Inv, NEW c \in Clients, Connect(c)
  PROVE  Inv'
<1> DEFINE m   == clients[c]
           r   == [NoConn EXCEPT !.up = TRUE, !.reqs = <<[kind |-> "subscribe", from |-> clients[c].next]>>]
           new == [m EXCEPT !.shown = {}]
<1>1. /\ conns' = [conns EXCEPT ![c] = r] /\ log' = log
      /\ clients' = [clients EXCEPT ![c] = new]
  BY DEF Connect
<1>2. Client(m, NextSeq) /\ Good(conns, clients, NextSeq)
  BY At DEF Inv
<1>3. DOMAIN new = DOMAIN m /\ new.next = m.next /\ new.got = m.got
  BY <1>2 DEF Client, ClientFields
<1>4. Client(new, NextSeq)
  BY <1>2, <1>3, ClientKept
<1>5. /\ Shape(r) /\ ~r.sub /\ r.out = <<>> /\ r.wait = <<>> /\ r.todo = <<>> /\ r.busy = <<>>
      /\ r.reqs = <<[kind |-> "subscribe", from |-> m.next]>>
  BY DEF NoConn, Shape, Fields
<1> HIDE DEF new, r, m
<1>6. Connection(r, new.next, NextSeq)
  BY <1>3, <1>5 DEF Connection, Fresh
<1>7. Good(conns', clients', NextSeq)
  BY <1>1, <1>2, <1>4, <1>6, Both
<1> QED BY <1>1, <1>7 DEF Inv, NextSeq

(* A request for a connection that has none.                               *)
LEMMA RequestMade ==
  ASSUME Inv, NEW c \in Clients, conns[c].up, conns[c].reqs = <<>>, NEW req, req.kind # "subscribe",
         NEW cs, cs = [conns EXCEPT ![c].reqs = Append(@, req)]
  PROVE  Good(cs, clients, NextSeq)
<1> DEFINE conn == conns[c]
           next == clients[c].next
           r    == [conn EXCEPT !.reqs = <<req>>]
<1>1. Connection(conn, next, NextSeq) /\ Good(conns, clients, NextSeq)
  BY At DEF Inv
<1>2. conn.sub
  BY <1>1 DEF Connection, Fresh
<1>3. Shape(conn) /\ Books(conn, NextSeq) /\ conn.cursor \in Nat /\ Flow(conn, next, conn.cursor)
  BY <1>2, SubscribedAt
<1>4. Append(conn.reqs, req) = <<req>>
  OBVIOUS
<1>5. cs = [conns EXCEPT ![c] = r]
  BY <1>4
<1> HIDE DEF conn
<1>6. /\ Shape(r) /\ r.out = conn.out /\ r.wait = conn.wait /\ r.todo = conn.todo
      /\ r.cursor = conn.cursor /\ r.open = conn.open
  BY <1>3 DEF Shape, Fields
<1>7. r.reqs = <<req>> /\ r.asks = conn.asks /\ r.up = conn.up /\ r.sub = conn.sub
  BY <1>3 DEF Shape, Fields
<1> HIDE DEF r
<1>8. Head(r.reqs) = req
  BY <1>7
<1>9. Books(r, NextSeq)
  BY <1>3, <1>6, <1>7, <1>8 DEF Books
<1>10. Flow(r, next, r.cursor)
  BY <1>3, <1>6, FlowSame
<1>11. Connection(r, next, NextSeq)
  BY <1>2, <1>6, <1>7, <1>9, <1>10 DEF Connection, Live
<1>12. Good(conns, clients, NextSeq)
  BY <1>1
<1> HIDE DEF next
<1>13. Connection(r, clients[c].next, NextSeq)
  BY <1>11 DEF next
<1>14. Good([conns EXCEPT ![c] = r], clients, NextSeq)
  BY <1>12, <1>13, OneConnection
<1> QED BY <1>5, <1>14

LEMMA StepUserAnswers ==
  ASSUME Inv, NEW c \in Clients, NEW q \in Questions, UserAnswers(c, q)
  PROVE  Inv'
<1> DEFINE m == clients[c]
           Req(key) == [kind |-> "answer", key |-> key, q |-> q]
<1>1. conns[c].up /\ conns[c].reqs = <<>> /\ log' = log
  BY DEF UserAnswers
<1>2. PICK key :
         /\ conns' = [conns EXCEPT ![c].reqs = Append(@, Req(key))]
         /\ clients' = [clients EXCEPT ![c].keys = IF Contains(@, key) THEN @ ELSE Append(@, key)]
  BY DEF UserAnswers
<1> DEFINE keys == IF Contains(m.keys, key) THEN m.keys ELSE Append(m.keys, key)
           new == [m EXCEPT !.keys = keys]
           req == Req(key)
<1>3. Req(key).kind # "subscribe"
  OBVIOUS
<1>4. clients' = [clients EXCEPT ![c] = new]
  BY <1>2
<1> HIDE DEF keys, Req
<1>5. Good(conns', clients, NextSeq)
  BY <1>1, <1>2, <1>3, RequestMade
<1>6. Client(m, NextSeq)
  BY At
<1> HIDE DEF m
<1>7. DOMAIN new = DOMAIN m /\ new.next = m.next /\ new.got = m.got
  BY <1>6 DEF Client, ClientFields
<1> HIDE DEF new
<1>8. Client(new, NextSeq)
  BY <1>6, <1>7, ClientKept
<1>9. Good(conns', clients', NextSeq)
  BY <1>4, <1>5, <1>7, <1>8, OneClient DEF m
<1> QED BY <1>1, <1>9 DEF Inv, NextSeq

LEMMA StepUserCommands ==
  ASSUME Inv, NEW c \in Clients, NEW key, UserCommands(c, key)
  PROVE  Inv'
<1> DEFINE req == [kind |-> "command", key |-> key]
<1>1. /\ conns[c].up /\ conns[c].reqs = <<>> /\ log' = log /\ clients' = clients
      /\ conns' = [conns EXCEPT ![c].reqs = Append(@, req)]
  BY DEF UserCommands
<1>2. req.kind # "subscribe"
  OBVIOUS
<1> HIDE DEF req
<1>3. Good(conns', clients, NextSeq)
  BY <1>1, <1>2, RequestMade
<1> QED BY <1>1, <1>3 DEF Inv, NextSeq

-----------------------------------------------------------------------------
(* The session and the rest.                                               *)

LEMMA StepSession ==
  ASSUME Inv, Session
  PROVE  Inv'
<1>1. ASSUME NEW q \in Own, AskOwn(q) \/ Resolve(q) PROVE Inv'
  <2>1. conns' = conns /\ clients' = clients /\ \E e : log' = Append(log, e)
    BY <1>1 DEF AskOwn, Resolve
  <2>2. Good(conns', clients', NextSeq)
    BY <2>1 DEF Inv
  <2> QED BY <2>1, <2>2, OneMore
<1>2. CASE HardInterrupt
  <2>1. conns' = conns /\ clients' = clients /\ log' = Append(log, Event("hard", "none"))
    BY <1>2 DEF HardInterrupt
  <2>2. Good(conns', clients', NextSeq)
    BY <2>1 DEF Inv
  <2> QED BY <2>1, <2>2, OneMore
<1>3. ASSUME NEW q \in Own, OpenOwn(q) PROVE Inv'
  BY <1>3 DEF OpenOwn, Inv, NextSeq
<1>4. ASSUME NEW q \in Questions, Forward(q) \/ Withdraw(q) \/ CodeAnswers(q) PROVE Inv'
  <2>1. /\ clients' = clients /\ log' = log
        /\ conns' = conns \/ conns' = Reported(conns, q, "question") \/ conns' = Reported(conns, q, "close")
    BY <1>4 DEF Forward, Withdraw, CodeAnswers
  <2>2. Good(conns', clients', NextSeq)
    BY <2>1, ReportedGood DEF Inv
  <2> QED BY <2>1, <2>2 DEF Inv, NextSeq
<1> QED BY <1>1, <1>2, <1>3, <1>4 DEF Session, Questions

LEMMA StepOthers ==
  ASSUME Inv, UNCHANGED <<log, conns, clients>>
  PROVE  Inv'
BY DEF Inv, NextSeq

LEMMA InitInv ==
  ASSUME Init
  PROVE  Inv
<1> DEFINE e == Event("started", "none")
<1>1. IsSeq(<<e>>)
  <2>1. <<e>> \in Seq({e})
    OBVIOUS
  <2> QED BY <2>1, IsSeqIn
<1>2. log = <<e>> /\ conns = [c \in Clients |-> NoConn] /\ clients = [c \in Clients |-> NewClient]
  BY DEF Init
<1>3. NextSeq = 1
  BY <1>2 DEF NextSeq
<1>4. Client(NewClient, 1)
  BY DEF Client, NewClient, ClientFields
<1>5. Good(conns, clients, 1)
  BY <1>2, <1>4, NoConnection DEF Good
<1> QED BY <1>1, <1>2, <1>3, <1>5 DEF Inv

LEMMA NextInv ==
  ASSUME Inv, [Next]_vars
  PROVE  Inv'
<1>1. ASSUME NEW c \in Clients, Serves(c) PROVE Inv'
  BY <1>1, StepPumpEvent, StepPumpAsk, StepPumpOn, StepSubscribe, StepCommand, StepAnswerAgain, StepAnswer,
     StepAnswerDone DEF Serves
<1>2. ASSUME NEW c \in Clients, Uses(c) PROVE Inv'
  BY <1>2, StepConnect, StepReceive, StepUserAnswers, StepUserCommands DEF Uses
<1>3. ASSUME NEW c \in Clients, Stall(c) \/ Disconnect(c) PROVE Inv'
  BY <1>3, StepStall, StepDisconnect
<1>4. ASSUME NEW o \in Observers, Hear(o) \/ SaveCursor(o) PROVE Inv'
  <2>1. UNCHANGED <<log, conns, clients>>
    BY <1>4 DEF Hear, SaveCursor
  <2> QED BY <2>1, StepOthers
<1>5. CASE Session
  BY <1>5, StepSession
<1>6. CASE Restart
  BY <1>6, StepRestart
<1>7. CASE UNCHANGED vars
  BY <1>7, StepOthers DEF vars
<1> QED BY <1>1, <1>2, <1>3, <1>4, <1>5, <1>6, <1>7 DEF Next

LEMMA Delivers == Spec => []Inv
<1>1. Init => Inv
  BY InitInv
<1>2. Inv /\ [Next]_vars => Inv'
  BY NextInv
<1> QED BY <1>1, <1>2, PTL DEF Spec

LEMMA InvGapless ==
  ASSUME Inv
  PROVE  Gapless
<1>1. ASSUME NEW c \in Clients PROVE clients[c].got = 0..clients[c].next-1
  BY At DEF Client
<1>2. ASSUME NEW c \in Clients, Quiet(c) PROVE clients[c].next = NextSeq
  <2> DEFINE conn == conns[c]
  <2>1. /\ conn.up /\ conn.sub /\ ~Behind(conn)
        /\ conn.out = <<>> /\ conn.wait = <<>> /\ conn.todo = <<>>
    BY <1>2 DEF Quiet
  <2>2. Books(conn, NextSeq) /\ conn.cursor \in Nat /\ Flow(conn, clients[c].next, conn.cursor)
    BY <2>1, SubscribedAt
  <2>3. clients[c].next \in Nat /\ NextSeq \in Nat /\ conn.cursor <= NextSeq
    BY <2>2, At DEF Books
  <2>4. clients[c].next = conn.cursor
    BY <2>1, <2>2, <2>3, FlowNothing
  <2>5. ~(conn.cursor < NextSeq)
    BY <2>1, <2>2, <2>3, BehindIs DEF NextSeq
  <2> QED BY <2>2, <2>3, <2>4, <2>5
<1> QED BY <1>1, <1>2 DEF Gapless

(* A client sees each event of the journal once and in order, whatever     *)
(* becomes of its connections and of the process, however short the queues *)
(* are, and when nothing is under way it has seen all of them: Gapless     *)
(* (subscribe and pump in src/crates/server/src/server.rs).                *)
THEOREM SpecGapless == Spec => []Gapless
<1>1. Inv => Gapless
  BY InvGapless
<1> QED BY <1>1, Delivers, PTL

-----------------------------------------------------------------------------
(* Observers.  No two of them may go by the same name.                     *)
OwnNames == \A o, p \in Observers : CursorOf[o] = CursorOf[p] => o = p

(* An observer has heard all before the event it hears next, and all that  *)
(* its cursor says.                                                        *)
ObserverFields == {"next", "heard"}
HeardTo(obs, n) == n \in Nat /\ 0..n-1 \subseteq obs.heard
Listens(os, saved) ==
  /\ DOMAIN os = Observers /\ DOMAIN saved = Range(CursorOf)
  /\ \A o \in Observers : /\ DOMAIN os[o] = ObserverFields
                          /\ HeardTo(os[o], os[o].next) /\ HeardTo(os[o], saved[CursorOf[o]])
ObserverInv == Listens(observers, cursors)

LEMMA NameOf == ASSUME NEW o \in Observers PROVE CursorOf[o] \in Range(CursorOf)
BY ServerAssumption DEF Range

LEMMA ObserverInit ==
  ASSUME Init
  PROVE  ObserverInv
<1> DEFINE new == [next |-> 0, heard |-> {}]
<1>1. observers = [o \in Observers |-> new] /\ cursors = [n \in Range(CursorOf) |-> 0]
  BY DEF Init
<1>2. DOMAIN new = ObserverFields /\ new.next = 0 /\ HeardTo(new, 0)
  BY DEF ObserverFields, HeardTo
<1> HIDE DEF new
<1>3. ASSUME NEW o \in Observers
      PROVE  /\ DOMAIN observers[o] = ObserverFields
             /\ HeardTo(observers[o], observers[o].next) /\ HeardTo(observers[o], cursors[CursorOf[o]])
  <2>1. observers[o] = new /\ cursors[CursorOf[o]] = 0
    BY <1>1, NameOf
  <2> QED BY <1>2, <2>1
<1> QED BY <1>1, <1>3 DEF ObserverInv, Listens

LEMMA ObserverHears ==
  ASSUME ObserverInv, NEW o \in Observers, Hear(o)
  PROVE  ObserverInv'
<1> DEFINE obs  == observers[o]
           next == obs.next
           new  == [obs EXCEPT !.next = next + 1, !.heard = obs.heard \cup {next}]
<1>1. /\ observers' = [observers EXCEPT ![o].next = @ + 1, ![o].heard = @ \cup {observers[o].next}]
      /\ cursors' = cursors
  BY DEF Hear
<1>2. /\ DOMAIN observers = Observers /\ DOMAIN obs = ObserverFields
      /\ HeardTo(obs, next) /\ HeardTo(obs, cursors[CursorOf[o]])
  BY DEF ObserverInv, Listens
<1>3. observers' = [observers EXCEPT ![o] = new]
  BY <1>1, <1>2
<1> HIDE DEF obs
<1>4. DOMAIN new = ObserverFields /\ new.next = next + 1 /\ new.heard = obs.heard \cup {next}
  BY <1>2 DEF ObserverFields
<1> HIDE DEF new
<1>5. HeardTo(new, new.next) /\ HeardTo(new, cursors[CursorOf[o]])
  BY <1>2, <1>4 DEF HeardTo
<1>6. ASSUME NEW p \in Observers
      PROVE  /\ DOMAIN observers'[p] = ObserverFields
             /\ HeardTo(observers'[p], observers'[p].next) /\ HeardTo(observers'[p], cursors'[CursorOf[p]])
  <2>1. CASE p = o
    <3>1. observers'[p] = new
      BY <1>2, <1>3, <2>1
    <3> QED BY <1>1, <1>4, <1>5, <2>1, <3>1
  <2>2. CASE p # o
    <3>1. observers'[p] = observers[p]
      BY <1>2, <1>3, <2>2
    <3> QED BY <1>1, <3>1 DEF ObserverInv, Listens
  <2> QED BY <2>1, <2>2
<1>7. DOMAIN observers' = Observers /\ DOMAIN cursors' = Range(CursorOf)
  BY <1>1, <1>2, <1>3 DEF ObserverInv, Listens
<1> QED BY <1>6, <1>7 DEF ObserverInv, Listens

LEMMA ObserverSaves ==
  ASSUME OwnNames, ObserverInv, NEW o \in Observers, SaveCursor(o)
  PROVE  ObserverInv'
<1>1. cursors' = [cursors EXCEPT ![CursorOf[o]] = observers[o].next] /\ observers' = observers
  BY DEF SaveCursor
<1>2. DOMAIN cursors = Range(CursorOf)
  BY DEF ObserverInv, Listens
<1>3. ASSUME NEW p \in Observers PROVE HeardTo(observers[p], cursors'[CursorOf[p]])
  <2>1. CursorOf[p] \in DOMAIN cursors
    BY <1>2, NameOf
  <2>2. CASE p = o
    <3>1. cursors'[CursorOf[p]] = observers[p].next
      BY <1>1, <2>1, <2>2
    <3> QED BY <3>1 DEF ObserverInv, Listens
  <2>3. CASE p # o
    <3>1. CursorOf[p] # CursorOf[o]
      BY <2>3 DEF OwnNames
    <3>2. cursors'[CursorOf[p]] = cursors[CursorOf[p]]
      BY <1>1, <2>1, <3>1
    <3> QED BY <3>2 DEF ObserverInv, Listens
  <2> QED BY <2>2, <2>3
<1>4. DOMAIN cursors' = Range(CursorOf)
  BY <1>1, <1>2
<1> QED BY <1>1, <1>3, <1>4 DEF ObserverInv, Listens

LEMMA ObserverResumes ==
  ASSUME Inv, ObserverInv, Restart
  PROVE  ObserverInv'
<1> DEFINE from(o) == Min({cursors[CursorOf[o]], NextSeq})
<1>1. observers' = [o \in Observers |-> [observers[o] EXCEPT !.next = from(o)]] /\ cursors' = cursors
  BY DEF Restart
<1>2. NextSeq \in Nat
  BY SeqFacts DEF Inv, NextSeq
<1>3. ASSUME NEW o \in Observers
      PROVE  /\ DOMAIN observers'[o] = ObserverFields
             /\ HeardTo(observers'[o], observers'[o].next) /\ HeardTo(observers'[o], cursors'[CursorOf[o]])
  <2> DEFINE obs == observers[o]
             a   == cursors[CursorOf[o]]
             f   == from(o)
             new == [obs EXCEPT !.next = f]
  <2>1. observers'[o] = new
    BY <1>1
  <2>2. DOMAIN obs = ObserverFields /\ HeardTo(obs, a)
    BY DEF ObserverInv, Listens
  <2>3. f \in Nat /\ f <= a
    <3>1. a \in Nat
      BY <2>2 DEF HeardTo
    <3>2. f = CHOOSE x \in {a, NextSeq} : \A y \in {a, NextSeq} : x <= y
      BY DEF Min
    <3> HIDE DEF a, f
    <3>3. \E x \in {a, NextSeq} : \A y \in {a, NextSeq} : x <= y
      BY <1>2, <3>1
    <3>4. f \in {a, NextSeq} /\ \A y \in {a, NextSeq} : f <= y
      BY <3>2, <3>3
    <3> QED BY <1>2, <3>1, <3>4
  <2> HIDE DEF obs, a, f
  <2>4. DOMAIN new = ObserverFields /\ new.next = f /\ new.heard = obs.heard
    BY <2>2 DEF ObserverFields
  <2> HIDE DEF new
  <2>5. HeardTo(new, f) /\ HeardTo(new, a)
    BY <2>2, <2>3, <2>4 DEF HeardTo
  <2> QED BY <1>1, <2>1, <2>4, <2>5 DEF a
<1>4. DOMAIN observers' = Observers /\ DOMAIN cursors' = Range(CursorOf)
  BY <1>1 DEF ObserverInv, Listens
<1> QED BY <1>3, <1>4 DEF ObserverInv, Listens

LEMMA ObserverStep ==
  ASSUME OwnNames, Inv, ObserverInv, [Next]_vars
  PROVE  ObserverInv'
<1> DEFINE same == UNCHANGED <<observers, cursors>>
<1>1. same => ObserverInv'
  BY DEF ObserverInv
<1>2. ASSUME NEW c \in Clients, Serves(c) PROVE same
  BY <1>2 DEF Serves, PumpEvent, PumpAsk, PumpOn, Subscribe, Command, AnswerAgain, Answer, AnswerDone
<1>3. ASSUME NEW c \in Clients, Uses(c) PROVE same
  BY <1>3 DEF Uses, Connect, Receive, UserAnswers, UserCommands
<1>4. ASSUME NEW c \in Clients, Stall(c) \/ Disconnect(c) PROVE same
  BY <1>4 DEF Stall, Disconnect
<1>5. CASE Session
  <2>1. same
    BY <1>5 DEF Session, AskOwn, OpenOwn, Resolve, Forward, Withdraw, CodeAnswers, HardInterrupt
  <2> QED BY <1>1, <2>1
<1>6. CASE UNCHANGED vars
  BY <1>1, <1>6 DEF vars
<1> HIDE DEF same
<1> QED BY <1>1, <1>2, <1>3, <1>4, <1>5, <1>6, ObserverHears, ObserverSaves, ObserverResumes DEF Next

(* An observer hears each event before its cursor says so, whatever the    *)
(* process dies of and whichever saves fail, if no other observer saves    *)
(* its cursor under the same name: AtLeastOnce                             *)
(* (Runtime::start in src/crates/runtime/src/driver.rs and FileCursors in  *)
(* cursors.rs next to it).                                                 *)
THEOREM SpecAtLeastOnce == ASSUME OwnNames PROVE Spec => []AtLeastOnce
<1>1. Init => ObserverInv
  BY ObserverInit
<1>2. Inv /\ ObserverInv /\ [Next]_vars => ObserverInv'
  BY ObserverStep
<1>3. ObserverInv => AtLeastOnce
  BY DEF ObserverInv, Listens, HeardTo, AtLeastOnce
<1> QED BY <1>1, <1>2, <1>3, Delivers, PTL DEF Spec

-----------------------------------------------------------------------------
(* One outcome.  There is room for one more key: the server forgets the    *)
(* oldest of 1024 answers (server.rs:46), the driver of 256 commands       *)
(* (dispatch.rs:91), and a retry of a key that was forgotten is a new one. *)
Unforgotten == Len(answers) < Remembered /\ Len(dedupe) < Remembered

(* The messages a connection has queued; the replies among them.           *)
WaitMsgs(wait) == {wait[i].msg : i \in DOMAIN wait}
Queued(conn) == Range(conn.out) \cup WaitMsgs(conn.wait)
RepliesIn(msgs) == {<<m.key, m.accepted>> : m \in {x \in msgs : x.kind = "ack"}}
UnderWay(conn) == RepliesIn(Queued(conn))
Replies(conn, m) == m.acks \cup UnderWay(conn)

(* The pump sends no replies.                                              *)
Plain(s) == \A i \in DOMAIN s : s[i].kind # "ack"
Pumping(conn) == Plain(conn.todo) /\ Plain(conn.asks)

Demands(conn) == {r \in Range(conn.reqs) : r.kind # "subscribe"}
IsCommand(k) == \E x \in Commands : k = CommandKey(x)

(* Keys are numbered, the client has the same in its replies as it asked   *)
(* with, what is under way is what is remembered, and what is asked again  *)
(* has had no other reply than the one remembered.                         *)
Numbered(keys, c) == IsSeq(keys) /\ \A i \in DOMAIN keys : \E q \in Questions : keys[i] = <<c, q, i>>
Reply(r, keys) == \E k : \E b \in BOOLEAN : r = <<k, b>> /\ (k \in Range(keys) \/ (IsCommand(k) /\ b))
Demand(d, replies, keys, seen) ==
  \/ d.kind = "command" /\ IsCommand(d.key)
  \/ /\ d.kind = "answer" /\ d.key \in Range(keys) /\ d.key[2] = d.q
     /\ \A r \in replies : r[1] = d.key => r \in Range(seen)
Answering(busy, replies, keys, seen) ==
  \E k \in Range(keys), fresh, won \in BOOLEAN :
    busy = <<k, k[2], fresh, won>> /\ ~Seen(seen, k) /\ \A r \in replies : r[1] # k
Single(replies) == \A r, s \in replies : r[1] = s[1] => r = s
Told(c, conn, m, seen) ==
  /\ Numbered(m.keys, c) /\ Pumping(conn)
  /\ Single(Replies(conn, m)) /\ \A r \in Replies(conn, m) : Reply(r, m.keys)
  /\ \A r \in UnderWay(conn) : IsCommand(r[1]) \/ r \in Range(seen)
  /\ \A d \in Demands(conn) : Demand(d, Replies(conn, m), m.keys, seen)
  /\ conn.busy # <<>> => Answering(conn.busy, Replies(conn, m), m.keys, seen)

Memory(seen) ==
  /\ IsSeq(seen)
  /\ \A i \in DOMAIN seen : \E k : \E b \in BOOLEAN : seen[i] = <<k, b>>
  /\ \A i, j \in DOMAIN seen : seen[i][1] = seen[j][1] => i = j
OneBusy(cs) == \A c, d \in Clients : cs[c].busy # <<>> /\ cs[d].busy # <<>> => c = d

(* A question has no winner before it is open, and one if it opens once.   *)
Wins(k, cs, ms, seen) ==
  \/ <<k, TRUE>> \in Range(seen)
  \/ \E c \in Clients : \/ <<k, TRUE>> \in Replies(cs[c], ms[c])
                        \/ cs[c].busy # <<>> /\ cs[c].busy[1] = k /\ cs[c].busy[4]
Winner(q, at, cs, ms, seen) ==
  /\ DOMAIN at = {"state", "opens", "taken"} /\ at.opens \in Nat
  /\ at.opens = 0 => at.state # "open"
  /\ at.opens = 0 \/ (at.opens = 1 /\ at.state = "open") => \A k : Wins(k, cs, ms, seen) => k[2] # q
  /\ at.opens = 1 => \A k, l : Wins(k, cs, ms, seen) /\ Wins(l, cs, ms, seen) /\ k[2] = q /\ l[2] = q => k = l

Carried(lg, seen) ==
  \A i \in DOMAIN lg : lg[i].kind = "input" =>
    Seen(seen, CommandKey(lg[i].q)) /\ \A j \in DOMAIN lg : lg[j] = lg[i] => j = i

Fair(cs, ms, seen, bd) ==
  /\ \A c \in Clients : Told(c, cs[c], ms[c], seen)
  /\ OneBusy(cs)
  /\ DOMAIN bd = Questions
  /\ \A q \in Questions : Winner(q, bd[q], cs, ms, seen)
OneInv ==
  /\ Fair(conns, clients, answers, board)
  /\ Memory(answers) /\ IsSeq(dedupe)
  /\ ~restarted => Carried(log, dedupe)

(* What a message adds to a queue.                                         *)
LEMMA AppendRange ==
  ASSUME NEW s, IsSeq(s), NEW e, NEW t, t = Append(s, e)
  PROVE  IsSeq(t) /\ Range(t) = Range(s) \cup {e}
<1>1. IsSeq(t) /\ Len(t) = Len(s) + 1 /\ (\A i \in 1..Len(s) : t[i] = s[i]) /\ t[Len(s) + 1] = e
  BY AppendFacts
<1>2. Len(s) \in Nat /\ DOMAIN s = 1..Len(s) /\ DOMAIN t = 1..Len(t)
  BY <1>1, SeqFacts
<1>3. DOMAIN t = DOMAIN s \cup {Len(s) + 1}
  BY <1>1, <1>2
<1>4. \A i \in DOMAIN s : t[i] = s[i]
  BY <1>1, <1>2
<1> QED BY <1>1, <1>3, <1>4 DEF Range

LEMMA TailRange ==
  ASSUME NEW s, IsSeq(s), s # <<>>, NEW t, t = Tail(s)
  PROVE  /\ IsSeq(t) /\ Range(t) \subseteq Range(s)
         /\ Head(s) \in Range(s)
<1>1. /\ IsSeq(t) /\ Len(t) = Len(s) - 1 /\ Len(s) >= 1 /\ Head(s) = s[1]
      /\ \A i \in 1..Len(t) : t[i] = s[i + 1]
  BY TailFacts
<1>2. Len(s) \in Nat /\ DOMAIN s = 1..Len(s) /\ DOMAIN t = 1..Len(t)
  BY <1>1, SeqFacts
<1>3. \A i \in DOMAIN t : i + 1 \in DOMAIN s /\ t[i] = s[i + 1]
  BY <1>1, <1>2
<1>4. 1 \in DOMAIN s
  BY <1>1, <1>2
<1> QED BY <1>1, <1>3, <1>4 DEF Range

LEMMA WaitAppend ==
  ASSUME NEW s, IsSeq(s), NEW e, NEW t, t = Append(s, e)
  PROVE  IsSeq(t) /\ WaitMsgs(t) = WaitMsgs(s) \cup {e.msg}
<1>1. IsSeq(t) /\ Len(t) = Len(s) + 1 /\ (\A i \in 1..Len(s) : t[i] = s[i]) /\ t[Len(s) + 1] = e
  BY AppendFacts
<1>2. Len(s) \in Nat /\ DOMAIN s = 1..Len(s) /\ DOMAIN t = 1..Len(t)
  BY <1>1, SeqFacts
<1>3. DOMAIN t = DOMAIN s \cup {Len(s) + 1}
  BY <1>1, <1>2
<1>4. \A i \in DOMAIN s : t[i] = s[i]
  BY <1>1, <1>2
<1> QED BY <1>1, <1>3, <1>4 DEF WaitMsgs

LEMMA WaitTail ==
  ASSUME NEW s, IsSeq(s), s # <<>>, NEW t, t = Tail(s)
  PROVE  /\ IsSeq(t) /\ WaitMsgs(t) \subseteq WaitMsgs(s) /\ Head(s).msg \in WaitMsgs(s)
<1>1. /\ IsSeq(t) /\ Len(t) = Len(s) - 1 /\ Len(s) >= 1 /\ Head(s) = s[1]
      /\ \A i \in 1..Len(t) : t[i] = s[i + 1]
  BY TailFacts
<1>2. Len(s) \in Nat /\ DOMAIN s = 1..Len(s) /\ DOMAIN t = 1..Len(t)
  BY <1>1, SeqFacts
<1>3. \A i \in DOMAIN t : i + 1 \in DOMAIN s /\ t[i] = s[i + 1]
  BY <1>1, <1>2
<1>4. 1 \in DOMAIN s
  BY <1>1, <1>2
<1> QED BY <1>1, <1>3, <1>4 DEF WaitMsgs

Seqs(conn) == IsSeq(conn.out) /\ IsSeq(conn.wait) /\ IsSeq(conn.todo)

LEMMA OfferQueues ==
  ASSUME NEW conn, Shape(conn), Seqs(conn), NEW by, NEW m, NEW r, r = Offer(conn, by, m)
  PROVE  Kept(conn, r) /\ r.todo = conn.todo /\ Seqs(r) /\ Queued(r) = Queued(conn) \cup {m}
<1>1. /\ Kept(conn, r) /\ r.todo = conn.todo
      /\ \/ conn.wait = <<>> /\ r.wait = conn.wait /\ r.out = Append(conn.out, m)
         \/ r.out = conn.out /\ r.wait = Append(conn.wait, [by |-> by, msg |-> m])
  BY OfferIs
<1>2. CASE r.wait = conn.wait /\ r.out = Append(conn.out, m)
  <2>1. IsSeq(r.out) /\ Range(r.out) = Range(conn.out) \cup {m}
    BY <1>2, AppendRange DEF Seqs
  <2> QED BY <1>1, <1>2, <2>1 DEF Seqs, Queued
<1>3. CASE r.out = conn.out /\ r.wait = Append(conn.wait, [by |-> by, msg |-> m])
  <2>1. IsSeq(r.wait) /\ WaitMsgs(r.wait) = WaitMsgs(conn.wait) \cup {m}
    BY <1>3, WaitAppend DEF Seqs
  <2> QED BY <1>1, <1>3, <2>1 DEF Seqs, Queued, WaitMsgs
<1> QED BY <1>1, <1>2, <1>3

LEMMA OfferPlain ==
  ASSUME NEW conn, Shape(conn), Seqs(conn), NEW by, NEW m, m.kind # "ack", NEW r, r = Offer(conn, by, m)
  PROVE  Kept(conn, r) /\ r.todo = conn.todo /\ Seqs(r) /\ UnderWay(r) = UnderWay(conn)
<1>1. Kept(conn, r) /\ r.todo = conn.todo /\ Seqs(r) /\ Queued(r) = Queued(conn) \cup {m}
  BY OfferQueues
<1> QED BY <1>1 DEF UnderWay, RepliesIn

LEMMA OfferAck ==
  ASSUME NEW conn, Shape(conn), Seqs(conn), NEW by, NEW k, NEW b, NEW r, r = Offer(conn, by, AckOf(k, b))
  PROVE  Kept(conn, r) /\ r.todo = conn.todo /\ Seqs(r) /\ UnderWay(r) = UnderWay(conn) \cup {<<k, b>>}
<1> DEFINE m == AckOf(k, b)
<1>1. Kept(conn, r) /\ r.todo = conn.todo /\ Seqs(r) /\ Queued(r) = Queued(conn) \cup {m}
  BY OfferQueues
<1>2. m.kind = "ack" /\ m.key = k /\ m.accepted = b
  BY DEF AckOf
<1> HIDE DEF m
<1>3. RepliesIn(Queued(conn) \cup {m}) = RepliesIn(Queued(conn)) \cup {<<k, b>>}
  BY <1>2 DEF RepliesIn
<1> QED BY <1>1, <1>3 DEF UnderWay

(* Whatever the pump sends, the replies under way are the same.            *)
Unreplied(conn, r) == Kept(conn, r) /\ Seqs(r) /\ Plain(r.todo) /\ UnderWay(r) = UnderWay(conn)

LEMMA UnrepliedTwice ==
  ASSUME NEW x, NEW y, NEW z, Unreplied(x, y), Unreplied(y, z)
  PROVE  Unreplied(x, z)
BY KeptTwice DEF Unreplied

LEMMA PlainAppend ==
  ASSUME NEW s, IsSeq(s), Plain(s), NEW m, m.kind # "ack", NEW t, t = Append(s, m)
  PROVE  IsSeq(t) /\ Plain(t)
<1>1. IsSeq(t) /\ Range(t) = Range(s) \cup {m}
  BY AppendRange
<1>2. \A x \in Range(s) \cup {m} : x.kind # "ack"
  BY DEF Plain, Range
<1>3. \A i \in DOMAIN t : t[i] \in Range(t)
  BY DEF Range
<1> QED BY <1>1, <1>2, <1>3 DEF Plain

LEMMA MarkedIs ==
  ASSUME NEW conn, Shape(conn), Seqs(conn), Plain(conn.todo), NEW q,
         NEW marked, marked = [conn EXCEPT !.closed = conn.closed \cup {q}]
  PROVE  Unreplied(conn, marked)
<1>20. /\ marked.up = conn.up /\ marked.sub = conn.sub /\ marked.cursor = conn.cursor
       /\ marked.reqs = conn.reqs /\ marked.busy = conn.busy /\ marked.open = conn.open /\ marked.asks = conn.asks
       /\ DOMAIN marked = DOMAIN conn
  BY DEF Shape, Fields
<1>21. marked.out = conn.out /\ marked.wait = conn.wait /\ marked.todo = conn.todo
  BY DEF Shape, Fields
<1> QED BY <1>20, <1>21 DEF Unreplied, Kept, Shape, Seqs, UnderWay, Queued

LEMMA PumpItemPlain ==
  ASSUME NEW conn, Shape(conn), Seqs(conn), Plain(conn.todo), NEW m, m.kind # "ack", NEW r, r = PumpItem(conn, m)
  PROVE  Unreplied(conn, r)
<1>1. CASE Waiting(conn, "pump")
  <2> DEFINE todo == Append(conn.todo, m)
  <2>1. r = [conn EXCEPT !.todo = todo]
    BY <1>1 DEF PumpItem
  <2>2. IsSeq(todo) /\ Plain(todo)
    BY PlainAppend DEF Seqs
  <2> HIDE DEF todo
  <2>3. Kept(conn, r) /\ r.out = conn.out /\ r.wait = conn.wait /\ r.todo = todo
    BY <2>1 DEF Kept, Shape, Fields
  <2> QED BY <2>2, <2>3 DEF Unreplied, Seqs, UnderWay, Queued
<1>2. CASE ~Waiting(conn, "pump") /\ m.kind # "close"
  BY <1>2, OfferPlain DEF PumpItem, Unreplied
<1>3. CASE ~Waiting(conn, "pump") /\ m.kind = "close" /\ m.q \in conn.closed
  BY <1>3 DEF PumpItem, Unreplied, Kept
<1>4. CASE ~Waiting(conn, "pump") /\ m.kind = "close" /\ m.q \notin conn.closed
  <2> DEFINE marked == [conn EXCEPT !.closed = conn.closed \cup {m.q}]
  <2>1. r = Offer(marked, "pump", m)
    BY <1>4 DEF PumpItem
  <2>2. Unreplied(conn, marked)
    BY MarkedIs
  <2> HIDE DEF marked
  <2>3. Unreplied(marked, r)
    BY <2>1, <2>2, OfferPlain DEF Unreplied, Kept
  <2> QED BY <2>2, <2>3, UnrepliedTwice
<1> QED BY <1>1, <1>2, <1>3, <1>4

LEMMA ClosePlain ==
  ASSUME NEW conn, Shape(conn), Seqs(conn), Plain(conn.todo), NEW q, NEW r, r = CloseQuestion(conn, q)
  PROVE  Unreplied(conn, r)
<1>1. CASE q \in conn.closed
  BY <1>1 DEF CloseQuestion, Kept, Unreplied
<1>2. CASE q \notin conn.closed
  <2> DEFINE marked == [conn EXCEPT !.closed = conn.closed \cup {q}]
             m == Msg("close", q, -1)
  <2>1. r = Offer(marked, "other", m) /\ m.kind # "ack"
    BY <1>2 DEF CloseQuestion, Msg
  <2>2. Unreplied(conn, marked)
    BY MarkedIs
  <2> HIDE DEF marked, m
  <2>3. Unreplied(marked, r)
    BY <2>1, <2>2, OfferPlain DEF Unreplied, Kept
  <2> QED BY <2>2, <2>3, UnrepliedTwice
<1> QED BY <1>1, <1>2

LEMMA PumpItemsPlain ==
  ASSUME NEW conn, Shape(conn), Seqs(conn), Plain(conn.todo), NEW items, IsSeq(items), Plain(items),
         NEW r, r = PumpItems(conn, items)
  PROVE  Unreplied(conn, r)
<1> DEFINE n == Len(items)
           f == CHOOSE x : Sent(conn, items, n, x)
           S == {i \in Nat : i <= n => Unreplied(conn, f[i])}
<1>1. n \in Nat /\ DOMAIN items = 1..n
  BY SeqFacts
<1>2. Sent(conn, items, n, f)
  <2> HIDE DEF n
  <2> QED BY <1>1, SentExists
<1>3. r = f[n]
  BY PumpItemsIs
<1> HIDE DEF f, n
<1>4. \A i \in 0..n : f[i] = IF i = 0 THEN conn ELSE PumpItem(f[i-1], items[i])
  BY <1>2 DEF Sent
<1>5. 0 \in S
  <2>1. f[0] = conn
    BY <1>1, <1>4
  <2>2. Unreplied(conn, f[0])
    BY <2>1 DEF Kept, Unreplied
  <2> QED BY <2>2
<1>6. ASSUME NEW i \in Nat, i \in S PROVE i + 1 \in S
  <2>1. SUFFICES ASSUME i + 1 <= n PROVE Unreplied(conn, f[i + 1])
    OBVIOUS
  <2>2. i < n /\ i + 1 \in 0..n /\ i + 1 # 0 /\ (i + 1) - 1 = i
    BY <1>1, <2>1
  <2>3. f[i + 1] = PumpItem(f[i], items[i + 1])
    BY <1>4, <2>2
  <2>4. Unreplied(conn, f[i])
    BY <1>1, <1>6, <2>2
  <2>5. items[i + 1].kind # "ack"
    BY <1>1, <2>2 DEF Plain
  <2> DEFINE now == f[i]
             m == items[i + 1]
             new == f[i + 1]
  <2>6. Unreplied(conn, now) /\ new = PumpItem(now, m) /\ m.kind # "ack"
    BY <2>3, <2>4, <2>5
  <2> HIDE DEF now, m, new
  <2>7. Unreplied(now, new)
    BY <2>6, PumpItemPlain DEF Unreplied, Kept
  <2>8. Unreplied(conn, new)
    BY <2>6, <2>7, UnrepliedTwice
  <2> QED BY <2>8 DEF new
<1> HIDE DEF S
<1>7. n \in S
  BY <1>1, <1>5, <1>6, Upwards
<1> QED BY <1>1, <1>3, <1>7 DEF S

(* A message that is received, and one that moves up.                      *)
LEMMA MovedQueues ==
  ASSUME NEW conn, Shape(conn), Seqs(conn), conn.out # <<>>, NEW r, r = Moved(conn)
  PROVE  /\ r.reqs = conn.reqs /\ r.busy = conn.busy /\ r.todo = conn.todo /\ r.asks = conn.asks
         /\ Queued(r) \subseteq Queued(conn) /\ Head(conn.out) \in Queued(conn)
<1> DEFINE t == Tail(conn.out)
<1>1. /\ IsSeq(t) /\ Range(t) \subseteq Range(conn.out)
      /\ Head(conn.out) \in Range(conn.out)
  BY TailRange DEF Seqs
<1>2. CASE conn.wait = <<>>
  <2>1. r = [conn EXCEPT !.out = t]
    BY <1>2 DEF Moved
  <2> HIDE DEF t
  <2>2. r.reqs = conn.reqs /\ r.busy = conn.busy /\ r.todo = conn.todo /\ r.asks = conn.asks
    BY <2>1 DEF Shape, Fields
  <2>3. r.out = t /\ r.wait = conn.wait
    BY <2>1 DEF Shape, Fields
  <2> QED BY <1>1, <2>2, <2>3 DEF Queued
<1>3. CASE conn.wait # <<>>
  <2> DEFINE h == Head(conn.wait).msg
             u == Append(t, h)
             v == Tail(conn.wait)
  <2>1. r = [conn EXCEPT !.out = u, !.wait = v]
    BY <1>3 DEF Moved
  <2>2. WaitMsgs(v) \subseteq WaitMsgs(conn.wait) /\ h \in WaitMsgs(conn.wait)
    BY <1>3, WaitTail DEF Seqs
  <2> HIDE DEF t, h
  <2>3. Range(u) = Range(t) \cup {h}
    BY <1>1, AppendRange
  <2> HIDE DEF u, v
  <2>4. r.reqs = conn.reqs /\ r.busy = conn.busy /\ r.todo = conn.todo /\ r.asks = conn.asks
    BY <2>1 DEF Shape, Fields
  <2>5. r.out = u /\ r.wait = v
    BY <2>1 DEF Shape, Fields
  <2> QED BY <1>1, <2>2, <2>3, <2>4, <2>5 DEF Queued, WaitMsgs
<1> QED BY <1>2, <1>3

-----------------------------------------------------------------------------
(* Steps that add no reply, no demand and no answer under way.             *)
Calmer(conn, m, new, n) ==
  /\ Pumping(new) /\ n.keys = m.keys
  /\ UnderWay(new) \subseteq UnderWay(conn) /\ Replies(new, n) \subseteq Replies(conn, m)
  /\ Demands(new) \subseteq Demands(conn)
  /\ new.busy = conn.busy \/ new.busy = <<>>
Calm(cs, ms, cs2, ms2) == \A c \in Clients : Calmer(cs[c], ms[c], cs2[c], ms2[c])

LEMMA DemandKept ==
  ASSUME NEW d, NEW replies, NEW fewer, fewer \subseteq replies, NEW keys, NEW seen, Demand(d, replies, keys, seen)
  PROVE  Demand(d, fewer, keys, seen)
BY DEF Demand

LEMMA AnsweringKept ==
  ASSUME NEW busy, NEW replies, NEW fewer, fewer \subseteq replies, NEW keys, NEW seen,
         Answering(busy, replies, keys, seen)
  PROVE  Answering(busy, fewer, keys, seen)
<1>1. PICK k \in Range(keys), fresh \in BOOLEAN, won \in BOOLEAN :
        busy = <<k, k[2], fresh, won>> /\ ~Seen(seen, k) /\ \A r \in replies : r[1] # k
  BY DEF Answering
<1>2. \A r \in fewer : r[1] # k
  BY <1>1
<1> QED BY <1>1, <1>2 DEF Answering

LEMMA ToldCalmer ==
  ASSUME NEW c, NEW conn, NEW m, NEW seen, Told(c, conn, m, seen), NEW new, NEW n, Calmer(conn, m, new, n)
  PROVE  Told(c, new, n, seen)
<1>1. Numbered(n.keys, c) /\ Pumping(new)
  BY DEF Told, Calmer
<1>2. Single(Replies(new, n)) /\ \A r \in Replies(new, n) : Reply(r, n.keys)
  BY DEF Told, Calmer, Single
<1>3. \A r \in UnderWay(new) : IsCommand(r[1]) \/ r \in Range(seen)
  BY DEF Told, Calmer
<1>4. \A d \in Demands(new) : Demand(d, Replies(new, n), n.keys, seen)
  BY DemandKept DEF Told, Calmer
<1>5. new.busy # <<>> => Answering(new.busy, Replies(new, n), n.keys, seen)
  BY AnsweringKept DEF Told, Calmer
<1> QED BY <1>1, <1>2, <1>3, <1>4, <1>5 DEF Told

LEMMA WinsCalm ==
  ASSUME NEW cs, NEW ms, NEW cs2, NEW ms2, Calm(cs, ms, cs2, ms2), NEW seen, NEW k, Wins(k, cs2, ms2, seen)
  PROVE  Wins(k, cs, ms, seen)
<1>1. CASE <<k, TRUE>> \in Range(seen)
  BY <1>1 DEF Wins
<1>2. ASSUME NEW c \in Clients, <<k, TRUE>> \in Replies(cs2[c], ms2[c]) PROVE Wins(k, cs, ms, seen)
  BY <1>2 DEF Wins, Calm, Calmer
<1>3. ASSUME NEW c \in Clients, cs2[c].busy # <<>>, cs2[c].busy[1] = k, cs2[c].busy[4] PROVE Wins(k, cs, ms, seen)
  <2>1. cs2[c].busy = cs[c].busy
    BY <1>3 DEF Calm, Calmer
  <2> QED BY <1>3, <2>1 DEF Wins
<1> QED BY <1>1, <1>2, <1>3 DEF Wins

(* A question that is not asked any more, or asked once more.              *)
AtFields == {"state", "opens", "taken"}
Moves(at, at2) ==
  /\ DOMAIN at2 = AtFields
  /\ \/ at2.opens = at.opens /\ (at2.state = "open" => at.state = "open")
     \/ at2.opens = at.opens + 1

LEMMA WinnerMoves ==
  ASSUME NEW q, NEW at, NEW cs, NEW ms, NEW seen, Winner(q, at, cs, ms, seen),
         NEW cs2, NEW ms2, NEW seen2, \A k : Wins(k, cs2, ms2, seen2) /\ k[2] = q => Wins(k, cs, ms, seen),
         NEW at2, Moves(at, at2)
  PROVE  Winner(q, at2, cs2, ms2, seen2)
<1>1. /\ at.opens \in Nat
      /\ at.opens = 0 => at.state # "open"
      /\ at.opens = 0 \/ (at.opens = 1 /\ at.state = "open") => \A k : Wins(k, cs, ms, seen) => k[2] # q
      /\ at.opens = 1 => \A k, l : Wins(k, cs, ms, seen) /\ Wins(l, cs, ms, seen) /\ k[2] = q /\ l[2] = q => k = l
  BY DEF Winner
<1>2. CASE at2.opens = at.opens /\ (at2.state = "open" => at.state = "open")
  <2>1. at2.opens = 0 \/ (at2.opens = 1 /\ at2.state = "open") => \A k : Wins(k, cs2, ms2, seen2) => k[2] # q
    BY <1>1, <1>2
  <2>2. at2.opens = 1 => \A k, l : Wins(k, cs2, ms2, seen2) /\ Wins(l, cs2, ms2, seen2) /\ k[2] = q /\ l[2] = q => k = l
    BY <1>1, <1>2
  <2> QED BY <1>1, <1>2, <2>1, <2>2 DEF Winner, Moves, AtFields
<1>3. CASE at2.opens = at.opens + 1
  <2>1. at2.opens \in Nat /\ at2.opens # 0 /\ (at2.opens = 1 => at.opens = 0)
    BY <1>1, <1>3
  <2>2. at2.opens = 1 => \A k : Wins(k, cs2, ms2, seen2) => k[2] # q
    BY <1>1, <2>1
  <2>3. at2.opens = 1 => \A k, l : Wins(k, cs2, ms2, seen2) /\ Wins(l, cs2, ms2, seen2) /\ k[2] = q /\ l[2] = q => k = l
    BY <2>2
  <2> QED BY <2>1, <2>2, <2>3 DEF Winner, Moves, AtFields
<1> QED BY <1>2, <1>3 DEF Moves

(* The journal grows by something else than an input.                      *)
LEMMA CarriedMore ==
  ASSUME NEW lg, IsSeq(lg), NEW seen, Carried(lg, seen), NEW e, e.kind # "input", NEW lg2, lg2 = Append(lg, e)
  PROVE  Carried(lg2, seen)
<1>1. IsSeq(lg2) /\ Len(lg2) = Len(lg) + 1 /\ (\A i \in 1..Len(lg) : lg2[i] = lg[i]) /\ lg2[Len(lg) + 1] = e
  BY AppendFacts
<1>2. Len(lg) \in Nat /\ DOMAIN lg = 1..Len(lg) /\ DOMAIN lg2 = 1..Len(lg2)
  BY <1>1, SeqFacts
<1>3. DOMAIN lg2 = DOMAIN lg \cup {Len(lg) + 1} /\ \A i \in DOMAIN lg : lg2[i] = lg[i]
  BY <1>1, <1>2
<1>4. \A i \in DOMAIN lg2 : lg2[i].kind = "input" => i \in DOMAIN lg
  BY <1>1, <1>3
<1>5. ASSUME NEW i \in DOMAIN lg2, lg2[i].kind = "input"
      PROVE  Seen(seen, CommandKey(lg2[i].q)) /\ \A j \in DOMAIN lg2 : lg2[j] = lg2[i] => j = i
  <2>1. i \in DOMAIN lg /\ lg2[i] = lg[i] /\ lg[i].kind = "input"
    BY <1>3, <1>4, <1>5
  <2>2. \A j \in DOMAIN lg2 : lg2[j] = lg2[i] => j \in DOMAIN lg /\ lg[j] = lg[i]
    BY <1>3, <1>4, <1>5, <2>1
  <2> QED BY <2>1, <2>2 DEF Carried
<1> QED BY <1>5 DEF Carried

LEMMA FairCalm ==
  ASSUME NEW cs, NEW ms, NEW seen, NEW bd, Fair(cs, ms, seen, bd), NEW cs2, NEW ms2, Calm(cs, ms, cs2, ms2),
         NEW bd2, DOMAIN bd2 = Questions, \A q \in Questions : Moves(bd[q], bd2[q])
  PROVE  Fair(cs2, ms2, seen, bd2)
<1>1. \A c \in Clients : Told(c, cs2[c], ms2[c], seen)
  BY ToldCalmer DEF Fair, Calm
<1>2. OneBusy(cs2)
  BY DEF Fair, OneBusy, Calm, Calmer
<1>3. \A q \in Questions : Winner(q, bd2[q], cs2, ms2, seen)
  <2>1. \A k : Wins(k, cs2, ms2, seen) => Wins(k, cs, ms, seen)
    BY WinsCalm
  <2> QED BY <2>1, WinnerMoves DEF Fair
<1> QED BY <1>1, <1>2, <1>3 DEF Fair

LEMMA OneCalm ==
  ASSUME OneInv, Calm(conns, clients, conns', clients'),
         answers' = answers, dedupe' = dedupe, restarted' = restarted,
         DOMAIN board' = Questions, \A q \in Questions : Moves(board[q], board'[q]),
         IsSeq(log), log' = log \/ \E e : e.kind # "input" /\ log' = Append(log, e)
  PROVE  OneInv'
<1>1. Fair(conns', clients', answers', board')
  BY FairCalm DEF OneInv
<1>2. ~restarted => Carried(log', dedupe)
  BY CarriedMore DEF OneInv
<1> QED BY <1>1, <1>2 DEF OneInv, Fair

(* One connection changes, or all of them a little.                        *)
LEMMA CalmerSame ==
  ASSUME NEW c, NEW conn, NEW m, NEW seen, Told(c, conn, m, seen)
  PROVE  Calmer(conn, m, conn, m)
BY DEF Calmer, Told

LEMMA CalmOne ==
  ASSUME OneInv, Inv, NEW c \in Clients, NEW r, NEW n, Calmer(conns[c], clients[c], r, n),
         NEW cs, cs = [conns EXCEPT ![c] = r], NEW ms, ms = [clients EXCEPT ![c] = n]
  PROVE  Calm(conns, clients, cs, ms)
<1>1. DOMAIN conns = Clients /\ DOMAIN clients = Clients
  BY DEF Inv, Good
<1>2. ASSUME NEW d \in Clients PROVE Calmer(conns[d], clients[d], cs[d], ms[d])
  <2>1. Calmer(conns[d], clients[d], conns[d], clients[d])
    BY CalmerSame DEF OneInv, Fair
  <2>2. CASE d = c
    BY <1>1, <2>2
  <2>3. CASE d # c
    BY <1>1, <2>1, <2>3
  <2> QED BY <2>2, <2>3
<1> QED BY <1>2 DEF Calm

LEMMA CalmNone ==
  ASSUME OneInv
  PROVE  Calm(conns, clients, conns, clients)
BY CalmerSame DEF Calm, OneInv, Fair

(* One connection changes, and nothing else.                               *)
LEMMA OneConn ==
  ASSUME OneInv, Inv, NEW c \in Clients, NEW r, Calmer(conns[c], clients[c], r, clients[c]),
         conns' = [conns EXCEPT ![c] = r],
         UNCHANGED <<log, board, answers, dedupe, clients, restarted>>
  PROVE  OneInv'
<1>1. Calm(conns, clients, conns', clients')
  <2>1. DOMAIN conns = Clients
    BY DEF Inv, Good
  <2>2. ASSUME NEW d \in Clients PROVE Calmer(conns[d], clients[d], conns'[d], clients[d])
    <3>1. Calmer(conns[d], clients[d], conns[d], clients[d])
      BY CalmerSame DEF OneInv, Fair
    <3> QED BY <2>1, <3>1
  <2> QED BY <2>2 DEF Calm
<1>2. DOMAIN board' = Questions /\ \A q \in Questions : Moves(board[q], board'[q])
  BY DEF OneInv, Fair, Winner, Moves, AtFields
<1>3. IsSeq(log)
  BY DEF Inv
<1> QED BY <1>1, <1>2, <1>3, OneCalm

LEMMA SeqsOf ==
  ASSUME Inv, NEW c \in Clients, conns[c].up
  PROVE  Shape(conns[c]) /\ Seqs(conns[c])
<1>1. Connection(conns[c], clients[c].next, NextSeq)
  BY At
<1>2. CASE conns[c].sub
  BY <1>1, <1>2 DEF Connection, Live, Flow, Seqs
<1>3. CASE ~conns[c].sub
  BY <1>1, <1>3, EmptyIsSeq DEF Connection, Fresh, Seqs
<1> QED BY <1>2, <1>3, <1>1 DEF Connection

(* What the pump does to a connection, after it has changed of it nothing  *)
(* that is about replies.                                                  *)
LEMMA PumpCalmer ==
  ASSUME NEW conn, NEW m, NEW x, NEW r, Unreplied(x, r), UnderWay(x) = UnderWay(conn),
         Demands(x) \subseteq Demands(conn), x.busy = conn.busy, Plain(x.asks)
  PROVE  Calmer(conn, m, r, m)
<1>1. r.reqs = x.reqs /\ r.busy = x.busy /\ r.asks = x.asks /\ Plain(r.todo) /\ UnderWay(r) = UnderWay(x)
  BY DEF Unreplied, Kept
<1> QED BY <1>1 DEF Calmer, Pumping, Replies, Demands

-----------------------------------------------------------------------------
(* The pump, and the subscription.                                         *)

LEMMA PlainList ==
  ASSUME NEW s, IsSeq(s), NEW kind \in {"close", "question"}, NEW n,
         NEW items, items = [i \in DOMAIN s |-> Msg(kind, s[i], n)]
  PROVE  IsSeq(items) /\ Plain(items)
<1>1. IsSeq(items)
  BY ListFacts
<1>2. \A i \in DOMAIN items : items[i].kind = kind
  BY DEF Msg
<1> QED BY <1>1, <1>2 DEF Plain

LEMMA PlainCons ==
  ASSUME NEW m, m.kind # "ack", NEW s, IsSeq(s), Plain(s), NEW t, t = <<m>> \o s
  PROVE  IsSeq(t) /\ Plain(t)
<1>1. IsSeq(t) /\ Len(t) = Len(s) + 1 /\ t[1] = m /\ \A i \in 1..Len(s) : t[i + 1] = s[i]
  BY ConsFacts
<1>2. Len(s) \in Nat /\ DOMAIN s = 1..Len(s) /\ DOMAIN t = 1..Len(t)
  BY <1>1, SeqFacts
<1>3. ASSUME NEW i \in DOMAIN t PROVE t[i].kind # "ack"
  <2>1. CASE i = 1
    BY <1>1, <2>1
  <2>2. CASE i # 1
    <3>1. i - 1 \in 1..Len(s) /\ (i - 1) + 1 = i
      BY <1>1, <1>2, <2>2
    <3>2. t[i] = s[i - 1] /\ i - 1 \in DOMAIN s
      BY <1>1, <1>2, <3>1
    <3> QED BY <3>2 DEF Plain
  <2> QED BY <2>1, <2>2
<1> QED BY <1>1, <1>3 DEF Plain

LEMMA OnePumpEvent ==
  ASSUME OneInv, Inv, NEW c \in Clients, PumpEvent(c)
  PROVE  OneInv'
<1> DEFINE conn   == conns[c]
           e      == log[conn.cursor + 1]
           closes == SetToSeq(Closes(conn.open, e))
           first  == [kind |-> "event", q |-> e.q, seq |-> conn.cursor, event |-> e.kind]
           after  == [i \in DOMAIN closes |-> Msg("close", closes[i], conn.cursor + 1)]
           items  == <<first>> \o after
           open   == Tracked(conn.open, e)
           x      == [conn EXCEPT !.cursor = conn.cursor + 1, !.open = open]
           r      == PumpItems(x, items)
<1>1. /\ conn.up /\ conn.sub /\ conns' = [conns EXCEPT ![c] = r]
      /\ UNCHANGED <<log, board, answers, dedupe, clients, restarted>>
  BY DEF PumpEvent, Pumps
<1>2. Shape(conn) /\ Seqs(conn) /\ Pumping(conn) /\ IsFiniteSet(conn.open)
  BY <1>1, SeqsOf, SubscribedAt DEF OneInv, Fair, Told, Books
<1>3. IsSeq(closes)
  <2>1. IsFiniteSet(Closes(conn.open, e))
    BY <1>2, FollowedFinite
  <2> QED BY <2>1, SetToSeqFacts
<1> HIDE DEF closes
<1>4. IsSeq(after) /\ Plain(after)
  BY <1>3, PlainList
<1>5. first.kind # "ack"
  OBVIOUS
<1> HIDE DEF first, after
<1>6. IsSeq(items) /\ Plain(items)
  BY <1>4, <1>5, PlainCons
<1> HIDE DEF items, open
<1>7. /\ Shape(x) /\ x.out = conn.out /\ x.wait = conn.wait /\ x.todo = conn.todo
      /\ x.reqs = conn.reqs /\ x.asks = conn.asks /\ x.busy = conn.busy
  BY <1>2 DEF Shape, Fields
<1> HIDE DEF x
<1>8. Seqs(x) /\ Plain(x.todo) /\ Plain(x.asks) /\ UnderWay(x) = UnderWay(conn) /\ Demands(x) = Demands(conn)
  BY <1>2, <1>7 DEF Seqs, Pumping, UnderWay, Queued, Demands
<1>9. Unreplied(x, r)
  BY <1>6, <1>7, <1>8, PumpItemsPlain
<1> HIDE DEF r
<1>10. Calmer(conn, clients[c], r, clients[c])
  BY <1>7, <1>8, <1>9, PumpCalmer
<1> QED BY <1>1, <1>10, OneConn

LEMMA OnePumpAsk ==
  ASSUME OneInv, Inv, NEW c \in Clients, PumpAsk(c)
  PROVE  OneInv'
<1> DEFINE conn == conns[c]
           asks == Tail(conn.asks)
           m    == Head(conn.asks)
           x    == [conn EXCEPT !.asks = asks]
           r    == PumpItem(x, m)
<1>1. /\ conn.up /\ conn.sub /\ conn.asks # <<>> /\ conns' = [conns EXCEPT ![c] = r]
      /\ UNCHANGED <<log, board, answers, dedupe, clients, restarted>>
  BY DEF PumpAsk, Pumps
<1>2. Shape(conn) /\ Seqs(conn) /\ Pumping(conn) /\ IsSeq(conn.asks)
  BY <1>1, SeqsOf, SubscribedAt DEF OneInv, Fair, Told, Books
<1>3. Plain(asks) /\ m.kind # "ack"
  <2>1. IsSeq(asks) /\ Range(asks) \subseteq Range(conn.asks) /\ m \in Range(conn.asks)
    BY <1>1, <1>2, TailRange
  <2> QED BY <1>2, <2>1 DEF Pumping, Plain, Range
<1> HIDE DEF asks, m
<1>7. /\ Shape(x) /\ x.out = conn.out /\ x.wait = conn.wait /\ x.todo = conn.todo
      /\ x.reqs = conn.reqs /\ x.asks = asks /\ x.busy = conn.busy
  BY <1>2 DEF Shape, Fields
<1> HIDE DEF x
<1>8. Seqs(x) /\ Plain(x.todo) /\ Plain(x.asks) /\ UnderWay(x) = UnderWay(conn) /\ Demands(x) = Demands(conn)
  BY <1>2, <1>3, <1>7 DEF Seqs, Pumping, UnderWay, Queued, Demands
<1>9. Unreplied(x, r)
  BY <1>3, <1>7, <1>8, PumpItemPlain
<1> HIDE DEF r
<1>10. Calmer(conn, clients[c], r, clients[c])
  BY <1>7, <1>8, <1>9, PumpCalmer
<1> QED BY <1>1, <1>10, OneConn

LEMMA OnePumpOn ==
  ASSUME OneInv, Inv, NEW c \in Clients, PumpOn(c)
  PROVE  OneInv'
<1> DEFINE conn == conns[c]
           x    == [conn EXCEPT !.todo = <<>>]
           r    == PumpItems(x, conn.todo)
<1>1. /\ conn.up /\ conns' = [conns EXCEPT ![c] = r]
      /\ UNCHANGED <<log, board, answers, dedupe, clients, restarted>>
  BY DEF PumpOn
<1>2. Shape(conn) /\ Seqs(conn) /\ Pumping(conn)
  BY <1>1, SeqsOf DEF OneInv, Fair, Told
<1>3. IsSeq(conn.todo) /\ Plain(conn.todo)
  BY <1>2 DEF Seqs, Pumping
<1>7. /\ Shape(x) /\ x.out = conn.out /\ x.wait = conn.wait /\ x.todo = <<>>
      /\ x.reqs = conn.reqs /\ x.asks = conn.asks /\ x.busy = conn.busy
  BY <1>2 DEF Shape, Fields
<1> HIDE DEF x
<1>8. Seqs(x) /\ Plain(x.todo) /\ Plain(x.asks) /\ UnderWay(x) = UnderWay(conn) /\ Demands(x) = Demands(conn)
  <2>1. IsSeq(x.todo) /\ Plain(x.todo)
    BY <1>7, EmptyIsSeq DEF Plain
  <2> QED BY <1>2, <1>7, <2>1 DEF Seqs, Pumping, UnderWay, Queued, Demands
<1>9. Unreplied(x, r)
  BY <1>3, <1>7, <1>8, PumpItemsPlain
<1> HIDE DEF r
<1>10. Calmer(conn, clients[c], r, clients[c])
  BY <1>7, <1>8, <1>9, PumpCalmer
<1> QED BY <1>1, <1>10, OneConn

LEMMA OneSubscribe ==
  ASSUME OneInv, Inv, NEW c \in Clients, Subscribe(c)
  PROVE  OneInv'
<1> DEFINE conn    == conns[c]
           taken   == Taken(conn)
           from    == Head(conn.reqs).from
           pending == SetToSeq({q \in Forwarded : Open(q)})
           items   == [i \in DOMAIN pending |-> Msg("question", pending[i], -1)]
           x       == [taken EXCEPT !.sub = TRUE, !.cursor = from, !.open = {}, !.asks = <<>>]
           r       == PumpItems(x, items)
<1>1. /\ Request(c, "subscribe") /\ conns' = [conns EXCEPT ![c] = r]
      /\ UNCHANGED <<log, board, answers, dedupe, clients, restarted>>
  BY DEF Subscribe
<1>2. conn.up /\ Shape(conn) /\ Fresh(conn, clients[c].next) /\ Seqs(conn)
  BY <1>1, RequestOf, SeqsOf
<1>4. IsSeq(pending)
  <2>1. {q \in Forwarded : Open(q)} \subseteq Forwarded /\ IsFiniteSet(Forwarded)
    BY ServerAssumption
  <2>2. IsFiniteSet({q \in Forwarded : Open(q)})
    BY <2>1, FS_Subset
  <2> QED BY <2>2, SetToSeqFacts
<1> HIDE DEF pending
<1>5. IsSeq(items) /\ Plain(items)
  BY <1>4, PlainList
<1> HIDE DEF items, from
<1>6. Tail(conn.reqs) = <<>>
  <2>1. \A e : Head(<<e>>) = e /\ Tail(<<e>>) = <<>>
    OBVIOUS
  <2> QED BY <1>2, <2>1 DEF Fresh
<1>7. taken = [conn EXCEPT !.reqs = <<>>]
  BY <1>6 DEF Taken
<1>8. /\ Shape(taken) /\ taken.reqs = <<>> /\ taken.busy = conn.busy
      /\ taken.out = conn.out /\ taken.wait = conn.wait /\ taken.todo = conn.todo
  BY <1>2, <1>7 DEF Shape, Fields
<1> HIDE DEF taken
<1>9. /\ Shape(x) /\ x.reqs = <<>> /\ x.busy = conn.busy /\ x.asks = <<>>
      /\ x.out = conn.out /\ x.wait = conn.wait /\ x.todo = conn.todo
  BY <1>8 DEF Shape, Fields
<1> HIDE DEF x
<1>10. Seqs(x) /\ Plain(x.todo) /\ Plain(x.asks) /\ UnderWay(x) = UnderWay(conn) /\ Demands(x) \subseteq Demands(conn)
  BY <1>2, <1>9 DEF Seqs, Plain, UnderWay, Queued, Demands, Fresh, Range
<1>11. Unreplied(x, r)
  BY <1>5, <1>9, <1>10, PumpItemsPlain
<1> HIDE DEF r
<1>12. Calmer(conn, clients[c], r, clients[c])
  BY <1>9, <1>10, <1>11, PumpCalmer
<1> QED BY <1>1, <1>12, OneConn

(* What the board reports.                                                 *)
LEMMA ReportedCalm ==
  ASSUME NEW cs, NEW ms, NEW n, Good(cs, ms, n), \A c \in Clients : Pumping(cs[c]), NEW q, NEW kind \in {"question", "close"}
  PROVE  Calm(cs, ms, Reported(cs, q, kind), ms)
<1>1. CASE q \in Own
  BY <1>1 DEF Reported, Calm, Calmer
<1>2. CASE q \notin Own
  <2> DEFINE m  == Msg(kind, q, -1)
             new == [c \in Clients |-> IF cs[c].up /\ cs[c].sub
                                       THEN [cs[c] EXCEPT !.asks = Append(@, m)] ELSE cs[c]]
  <2>1. Reported(cs, q, kind) = new
    BY <1>2 DEF Reported
  <2>2. m.kind # "ack"
    BY DEF Msg
  <2> HIDE DEF m
  <2>3. ASSUME NEW c \in Clients PROVE Calmer(cs[c], ms[c], new[c], ms[c])
    <3> DEFINE conn == cs[c]
               asks == Append(conn.asks, m)
               x    == [conn EXCEPT !.asks = asks]
    <3>1. Pumping(conn) /\ Connection(conn, ms[c].next, n)
      BY DEF Good
    <3>2. CASE conn.up /\ conn.sub
      <4>1. new[c] = x
        BY <3>2
      <4>2. Shape(conn) /\ IsSeq(conn.asks) /\ Pumping(conn)
        BY <3>1, <3>2 DEF Connection, Live, Books
      <4>3. Plain(asks)
        BY <2>2, <4>2, PlainAppend DEF Pumping
      <4> HIDE DEF asks
      <4>4. /\ x.out = conn.out /\ x.wait = conn.wait /\ x.todo = conn.todo
            /\ x.reqs = conn.reqs /\ x.asks = asks /\ x.busy = conn.busy
        BY <4>2 DEF Shape, Fields
      <4> HIDE DEF x, conn
      <4>5. Calmer(conn, ms[c], x, ms[c])
        BY <4>2, <4>3, <4>4 DEF Calmer, Pumping, Replies, UnderWay, Queued, Demands
      <4> QED BY <4>1, <4>5 DEF conn
    <3>3. CASE ~(conn.up /\ conn.sub)
      <4>1. new[c] = conn
        BY <3>3
      <4> QED BY <3>1, <4>1 DEF Calmer
    <3> QED BY <3>2, <3>3
  <2> HIDE DEF new
  <2> QED BY <2>1, <2>3 DEF Calm
<1> QED BY <1>1, <1>2

(* Connections end.                                                        *)
LEMMA NothingQueued == Queued(NoConn) = {} /\ Demands(NoConn) = {} /\ NoConn.busy = <<>> /\ Pumping(NoConn)
<1>1. NoConn.out = <<>> /\ NoConn.wait = <<>> /\ NoConn.todo = <<>> /\ NoConn.asks = <<>> /\ NoConn.reqs = <<>>
      /\ NoConn.busy = <<>>
  BY DEF NoConn
<1>2. DOMAIN <<>> = {}
  OBVIOUS
<1> QED BY <1>1, <1>2 DEF Queued, WaitMsgs, Range, Demands, Pumping, Plain

LEMMA EndCalmer ==
  ASSUME NEW conn, NEW m, NEW n, n.keys = m.keys, n.acks = m.acks
  PROVE  Calmer(conn, m, NoConn, n)
<1>1. UnderWay(NoConn) = {}
  BY NothingQueued DEF UnderWay, RepliesIn
<1> QED BY <1>1, NothingQueued DEF Calmer, Replies

LEMMA OneStall ==
  ASSUME OneInv, Inv, NEW c \in Clients, Stall(c) \/ Disconnect(c)
  PROVE  OneInv'
<1> DEFINE m == clients[c]
<1>1. /\ conns' = [conns EXCEPT ![c] = NoConn] /\ UNCHANGED <<log, board, answers, dedupe, restarted>>
      /\ clients' = clients \/ \E hint : clients' = [clients EXCEPT ![c].hint = hint]
  BY DEF Stall, Disconnect
<1>2. DOMAIN board' = Questions /\ (\A q \in Questions : Moves(board[q], board'[q])) /\ IsSeq(log)
  BY <1>1 DEF OneInv, Fair, Winner, Moves, AtFields, Inv
<1>3. CASE clients' = clients
  BY <1>1, <1>3, EndCalmer, OneConn
<1>4. ASSUME NEW hint, clients' = [clients EXCEPT ![c].hint = hint] PROVE OneInv'
  <2> DEFINE new == [m EXCEPT !.hint = hint]
  <2>1. clients' = [clients EXCEPT ![c] = new]
    BY <1>4
  <2>2. Client(m, NextSeq)
    BY At
  <2> HIDE DEF m
  <2>3. new.keys = m.keys /\ new.acks = m.acks
    BY <2>2 DEF Client, ClientFields
  <2> HIDE DEF new
  <2>4. Calmer(conns[c], m, NoConn, new)
    BY <2>3, EndCalmer
  <2>5. Calm(conns, clients, conns', clients')
    BY <1>1, <2>1, <2>4, CalmOne DEF m
  <2> QED BY <1>1, <1>2, <2>5, OneCalm
<1> QED BY <1>1, <1>3, <1>4

LEMMA OneConnect ==
  ASSUME OneInv, Inv, NEW c \in Clients, Connect(c)
  PROVE  OneInv'
<1> DEFINE m   == clients[c]
           req == [kind |-> "subscribe", from |-> clients[c].next]
           r   == [NoConn EXCEPT !.up = TRUE, !.reqs = <<req>>]
           new == [m EXCEPT !.shown = {}]
<1>1. /\ conns' = [conns EXCEPT ![c] = r] /\ UNCHANGED <<log, board, answers, dedupe, restarted>>
      /\ clients' = [clients EXCEPT ![c] = new]
  BY DEF Connect
<1>2. DOMAIN board' = Questions /\ (\A q \in Questions : Moves(board[q], board'[q])) /\ IsSeq(log)
  BY <1>1 DEF OneInv, Fair, Winner, Moves, AtFields, Inv
<1>3. Client(m, NextSeq)
  BY At
<1>4. req.kind = "subscribe"
  OBVIOUS
<1> HIDE DEF m, req
<1>5. new.keys = m.keys /\ new.acks = m.acks
  BY <1>3 DEF Client, ClientFields
<1>6. /\ r.out = NoConn.out /\ r.wait = NoConn.wait /\ r.todo = NoConn.todo /\ r.asks = NoConn.asks
      /\ r.busy = NoConn.busy /\ r.reqs = <<req>>
  BY DEF NoConn
<1> HIDE DEF new, r
<1>7. Demands(r) = {}
  <2>1. \A x \in Range(<<req>>) : x = req
    BY DEF Range
  <2> QED BY <1>4, <1>6, <2>1 DEF Demands
<1>8. UnderWay(r) = {} /\ Pumping(r) /\ r.busy = <<>>
  BY <1>6, NothingQueued DEF UnderWay, RepliesIn, Queued, Pumping
<1>9. Calmer(conns[c], m, r, new)
  BY <1>5, <1>7, <1>8 DEF Calmer, Replies
<1>10. Calm(conns, clients, conns', clients')
  BY <1>1, <1>9, CalmOne DEF m
<1> QED BY <1>1, <1>2, <1>10, OneCalm

-----------------------------------------------------------------------------
(* The session.                                                            *)

LEMMA OpenedMoves ==
  ASSUME OneInv, NEW q \in Questions, NEW bd, bd = Opened(q)
  PROVE  DOMAIN bd = Questions /\ \A p \in Questions : Moves(board[p], bd[p])
<1> DEFINE at  == board[q]
           new == [at EXCEPT !.state = "open", !.opens = at.opens + 1]
<1>1. DOMAIN board = Questions /\ \A p \in Questions : DOMAIN board[p] = AtFields
  BY DEF OneInv, Fair, Winner, AtFields
<1>2. bd = [board EXCEPT ![q] = new]
  BY <1>1 DEF Opened
<1>3. DOMAIN new = AtFields /\ new.opens = at.opens + 1
  BY <1>1 DEF AtFields
<1> HIDE DEF new
<1>4. Moves(board[q], new)
  BY <1>3 DEF Moves
<1> QED BY <1>1, <1>2, <1>4 DEF Moves

LEMMA AnsweredMoves ==
  ASSUME OneInv, NEW q \in Questions, NEW bd, bd = Answered(q)
  PROVE  /\ DOMAIN bd = Questions /\ \A p \in Questions : Moves(board[p], bd[p])
         /\ \A p \in Questions : p # q => bd[p] = board[p]
         /\ bd[q].opens = board[q].opens /\ bd[q].state = "answered"
<1> DEFINE at  == board[q]
           new == [at EXCEPT !.state = "answered", !.taken = TRUE]
<1>1. DOMAIN board = Questions /\ \A p \in Questions : DOMAIN board[p] = AtFields
  BY DEF OneInv, Fair, Winner, AtFields
<1>2. bd = [board EXCEPT ![q] = new]
  BY <1>1 DEF Answered
<1>3. DOMAIN new = AtFields /\ new.opens = at.opens /\ new.state = "answered"
  BY <1>1 DEF AtFields
<1> HIDE DEF new
<1>4. Moves(board[q], new)
  BY <1>3 DEF Moves
<1> QED BY <1>1, <1>2, <1>3, <1>4 DEF Moves

LEMMA GoneMoves ==
  ASSUME OneInv, NEW qs, NEW bd, bd = Gone(qs)
  PROVE  DOMAIN bd = Questions /\ \A p \in Questions : Moves(board[p], bd[p])
<1>1. bd = [p \in Questions |-> IF p \in qs THEN [board[p] EXCEPT !.state = "none"] ELSE board[p]]
  BY DEF Gone
<1>2. ASSUME NEW p \in Questions PROVE Moves(board[p], bd[p])
  <2> DEFINE at  == board[p]
             new == [at EXCEPT !.state = "none"]
  <2>1. DOMAIN at = AtFields
    BY DEF OneInv, Fair, Winner, AtFields
  <2>2. bd[p] = new \/ bd[p] = at
    BY <1>1
  <2> HIDE DEF at
  <2>3. DOMAIN new = AtFields /\ new.opens = at.opens /\ new.state = "none"
    BY <2>1 DEF AtFields
  <2> HIDE DEF new
  <2> QED BY <2>1, <2>2, <2>3 DEF Moves, at
<1> QED BY <1>1, <1>2

LEMMA OneSession ==
  ASSUME OneInv, Inv, Session
  PROVE  OneInv'
<1>1. Calm(conns, clients, conns, clients) /\ IsSeq(log)
  BY CalmNone DEF Inv
<1>2. \A q \in Questions : Moves(board[q], board[q])
  BY DEF OneInv, Fair, Winner, Moves, AtFields
<1>3. DOMAIN board = Questions
  BY DEF OneInv, Fair
<1>4. ASSUME NEW q \in Own, AskOwn(q) \/ Resolve(q) PROVE OneInv'
  <2>1. /\ UNCHANGED <<conns, clients, answers, dedupe, restarted, board>>
        /\ log' = Append(log, Event("asked", q)) \/ log' = Append(log, Event("answered", q))
    BY <1>4 DEF AskOwn, Resolve
  <2>2. Event("asked", q).kind # "input" /\ Event("answered", q).kind # "input"
    BY DEF Event
  <2> QED BY <1>1, <1>2, <1>3, <2>1, <2>2, OneCalm
<1>5. CASE HardInterrupt
  <2>1. /\ UNCHANGED <<conns, clients, answers, dedupe, restarted>> /\ board' = Gone(asked)
        /\ log' = Append(log, Event("hard", "none"))
    BY <1>5 DEF HardInterrupt
  <2>2. Event("hard", "none").kind # "input"
    BY DEF Event
  <2>3. DOMAIN board' = Questions /\ \A p \in Questions : Moves(board[p], board'[p])
    BY <2>1, GoneMoves
  <2> QED BY <1>1, <2>1, <2>2, <2>3, OneCalm
<1>6. ASSUME NEW q \in Own, OpenOwn(q) PROVE OneInv'
  <2>1. /\ UNCHANGED <<conns, clients, answers, dedupe, restarted, log>> /\ board' = Opened(q) /\ q \in Questions
    BY <1>6 DEF OpenOwn, Questions
  <2>2. DOMAIN board' = Questions /\ \A p \in Questions : Moves(board[p], board'[p])
    BY <2>1, OpenedMoves
  <2> QED BY <1>1, <2>1, <2>2, OneCalm
<1>7. ASSUME NEW q \in Questions, Forward(q) \/ Withdraw(q) \/ CodeAnswers(q) PROVE OneInv'
  <2>1. /\ UNCHANGED <<clients, answers, dedupe, restarted, log>>
        /\ board' = Opened(q) \/ board' = Gone({q}) \/ board' = Answered(q)
        /\ conns' = conns \/ conns' = Reported(conns, q, "question") \/ conns' = Reported(conns, q, "close")
    BY <1>7 DEF Forward, Withdraw, CodeAnswers
  <2>2. DOMAIN board' = Questions /\ \A p \in Questions : Moves(board[p], board'[p])
    BY <2>1, OpenedMoves, GoneMoves, AnsweredMoves
  <2>3. Good(conns, clients, NextSeq) /\ \A c \in Clients : Pumping(conns[c])
    BY DEF Inv, OneInv, Fair, Told
  <2>4. Calm(conns, clients, conns', clients')
    BY <1>1, <2>1, <2>3, ReportedCalm
  <2> QED BY <1>1, <2>1, <2>2, <2>4, OneCalm
<1> QED BY <1>4, <1>5, <1>6, <1>7 DEF Session, Questions

-----------------------------------------------------------------------------
(* A reply reaches the client.                                             *)
LEMMA ApplyReplies ==
  ASSUME NEW m, DOMAIN m = ClientFields, NEW msg, Known(msg), NEW new, new = Apply(m, msg)
  PROVE  new.keys = m.keys /\ new.acks \subseteq m.acks \cup RepliesIn({msg})
<1>1. CASE msg.kind = "event"
  <2>1. new = Shown(m, msg)
    BY <1>1 DEF Apply
  <2>2. CASE msg.seq < m.next
    BY <2>1, <2>2 DEF Shown
  <2>3. CASE ~(msg.seq < m.next)
    <3> DEFINE pending == CASE msg.event = "asked" -> m.pending \cup {msg.q}
                            [] msg.event = "answered" -> m.pending \ {msg.q}
                            [] msg.event = "hard" -> {}
                            [] OTHER -> m.pending
               got == m.got \cup {msg.seq}
    <3>1. new = [m EXCEPT !.next = msg.seq + 1, !.got = got, !.pending = pending]
      BY <2>1, <2>3 DEF Shown
    <3> HIDE DEF pending, got
    <3> QED BY <3>1 DEF ClientFields
  <2> QED BY <2>2, <2>3
<1>2. CASE msg.kind = "close"
  <2> DEFINE pending == m.pending \ {msg.q}
  <2>1. new = [m EXCEPT !.pending = pending]
    BY <1>2 DEF Apply
  <2> HIDE DEF pending
  <2> QED BY <2>1 DEF ClientFields
<1>3. CASE msg.kind = "question"
  <2> DEFINE pending == m.pending \cup {msg.q}
             shown == m.shown \cup {msg.q}
  <2>1. new = [m EXCEPT !.pending = pending, !.shown = shown]
    BY <1>3 DEF Apply
  <2> HIDE DEF pending, shown
  <2> QED BY <2>1 DEF ClientFields
<1>4. CASE msg.kind = "ack"
  <2> DEFINE acks == m.acks \cup {<<msg.key, msg.accepted>>}
  <2>1. new = [m EXCEPT !.acks = acks]
    BY <1>4 DEF Apply
  <2>2. acks \subseteq m.acks \cup RepliesIn({msg})
    BY <1>4 DEF RepliesIn
  <2> HIDE DEF acks
  <2> QED BY <2>1, <2>2 DEF ClientFields
<1> QED BY <1>1, <1>2, <1>3, <1>4 DEF Known

LEMMA OneReceive ==
  ASSUME OneInv, Inv, NEW c \in Clients, Receive(c)
  PROVE  OneInv'
<1> DEFINE conn == conns[c]
           m    == clients[c]
           msg  == Head(conn.out)
           r    == Moved(conn)
           new  == Apply(m, msg)
<1>1. /\ conn.up /\ conn.out # <<>> /\ UNCHANGED <<log, board, answers, dedupe, restarted>>
      /\ conns' = [conns EXCEPT ![c] = r] /\ clients' = [clients EXCEPT ![c] = new]
  BY DEF Receive, Moved
<1>2. conn.sub
  BY <1>1, At DEF Connection, Fresh
<1>3. Shape(conn) /\ conn.cursor \in Nat /\ Flow(conn, m.next, conn.cursor)
  BY <1>1, <1>2, SubscribedAt
<1>4. m.next \in Nat /\ DOMAIN m = ClientFields
  BY At DEF Client
<1>5. Seqs(conn) /\ Pumping(conn)
  BY <1>1, SeqsOf DEF OneInv, Fair, Told
<1>6. Known(msg)
  BY <1>1, <1>3, <1>4, MovedIs
<1>7. /\ r.reqs = conn.reqs /\ r.busy = conn.busy /\ r.todo = conn.todo /\ r.asks = conn.asks
      /\ Queued(r) \subseteq Queued(conn) /\ msg \in Queued(conn)
  BY <1>1, <1>3, <1>5, MovedQueues
<1>8. new.keys = m.keys /\ new.acks \subseteq m.acks \cup RepliesIn({msg})
  BY <1>4, <1>6, ApplyReplies
<1> HIDE DEF m, msg, r, new
<1>9. Calmer(conn, m, r, new)
  <2>1. UnderWay(r) \subseteq UnderWay(conn) /\ RepliesIn({msg}) \subseteq UnderWay(conn)
    BY <1>7 DEF UnderWay, RepliesIn
  <2> QED BY <1>5, <1>7, <1>8, <2>1 DEF Calmer, Pumping, Replies, Demands
<1>10. Calm(conns, clients, conns', clients')
  BY <1>1, <1>9, CalmOne DEF m
<1>11. DOMAIN board' = Questions /\ (\A q \in Questions : Moves(board[q], board'[q])) /\ IsSeq(log)
  BY <1>1 DEF OneInv, Fair, Winner, Moves, AtFields, Inv
<1> QED BY <1>1, <1>10, <1>11, OneCalm

-----------------------------------------------------------------------------
(* Steps of one connection that add to what it asks or is told.            *)

Put(ms, c, n, ms2) == \A d \in Clients : ms2[d] = IF d = c THEN n ELSE ms[d]

LEMMA FairChange ==
  ASSUME NEW cs, NEW ms, NEW seen, NEW bd, Fair(cs, ms, seen, bd), DOMAIN cs = Clients,
         NEW c \in Clients, NEW r, NEW n, NEW cs2, cs2 = [cs EXCEPT ![c] = r], NEW ms2, Put(ms, c, n, ms2),
         NEW seen2, Told(c, r, n, seen2), \A d \in Clients \ {c} : Told(d, cs[d], ms[d], seen2),
         r.busy # <<>> => \A d \in Clients \ {c} : cs[d].busy = <<>>,
         NEW bd2, DOMAIN bd2 = Questions, \A q \in Questions : Winner(q, bd2[q], cs2, ms2, seen2)
  PROVE  Fair(cs2, ms2, seen2, bd2)
<1>1. \A d \in Clients : Told(d, cs2[d], ms2[d], seen2)
  <2>1. TAKE d \in Clients
  <2>2. CASE d = c
    BY <2>2 DEF Put
  <2>3. CASE d # c
    BY <2>3 DEF Put
  <2> QED BY <2>2, <2>3
<1>2. OneBusy(cs2)
  BY DEF Fair, OneBusy
<1> QED BY <1>1, <1>2 DEF Fair

(* Who wins after the step.                                                *)
LEMMA WinsOne ==
  ASSUME NEW cs, NEW ms, DOMAIN cs = Clients, NEW seen,
         NEW c \in Clients, NEW r, NEW n, NEW cs2, cs2 = [cs EXCEPT ![c] = r], NEW ms2, Put(ms, c, n, ms2),
         NEW seen2, NEW k, Wins(k, cs2, ms2, seen2)
  PROVE  \/ Wins(k, cs, ms, seen)
         \/ <<k, TRUE>> \in Range(seen2)
         \/ <<k, TRUE>> \in Replies(r, n)
         \/ r.busy # <<>> /\ r.busy[1] = k /\ r.busy[4]
<1>1. ASSUME NEW d \in Clients, <<k, TRUE>> \in Replies(cs2[d], ms2[d])
      PROVE  Wins(k, cs, ms, seen) \/ <<k, TRUE>> \in Replies(r, n)
  <2>1. CASE d = c
    BY <1>1, <2>1 DEF Put
  <2>2. CASE d # c
    <3>1. cs2[d] = cs[d] /\ ms2[d] = ms[d]
      BY <2>2 DEF Put
    <3> QED BY <1>1, <3>1 DEF Wins
  <2> QED BY <2>1, <2>2
<1>2. ASSUME NEW d \in Clients, cs2[d].busy # <<>>, cs2[d].busy[1] = k, cs2[d].busy[4]
      PROVE  Wins(k, cs, ms, seen) \/ (r.busy # <<>> /\ r.busy[1] = k /\ r.busy[4])
  <2>1. CASE d = c
    BY <1>2, <2>1
  <2>2. CASE d # c
    <3>1. cs2[d] = cs[d]
      BY <2>2 DEF Put
    <3> QED BY <1>2, <3>1 DEF Wins
  <2> QED BY <2>1, <2>2
<1> QED BY <1>1, <1>2 DEF Wins

(* The board and what is remembered stay, no answer is begun, and what is  *)
(* told is not news of a question.                                         *)
LEMMA OneChange ==
  ASSUME OneInv, Inv, NEW c \in Clients, NEW r, NEW n,
         conns' = [conns EXCEPT ![c] = r],
         Put(clients, c, n, clients'),
         UNCHANGED <<board, answers, restarted>>,
         Told(c, r, n, answers), r.busy = conns[c].busy \/ r.busy = <<>>,
         \A k : <<k, TRUE>> \in Replies(r, n) =>
                   \/ k[2] \notin Questions \/ <<k, TRUE>> \in Range(answers)
                   \/ <<k, TRUE>> \in Replies(conns[c], clients[c]),
         IsSeq(dedupe'), ~restarted => Carried(log', dedupe')
  PROVE  OneInv'
<1>1. Fair(conns, clients, answers, board) /\ DOMAIN conns = Clients /\ DOMAIN clients = Clients
  BY DEF OneInv, Inv, Good
<1>2. \A d \in Clients \ {c} : Told(d, conns[d], clients[d], answers)
  BY <1>1 DEF Fair
<1>3. r.busy # <<>> => \A d \in Clients \ {c} : conns[d].busy = <<>>
  BY <1>1 DEF Fair, OneBusy
<1>4. ASSUME NEW q \in Questions PROVE Winner(q, board[q], conns', clients', answers)
  <2>1. ASSUME NEW k, Wins(k, conns', clients', answers), k[2] = q PROVE Wins(k, conns, clients, answers)
    <3>1. \/ Wins(k, conns, clients, answers)
          \/ <<k, TRUE>> \in Range(answers)
          \/ <<k, TRUE>> \in Replies(r, n)
          \/ r.busy # <<>> /\ r.busy[1] = k /\ r.busy[4]
      BY <1>1, <2>1, WinsOne
    <3> QED BY <2>1, <3>1 DEF Wins
  <2>2. Moves(board[q], board[q]) /\ Winner(q, board[q], conns, clients, answers)
    BY <1>1 DEF Fair, Winner, Moves, AtFields
  <2> QED BY <2>1, <2>2, WinnerMoves
<1>5. DOMAIN board = Questions
  BY <1>1 DEF Fair
<1>6. Fair(conns', clients', answers, board)
  BY <1>1, <1>2, <1>3, <1>4, <1>5, FairChange
<1> QED BY <1>6 DEF OneInv

(* The number of a key tells it from those of commands.                    *)
LEMMA CommandUnnumbered ==
  ASSUME NEW c, NEW keys, Numbered(keys, c), NEW x
  PROVE  CommandKey(x) \notin Range(keys)
<1>1. SUFFICES ASSUME NEW i \in DOMAIN keys, keys[i] = CommandKey(x) PROVE FALSE
  BY DEF Range
<1>2. PICK q \in Questions : keys[i] = <<c, q, i>>
  BY DEF Numbered
<1>3. i = 0
  BY <1>1, <1>2 DEF CommandKey
<1>4. i \in 1..Len(keys)
  BY SeqFacts DEF Numbered
<1> QED BY <1>3, <1>4, SeqFacts DEF Numbered

LEMMA MemoryOne ==
  ASSUME NEW seen, Memory(seen), NEW r \in Range(seen), NEW s \in Range(seen), r[1] = s[1]
  PROVE  r = s
BY DEF Memory, Range

(* The request that is taken, and the reply to it.                         *)
LEMMA TakenQuiet ==
  ASSUME Inv, OneInv, NEW c \in Clients, NEW kind, kind # "subscribe", Request(c, kind), NEW x, x = Taken(conns[c])
  PROVE  /\ Shape(x) /\ Seqs(x) /\ Pumping(x) /\ x.reqs = <<>> /\ x.busy = <<>> /\ UnderWay(x) = UnderWay(conns[c])
         /\ conns[c].busy = <<>>
         /\ Demand(Head(conns[c].reqs), Replies(conns[c], clients[c]), clients[c].keys, answers)
         /\ Head(conns[c].reqs).kind = kind
<1> DEFINE conn == conns[c]
           h == Head(conn.reqs)
<1>1. conn.up /\ Shape(conn) /\ conn.reqs = <<h>> /\ conn.busy = <<>> /\ h.kind = kind
  BY RequestOf DEF Request
<1>2. Seqs(conn) /\ Pumping(conn)
  BY <1>1, SeqsOf DEF OneInv, Fair, Told
<1>3. h \in Demands(conn)
  <2>1. \A e : e \in Range(<<e>>)
    BY DEF Range
  <2> HIDE DEF h
  <2> QED BY <1>1, <2>1 DEF Demands
<1>4. Demand(h, Replies(conn, clients[c]), clients[c].keys, answers)
  BY <1>3 DEF OneInv, Fair, Told
<1>5. Tail(conn.reqs) = <<>>
  <2>1. \A e : Tail(<<e>>) = <<>>
    OBVIOUS
  <2> HIDE DEF h
  <2> QED BY <1>1, <2>1
<1>6. x = [conn EXCEPT !.reqs = <<>>]
  BY <1>5 DEF Taken
<1> HIDE DEF h
<1>7. /\ Shape(x) /\ x.reqs = <<>> /\ x.asks = conn.asks /\ x.busy = conn.busy
      /\ x.out = conn.out /\ x.wait = conn.wait /\ x.todo = conn.todo
  BY <1>1, <1>6 DEF Shape, Fields
<1>8. Seqs(x) /\ Pumping(x) /\ UnderWay(x) = UnderWay(conn)
  BY <1>2, <1>7 DEF Seqs, Pumping, UnderWay, Queued
<1> QED BY <1>1, <1>4, <1>7, <1>8 DEF h

LEMMA NoDemand == ASSUME NEW conn, conn.reqs = <<>> PROVE Demands(conn) = {}
<1>1. Range(<<>>) = {}
  BY DEF Range
<1> QED BY <1>1 DEF Demands

LEMMA AckTold ==
  ASSUME Inv, OneInv, NEW c \in Clients, NEW kind, kind # "subscribe", Request(c, kind),
         NEW k, NEW b, NEW r, r = Offer(Taken(conns[c]), "processor", AckOf(k, b)),
         Reply(<<k, b>>, clients[c].keys), IsCommand(k) \/ <<k, b>> \in Range(answers),
         \A s \in Replies(conns[c], clients[c]) : s[1] = k => s = <<k, b>>
  PROVE  /\ Told(c, r, clients[c], answers) /\ r.busy = <<>>
         /\ Replies(r, clients[c]) = Replies(conns[c], clients[c]) \cup {<<k, b>>}
<1> DEFINE x == Taken(conns[c])
           m == clients[c]
           e == <<k, b>>
<1>1. Shape(x) /\ Seqs(x) /\ Pumping(x) /\ x.reqs = <<>> /\ x.busy = <<>> /\ UnderWay(x) = UnderWay(conns[c])
  BY TakenQuiet
<1>2. r = Offer(x, "processor", AckOf(k, b))
  OBVIOUS
<1>3. Told(c, conns[c], m, answers)
  BY DEF OneInv, Fair
<1> HIDE DEF x, m
<1>4. Kept(x, r) /\ r.todo = x.todo /\ UnderWay(r) = UnderWay(x) \cup {<<k, b>>}
  BY <1>1, <1>2, OfferAck
<1>5. r.reqs = <<>> /\ r.busy = <<>> /\ Pumping(r)
  BY <1>1, <1>4 DEF Kept, Pumping
<1>6. UnderWay(r) = UnderWay(conns[c]) \cup {e} /\ Replies(r, m) = Replies(conns[c], m) \cup {e}
  BY <1>1, <1>4 DEF Replies
<1>7. /\ Reply(e, m.keys) /\ (IsCommand(e[1]) \/ e \in Range(answers))
      /\ \A s \in Replies(conns[c], m) : s[1] = e[1] => s = e
  BY DEF m
<1> HIDE DEF e
<1>8. Demands(r) = {}
  BY <1>5, NoDemand
<1>9. Single(Replies(r, m)) /\ \A s \in Replies(r, m) : Reply(s, m.keys)
  BY <1>3, <1>6, <1>7 DEF Told, Single
<1>10. \A s \in UnderWay(r) : IsCommand(s[1]) \/ s \in Range(answers)
  BY <1>3, <1>6, <1>7 DEF Told
<1>11. Numbered(m.keys, c)
  BY <1>3 DEF Told
<1>12. Told(c, r, m, answers)
  BY <1>5, <1>8, <1>9, <1>10, <1>11 DEF Told
<1> QED BY <1>5, <1>6, <1>12 DEF m, e

(* What is remembered is not forgotten while there is room.                *)
LEMMA KeepAll ==
  ASSUME NEW seen, IsSeq(seen), Len(seen) < Remembered, NEW e, NEW r, r = Keep(seen, e)
  PROVE  r = Append(seen, e)
<1> DEFINE all == Append(seen, e)
           lo  == Len(all) - Remembered + 1
<1>1. Len(seen) \in Nat /\ Remembered \in Nat \ {0}
  BY SeqFacts, ServerAssumption
<1>2. IsSeq(all) /\ Len(all) = Len(seen) + 1
  BY AppendFacts
<1>3. lo \in Int /\ lo <= 1
  BY <1>1, <1>2
<1>4. r = SubSeq(all, Max({1, lo}), Len(all))
  BY DEF Keep
<1> HIDE DEF all, lo
<1>5. Max({1, lo}) = 1
  <2>1. Max({1, lo}) = CHOOSE x \in {1, lo} : \A y \in {1, lo} : x >= y
    BY DEF Max
  <2>2. \E x \in {1, lo} : \A y \in {1, lo} : x >= y
    BY <1>3
  <2>3. Max({1, lo}) \in {1, lo} /\ \A y \in {1, lo} : Max({1, lo}) >= y
    BY <2>1, <2>2
  <2> QED BY <1>3, <2>3
<1>6. SubSeq(all, 1, Len(all)) = all
  <2>1. all \in Seq(Range(all))
    BY <1>2 DEF IsSeq
  <2> QED BY <2>1
<1> QED BY <1>4, <1>5, <1>6 DEF all

LEMMA SeenMore ==
  ASSUME NEW seen, IsSeq(seen), NEW e, NEW s2, s2 = Append(seen, e), NEW k
  PROVE  Seen(s2, k) <=> Seen(seen, k) \/ e[1] = k
<1>1. IsSeq(s2) /\ Len(s2) = Len(seen) + 1 /\ (\A i \in 1..Len(seen) : s2[i] = seen[i]) /\ s2[Len(seen) + 1] = e
  BY AppendFacts
<1>2. Len(seen) \in Nat /\ DOMAIN seen = 1..Len(seen) /\ DOMAIN s2 = 1..Len(s2)
  BY <1>1, SeqFacts
<1>3. DOMAIN s2 = DOMAIN seen \cup {Len(seen) + 1} /\ \A i \in DOMAIN seen : s2[i] = seen[i]
  BY <1>1, <1>2
<1> QED BY <1>1, <1>3 DEF Seen

LEMMA CarriedInput ==
  ASSUME NEW lg, IsSeq(lg), NEW seen, IsSeq(seen), Carried(lg, seen), NEW x, ~Seen(seen, CommandKey(x)),
         NEW lg2, lg2 = Append(lg, Event("input", x)), NEW s2, s2 = Append(seen, <<CommandKey(x), TRUE>>)
  PROVE  Carried(lg2, s2)
<1> DEFINE e == Event("input", x)
           n == <<CommandKey(x), TRUE>>
<1>1. e.kind = "input" /\ e.q = x /\ n[1] = CommandKey(x)
  BY DEF Event
<1>2. lg2 = Append(lg, e) /\ s2 = Append(seen, n)
  OBVIOUS
<1> HIDE DEF e, n
<1>3. IsSeq(lg2) /\ Len(lg2) = Len(lg) + 1 /\ (\A i \in 1..Len(lg) : lg2[i] = lg[i]) /\ lg2[Len(lg) + 1] = e
  BY <1>2, AppendFacts
<1>4. Len(lg) \in Nat /\ DOMAIN lg = 1..Len(lg) /\ DOMAIN lg2 = 1..Len(lg2)
  BY <1>3, SeqFacts
<1> DEFINE last == Len(lg) + 1
<1>5. DOMAIN lg2 = DOMAIN lg \cup {last} /\ (\A i \in DOMAIN lg : lg2[i] = lg[i]) /\ lg2[last] = e
  BY <1>3, <1>4
<1> HIDE DEF last
<1>6. \A i \in DOMAIN lg : lg[i] # e
  BY <1>1 DEF Carried
<1>7. \A k : Seen(seen, k) => Seen(s2, k)
  BY <1>2, SeenMore
<1>8. Seen(s2, CommandKey(x))
  BY <1>1, <1>2, SeenMore
<1>9. ASSUME NEW i \in DOMAIN lg2, lg2[i].kind = "input"
      PROVE  Seen(s2, CommandKey(lg2[i].q)) /\ \A j \in DOMAIN lg2 : lg2[j] = lg2[i] => j = i
  <2>1. CASE i \in DOMAIN lg
    <3>1. lg2[i] = lg[i] /\ lg[i].kind = "input" /\ lg[i] # e
      BY <1>5, <1>6, <1>9, <2>1
    <3>2. Seen(seen, CommandKey(lg[i].q)) /\ \A j \in DOMAIN lg : lg[j] = lg[i] => j = i
      BY <2>1, <3>1 DEF Carried
    <3>3. \A j \in DOMAIN lg2 : lg2[j] = lg2[i] => j \in DOMAIN lg /\ lg[j] = lg[i]
      BY <1>5, <3>1
    <3> QED BY <1>7, <3>1, <3>2, <3>3
  <2>2. CASE i = last
    <3>1. lg2[i] = e
      BY <1>5, <2>2
    <3>2. \A j \in DOMAIN lg2 : lg2[j] = e => j = last
      BY <1>5, <1>6
    <3> QED BY <1>1, <1>8, <2>2, <3>1, <3>2
  <2> QED BY <1>5, <1>9, <2>1, <2>2
<1> QED BY <1>9 DEF Carried

(* A key of a command has no other reply than this one.                    *)
LEMMA CommandTold ==
  ASSUME NEW c, NEW conn, NEW m, NEW seen, Told(c, conn, m, seen), NEW x \in Commands,
         NEW s \in Replies(conn, m), s[1] = CommandKey(x)
  PROVE  s = <<CommandKey(x), TRUE>>
<1>1. PICK k : \E b \in BOOLEAN : s = <<k, b>> /\ (k \in Range(m.keys) \/ (IsCommand(k) /\ b))
  BY DEF Told, Reply
<1>2. k = CommandKey(x)
  BY <1>1
<1>3. k \notin Range(m.keys)
  BY <1>2, CommandUnnumbered DEF Told
<1> QED BY <1>1, <1>2, <1>3

LEMMA OneCommand ==
  ASSUME OneInv, Inv, Unforgotten, NEW c \in Clients, Command(c)
  PROVE  OneInv'
<1> DEFINE conn == conns[c]
           key  == Head(conn.reqs).key
           acc  == TRUE
           r    == Offer(Taken(conn), "processor", AckOf(key, acc))
<1>1. /\ Request(c, "command") /\ conns' = [conns EXCEPT ![c] = r]
      /\ UNCHANGED <<board, answers, restarted, clients>>
  BY DEF Command
<1>2. Demand(Head(conn.reqs), Replies(conn, clients[c]), clients[c].keys, answers) /\ Head(conn.reqs).kind = "command"
  BY <1>1, TakenQuiet
<1>3. PICK x \in Commands : key = CommandKey(x)
  BY <1>2 DEF Demand, IsCommand
<1>4. IsCommand(key) /\ Reply(<<key, acc>>, clients[c].keys)
  BY <1>3 DEF IsCommand, Reply
<1>5. key[2] = x /\ x \notin Questions
  BY <1>3, ServerAssumption DEF CommandKey, Questions
<1>6. IsSeq(dedupe') /\ (~restarted => Carried(log', dedupe'))
  <2>1. CASE Seen(dedupe, key) /\ UNCHANGED <<log, dedupe>>
    BY <2>1 DEF OneInv
  <2>2. CASE ~Seen(dedupe, key) /\ log' = Append(log, Event("input", key[2])) /\ dedupe' = Keep(dedupe, <<key, TRUE>>)
    <3>1. IsSeq(dedupe) /\ IsSeq(log)
      BY DEF OneInv, Inv
    <3>2. dedupe' = Append(dedupe, <<key, TRUE>>)
      BY <2>2, <3>1, KeepAll DEF Unforgotten
    <3>3. IsSeq(dedupe')
      BY <3>1, <3>2, AppendFacts
    <3>4. ~Seen(dedupe, CommandKey(x)) /\ log' = Append(log, Event("input", x))
          /\ dedupe' = Append(dedupe, <<CommandKey(x), TRUE>>)
      BY <1>3, <1>5, <2>2, <3>2
    <3> QED BY <3>1, <3>3, <3>4, CarriedInput DEF OneInv
  <2> QED BY <2>1, <2>2 DEF Command
<1> HIDE DEF key, acc
<1>10. \A s \in Replies(conn, clients[c]) : s[1] = key => s = <<key, acc>>
  <2>1. Told(c, conn, clients[c], answers)
    BY DEF OneInv, Fair
  <2> QED BY <1>3, <2>1, CommandTold DEF acc
<1>7. /\ Told(c, r, clients[c], answers) /\ r.busy = <<>>
      /\ Replies(r, clients[c]) = Replies(conn, clients[c]) \cup {<<key, acc>>}
  BY <1>1, <1>4, <1>10, AckTold
<1>8. Put(clients, c, clients[c], clients')
  BY <1>1 DEF Put
<1> HIDE DEF r
<1>9. \A k : <<k, TRUE>> \in Replies(r, clients[c]) =>
                 \/ k[2] \notin Questions \/ <<k, TRUE>> \in Range(answers)
                 \/ <<k, TRUE>> \in Replies(conn, clients[c])
  BY <1>5, <1>7
<1> QED BY <1>1, <1>6, <1>7, <1>8, <1>9, OneChange

LEMMA OriginalIs ==
  ASSUME NEW seen, Memory(seen), NEW k, Seen(seen, k), NEW b, b = Original(seen, k)
  PROVE  b \in BOOLEAN /\ <<k, b>> \in Range(seen)
<1> DEFINE S == {i \in DOMAIN seen : seen[i][1] = k}
<1>1. PICK i \in DOMAIN seen : seen[i][1] = k
  BY DEF Seen
<1>2. S = {i} /\ i \in Nat
  BY <1>1, SeqFacts DEF Memory
<1>3. Min(S) = i
  <2>1. Min(S) = CHOOSE x \in S : \A y \in S : x <= y
    BY DEF Min
  <2> HIDE DEF S
  <2> QED BY <1>2, <2>1
<1>4. b = seen[i][2]
  BY <1>3 DEF Original
<1>5. PICK l : \E d \in BOOLEAN : seen[i] = <<l, d>>
  BY <1>1 DEF Memory
<1> QED BY <1>1, <1>4, <1>5 DEF Range

LEMMA OneAnswerAgain ==
  ASSUME OneInv, Inv, NEW c \in Clients, AnswerAgain(c)
  PROVE  OneInv'
<1> DEFINE conn == conns[c]
           key  == Head(conn.reqs).key
           acc  == Original(answers, key)
           r    == Offer(Taken(conn), "processor", AckOf(key, acc))
<1>1. /\ Request(c, "answer") /\ conns' = [conns EXCEPT ![c] = r] /\ Seen(answers, key)
      /\ UNCHANGED <<board, answers, restarted, clients, dedupe, log>>
  BY DEF AnswerAgain
<1>2. Demand(Head(conn.reqs), Replies(conn, clients[c]), clients[c].keys, answers) /\ Head(conn.reqs).kind = "answer"
  BY <1>1, TakenQuiet
<1>3. key \in Range(clients[c].keys)
  BY <1>2 DEF Demand
<1>4. acc \in BOOLEAN /\ <<key, acc>> \in Range(answers)
  BY <1>1, OriginalIs DEF OneInv
<1> HIDE DEF key, acc
<1>5. Reply(<<key, acc>>, clients[c].keys)
  BY <1>3, <1>4 DEF Reply
<1>6. \A s \in Replies(conn, clients[c]) : s[1] = key => s = <<key, acc>>
  <2>1. TAKE s \in Replies(conn, clients[c])
  <2>2. HAVE s[1] = key
  <2>3. s \in Range(answers)
    BY <1>2, <2>2 DEF Demand, key
  <2> DEFINE e == <<key, acc>>
  <2>4. e \in Range(answers) /\ s[1] = e[1] /\ Memory(answers)
    BY <1>4, <2>2 DEF OneInv
  <2> HIDE DEF e
  <2>5. s = e
    BY <2>3, <2>4, MemoryOne
  <2> QED BY <2>5 DEF e
<1>7. /\ Told(c, r, clients[c], answers) /\ r.busy = <<>>
      /\ Replies(r, clients[c]) = Replies(conn, clients[c]) \cup {<<key, acc>>}
  BY <1>1, <1>4, <1>5, <1>6, AckTold
<1>8. Put(clients, c, clients[c], clients')
  BY <1>1 DEF Put
<1> HIDE DEF r
<1>9. \A k : <<k, TRUE>> \in Replies(r, clients[c]) =>
                 \/ k[2] \notin Questions \/ <<k, TRUE>> \in Range(answers)
                 \/ <<k, TRUE>> \in Replies(conn, clients[c])
  BY <1>4, <1>7
<1>10. IsSeq(dedupe') /\ (~restarted => Carried(log', dedupe'))
  BY <1>1 DEF OneInv
<1> QED BY <1>1, <1>7, <1>8, <1>9, <1>10, OneChange

-----------------------------------------------------------------------------
(* Answers.                                                                *)

(* The one that finds the question open wins.                              *)
LEMMA WinnerTakes ==
  ASSUME NEW q, NEW at, NEW cs, NEW ms, NEW seen, Winner(q, at, cs, ms, seen), at.state = "open",
         NEW key, NEW cs2, NEW ms2, NEW seen2,
         \A k : Wins(k, cs2, ms2, seen2) /\ k[2] = q => Wins(k, cs, ms, seen) \/ k = key,
         NEW at2, DOMAIN at2 = AtFields, at2.opens = at.opens, at2.state = "answered"
  PROVE  Winner(q, at2, cs2, ms2, seen2)
<1>1. /\ at.opens \in Nat /\ at.opens # 0
      /\ at.opens = 1 => \A k : Wins(k, cs, ms, seen) => k[2] # q
  BY DEF Winner
<1>2. at2.opens = 1 => \A k : Wins(k, cs2, ms2, seen2) /\ k[2] = q => k = key
  BY <1>1
<1>3. at2.opens = 1 =>
        \A k, l : Wins(k, cs2, ms2, seen2) /\ Wins(l, cs2, ms2, seen2) /\ k[2] = q /\ l[2] = q => k = l
  BY <1>2
<1> QED BY <1>1, <1>3 DEF Winner, AtFields

LEMMA OneAnswer ==
  ASSUME OneInv, Inv, NEW c \in Clients, Answer(c)
  PROVE  OneInv'
<1> DEFINE conn  == conns[c]
           m     == clients[c]
           req   == Head(conn.reqs)
           key   == req.key
           q     == req.q
           x     == Taken(conn)
           fresh == q \notin conn.closed
           won   == Open(q)
           busy  == <<key, q, fresh, won>>
           r     == [x EXCEPT !.closed = x.closed \cup {q}, !.busy = busy]
           cs    == [conns EXCEPT ![c] = r]
<1>1. /\ Request(c, "answer") /\ ~Seen(answers, key) /\ \A d \in Clients : conns[d].busy = <<>>
      /\ UNCHANGED <<log, answers, dedupe, clients, restarted>>
      /\ board' = IF won THEN Answered(q) ELSE board
      /\ conns' = Reported(cs, q, "close") \/ conns' = cs
  BY DEF Answer
<1>2. /\ Shape(x) /\ Pumping(x) /\ x.reqs = <<>> /\ UnderWay(x) = UnderWay(conn)
      /\ Demand(req, Replies(conn, m), m.keys, answers) /\ req.kind = "answer"
  BY <1>1, TakenQuiet
<1>3. /\ key \in Range(m.keys) /\ key[2] = q
      /\ \A s \in Replies(conn, m) : s[1] = key => s \in Range(answers)
  BY <1>2 DEF Demand
<1>4. fresh \in BOOLEAN /\ won \in BOOLEAN /\ (won <=> Open(q))
  BY DEF Open
<1>5. busy = <<key, key[2], fresh, won>> /\ busy # <<>> /\ busy[1] = key /\ busy[4] = won
  BY <1>3
<1>6. Fair(conns, clients, answers, board) /\ Memory(answers) /\ DOMAIN conns = Clients
  BY DEF OneInv, Inv, Good
<1> HIDE DEF key, q, x, fresh, won, req
<1>7. \A s \in Replies(conn, m) : s[1] # key
  BY <1>1, <1>3 DEF Seen, Range
<1>8. Answering(busy, Replies(conn, m), m.keys, answers)
  BY <1>1, <1>3, <1>4, <1>5, <1>7 DEF Answering
<1> HIDE DEF busy
<1>9. /\ r.out = x.out /\ r.wait = x.wait /\ r.todo = x.todo /\ r.asks = x.asks
      /\ r.reqs = x.reqs /\ r.busy = busy
  BY <1>2 DEF Shape, Fields
<1> HIDE DEF r
<1>10. UnderWay(r) = UnderWay(conn) /\ Pumping(r) /\ Demands(r) = {} /\ Replies(r, m) = Replies(conn, m)
  <2>1. UnderWay(r) = UnderWay(conn)
    BY <1>2, <1>9 DEF UnderWay, Queued
  <2>2. Demands(r) = {}
    BY <1>2, <1>9, NoDemand
  <2> QED BY <1>2, <1>9, <2>1, <2>2 DEF Replies, Pumping
<1>11. Told(c, conn, m, answers)
  BY <1>6 DEF Fair
<1>12. Told(c, r, m, answers)
  BY <1>8, <1>9, <1>10, <1>11 DEF Told
<1>13. DOMAIN board' = Questions /\ \A p \in Questions : Winner(p, board'[p], cs, clients, answers)
  <2>1. \A k : Wins(k, cs, clients, answers) => Wins(k, conns, clients, answers) \/ (k = key /\ won)
    <3>1. TAKE k
    <3>2. HAVE Wins(k, cs, clients, answers)
    <3>3. Put(clients, c, m, clients)
      BY DEF Put
    <3>4. \/ Wins(k, conns, clients, answers)
          \/ <<k, TRUE>> \in Range(answers)
          \/ <<k, TRUE>> \in Replies(r, m)
          \/ r.busy # <<>> /\ r.busy[1] = k /\ r.busy[4]
      BY <1>6, <3>2, <3>3, WinsOne
    <3>5. CASE <<k, TRUE>> \in Range(answers) \/ <<k, TRUE>> \in Replies(r, m)
      BY <1>10, <3>5 DEF Wins
    <3>6. CASE r.busy # <<>> /\ r.busy[1] = k /\ r.busy[4]
      BY <1>5, <1>9, <3>6
    <3> QED BY <3>4, <3>5, <3>6
  <2>2. CASE won /\ q \in Questions
    <3>1. board' = Answered(q) /\ board[q].state = "open"
      BY <1>1, <1>4, <2>2 DEF Open
    <3>2. /\ DOMAIN board' = Questions /\ \A p \in Questions : Moves(board[p], board'[p])
          /\ \A p \in Questions : p # q => board'[p] = board[p]
          /\ board'[q].opens = board[q].opens /\ board'[q].state = "answered"
      BY <2>2, <3>1, AnsweredMoves
    <3>3. ASSUME NEW p \in Questions PROVE Winner(p, board'[p], cs, clients, answers)
      <4>1. Winner(p, board[p], conns, clients, answers)
        BY <1>6 DEF Fair
      <4>2. CASE p = q
        <5>1. DOMAIN board'[q] = AtFields
          BY <2>2, <3>2 DEF Moves
        <5>2. Winner(q, board[q], conns, clients, answers)
          BY <4>1, <4>2
        <5>3. \A k : Wins(k, cs, clients, answers) /\ k[2] = q => Wins(k, conns, clients, answers) \/ k = key
          BY <2>1
        <5> HIDE DEF cs
        <5>4. Winner(q, board'[q], cs, clients, answers)
          BY <3>1, <3>2, <5>1, <5>2, <5>3, WinnerTakes
        <5> QED BY <4>2, <5>4
      <4>3. CASE p # q
        <5>1. \A k : Wins(k, cs, clients, answers) /\ k[2] = p => Wins(k, conns, clients, answers)
          BY <1>3, <2>1, <4>3
        <5>2. Moves(board[p], board'[p])
          BY <3>2
        <5> QED BY <4>1, <5>1, <5>2, WinnerMoves
      <4> QED BY <4>2, <4>3
    <3> QED BY <3>2, <3>3
  <2>3. CASE ~won
    <3>1. board' = board
      BY <1>1, <2>3
    <3>2. ASSUME NEW p \in Questions PROVE Winner(p, board'[p], cs, clients, answers)
      <4>1. Winner(p, board[p], conns, clients, answers)
        BY <1>6 DEF Fair
      <4>2. Moves(board[p], board'[p])
        BY <3>1, <4>1 DEF Winner, Moves, AtFields
      <4>3. \A k : Wins(k, cs, clients, answers) /\ k[2] = p => Wins(k, conns, clients, answers)
        BY <2>1, <2>3
      <4> QED BY <4>1, <4>2, <4>3, WinnerMoves
    <3>3. DOMAIN board = Questions
      BY <1>6 DEF Fair
    <3> QED BY <3>1, <3>2, <3>3
  <2>4. q \in Questions
    <3>1. PICK i \in DOMAIN m.keys : m.keys[i] = key
      BY <1>3 DEF Range
    <3>2. \E p \in Questions : m.keys[i] = <<c, p, i>>
      BY <1>11 DEF Told, Numbered
    <3> QED BY <1>3, <3>1, <3>2
  <2> QED BY <1>4, <2>2, <2>3, <2>4
<1>14. Fair(cs, clients, answers, board')
  <2>1. Put(clients, c, m, clients)
    BY DEF Put
  <2>2. \A d \in Clients \ {c} : Told(d, conns[d], clients[d], answers) /\ conns[d].busy = <<>>
    BY <1>1, <1>6 DEF Fair
  <2> QED BY <1>6, <1>12, <1>13, <2>1, <2>2, FairChange
<1>15. Fair(conns', clients, answers, board')
  <2>1. CASE conns' = cs
    BY <1>14, <2>1
  <2>2. CASE conns' = Reported(cs, q, "close")
    <3>1. \A d \in Clients : Pumping(cs[d])
      BY <1>14 DEF Fair, Told
    <3>2. Good(cs, clients, NextSeq)
      <4>1. Connection(r, m.next, NextSeq)
        <5>1. Connection(conn, m.next, NextSeq) /\ conn.up /\ conn.sub /\ conn.reqs = <<Head(conn.reqs)>> /\ Shape(conn)
          BY <1>1, At, RequestOf
        <5>2. Books(conn, NextSeq) /\ Flow(conn, m.next, conn.cursor)
          BY <5>1 DEF Connection, Live
        <5>3. /\ Shape(x) /\ Books(x, NextSeq) /\ x.up = conn.up /\ x.sub = conn.sub /\ x.cursor = conn.cursor
              /\ x.out = conn.out /\ x.wait = conn.wait /\ x.todo = conn.todo
          BY <5>1, <5>2, TakenIs DEF x
        <5>4. /\ Shape(r) /\ r.out = x.out /\ r.wait = x.wait /\ r.todo = x.todo
              /\ r.cursor = x.cursor /\ r.open = x.open
          BY <5>3 DEF Shape, Fields, r
        <5>5. r.reqs = x.reqs /\ r.asks = x.asks /\ r.up = x.up /\ r.sub = x.sub
          BY <5>3 DEF Shape, Fields, r
        <5>6. Books(r, NextSeq)
          BY <5>3, <5>4, <5>5 DEF Books
        <5>7. Flow(r, m.next, r.cursor)
          BY <5>2, <5>3, <5>4, FlowSame
        <5> QED BY <5>1, <5>3, <5>4, <5>5, <5>6, <5>7 DEF Connection, Live
      <4> QED BY <4>1, OneConnection DEF Inv
    <3> HIDE DEF cs
    <3>3. Calm(cs, clients, conns', clients)
      BY <2>2, <3>1, <3>2, ReportedCalm
    <3>4. DOMAIN board' = Questions /\ \A p \in Questions : Moves(board'[p], board'[p])
      BY <1>14 DEF Fair, Winner, Moves, AtFields
    <3> QED BY <1>14, <3>3, <3>4, FairCalm
  <2> QED BY <1>1, <2>1, <2>2
<1> QED BY <1>1, <1>6, <1>15 DEF OneInv

(* More is remembered.                                                     *)
LEMMA SeenTold ==
  ASSUME NEW d, NEW conn, NEW m, NEW seen, Told(d, conn, m, seen), conn.busy = <<>>,
         NEW seen2, Range(seen) \subseteq Range(seen2)
  PROVE  Told(d, conn, m, seen2)
<1>1. \A x \in Demands(conn) : Demand(x, Replies(conn, m), m.keys, seen2)
  BY DEF Told, Demand
<1> QED BY <1>1 DEF Told

LEMMA MemoryMore ==
  ASSUME NEW seen, Memory(seen), NEW k, NEW b \in BOOLEAN, ~Seen(seen, k), NEW s2, s2 = Append(seen, <<k, b>>)
  PROVE  Memory(s2)
<1> DEFINE e == <<k, b>>
           last == Len(seen) + 1
<1>1. IsSeq(s2) /\ Len(s2) = Len(seen) + 1 /\ (\A i \in 1..Len(seen) : s2[i] = seen[i]) /\ s2[Len(seen) + 1] = e
  BY AppendFacts DEF Memory
<1>2. Len(seen) \in Nat /\ DOMAIN seen = 1..Len(seen) /\ DOMAIN s2 = 1..Len(s2)
  BY <1>1, SeqFacts DEF Memory
<1>3. DOMAIN s2 = DOMAIN seen \cup {last} /\ (\A i \in DOMAIN seen : s2[i] = seen[i]) /\ s2[last] = e
  BY <1>1, <1>2
<1> HIDE DEF last
<1>4. \A i \in DOMAIN s2 : \E l : \E d \in BOOLEAN : s2[i] = <<l, d>>
  <2>1. TAKE i \in DOMAIN s2
  <2>2. CASE i \in DOMAIN seen
    BY <1>3, <2>2 DEF Memory
  <2>3. CASE i = last
    BY <1>3, <2>3
  <2> QED BY <1>3, <2>2, <2>3
<1>5. ASSUME NEW i \in DOMAIN s2, NEW j \in DOMAIN s2, s2[i][1] = s2[j][1] PROVE i = j
  <2>1. \A n \in DOMAIN seen : s2[n][1] # k
    BY <1>3 DEF Seen
  <2>2. s2[last][1] = k
    BY <1>3
  <2>3. CASE i \in DOMAIN seen /\ j \in DOMAIN seen
    BY <1>3, <1>5, <2>3 DEF Memory
  <2> QED BY <1>3, <1>5, <2>1, <2>2, <2>3
<1> QED BY <1>1, <1>4, <1>5 DEF Memory

(* The answer is remembered, and its ack sent.                             *)
LEMMA DoneTold ==
  ASSUME NEW c, NEW conn, NEW m, NEW seen, IsSeq(seen), Told(c, conn, m, seen),
         NEW k, NEW b \in BOOLEAN, k \in Range(m.keys), \A s \in Replies(conn, m) : s[1] # k,
         NEW seen2, seen2 = Append(seen, <<k, b>>),
         NEW r, r.busy = <<>>, Pumping(r), Demands(r) = Demands(conn), UnderWay(r) = UnderWay(conn) \cup {<<k, b>>}
  PROVE  Told(c, r, m, seen2)
<1> DEFINE e == <<k, b>>
<1>1. Range(seen2) = Range(seen) \cup {e}
  BY AppendRange
<1>2. UnderWay(r) = UnderWay(conn) \cup {e} /\ Replies(r, m) = Replies(conn, m) \cup {e}
  BY DEF Replies
<1>3. Reply(e, m.keys) /\ e[1] = k
  BY DEF Reply
<1> HIDE DEF e
<1>4. Single(Replies(r, m))
  BY <1>2, <1>3 DEF Single, Told
<1>5. \A s \in Replies(r, m) : Reply(s, m.keys)
  BY <1>2, <1>3 DEF Told
<1>6. \A s \in UnderWay(r) : IsCommand(s[1]) \/ s \in Range(seen2)
  BY <1>1, <1>2 DEF Told
<1>7. \A d \in Demands(r) : Demand(d, Replies(r, m), m.keys, seen2)
  <2>1. TAKE d \in Demands(r)
  <2>2. Demand(d, Replies(conn, m), m.keys, seen)
    BY DEF Told
  <2> QED BY <1>1, <1>2, <2>2 DEF Demand
<1> QED BY <1>4, <1>5, <1>6, <1>7 DEF Told

LEMMA OneAnswerDone ==
  ASSUME OneInv, Inv, Unforgotten, NEW c \in Clients, AnswerDone(c)
  PROVE  OneInv'
<1> DEFINE conn == conns[c]
           m    == clients[c]
           key  == conn.busy[1]
           q    == conn.busy[2]
           won  == conn.busy[4]
           gone == IF ~won /\ conn.busy[3] THEN conn.closed \ {q} ELSE conn.closed
           mine == [conn EXCEPT !.busy = <<>>, !.closed = gone]
           r    == Offer(mine, "processor", AckOf(key, won))
           e    == <<key, won>>
           seen == Append(answers, e)
           cs   == [conns EXCEPT ![c] = r]
<1>1. /\ conn.up /\ conn.busy # <<>> /\ answers' = Keep(answers, e)
      /\ \A d \in Clients : conns'[d] = IF d = c THEN r
             ELSE IF won /\ conns[d].up /\ conns[d].sub THEN CloseQuestion(conns[d], q) ELSE conns[d]
      /\ UNCHANGED <<log, board, dedupe, clients, restarted>>
  BY DEF AnswerDone
<1>2. Fair(conns, clients, answers, board) /\ Memory(answers) /\ DOMAIN conns = Clients /\ IsSeq(answers)
  BY DEF OneInv, Inv, Good, Memory
<1>3. Told(c, conn, m, answers)
  BY <1>2 DEF Fair
<1>4. /\ key \in Range(m.keys) /\ won \in BOOLEAN
      /\ ~Seen(answers, key) /\ \A s \in Replies(conn, m) : s[1] # key
  <2>1. PICK k \in Range(m.keys), fresh \in BOOLEAN, w \in BOOLEAN :
          conn.busy = <<k, k[2], fresh, w>> /\ ~Seen(answers, k) /\ \A s \in Replies(conn, m) : s[1] # k
    BY <1>1, <1>3 DEF Told, Answering
  <2>2. key = k /\ won = w
    BY <2>1
  <2> QED BY <2>1, <2>2
<1>5. answers' = seen
  BY <1>1, <1>2, KeepAll DEF Unforgotten
<1>6. Shape(conn) /\ Seqs(conn) /\ Pumping(conn)
  BY <1>1, <1>3, SeqsOf DEF Told
<1> HIDE DEF key, q, won, gone
<1>7. /\ Shape(mine) /\ mine.out = conn.out /\ mine.wait = conn.wait /\ mine.todo = conn.todo
      /\ mine.asks = conn.asks /\ mine.reqs = conn.reqs /\ mine.busy = <<>>
  BY <1>6 DEF Shape, Fields
<1>8. r = Offer(mine, "processor", AckOf(key, won))
  OBVIOUS
<1> HIDE DEF mine, r
<1>9. Seqs(mine)
  BY <1>6, <1>7 DEF Seqs
<1>10. Kept(mine, r) /\ r.todo = mine.todo /\ UnderWay(r) = UnderWay(mine) \cup {<<key, won>>}
  BY <1>7, <1>8, <1>9, OfferAck
<1>11. r.busy = <<>> /\ Pumping(r) /\ Demands(r) = Demands(conn) /\ UnderWay(r) = UnderWay(conn) \cup {e}
  BY <1>6, <1>7, <1>10 DEF Kept, Pumping, Demands, UnderWay, Queued
<1>12. Told(c, r, m, seen)
  BY <1>2, <1>3, <1>4, <1>11, DoneTold
<1>13. IsSeq(seen) /\ Range(seen) = Range(answers) \cup {e}
  BY <1>2, AppendRange
<1>14. Memory(seen)
  BY <1>2, <1>4, MemoryMore
<1> HIDE DEF seen
<1>15. \A d \in Clients \ {c} : conns[d].busy = <<>>
  BY <1>1, <1>2 DEF Fair, OneBusy
<1>16. \A d \in Clients \ {c} : Told(d, conns[d], clients[d], seen)
  <2>1. TAKE d \in Clients \ {c}
  <2>2. Told(d, conns[d], clients[d], answers) /\ conns[d].busy = <<>>
    BY <1>2, <1>15 DEF Fair
  <2> QED BY <1>13, <2>2, SeenTold
<1>17. Put(clients, c, m, clients)
  BY DEF Put
<1>18. \A k : Wins(k, cs, clients, seen) => Wins(k, conns, clients, answers)
  <2>1. TAKE k
  <2>2. HAVE Wins(k, cs, clients, seen)
  <2>3. \/ Wins(k, conns, clients, answers)
        \/ <<k, TRUE>> \in Range(seen)
        \/ <<k, TRUE>> \in Replies(r, m)
        \/ r.busy # <<>> /\ r.busy[1] = k /\ r.busy[4]
    BY <1>2, <1>17, <2>2, WinsOne
  <2>4. CASE <<k, TRUE>> = e
    <3>1. k = key /\ won
      BY <2>4
    <3> QED BY <1>1, <3>1 DEF Wins, key, won
  <2>5. CASE <<k, TRUE>> \in Range(answers)
    BY <2>5 DEF Wins
  <2>6. CASE <<k, TRUE>> \in Replies(conn, m)
    BY <2>6 DEF Wins
  <2>7. Replies(r, m) = Replies(conn, m) \cup {e}
    BY <1>11 DEF Replies
  <2> HIDE DEF e
  <2> QED BY <1>11, <1>13, <2>3, <2>4, <2>5, <2>6, <2>7
<1>19. \A p \in Questions : Winner(p, board[p], cs, clients, seen)
  <2>1. TAKE p \in Questions
  <2>2. Winner(p, board[p], conns, clients, answers) /\ Moves(board[p], board[p])
    BY <1>2 DEF Fair, Winner, Moves, AtFields
  <2> HIDE DEF cs
  <2> QED BY <1>18, <2>2, WinnerMoves
<1>20. DOMAIN board = Questions
  BY <1>2 DEF Fair
<1>21. Fair(cs, clients, seen, board)
  BY <1>2, <1>11, <1>12, <1>15, <1>16, <1>17, <1>19, <1>20, FairChange
<1>22. Calm(cs, clients, conns', clients)
  <2>1. ASSUME NEW d \in Clients PROVE Calmer(cs[d], clients[d], conns'[d], clients[d])
    <3>1. Told(d, cs[d], clients[d], seen)
      BY <1>21 DEF Fair
    <3>2. Calmer(cs[d], clients[d], cs[d], clients[d])
      BY <3>1, CalmerSame
    <3>3. CASE d = c
      <4>1. conns'[d] = cs[d]
        BY <1>1, <1>2, <3>3
      <4> QED BY <3>2, <4>1
    <3>4. CASE d # c /\ conns'[d] = CloseQuestion(conns[d], q) /\ conns[d].up
      <4> DEFINE x == conns[d]
                 y == CloseQuestion(conns[d], q)
      <4>1. cs[d] = x
        BY <1>2, <3>4
      <4>2. Shape(x) /\ Seqs(x) /\ Pumping(x)
        BY <3>1, <3>4, <4>1, SeqsOf DEF Told
      <4>3. Unreplied(x, y)
        BY <4>2, ClosePlain DEF Pumping
      <4> HIDE DEF x, y
      <4>4. Calmer(x, clients[d], y, clients[d])
        BY <4>2, <4>3, PumpCalmer DEF Pumping
      <4> QED BY <3>4, <4>1, <4>4 DEF y
    <3>5. CASE d # c /\ conns'[d] = conns[d]
      <4>1. cs[d] = conns[d]
        BY <1>2, <3>5
      <4> QED BY <3>2, <3>5, <4>1
    <3> QED BY <1>1, <3>3, <3>4, <3>5
  <2> HIDE DEF cs
  <2> QED BY <2>1 DEF Calm
<1> HIDE DEF cs
<1>23. \A p \in Questions : Moves(board[p], board[p])
  BY <1>21 DEF Fair, Winner, Moves, AtFields
<1>24. Fair(conns', clients, seen, board)
  BY <1>20, <1>21, <1>22, <1>23, FairCalm
<1> QED BY <1>1, <1>5, <1>14, <1>24 DEF OneInv

-----------------------------------------------------------------------------
(* What the users ask.                                                     *)

NextKey(keys, c, q) == <<c, q, Len(keys) + 1>>
KeyAdded(keys, key, keys2, c) ==
  /\ Numbered(keys2, c) /\ Range(keys2) = Range(keys) \cup {key}
  /\ key \notin Range(keys) /\ ~IsCommand(key) /\ ~Contains(keys, key)

LEMMA KeysMore ==
  ASSUME NEW c, NEW keys, Numbered(keys, c), NEW q \in Questions, NEW key, key = NextKey(keys, c, q),
         NEW keys2, keys2 = Append(keys, key)
  PROVE  KeyAdded(keys, key, keys2, c)
<1>1. /\ IsSeq(keys2) /\ Len(keys2) = Len(keys) + 1
      /\ (\A i \in 1..Len(keys) : keys2[i] = keys[i]) /\ keys2[Len(keys) + 1] = key
  BY AppendFacts DEF Numbered
<1>2. Len(keys) \in Nat /\ DOMAIN keys = 1..Len(keys) /\ DOMAIN keys2 = 1..Len(keys2)
  BY <1>1, SeqFacts DEF Numbered
<1> DEFINE last == Len(keys) + 1
<1>3. /\ DOMAIN keys2 = DOMAIN keys \cup {last} /\ (\A i \in DOMAIN keys : keys2[i] = keys[i])
      /\ keys2[last] = <<c, q, last>> /\ last \in Nat /\ last # 0
  BY <1>1, <1>2 DEF NextKey
<1>4. last \notin DOMAIN keys /\ \A i \in DOMAIN keys : i \in 1..Len(keys)
  BY <1>2
<1>5. key = <<c, q, last>>
  BY DEF NextKey
<1> HIDE DEF last
<1>6. \A i \in DOMAIN keys2 : \E p \in Questions : keys2[i] = <<c, p, i>>
  BY <1>3 DEF Numbered
<1>7. \A i \in DOMAIN keys : keys[i] # key
  <2>1. TAKE i \in DOMAIN keys
  <2>2. PICK p \in Questions : keys[i] = <<c, p, i>>
    BY DEF Numbered
  <2> QED BY <1>4, <1>5, <2>2
<1>8. Range(keys2) = Range(keys) \cup {key}
  BY AppendRange DEF Numbered
<1>9. ~IsCommand(key)
  BY <1>3, <1>5 DEF IsCommand, CommandKey
<1> QED BY <1>1, <1>2, <1>6, <1>7, <1>8, <1>9 DEF KeyAdded, Numbered, Range, Contains

(* One more request waits on a connection.                                 *)
Asking(conn, req) == [conn EXCEPT !.reqs = Append(@, req)]
AsksMore(conn, req, r) ==
  /\ Demands(r) \subseteq {req} /\ UnderWay(r) = UnderWay(conn) /\ r.busy = conn.busy
  /\ r.todo = conn.todo /\ r.asks = conn.asks
Widens(m, n) == n.acks = m.acks /\ Range(m.keys) \subseteq Range(n.keys)

LEMMA MoreDemands ==
  ASSUME NEW conn, Shape(conn), conn.reqs = <<>>, NEW req, NEW r, r = Asking(conn, req)
  PROVE  AsksMore(conn, req, r)
<1>1. Append(conn.reqs, req) = <<req>>
  OBVIOUS
<1>2. r = [conn EXCEPT !.reqs = <<req>>]
  BY <1>1 DEF Asking
<1>3. /\ r.out = conn.out /\ r.wait = conn.wait /\ r.todo = conn.todo /\ r.asks = conn.asks
      /\ r.reqs = <<req>> /\ r.busy = conn.busy
  BY <1>2 DEF Shape, Fields
<1>4. \A x \in Range(<<req>>) : x = req
  BY DEF Range
<1> QED BY <1>3, <1>4 DEF AsksMore, Demands, UnderWay, Queued

LEMMA AskedTold ==
  ASSUME NEW c, NEW conn, NEW m, NEW seen, Told(c, conn, m, seen),
         NEW r, NEW n, NEW req, AsksMore(conn, req, r), Widens(m, n),
         Numbered(n.keys, c), Demand(req, Replies(conn, m), n.keys, seen)
  PROVE  Told(c, r, n, seen) /\ Replies(r, n) = Replies(conn, m)
<1>1. Replies(r, n) = Replies(conn, m) /\ Pumping(r)
  BY DEF AsksMore, Widens, Replies, Told, Pumping
<1>2. \A s \in Replies(r, n) : Reply(s, n.keys)
  <2>1. TAKE s \in Replies(r, n)
  <2>2. Reply(s, m.keys)
    BY <1>1 DEF Told
  <2>3. PICK k : \E b \in BOOLEAN : s = <<k, b>> /\ (k \in Range(m.keys) \/ (IsCommand(k) /\ b))
    BY <2>2 DEF Reply
  <2>4. PICK b \in BOOLEAN : s = <<k, b>> /\ (k \in Range(m.keys) \/ (IsCommand(k) /\ b))
    BY <2>3
  <2>5. k \in Range(n.keys) \/ (IsCommand(k) /\ b)
    BY <2>4 DEF Widens
  <2> QED BY <2>4, <2>5 DEF Reply
<1>3. \A d \in Demands(r) : Demand(d, Replies(r, n), n.keys, seen)
  BY <1>1 DEF AsksMore
<1>4. ASSUME r.busy # <<>> PROVE Answering(r.busy, Replies(r, n), n.keys, seen)
  <2>1. Answering(conn.busy, Replies(conn, m), m.keys, seen)
    BY <1>4 DEF Told, AsksMore
  <2>2. PICK k \in Range(m.keys), fresh \in BOOLEAN, won \in BOOLEAN :
          conn.busy = <<k, k[2], fresh, won>> /\ ~Seen(seen, k) /\ \A s \in Replies(conn, m) : s[1] # k
    BY <2>1 DEF Answering
  <2>3. k \in Range(n.keys) /\ r.busy = conn.busy
    BY <2>2 DEF Widens, AsksMore
  <2> QED BY <1>1, <2>2, <2>3 DEF Answering
<1> QED BY <1>1, <1>2, <1>3, <1>4 DEF Told, AsksMore

(* What was not acked can be asked again: any reply is the one remembered. *)
LEMMA RetryDemand ==
  ASSUME NEW c, NEW conn, NEW m, NEW seen, Told(c, conn, m, seen),
         NEW key \in Range(m.keys), ~Acked(m, key),
         NEW s \in Replies(conn, m), s[1] = key
  PROVE  s \in Range(seen)
<1>1. Reply(s, m.keys)
  BY DEF Told
<1>2. PICK k : \E b \in BOOLEAN : s = <<k, b>>
  BY <1>1 DEF Reply
<1>3. PICK b \in BOOLEAN : s = <<key, b>>
  BY <1>2
<1>4. s \notin m.acks
  BY <1>3 DEF Acked
<1>5. s \in UnderWay(conn)
  BY <1>4 DEF Replies
<1>6. ~IsCommand(key)
  BY CommandUnnumbered DEF IsCommand, Told
<1> QED BY <1>5, <1>6 DEF Told

LEMMA OneUserAnswers ==
  ASSUME OneInv, Inv, NEW c \in Clients, NEW q \in Questions, UserAnswers(c, q)
  PROVE  OneInv'
<1> DEFINE conn == conns[c]
           m    == clients[c]
           Req(key) == [kind |-> "answer", key |-> key, q |-> q]
<1>1. conn.up /\ conn.reqs = <<>> /\ UNCHANGED <<log, board, answers, dedupe, restarted>>
  BY DEF UserAnswers
<1>2. PICK key \in {<<c, q, Len(m.keys) + 1>>} \cup {k \in Range(m.keys) : k[2] = q /\ ~Acked(m, k)} :
         /\ conns' = [conns EXCEPT ![c].reqs = Append(@, Req(key))]
         /\ clients' = [clients EXCEPT ![c].keys = IF Contains(@, key) THEN @ ELSE Append(@, key)]
  BY DEF UserAnswers
<1> DEFINE keys == IF Contains(m.keys, key) THEN m.keys ELSE Append(m.keys, key)
           new  == [m EXCEPT !.keys = keys]
           req  == Req(key)
           r    == Asking(conn, req)
<1>3. clients' = [clients EXCEPT ![c] = new] /\ conns' = [conns EXCEPT ![c] = r]
  BY <1>2 DEF Asking
<1>4. Told(c, conn, m, answers) /\ DOMAIN clients = Clients /\ Shape(conn) /\ DOMAIN m = ClientFields
  BY <1>1, SeqsOf, At DEF OneInv, Fair, Inv, Good, Client
<1>5. req.kind = "answer" /\ req.key = key /\ req.q = q
  OBVIOUS
<1> HIDE DEF Req
<1>6. /\ Numbered(keys, c) /\ Range(m.keys) \subseteq Range(keys) /\ key \in Range(keys) /\ key[2] = q
      /\ \A s \in Replies(conn, m) : s[1] = key => s \in Range(answers)
  <2>0. Numbered(m.keys, c)
    BY <1>4 DEF Told
  <2>1. CASE key = <<c, q, Len(m.keys) + 1>>
    <3> DEFINE more == Append(m.keys, key)
    <3>0. key = NextKey(m.keys, c, q)
      BY <2>1 DEF NextKey
    <3>1. KeyAdded(m.keys, key, more, c)
      BY <2>0, <3>0, KeysMore
    <3>2. keys = more
      BY <3>1 DEF KeyAdded
    <3>3. \A s \in Replies(conn, m) : s[1] # key
      BY <1>4, <3>1 DEF Told, Reply, KeyAdded
    <3>4. key[2] = q
      BY <2>1
    <3> HIDE DEF keys, more
    <3> QED BY <3>1, <3>2, <3>3, <3>4 DEF KeyAdded
  <2>2. CASE key \in Range(m.keys) /\ key[2] = q /\ ~Acked(m, key)
    <3>1. Contains(m.keys, key)
      BY <2>0, <2>2, SeqFacts DEF Numbered, Range, Contains
    <3>2. keys = m.keys
      BY <3>1
    <3>3. \A s \in Replies(conn, m) : s[1] = key => s \in Range(answers)
      BY <1>4, <2>2, RetryDemand
    <3> HIDE DEF keys
    <3> QED BY <2>0, <2>2, <3>2, <3>3
  <2> QED BY <1>2, <2>1, <2>2
<1> HIDE DEF keys, req
<1>7. new.keys = keys /\ new.acks = m.acks
  BY <1>4 DEF ClientFields
<1>8. Demand(req, Replies(conn, m), new.keys, answers)
  BY <1>5, <1>6, <1>7 DEF Demand
<1>9. AsksMore(conn, req, r) /\ r.busy = conn.busy
  <2>1. AsksMore(conn, req, r)
    BY <1>1, <1>4, MoreDemands
  <2> QED BY <2>1 DEF AsksMore
<1> HIDE DEF r, new
<1>10. Told(c, r, new, answers) /\ Replies(r, new) = Replies(conn, m)
  <2>1. Numbered(new.keys, c) /\ Widens(m, new)
    BY <1>6, <1>7 DEF Widens
  <2> HIDE DEF conn, m
  <2> QED BY <1>4, <1>7, <1>8, <1>9, <2>1, AskedTold
<1>11. Put(clients, c, new, clients')
  BY <1>3, <1>4 DEF Put
<1>12. \A k : <<k, TRUE>> \in Replies(r, new) =>
                 \/ k[2] \notin Questions \/ <<k, TRUE>> \in Range(answers)
                 \/ <<k, TRUE>> \in Replies(conn, m)
  BY <1>10
<1>13. IsSeq(dedupe') /\ (~restarted => Carried(log', dedupe'))
  BY <1>1 DEF OneInv
<1> QED BY <1>1, <1>3, <1>9, <1>10, <1>11, <1>12, <1>13, OneChange

LEMMA OneUserCommands ==
  ASSUME OneInv, Inv, NEW c \in Clients, NEW x \in Commands, UserCommands(c, CommandKey(x))
  PROVE  OneInv'
<1> DEFINE conn == conns[c]
           m    == clients[c]
           req  == [kind |-> "command", key |-> CommandKey(x)]
           r    == Asking(conn, req)
<1>1. /\ conn.up /\ conn.reqs = <<>> /\ UNCHANGED <<log, board, answers, dedupe, restarted, clients>>
      /\ conns' = [conns EXCEPT ![c] = r]
  BY DEF UserCommands, Asking
<1>2. Told(c, conn, m, answers) /\ Shape(conn)
  BY <1>1, SeqsOf DEF OneInv, Fair
<1>3. req.kind = "command" /\ IsCommand(req.key)
  BY DEF IsCommand
<1> HIDE DEF req
<1>4. Demand(req, Replies(conn, m), m.keys, answers) /\ Numbered(m.keys, c)
  BY <1>2, <1>3 DEF Demand, Told
<1>9. AsksMore(conn, req, r) /\ r.busy = conn.busy
  <2>1. AsksMore(conn, req, r)
    BY <1>1, <1>2, MoreDemands
  <2> QED BY <2>1 DEF AsksMore
<1> HIDE DEF r
<1>10. Told(c, r, m, answers) /\ Replies(r, m) = Replies(conn, m)
  <2>1. Widens(m, m)
    BY DEF Widens
  <2> QED BY <1>2, <1>4, <1>9, <2>1, AskedTold
<1>11. Put(clients, c, m, clients')
  BY <1>1 DEF Put
<1>12. \A k : <<k, TRUE>> \in Replies(r, m) =>
                 \/ k[2] \notin Questions \/ <<k, TRUE>> \in Range(answers)
                 \/ <<k, TRUE>> \in Replies(conn, m)
  BY <1>10
<1>13. IsSeq(dedupe') /\ (~restarted => Carried(log', dedupe'))
  BY <1>1 DEF OneInv
<1> QED BY <1>1, <1>9, <1>10, <1>11, <1>12, <1>13, OneChange

-----------------------------------------------------------------------------
(* The process, and the rest.                                              *)

LEMMA OneRestart ==
  ASSUME OneInv, Inv, Restart
  PROVE  OneInv'
<1> DEFINE none == <<>>
<1>1. /\ conns' = [c \in Clients |-> NoConn] /\ board' = Gone(Questions)
      /\ answers' = none /\ dedupe' = none /\ restarted' = TRUE /\ clients' = clients
  BY DEF Restart
<1>2. IsSeq(none) /\ Range(none) = {} /\ Memory(none)
  BY EmptyIsSeq DEF Range, Memory
<1> HIDE DEF none
<1>3. UnderWay(NoConn) = {} /\ Demands(NoConn) = {} /\ NoConn.busy = <<>> /\ Pumping(NoConn)
  BY NothingQueued DEF UnderWay, RepliesIn
<1>4. DOMAIN board' = Questions /\ \A q \in Questions : Moves(board[q], board'[q])
  BY <1>1, GoneMoves
<1>5. ASSUME NEW c \in Clients PROVE Told(c, conns'[c], clients[c], none)
  <2> DEFINE m == clients[c]
  <2>1. Told(c, conns[c], m, answers) /\ conns'[c] = NoConn
    BY <1>1 DEF OneInv, Fair
  <2> HIDE DEF m
  <2>2. Replies(NoConn, m) = m.acks
    BY <1>3 DEF Replies
  <2>3. m.acks \subseteq Replies(conns[c], m)
    BY DEF Replies
  <2>4. Numbered(m.keys, c) /\ Single(m.acks) /\ \A r \in m.acks : Reply(r, m.keys)
    BY <2>1, <2>3 DEF Told, Single
  <2>5. Told(c, NoConn, m, none)
    BY <1>3, <2>2, <2>4 DEF Told
  <2> QED BY <2>1, <2>5 DEF m
<1>6. \A c \in Clients : conns'[c].busy = <<>>
  BY <1>1, <1>3
<1>7. ASSUME NEW k, Wins(k, conns', clients, none) PROVE Wins(k, conns, clients, answers)
  <2>1. PICK c \in Clients : <<k, TRUE>> \in Replies(conns'[c], clients[c])
    BY <1>2, <1>6, <1>7 DEF Wins
  <2>2. <<k, TRUE>> \in Replies(conns[c], clients[c])
    BY <1>1, <1>3, <2>1 DEF Replies
  <2> QED BY <2>2 DEF Wins
<1>8. \A q \in Questions : Winner(q, board'[q], conns', clients, none)
  <2>1. TAKE q \in Questions
  <2>2. Winner(q, board[q], conns, clients, answers)
    BY DEF OneInv, Fair
  <2> QED BY <1>4, <1>7, <2>2, WinnerMoves
<1>9. OneBusy(conns')
  BY <1>6 DEF OneBusy
<1>10. Fair(conns', clients, none, board')
  BY <1>4, <1>5, <1>8, <1>9 DEF Fair
<1> QED BY <1>1, <1>2, <1>10 DEF OneInv

LEMMA OneOthers ==
  ASSUME OneInv, UNCHANGED <<log, board, answers, dedupe, conns, clients, restarted>>
  PROVE  OneInv'
BY DEF OneInv

LEMMA OneInit ==
  ASSUME Init
  PROVE  OneInv
<1> DEFINE e == Event("started", "none")
           none == <<>>
           at   == [state |-> "none", opens |-> 0, taken |-> FALSE]
<1>1. /\ log = <<e>> /\ board = [q \in Questions |-> at] /\ answers = none /\ dedupe = none
      /\ conns = [c \in Clients |-> NoConn] /\ clients = [c \in Clients |-> NewClient]
  BY DEF Init
<1>2. IsSeq(none) /\ Range(none) = {} /\ Memory(none)
  BY EmptyIsSeq DEF Range, Memory
<1>3. UnderWay(NoConn) = {} /\ Demands(NoConn) = {} /\ NoConn.busy = <<>> /\ Pumping(NoConn)
  BY NothingQueued DEF UnderWay, RepliesIn
<1>4. NewClient.keys = none /\ NewClient.acks = {}
  BY DEF NewClient
<1>5. \A c \in Clients : Numbered(none, c)
  BY <1>2 DEF Numbered
<1>6. at.opens = 0 /\ at.state = "none" /\ DOMAIN at = AtFields
  BY DEF AtFields
<1>7. e.kind = "started"
  BY DEF Event
<1> HIDE DEF none, at, e
<1>8. Replies(NoConn, NewClient) = {}
  BY <1>3, <1>4 DEF Replies
<1>9. \A c \in Clients : Told(c, NoConn, NewClient, none)
  BY <1>3, <1>4, <1>5, <1>8 DEF Told, Single
<1>10. \A k : ~Wins(k, conns, clients, none)
  BY <1>1, <1>2, <1>3, <1>8 DEF Wins
<1>11. \A q \in Questions : Winner(q, at, conns, clients, none)
  BY <1>6, <1>10 DEF Winner, AtFields
<1>12. OneBusy(conns)
  BY <1>1, <1>3 DEF OneBusy
<1>13. Fair(conns, clients, none, board)
  BY <1>1, <1>9, <1>11, <1>12 DEF Fair
<1>14. Carried(log, dedupe)
  BY <1>1, <1>7 DEF Carried
<1> QED BY <1>1, <1>2, <1>13, <1>14 DEF OneInv

LEMMA OneNext ==
  ASSUME OneInv, Inv, Unforgotten, [Next]_vars
  PROVE  OneInv'
<1>1. ASSUME NEW c \in Clients, Serves(c) PROVE OneInv'
  BY <1>1, OnePumpEvent, OnePumpAsk, OnePumpOn, OneSubscribe, OneCommand, OneAnswerAgain, OneAnswer,
     OneAnswerDone DEF Serves
<1>2. ASSUME NEW c \in Clients, Uses(c) PROVE OneInv'
  BY <1>2, OneConnect, OneReceive, OneUserAnswers, OneUserCommands DEF Uses
<1>3. ASSUME NEW c \in Clients, Stall(c) \/ Disconnect(c) PROVE OneInv'
  BY <1>3, OneStall
<1>4. ASSUME NEW o \in Observers, Hear(o) \/ SaveCursor(o) PROVE OneInv'
  <2>1. UNCHANGED <<log, board, answers, dedupe, conns, clients, restarted>>
    BY <1>4 DEF Hear, SaveCursor
  <2> QED BY <2>1, OneOthers
<1>5. CASE Session
  BY <1>5, OneSession
<1>6. CASE Restart
  BY <1>6, OneRestart
<1>7. CASE UNCHANGED vars
  BY <1>7, OneOthers DEF vars
<1> QED BY <1>1, <1>2, <1>3, <1>4, <1>5, <1>6, <1>7 DEF Next

-----------------------------------------------------------------------------
(* A reply is to a command, or to the answer of one client.                *)
Carries(r) == r[2] = TRUE /\ r[1] = CommandKey(r[1][2]) /\ r[1][2] \in Commands /\ r[1][3] = 0
Decides(r, c) == r = <<r[1], r[2]>> /\ r[2] \in BOOLEAN /\ r[1][1] = c /\ r[1][2] \in Questions /\ r[1][3] # 0

LEMMA ReplyOf ==
  ASSUME NEW c, NEW keys, Numbered(keys, c), NEW r, Reply(r, keys)
  PROVE  Carries(r) \/ Decides(r, c)
<1>1. PICK k : \E b \in BOOLEAN : r = <<k, b>> /\ (k \in Range(keys) \/ (IsCommand(k) /\ b))
  BY DEF Reply
<1>2. PICK b \in BOOLEAN : r = <<k, b>> /\ (k \in Range(keys) \/ (IsCommand(k) /\ b))
  BY <1>1
<1>3. CASE IsCommand(k) /\ b
  <2>1. PICK x \in Commands : k = CommandKey(x)
    BY <1>3 DEF IsCommand
  <2>2. k[2] = x /\ k[3] = 0
    BY <2>1 DEF CommandKey
  <2>3. r[1] = k /\ r[2] = b
    BY <1>2
  <2>4. b = TRUE
    BY <1>3
  <2> QED BY <2>1, <2>2, <2>3, <2>4 DEF Carries
<1>4. CASE k \in Range(keys)
  <2>1. PICK i \in DOMAIN keys : keys[i] = k
    BY <1>4 DEF Range
  <2>2. PICK q \in Questions : k = <<c, q, i>>
    BY <2>1 DEF Numbered
  <2>3. i # 0
    BY SeqFacts DEF Numbered
  <2>4. k[1] = c /\ k[2] = q /\ k[3] = i
    BY <2>2
  <2>5. r[1] = k /\ r[2] = b
    BY <1>2
  <2> QED BY <1>2, <2>3, <2>4, <2>5 DEF Decides
<1> QED BY <1>2, <1>3, <1>4

LEMMA InvOneOutcome ==
  ASSUME OneInv
  PROVE  OneOutcome
<1>1. \A c \in Clients : Told(c, conns[c], clients[c], answers)
  BY DEF OneInv, Fair
<1>2. ASSUME NEW a \in Acks
      PROVE  \E c \in Clients : /\ a \in Replies(conns[c], clients[c]) /\ Single(Replies(conns[c], clients[c]))
                                /\ Carries(a) \/ Decides(a, c)
  <2>1. PICK c \in Clients : a \in clients[c].acks
    BY DEF Acks
  <2>2. a \in Replies(conns[c], clients[c])
    BY <2>1 DEF Replies
  <2>3. Reply(a, clients[c].keys) /\ Numbered(clients[c].keys, c) /\ Single(Replies(conns[c], clients[c]))
    BY <1>1, <2>2 DEF Told
  <2>4. Carries(a) \/ Decides(a, c)
    BY <2>3, ReplyOf
  <2> QED BY <2>2, <2>3, <2>4
<1>3. ASSUME NEW a \in Acks, NEW b \in Acks, a[1] = b[1] PROVE a[2] = b[2]
  <2>1. PICK c \in Clients : /\ a \in Replies(conns[c], clients[c]) /\ Single(Replies(conns[c], clients[c]))
                             /\ Carries(a) \/ Decides(a, c)
    BY <1>2
  <2>2. PICK d \in Clients : b \in Replies(conns[d], clients[d]) /\ (Carries(b) \/ Decides(b, d))
    BY <1>2
  <2>3. CASE c = d
    <3>1. a = b
      BY <1>3, <2>1, <2>2, <2>3 DEF Single
    <3> QED BY <3>1
  <2>4. CASE Carries(a) /\ Carries(b)
    BY <2>4 DEF Carries
  <2>5. CASE Decides(a, c) /\ Decides(b, d)
    BY <1>3, <2>3, <2>5 DEF Decides
  <2>6. CASE (Carries(a) /\ Decides(b, d)) \/ (Decides(a, c) /\ Carries(b))
    BY <1>3, <2>6 DEF Decides, Carries
  <2> QED BY <2>1, <2>2, <2>4, <2>5, <2>6
<1>4. ASSUME NEW a \in Acks, NEW b \in Acks, a[2], b[2], a[1][2] = b[1][2],
             a[1][2] \in Questions => board[a[1][2]].opens = 1
      PROVE  a[1] = b[1]
  <2>1. PICK c \in Clients : a \in Replies(conns[c], clients[c]) /\ (Carries(a) \/ Decides(a, c))
    BY <1>2
  <2>2. PICK d \in Clients : b \in Replies(conns[d], clients[d]) /\ (Carries(b) \/ Decides(b, d))
    BY <1>2
  <2>3. Commands \cap Questions = {}
    BY ServerAssumption DEF Questions
  <2>4. CASE Carries(a) /\ Carries(b)
    BY <1>4, <2>4 DEF Carries
  <2>5. CASE Decides(a, c) /\ Decides(b, d)
    <3> DEFINE k == a[1]
               l == b[1]
               q == k[2]
    <3>1. a = <<k, a[2]>> /\ b = <<l, b[2]>> /\ a[2] \in BOOLEAN /\ b[2] \in BOOLEAN
      BY <2>5 DEF Decides
    <3>2. a[2] = TRUE
      BY <1>4, <3>1
    <3>3. b[2] = TRUE
      BY <1>4, <3>1
    <3>4. q \in Questions /\ l[2] = q /\ board[q].opens = 1
      BY <1>4, <2>5 DEF Decides
    <3> HIDE DEF k, l
    <3>5. a = <<k, TRUE>>
      BY <3>1, <3>2
    <3>6. b = <<l, TRUE>>
      BY <3>1, <3>3
    <3>7. Wins(k, conns, clients, answers)
      BY <2>1, <3>5 DEF Wins
    <3>8. Wins(l, conns, clients, answers)
      BY <2>2, <3>6 DEF Wins
    <3>9. Winner(q, board[q], conns, clients, answers)
      BY <3>4 DEF OneInv, Fair
    <3> HIDE DEF q
    <3>10. k[2] = q
      BY DEF q
    <3>11. k = l
      BY <3>4, <3>7, <3>8, <3>9, <3>10 DEF Winner
    <3> QED BY <3>11 DEF k, l
  <2>6. CASE (Carries(a) /\ Decides(b, d)) \/ (Decides(a, c) /\ Carries(b))
    BY <1>4, <2>3, <2>6 DEF Decides, Carries
  <2> QED BY <2>1, <2>2, <2>4, <2>5, <2>6
<1>5. ASSUME ~restarted, NEW i \in DOMAIN log, NEW j \in DOMAIN log, log[i].kind = "input", log[i] = log[j] PROVE i = j
  BY <1>5 DEF OneInv, Carried
<1> QED BY <1>3, <1>4, <1>5 DEF OneOutcome

(* As long as nothing is forgotten, a key has one ack, a question that     *)
(* opens once has one winner, and a command is carried out once, however   *)
(* connections come and go and whoever retries: OneOutcome                 *)
(* (Conn::answer of src/crates/server/src/server.rs, and the keys the      *)
(* driver remembers in src/crates/runtime/src/driver.rs).                  *)
THEOREM SpecOneOutcome == Spec /\ []Unforgotten => []OneOutcome
<1>1. Init => OneInv
  BY OneInit
<1>2. Inv /\ Unforgotten /\ OneInv /\ [Next]_vars => OneInv'
  BY OneNext
<1>3. OneInv => OneOutcome
  BY InvOneOutcome
<1> QED BY <1>1, <1>2, <1>3, Delivers, PTL DEF Spec

-----------------------------------------------------------------------------
(* Dialogs.                                                                *)

(* All the messages on their way to a client but those of the board that   *)
(* the pump has not looked at, and which of them comes before which.       *)
Contents(conn) == Queued(conn) \cup Range(conn.todo)
Pairs(s) == {p \in Range(s) \X Range(s) : \E i, j \in DOMAIN s : i < j /\ p = <<s[i], s[j]>>}
Order(conn) ==
  Pairs(conn.out) \cup Pairs(Messages(conn.wait)) \cup Pairs(conn.todo)
    \cup (Range(conn.out) \X WaitMsgs(conn.wait)) \cup (Queued(conn) \X Range(conn.todo))

(* A question of the session waits, after n events of the journal.         *)
ClosedAt(lg, q, n) == lg[n].kind = "hard" \/ lg[n] = Event("answered", q)
Waits(lg, q, n) == \E i \in 1..n : lg[i] = Event("asked", q) /\ \A j \in (i + 1)..n : ~ClosedAt(lg, q, j)

History(lg, as) ==
  /\ \A i \in 1..Len(lg) : /\ lg[i] = Event(lg[i].kind, lg[i].q)
                           /\ lg[i].kind \in {"asked", "answered"} => lg[i].q \in Own
  /\ as \subseteq Own
  /\ \A q \in Own : Waits(lg, q, Len(lg)) <=> q \in as

Board(bd) ==
  /\ DOMAIN bd = Questions
  /\ \A q \in Questions : /\ DOMAIN bd[q] = AtFields /\ bd[q].opens \in Nat
                          /\ bd[q].opens = 0 => bd[q].state # "open"

(* Messages about a question.  A close that an event implies is numbered   *)
(* with the place after it.                                                *)
Asks(x, q)   == x.kind = "question" /\ x.q = q
Closing(x, q) == x.kind = "close" /\ x.q = q
Timed(x) == x.kind = "close" /\ x.seq # -1

(* What is on the way tells what is in the journal, closes of the          *)
(* session's questions come right after the event that implies them, or    *)
(* the question is answered.                                               *)
Faithful(x, next, cursor, lg, bd) ==
  /\ IsEvent(x) => x.seq \in Nat /\ x.seq < Len(lg) /\ lg[x.seq + 1] = Event(x.event, x.q)
  /\ Timed(x) => x.seq \in Nat /\ x.seq > 0 /\ next <= x.seq /\ x.seq <= cursor
  /\ x.kind = "close" /\ x.q \in Own => bd[x.q].taken \/ (Timed(x) /\ ClosedAt(lg, x.q, x.seq))
  /\ x.kind = "question" => x.q \in Forwarded
InTime(p) ==
  /\ IsEvent(p[1]) /\ Timed(p[2]) => p[1].seq < p[2].seq
  /\ Timed(p[1]) /\ IsEvent(p[2]) => p[1].seq <= p[2].seq
Report(x) == x.kind \in {"question", "close"} /\ x.q \in Forwarded /\ x.seq = -1
Line(conn, next, lg, bd) ==
  /\ \A x \in Contents(conn) : Faithful(x, next, conn.cursor, lg, bd)
  /\ \A p \in Order(conn) : InTime(p)
  /\ conn.open \subseteq Own
  /\ \A x \in Range(conn.asks) : Report(x)
  /\ \A x \in Range(conn.todo) : x.kind = "close" => x.q \in Own

(* A forwarded question that is open has been shown, or is on its way.     *)
(* One that nobody has tried to answer, and that was open once only, is    *)
(* closed by a message that comes after it, and is not marked as closed    *)
(* before that message is queued.                                          *)
Offered(q, conn, m) ==
  q \in m.shown \/ \E x \in Contents(conn) \cup Range(conn.asks) : Asks(x, q)
NotClosed(q, conn) ==
  q \notin conn.closed /\ \A x \in Contents(conn) \cup Range(conn.asks) : ~Closing(x, q)
WillClose(q, conn) ==
  \/ \E x \in Contents(conn) : Closing(x, q)
  \/ q \notin conn.closed /\ \E x \in Range(conn.asks) : Closing(x, q)
Following(q, conn) ==
  /\ \A p \in Order(conn) \cup Pairs(conn.asks) : ~(Closing(p[1], q) /\ Asks(p[2], q))
  /\ \A x \in Contents(conn), y \in Range(conn.asks) : ~(Closing(x, q) /\ Asks(y, q))
Dialog(q, conn, m, at, tried) ==
  /\ at.state = "open" => Offered(q, conn, m)
  /\ at.opens <= 1 /\ ~tried =>
       /\ at.state = "open" \/ at.opens = 0 => NotClosed(q, conn)
       /\ at.state # "open" /\ (q \in m.pending \cap m.shown \/ \E x \in Contents(conn) \cup Range(conn.asks) : Asks(x, q))
            => WillClose(q, conn)
       /\ Following(q, conn)

Requests(conn, bd, tr) ==
  /\ \A d \in Range(conn.reqs) : d.kind = "answer" => d.q \in tr
  /\ conn.busy # <<>> => conn.busy[2] \in tr /\ (conn.busy[4] /\ conn.busy[2] \in Own => bd[conn.busy[2]].taken)

Knows(m, lg, bd) ==
  /\ m.shown \subseteq Forwarded
  /\ \A q \in Own : /\ q \in m.pending => Waits(lg, q, m.next)
                    /\ Waits(lg, q, m.next) /\ ~bd[q].taken => q \in m.pending

Shows(conn, m, lg, bd, tr) ==
  /\ Knows(m, lg, bd)
  /\ conn.up /\ ~conn.sub => conn.closed = {} /\ m.shown = {}
  /\ conn.up /\ conn.sub => /\ Line(conn, m.next, lg, bd) /\ Requests(conn, bd, tr)
                            /\ \A q \in Forwarded : Dialog(q, conn, m, bd[q], q \in tr)

Attempts(ms) == {q \in Questions : \E c \in Clients : \E k \in Range(ms[c].keys) : k[2] = q}

Showing(cs, ms, lg, bd, tr) == \A c \in Clients : Shows(cs[c], ms[c], lg, bd, tr)
Keyed(ms) == \A c \in Clients : IsSeq(ms[c].keys)
KeysKept(m, n) == (IsSeq(m.keys) => IsSeq(n.keys)) /\ Range(m.keys) \subseteq Range(n.keys)
DialogInv ==
  /\ History(log, asked) /\ Board(board) /\ Keyed(clients)
  /\ \E tr : tr = Attempts(clients) /\ Showing(conns, clients, log, board, tr)

(* What comes before what in a sequence that is extended or shortened.     *)
LEMMA PairsIn ==
  ASSUME NEW s, IsSeq(s), NEW i \in 1..Len(s), NEW j \in 1..Len(s), i < j
  PROVE  <<s[i], s[j]>> \in Pairs(s)
<1>1. DOMAIN s = 1..Len(s)
  BY SeqFacts
<1>2. s[i] \in Range(s) /\ s[j] \in Range(s)
  BY <1>1 DEF Range
<1> QED BY <1>1, <1>2 DEF Pairs

LEMMA PairsAppend ==
  ASSUME NEW s, IsSeq(s), NEW e, NEW t, t = Append(s, e)
  PROVE  Pairs(t) \subseteq Pairs(s) \cup (Range(s) \X {e})
<1>1. IsSeq(t) /\ Len(t) = Len(s) + 1 /\ (\A i \in 1..Len(s) : t[i] = s[i]) /\ t[Len(s) + 1] = e
  BY AppendFacts
<1>2. Len(s) \in Nat /\ DOMAIN s = 1..Len(s) /\ DOMAIN t = 1..(Len(s) + 1)
  BY <1>1, SeqFacts
<1>3. ASSUME NEW p \in Pairs(t) PROVE p \in Pairs(s) \cup (Range(s) \X {e})
  <2>1. PICK i \in 1..(Len(s) + 1), j \in 1..(Len(s) + 1) : i < j /\ p = <<t[i], t[j]>>
    BY <1>2 DEF Pairs
  <2>2. i \in 1..Len(s) /\ t[i] = s[i] /\ s[i] \in Range(s)
    <3>1. i \in 1..Len(s)
      BY <1>2, <2>1
    <3> QED BY <1>1, <1>2, <3>1 DEF Range
  <2>3. CASE j = Len(s) + 1
    BY <1>1, <2>1, <2>2, <2>3
  <2>4. CASE j # Len(s) + 1
    <3>1. j \in 1..Len(s)
      BY <1>2, <2>4
    <3>2. p = <<s[i], s[j]>>
      BY <1>1, <2>1, <2>2, <3>1
    <3> QED BY <2>1, <2>2, <3>1, <3>2, PairsIn
  <2> QED BY <2>3, <2>4
<1> QED BY <1>3

LEMMA PairsTail ==
  ASSUME NEW s, IsSeq(s), s # <<>>, NEW t, t = Tail(s)
  PROVE  /\ Pairs(t) \subseteq Pairs(s) /\ {Head(s)} \X Range(t) \subseteq Pairs(s)
         /\ Range(s) = {Head(s)} \cup Range(t) /\ IsSeq(t)
<1>1. /\ IsSeq(t) /\ Len(t) = Len(s) - 1 /\ Len(s) >= 1 /\ Head(s) = s[1]
      /\ \A i \in 1..Len(t) : t[i] = s[i + 1]
  BY TailFacts
<1>2. Len(s) \in Nat /\ DOMAIN s = 1..Len(s) /\ DOMAIN t = 1..Len(t)
  BY <1>1, SeqFacts
<1>3. \A i \in 1..Len(t) : i + 1 \in 1..Len(s) /\ 1 < i + 1
  BY <1>1, <1>2
<1>4. ASSUME NEW p \in Pairs(t) PROVE p \in Pairs(s)
  <2>1. PICK i \in 1..Len(t), j \in 1..Len(t) : i < j /\ p = <<t[i], t[j]>>
    BY <1>2 DEF Pairs
  <2>2. i + 1 \in 1..Len(s) /\ j + 1 \in 1..Len(s) /\ i + 1 < j + 1 /\ p = <<s[i + 1], s[j + 1]>>
    BY <1>1, <1>3, <2>1
  <2> QED BY <2>2, PairsIn
<1>5. ASSUME NEW x \in Range(t) PROVE <<Head(s), x>> \in Pairs(s) /\ x \in Range(s)
  <2>1. PICK i \in 1..Len(t) : x = t[i]
    BY <1>2 DEF Range
  <2>2. 1 \in 1..Len(s)
    BY <1>1, <1>2
  <2>3. <<s[1], s[i + 1]>> \in Pairs(s)
    BY <1>3, <2>2, PairsIn
  <2>4. s[i + 1] \in Range(s)
    BY <1>2, <1>3 DEF Range
  <2> QED BY <1>1, <2>1, <2>3, <2>4
<1>6. ASSUME NEW x \in Range(s) PROVE x = Head(s) \/ x \in Range(t)
  <2>1. PICK i \in 1..Len(s) : x = s[i]
    BY <1>2 DEF Range
  <2>2. CASE i = 1
    BY <1>1, <2>1, <2>2
  <2>3. CASE i # 1
    <3>1. i - 1 \in 1..Len(t) /\ (i - 1) + 1 = i
      BY <1>1, <1>2, <2>3
    <3>2. x = t[i - 1]
      BY <1>1, <2>1, <3>1
    <3> QED BY <1>2, <3>1, <3>2 DEF Range
  <2> QED BY <2>2, <2>3
<1>7. Head(s) \in Range(s)
  <2>1. 1 \in DOMAIN s
    BY <1>1, <1>2
  <2> QED BY <1>1, <2>1 DEF Range
<1>8. {Head(s)} \X Range(t) \subseteq Pairs(s)
  BY <1>5
<1>9. Range(s) = {Head(s)} \cup Range(t)
  BY <1>5, <1>6, <1>7
<1> QED BY <1>1, <1>4, <1>8, <1>9

LEMMA RangeMessages ==
  ASSUME NEW w, IsSeq(w)
  PROVE  Range(Messages(w)) = WaitMsgs(w)
<1>1. DOMAIN w = 1..Len(w) /\ DOMAIN Messages(w) = 1..Len(w)
  BY SeqFacts DEF Messages
<1> QED BY <1>1 DEF Range, WaitMsgs, Messages

LEMMA NoPairs == Pairs(<<>>) = {} /\ Range(<<>>) = {}
<1>1. DOMAIN <<>> = {}
  OBVIOUS
<1> QED BY <1>1 DEF Pairs, Range

(* The order of what is under way, with one message more.                  *)
LEMMA OfferOrder ==
  ASSUME NEW conn, Shape(conn), Seqs(conn), NEW by, NEW m, NEW r, r = Offer(conn, by, m)
  PROVE  /\ Kept(conn, r) /\ r.todo = conn.todo /\ Seqs(r) /\ r.closed = conn.closed
         /\ Contents(r) = Contents(conn) \cup {m}
         /\ Order(r) \subseteq Order(conn) \cup (Contents(conn) \X {m}) \cup ({m} \X Range(conn.todo))
<1>1. Kept(conn, r) /\ r.todo = conn.todo /\ Seqs(r) /\ Queued(r) = Queued(conn) \cup {m}
  BY OfferQueues
<1>2. r.closed = conn.closed
  <2>1. CASE conn.wait = <<>> /\ Len(conn.out) < Capacity
    <3>1. r = [conn EXCEPT !.out = Append(conn.out, m)]
      BY <2>1 DEF Offer
    <3> QED BY <3>1 DEF Shape, Fields
  <2>2. CASE ~(conn.wait = <<>> /\ Len(conn.out) < Capacity)
    <3>1. r = [conn EXCEPT !.wait = Append(conn.wait, [by |-> by, msg |-> m])]
      BY <2>2 DEF Offer
    <3> QED BY <3>1 DEF Shape, Fields
  <2> QED BY <2>1, <2>2
<1>3. Contents(r) = Contents(conn) \cup {m}
  BY <1>1 DEF Contents
<1>4. \/ conn.wait = <<>> /\ r.wait = conn.wait /\ r.out = Append(conn.out, m)
      \/ r.out = conn.out /\ r.wait = Append(conn.wait, [by |-> by, msg |-> m])
  BY OfferIs
<1>5. CASE conn.wait = <<>> /\ r.wait = conn.wait /\ r.out = Append(conn.out, m)
  <2>1. Pairs(r.out) \subseteq Pairs(conn.out) \cup (Range(conn.out) \X {m})
    BY <1>5, PairsAppend DEF Seqs
  <2>2. WaitMsgs(conn.wait) = {}
    <3>1. DOMAIN <<>> = {}
      OBVIOUS
    <3> QED BY <1>5, <3>1 DEF WaitMsgs
  <2>3. Range(conn.out) \subseteq Contents(conn)
    BY DEF Contents, Queued
  <2> QED BY <1>1, <1>2, <1>3, <1>5, <2>1, <2>2, <2>3 DEF Order
<1>6. CASE r.out = conn.out /\ r.wait = Append(conn.wait, [by |-> by, msg |-> m])
  <2>1. Messages(r.wait) = Append(Messages(conn.wait), m) /\ IsSeq(Messages(conn.wait))
    BY <1>6, MessagesAppend, MessagesFacts DEF Seqs
  <2>2. Pairs(Messages(r.wait)) \subseteq Pairs(Messages(conn.wait)) \cup (Range(Messages(conn.wait)) \X {m})
    BY <2>1, PairsAppend
  <2>3. Range(Messages(conn.wait)) = WaitMsgs(conn.wait)
    BY RangeMessages DEF Seqs
  <2>4. WaitMsgs(r.wait) = WaitMsgs(conn.wait) \cup {m}
    <3>1. [by |-> by, msg |-> m].msg = m
      OBVIOUS
    <3> QED BY <1>6, <3>1, WaitAppend DEF Seqs
  <2>5. Range(conn.out) \subseteq Contents(conn) /\ WaitMsgs(conn.wait) \subseteq Contents(conn)
    BY DEF Contents, Queued
  <2> QED BY <1>1, <1>2, <1>3, <1>6, <2>2, <2>3, <2>4, <2>5 DEF Order
<1> QED BY <1>4, <1>5, <1>6

(* What a pump that sends ms leaves of a connection.                       *)
Marks(ms) == {x.q : x \in {y \in ms : y.kind = "close"}}
Sends(conn, ms, r) ==
  /\ Kept(conn, r) /\ Seqs(r) /\ Ready(r)
  /\ Contents(conn) \subseteq Contents(r) /\ Contents(r) \subseteq Contents(conn) \cup ms
  /\ {x \in ms : x.kind # "close"} \subseteq Contents(r)
  /\ Range(r.todo) \subseteq Range(conn.todo) \cup ms
  /\ conn.closed \subseteq r.closed /\ r.closed \subseteq conn.closed \cup Marks(ms)

LEMMA MarkedSame ==
  ASSUME NEW conn, Shape(conn), Seqs(conn), NEW q,
         NEW marked, marked = [conn EXCEPT !.closed = conn.closed \cup {q}]
  PROVE  /\ Kept(conn, marked) /\ Seqs(marked) /\ marked.closed = conn.closed \cup {q}
         /\ marked.todo = conn.todo /\ marked.wait = conn.wait
         /\ Contents(marked) = Contents(conn) /\ Order(marked) = Order(conn)
<1>1. /\ marked.up = conn.up /\ marked.sub = conn.sub /\ marked.cursor = conn.cursor
      /\ marked.reqs = conn.reqs /\ marked.busy = conn.busy /\ marked.open = conn.open /\ marked.asks = conn.asks
      /\ DOMAIN marked = DOMAIN conn
  BY DEF Shape, Fields
<1>2. marked.out = conn.out /\ marked.wait = conn.wait /\ marked.todo = conn.todo
  BY DEF Shape, Fields
<1>3. marked.closed = conn.closed \cup {q}
  BY DEF Shape, Fields
<1> QED BY <1>1, <1>2, <1>3 DEF Kept, Shape, Seqs, Contents, Order, Queued

(* One message of the pump: all of them go the same way, but a question is *)
(* closed once only.                                                       *)
LEMMA PumpItemSends ==
  ASSUME NEW conn, Shape(conn), Seqs(conn), Ready(conn), NEW m, NEW r, r = PumpItem(conn, m)
  PROVE  /\ Sends(conn, {m}, r)
         /\ Order(r) \subseteq Order(conn) \cup (Contents(conn) \X {m})
         /\ ~Waiting(conn, "pump") /\ m.kind = "close" =>
              m.q \in r.closed /\ (m.q \in conn.closed \/ m \in Contents(r)) /\ r.todo = conn.todo
<1>1. CASE Waiting(conn, "pump")
  <2> DEFINE todo == Append(conn.todo, m)
  <2>1. r = [conn EXCEPT !.todo = todo]
    BY <1>1 DEF PumpItem
  <2>2. IsSeq(todo) /\ Range(todo) = Range(conn.todo) \cup {m}
    BY AppendRange DEF Seqs
  <2>3. Pairs(todo) \subseteq Pairs(conn.todo) \cup (Range(conn.todo) \X {m})
    BY PairsAppend DEF Seqs
  <2> HIDE DEF todo
  <2>4. Kept(conn, r) /\ r.out = conn.out /\ r.wait = conn.wait /\ r.todo = todo /\ r.closed = conn.closed
    BY <2>1 DEF Kept, Shape, Fields
  <2>5. Queued(r) = Queued(conn) /\ Seqs(r) /\ Ready(r)
    BY <1>1, <2>2, <2>4 DEF Queued, Seqs, Ready, Waiting
  <2>6. Contents(r) = Contents(conn) \cup {m}
    BY <2>2, <2>4, <2>5 DEF Contents
  <2>7. Order(r) \subseteq Order(conn) \cup (Contents(conn) \X {m})
    BY <2>2, <2>3, <2>4, <2>5 DEF Order, Contents
  <2> QED BY <1>1, <2>2, <2>4, <2>5, <2>6, <2>7 DEF Sends
<1>2. ASSUME ~Waiting(conn, "pump"), NEW x, Shape(x), Seqs(x), Kept(conn, x), x.todo = conn.todo,
             Contents(x) = Contents(conn), Order(x) = Order(conn),
             x.closed = conn.closed \cup (IF m.kind = "close" THEN {m.q} ELSE {}), r = Offer(x, "pump", m)
      PROVE  Sends(conn, {m}, r) /\ Order(r) \subseteq Order(conn) \cup (Contents(conn) \X {m})
             /\ r.closed = x.closed /\ m \in Contents(r) /\ r.todo = conn.todo
  <2>1. conn.todo = <<>>
    BY <1>2 DEF Ready
  <2>2. /\ Kept(x, r) /\ r.todo = x.todo /\ Seqs(r) /\ r.closed = x.closed
        /\ Contents(r) = Contents(x) \cup {m}
        /\ Order(r) \subseteq Order(x) \cup (Contents(x) \X {m}) \cup ({m} \X Range(x.todo))
    BY <1>2, OfferOrder
  <2>3. Range(x.todo) = {} /\ Ready(r)
    BY <1>2, <2>1, <2>2, NoPairs DEF Ready
  <2>4. Kept(conn, r)
    BY <1>2, <2>2, KeptTwice
  <2>5. r.closed \subseteq conn.closed \cup Marks({m})
    BY <1>2, <2>2 DEF Marks
  <2> QED BY <1>2, <2>2, <2>3, <2>4, <2>5 DEF Sends
<1>3. CASE ~Waiting(conn, "pump") /\ m.kind # "close"
  <2>1. r = Offer(conn, "pump", m)
    BY <1>3 DEF PumpItem
  <2>2. Kept(conn, conn)
    BY DEF Kept
  <2>3. conn.closed = conn.closed \cup (IF m.kind = "close" THEN {m.q} ELSE {})
    BY <1>3
  <2>4. Sends(conn, {m}, r) /\ Order(r) \subseteq Order(conn) \cup (Contents(conn) \X {m})
    BY <1>2, <1>3, <2>1, <2>2, <2>3
  <2> QED BY <1>3, <2>4
<1>4. CASE ~Waiting(conn, "pump") /\ m.kind = "close" /\ m.q \in conn.closed
  <2>1. r = conn
    BY <1>4 DEF PumpItem
  <2> QED BY <1>4, <2>1 DEF Sends, Kept, Marks
<1>5. CASE ~Waiting(conn, "pump") /\ m.kind = "close" /\ m.q \notin conn.closed
  <2> DEFINE marked == [conn EXCEPT !.closed = conn.closed \cup {m.q}]
  <2>1. r = Offer(marked, "pump", m)
    BY <1>5 DEF PumpItem
  <2>2. /\ Kept(conn, marked) /\ Seqs(marked) /\ marked.closed = conn.closed \cup {m.q}
        /\ marked.todo = conn.todo /\ marked.wait = conn.wait
        /\ Contents(marked) = Contents(conn) /\ Order(marked) = Order(conn)
    BY MarkedSame
  <2> HIDE DEF marked
  <2>3. Shape(marked) /\ marked.closed = conn.closed \cup (IF m.kind = "close" THEN {m.q} ELSE {})
    BY <1>5, <2>2 DEF Kept
  <2>4. Sends(conn, {m}, r) /\ Order(r) \subseteq Order(conn) \cup (Contents(conn) \X {m})
        /\ r.closed = marked.closed /\ m \in Contents(r) /\ r.todo = conn.todo
    BY <1>2, <1>5, <2>1, <2>2, <2>3
  <2> QED BY <1>5, <2>2, <2>4
<1> QED BY <1>1, <1>3, <1>4, <1>5

LEMMA SendsMore ==
  ASSUME NEW x, NEW ms, NEW y, NEW m, NEW z, NEW all, Sends(x, ms, y), Sends(y, {m}, z), all = ms \cup {m}
  PROVE  Sends(x, all, z)
<1>1. Kept(x, z)
  BY KeptTwice DEF Sends
<1>2. Marks(ms) \subseteq Marks(all) /\ Marks({m}) \subseteq Marks(all)
  BY DEF Marks
<1> QED BY <1>1, <1>2 DEF Sends

(* Many messages of the pump.                                              *)
LEMMA PumpItemsSends ==
  ASSUME NEW conn, Shape(conn), Seqs(conn), Ready(conn), NEW items, IsSeq(items),
         NEW r, r = PumpItems(conn, items)
  PROVE  /\ Sends(conn, Range(items), r)
         /\ Order(r) \subseteq Order(conn) \cup (Contents(conn) \X Range(items)) \cup Pairs(items)
<1> DEFINE n == Len(items)
           f == CHOOSE x : Sent(conn, items, n, x)
           ms(i) == {items[j] : j \in 1..i}
           most == Order(conn) \cup (Contents(conn) \X Range(items)) \cup Pairs(items)
           S == {i \in Nat : i <= n => Sends(conn, ms(i), f[i]) /\ Order(f[i]) \subseteq most}
<1>1. n \in Nat /\ DOMAIN items = 1..n
  BY SeqFacts
<1>2. Sent(conn, items, n, f)
  <2> HIDE DEF n
  <2> QED BY <1>1, SentExists
<1>3. r = f[n]
  BY PumpItemsIs
<1>4. \A i, j \in 1..n : i < j => <<items[i], items[j]>> \in Pairs(items)
  BY PairsIn
<1>41. \A i \in 1..n : items[i] \in Range(items)
  BY <1>1 DEF Range
<1> HIDE DEF f, n
<1>5. \A i \in 0..n : f[i] = IF i = 0 THEN conn ELSE PumpItem(f[i-1], items[i])
  BY <1>2 DEF Sent
<1>6. 0 \in S
  <2>1. f[0] = conn
    BY <1>1, <1>5
  <2>2. ms(0) = {}
    OBVIOUS
  <2>3. Sends(conn, {}, conn)
    BY DEF Sends, Kept
  <2> QED BY <2>1, <2>2, <2>3
<1>7. ASSUME NEW i \in Nat, i \in S PROVE i + 1 \in S
  <2>1. SUFFICES ASSUME i + 1 <= n PROVE Sends(conn, ms(i + 1), f[i + 1]) /\ Order(f[i + 1]) \subseteq most
    OBVIOUS
  <2>2. i < n /\ i + 1 \in 0..n /\ i + 1 # 0 /\ (i + 1) - 1 = i /\ i + 1 \in 1..n
    BY <1>1, <2>1
  <2> DEFINE now == f[i]
             m == items[i + 1]
             new == f[i + 1]
             all == ms(i + 1)
             sofar == ms(i)
  <2>3. new = PumpItem(now, m)
    BY <1>5, <2>2
  <2>4. Sends(conn, sofar, now) /\ Order(now) \subseteq most
    BY <1>1, <1>7, <2>2
  <2>5. all = sofar \cup {m}
    <3>1. 1..(i + 1) = 1..i \cup {i + 1}
      BY <2>2
    <3> QED BY <3>1
  <2>6. \A x \in sofar : <<x, m>> \in Pairs(items)
    <3>1. \A j \in 1..i : j \in 1..n /\ j < i + 1
      BY <1>1, <2>2
    <3> QED BY <1>4, <2>2, <3>1
  <2>7. m \in Range(items)
    BY <1>41, <2>2
  <2> HIDE DEF now, m, new, all, sofar
  <2>8. Shape(now) /\ Seqs(now) /\ Ready(now) /\ Contents(now) \subseteq Contents(conn) \cup sofar
    BY <2>4 DEF Sends, Kept
  <2>9. Sends(now, {m}, new) /\ Order(new) \subseteq Order(now) \cup (Contents(now) \X {m})
    BY <2>3, <2>8, PumpItemSends
  <2>10. Sends(conn, all, new)
    BY <2>4, <2>5, <2>9, SendsMore
  <2>11. Order(new) \subseteq most
    BY <2>4, <2>6, <2>7, <2>8, <2>9
  <2> QED BY <2>10, <2>11 DEF new, all
<1> HIDE DEF S
<1>8. n \in S
  BY <1>1, <1>6, <1>7, Upwards
<1>9. ms(n) = Range(items)
  BY <1>1 DEF Range
<1> HIDE DEF ms, most
<1>10. Sends(conn, ms(n), f[n]) /\ Order(f[n]) \subseteq most
  BY <1>1, <1>8 DEF S
<1>11. Sends(conn, Range(items), r)
  BY <1>3, <1>9, <1>10
<1>12. Order(r) \subseteq most
  BY <1>3, <1>10
<1> QED BY <1>11, <1>12 DEF most

(* A message that is received was before all others, which keep their      *)
(* order.                                                                  *)
LEMMA MovedOrder ==
  ASSUME NEW conn, Shape(conn), Seqs(conn), conn.out # <<>>, NEW r, r = Moved(conn), NEW h, h = Head(conn.out)
  PROVE  /\ Kept(conn, r) /\ Seqs(r) /\ r.closed = conn.closed /\ r.todo = conn.todo
         /\ Contents(conn) = Contents(r) \cup {h} /\ Order(r) \subseteq Order(conn)
         /\ {h} \X Contents(r) \subseteq Order(conn)
<1> DEFINE t == Tail(conn.out)
<1>1. /\ Pairs(t) \subseteq Pairs(conn.out) /\ {h} \X Range(t) \subseteq Pairs(conn.out)
      /\ Range(conn.out) = {h} \cup Range(t) /\ IsSeq(t)
  BY PairsTail DEF Seqs
<1>2. CASE conn.wait = <<>>
  <2>1. r = [conn EXCEPT !.out = t]
    BY <1>2 DEF Moved
  <2> HIDE DEF t
  <2>2. Kept(conn, r)
    BY <2>1 DEF Kept, Shape, Fields
  <2>3. r.out = t /\ r.wait = conn.wait /\ r.todo = conn.todo /\ r.closed = conn.closed
    BY <2>1 DEF Shape, Fields
  <2>4. Seqs(r) /\ Contents(conn) = Contents(r) \cup {h}
    BY <1>1, <2>3 DEF Seqs, Contents, Queued
  <2>5. Order(r) \subseteq Order(conn) /\ {h} \X Contents(r) \subseteq Order(conn)
    BY <1>1, <2>3 DEF Order, Contents, Queued
  <2> QED BY <2>2, <2>3, <2>4, <2>5
<1>3. CASE conn.wait # <<>>
  <2> DEFINE e == Head(conn.wait).msg
             u == Append(t, e)
             v == Tail(conn.wait)
             x == Messages(conn.wait)
             y == Messages(v)
  <2>1. r = [conn EXCEPT !.out = u, !.wait = v]
    BY <1>3 DEF Moved
  <2>2. IsSeq(v) /\ IsSeq(x) /\ x # <<>> /\ y = Tail(x) /\ e = x[1]
    BY <1>3, MessagesTail DEF Seqs
  <2>3. Range(x) = WaitMsgs(conn.wait) /\ Range(y) = WaitMsgs(v)
    BY <2>2, RangeMessages DEF Seqs
  <2>4. Messages(v) = y
    OBVIOUS
  <2> HIDE DEF x, y, v, e, t
  <2>5. e = Head(x)
    BY <2>2, TailFacts
  <2>6. /\ Pairs(y) \subseteq Pairs(x) /\ {e} \X Range(y) \subseteq Pairs(x)
        /\ Range(x) = {e} \cup Range(y)
    <3>1. /\ Pairs(y) \subseteq Pairs(x) /\ {Head(x)} \X Range(y) \subseteq Pairs(x)
          /\ Range(x) = {Head(x)} \cup Range(y)
      BY <2>2, PairsTail
    <3> QED BY <2>5, <3>1
  <2>7. IsSeq(u) /\ Range(u) = Range(t) \cup {e} /\ Pairs(u) \subseteq Pairs(t) \cup (Range(t) \X {e})
    BY <1>1, AppendRange, PairsAppend
  <2> HIDE DEF u
  <2>8. Kept(conn, r)
    BY <2>1 DEF Kept, Shape, Fields
  <2>9. r.out = u /\ r.wait = v /\ r.todo = conn.todo /\ r.closed = conn.closed
    BY <2>1 DEF Shape, Fields
  <2>10. Seqs(r) /\ Queued(conn) = Queued(r) \cup {h}
    BY <1>1, <2>2, <2>3, <2>6, <2>7, <2>9 DEF Seqs, Queued
  <2>11. Contents(conn) = Contents(r) \cup {h}
    BY <2>9, <2>10 DEF Contents
  <2>12. x = Messages(conn.wait)
    BY DEF x
  <2>13. Pairs(r.out) \cup Pairs(Messages(r.wait)) \cup (Range(r.out) \X WaitMsgs(r.wait))
           \subseteq Pairs(conn.out) \cup Pairs(x) \cup (Range(conn.out) \X WaitMsgs(conn.wait))
    BY <1>1, <2>3, <2>4, <2>6, <2>7, <2>9
  <2>14. Queued(r) \X Range(r.todo) \subseteq Queued(conn) \X Range(conn.todo)
    BY <2>9, <2>10
  <2>15. Order(r) \subseteq Order(conn)
    BY <2>9, <2>12, <2>13, <2>14 DEF Order
  <2>16. h \in Range(conn.out) /\ Range(u) \subseteq Range(t) \cup WaitMsgs(conn.wait) /\ WaitMsgs(v) \subseteq WaitMsgs(conn.wait)
    BY <1>1, <2>3, <2>6, <2>7
  <2>17. {h} \X Contents(r) \subseteq Order(conn)
    BY <1>1, <2>9, <2>16 DEF Order, Contents, Queued
  <2> QED BY <2>8, <2>9, <2>10, <2>11, <2>15, <2>17
<1> QED BY <1>2, <1>3

(* The events on their way are those from lo up to hi, and the first is    *)
(* there.                                                                  *)
LEMMA FlowEvents ==
  ASSUME NEW conn, NEW lo \in Nat, NEW hi \in Nat, Flow(conn, lo, hi)
  PROVE  /\ \A x \in Contents(conn) : IsEvent(x) => x.seq \in Nat /\ lo <= x.seq /\ x.seq < hi
         /\ lo < hi => \E x \in Contents(conn) : IsEvent(x) /\ x.seq = lo
<1>1. IsSeq(conn.out) /\ IsSeq(conn.wait) /\ IsSeq(conn.todo)
  BY DEF Flow
<1>2. PICK a \in Nat, b \in Nat :
         Holds(conn.out, lo, a) /\ Holds(Messages(conn.wait), a, b) /\ Holds(conn.todo, b, hi)
  BY DEF Flow
<1>3. lo <= a /\ a <= b /\ b <= hi
  BY <1>2 DEF Holds, Rest
<1>4. ASSUME NEW s, IsSeq(s), NEW l \in Nat, NEW h \in Nat, Holds(s, l, h)
      PROVE  /\ \A x \in Range(s) : IsEvent(x) => x.seq \in l..(h - 1)
             /\ \A n \in l..(h - 1) : \E x \in Range(s) : IsEvent(x) /\ x.seq = n
  <2>1. DOMAIN s = 1..Len(s) /\ 0 + 1 = 1
    BY <1>4, SeqFacts
  <2> QED BY <1>4, <2>1 DEF Holds, Rest, Range
<1>5. Contents(conn) = Range(conn.out) \cup Range(Messages(conn.wait)) \cup Range(conn.todo)
  BY <1>1, RangeMessages DEF Contents, Queued
<1>6. IsSeq(Messages(conn.wait))
  BY <1>1, MessagesFacts
<1>7. /\ \A x \in Range(conn.out) : IsEvent(x) => x.seq \in lo..(a - 1)
      /\ \A n \in lo..(a - 1) : \E x \in Range(conn.out) : IsEvent(x) /\ x.seq = n
  BY <1>1, <1>2, <1>4
<1>8. /\ \A x \in Range(Messages(conn.wait)) : IsEvent(x) => x.seq \in a..(b - 1)
      /\ \A n \in a..(b - 1) : \E x \in Range(Messages(conn.wait)) : IsEvent(x) /\ x.seq = n
  BY <1>2, <1>4, <1>6
<1>9. /\ \A x \in Range(conn.todo) : IsEvent(x) => x.seq \in b..(hi - 1)
      /\ \A n \in b..(hi - 1) : \E x \in Range(conn.todo) : IsEvent(x) /\ x.seq = n
  BY <1>1, <1>2, <1>4
<1>10. ASSUME NEW x \in Contents(conn), IsEvent(x) PROVE x.seq \in Nat /\ lo <= x.seq /\ x.seq < hi
  BY <1>3, <1>5, <1>7, <1>8, <1>9, <1>10
<1>11. ASSUME lo < hi PROVE \E x \in Contents(conn) : IsEvent(x) /\ x.seq = lo
  <2>1. lo \in lo..(a - 1) \/ lo \in a..(b - 1) \/ lo \in b..(hi - 1)
    BY <1>3, <1>11
  <2> QED BY <1>5, <1>7, <1>8, <1>9, <2>1
<1> QED BY <1>10, <1>11

(* A sequence of one message and more.                                     *)
LEMMA PairsCons ==
  ASSUME NEW m, NEW s, IsSeq(s), NEW t, t = <<m>> \o s
  PROVE  /\ IsSeq(t) /\ Range(t) = {m} \cup Range(s)
         /\ Pairs(t) \subseteq ({m} \X Range(s)) \cup (Range(s) \X Range(s))
<1>1. IsSeq(t) /\ Len(t) = Len(s) + 1 /\ t[1] = m /\ \A i \in 1..Len(s) : t[i + 1] = s[i]
  BY ConsFacts
<1>2. Len(s) \in Nat /\ DOMAIN s = 1..Len(s) /\ DOMAIN t = 1..Len(t)
  BY <1>1, SeqFacts
<1>3. \A i \in 1..Len(t) : i = 1 \/ (i - 1 \in 1..Len(s) /\ t[i] = s[i - 1])
  <2>1. TAKE i \in 1..Len(t)
  <2>2. CASE i # 1
    <3>1. i - 1 \in 1..Len(s) /\ (i - 1) + 1 = i
      BY <1>1, <1>2, <2>2
    <3> QED BY <1>1, <3>1
  <2> QED BY <2>2
<1>4. \A i \in 1..Len(t) : t[i] \in {m} \cup Range(s) /\ (i # 1 => t[i] \in Range(s))
  BY <1>1, <1>2, <1>3 DEF Range
<1>5. Range(s) \subseteq Range(t) /\ m \in Range(t)
  <2>1. \A i \in 1..Len(s) : i + 1 \in 1..Len(t)
    BY <1>1, <1>2
  <2>2. 1 \in 1..Len(t)
    BY <1>1, <1>2
  <2> QED BY <1>1, <1>2, <2>1, <2>2 DEF Range
<1>6. Range(t) \subseteq {m} \cup Range(s)
  BY <1>2, <1>4 DEF Range
<1>7. ASSUME NEW p \in Pairs(t) PROVE p \in ({m} \X Range(s)) \cup (Range(s) \X Range(s))
  <2>1. PICK i \in 1..Len(t), j \in 1..Len(t) : i < j /\ p = <<t[i], t[j]>>
    BY <1>2 DEF Pairs
  <2>2. j # 1
    BY <2>1
  <2> QED BY <1>4, <2>1, <2>2
<1> QED BY <1>1, <1>5, <1>6, <1>7

(* Of a question there is the same on the way.                             *)
SameOf(q, conn, r) ==
  /\ \A x : Asks(x, q) \/ Closing(x, q) => (x \in Contents(r) <=> x \in Contents(conn))
  /\ r.asks = conn.asks /\ (q \in r.closed <=> q \in conn.closed)
  /\ \A p \in Order(r) : Closing(p[1], q) /\ Asks(p[2], q) => p \in Order(conn)

LEMMA DialogSame ==
  ASSUME NEW q, NEW conn, NEW r, NEW m, NEW n, NEW at, NEW tried, Dialog(q, conn, m, at, tried), SameOf(q, conn, r),
         q \in m.shown <=> q \in n.shown, q \in n.pending => q \in m.pending
  PROVE  Dialog(q, r, n, at, tried)
<1>1. Offered(q, conn, m) => Offered(q, r, n)
  BY DEF Offered, SameOf
<1>2. NotClosed(q, conn) => NotClosed(q, r)
  BY DEF NotClosed, SameOf
<1>3. WillClose(q, conn) => WillClose(q, r)
  BY DEF WillClose, SameOf
<1>4. Following(q, conn) => Following(q, r)
  <2>1. ASSUME Following(q, conn), NEW p \in Order(r) \cup Pairs(r.asks) PROVE ~(Closing(p[1], q) /\ Asks(p[2], q))
    BY <2>1 DEF Following, SameOf
  <2>2. ASSUME Following(q, conn), NEW x \in Contents(r), NEW y \in Range(r.asks) PROVE ~(Closing(x, q) /\ Asks(y, q))
    BY <2>2 DEF Following, SameOf
  <2> QED BY <2>1, <2>2 DEF Following
<1>5. (q \in n.pending \cap n.shown \/ \E x \in Contents(r) \cup Range(r.asks) : Asks(x, q))
        => (q \in m.pending \cap m.shown \/ \E x \in Contents(conn) \cup Range(conn.asks) : Asks(x, q))
  BY DEF SameOf
<1> QED BY <1>1, <1>2, <1>3, <1>4, <1>5 DEF Dialog

(* Of one that somebody has tried to answer, only that it is offered       *)
(* matters.                                                                *)
LEMMA DialogTried ==
  ASSUME NEW q, NEW conn, NEW r, NEW m, NEW at, NEW tried, Dialog(q, conn, m, at, tried),
         Contents(conn) \subseteq Contents(r), r.asks = conn.asks
  PROVE  Dialog(q, r, m, at, TRUE)
BY DEF Dialog, Offered

LEMMA FaithfulOn ==
  ASSUME NEW x, NEW next, NEW cursor \in Nat, NEW far \in Nat, cursor <= far, NEW lg, NEW bd, Faithful(x, next, cursor, lg, bd)
  PROVE  Faithful(x, next, far, lg, bd)
BY DEF Faithful

(* More messages on the way, each of them faithful and in time.            *)
LEMMA LineMore ==
  ASSUME NEW conn, NEW next, NEW lg, NEW bd, Line(conn, next, lg, bd), conn.cursor \in Nat,
         NEW r, r.cursor \in Nat, conn.cursor <= r.cursor,
         \A x \in Contents(r) : x \in Contents(conn) \/ Faithful(x, next, r.cursor, lg, bd),
         \A p \in Order(r) : p \in Order(conn) \/ InTime(p),
         r.open \subseteq Own, \A x \in Range(r.asks) : Report(x),
         \A x \in Range(r.todo) : x.kind = "close" => x.q \in Own
  PROVE  Line(r, next, lg, bd)
<1>1. ASSUME NEW x \in Contents(r) PROVE Faithful(x, next, r.cursor, lg, bd)
  BY FaithfulOn DEF Line
<1> QED BY <1>1 DEF Line

(* One connection changes, and nothing else.                               *)
LEMMA ShowsOne ==
  ASSUME DialogInv, NEW c \in Clients, NEW r, conns' = [conns EXCEPT ![c] = r], DOMAIN conns = Clients,
         UNCHANGED <<log, asked, board, clients>>,
         \A tr : tr = Attempts(clients) => Shows(r, clients[c], log, board, tr)
  PROVE  DialogInv'
<1>1. PICK tr : tr = Attempts(clients) /\ Showing(conns, clients, log, board, tr)
  BY DEF DialogInv
<1>2. Shows(r, clients[c], log, board, tr)
  BY <1>1
<1>3. Showing(conns', clients, log, board, tr)
  BY <1>1, <1>2 DEF Showing
<1>4. tr = Attempts(clients')
  BY <1>1
<1>5. History(log', asked') /\ Board(board') /\ Keyed(clients')
  BY DEF DialogInv
<1>6. Showing(conns', clients', log', board', tr)
  BY <1>3
<1> QED BY <1>4, <1>5, <1>6 DEF DialogInv

(* What a step starts from.                                                *)
LEMMA ShowsAt ==
  ASSUME DialogInv, NEW c \in Clients, NEW tr, tr = Attempts(clients)
  PROVE  /\ Shows(conns[c], clients[c], log, board, tr)
         /\ Knows(clients[c], log, board)
BY DEF DialogInv, Showing, Shows

LEMMA OwnNotForwarded ==
  ASSUME NEW q \in Own PROVE q \notin Forwarded
BY ServerAssumption

LEMMA ShowsSent ==
  ASSUME NEW conn, NEW r, NEW m, NEW lg, NEW bd, NEW tr, Shows(conn, m, lg, bd, tr), conn.up, conn.sub,
         r.up, r.sub, Line(r, m.next, lg, bd), Range(r.reqs) \subseteq Range(conn.reqs), r.busy = conn.busy,
         \A q \in Forwarded : Dialog(q, r, m, bd[q], q \in tr)
  PROVE  Shows(r, m, lg, bd, tr)
<1>1. Requests(r, bd, tr)
  BY DEF Shows, Requests
<1> QED BY <1>1 DEF Shows

(* All of a finite set is in the sequence that SetToSeq makes of it.       *)
LEMMA SetToSeqRange ==
  ASSUME NEW S, IsFiniteSet(S)
  PROVE  IsSeq(SetToSeq(S)) /\ Range(SetToSeq(S)) = S
<1> DEFINE f == SetToSeq(S)
<1>1. PICK n \in Nat : ExistsBijection(1..n, S)
  BY FS_NatBijection
<1>2. Cardinality(S) = n
  BY <1>1, FS_CountingElements
<1>3. \E g \in [1..Cardinality(S) -> S] : IsInjective(g)
  BY <1>1, <1>2 DEF ExistsBijection, Bijection, Injection, IsInjective
<1>4. f \in [1..n -> S] /\ IsInjective(f)
  BY <1>2, <1>3 DEF SetToSeq
<1>5. IsSeq(f)
  BY SetToSeqFacts
<1> HIDE DEF f
<1>6. Range(f) \subseteq S
  BY <1>4 DEF Range
<1>7. ExistsBijection(1..n, Range(f))
  <2>1. f \in [1..n -> Range(f)]
    BY <1>4 DEF Range
  <2>2. f \in Bijection(1..n, Range(f))
    BY <1>4, <2>1 DEF Bijection, Injection, Surjection, IsInjective, Range
  <2> QED BY <2>2 DEF ExistsBijection
<1>8. Cardinality(Range(f)) = n
  BY <1>7, FS_CountingElements
<1>9. Range(f) = S
  BY <1>2, <1>6, <1>8, FS_Subset
<1> QED BY <1>5, <1>9 DEF f

(* The messages about a set of questions.                                  *)
LEMMA ListRange ==
  ASSUME NEW S, IsFiniteSet(S), NEW kind \in {"close", "question"}, NEW n, NEW s, s = SetToSeq(S),
         NEW items, items = [i \in DOMAIN s |-> Msg(kind, s[i], n)]
  PROVE  IsSeq(items) /\ Range(items) = {Msg(kind, q, n) : q \in S}
<1>1. IsSeq(s) /\ Range(s) = S
  BY SetToSeqRange
<1>2. IsSeq(items)
  BY <1>1, ListFacts
<1>3. DOMAIN items = DOMAIN s /\ \A i \in DOMAIN s : items[i] = Msg(kind, s[i], n)
  OBVIOUS
<1>4. Range(items) = {Msg(kind, q, n) : q \in S}
  BY <1>1, <1>3 DEF Range
<1> QED BY <1>2, <1>4

(* What is sent is not about a question of a sub-agent.                    *)
LEMMA SentSame ==
  ASSUME NEW conn, NEW items, IsSeq(items), NEW r, Sends(conn, Range(items), r),
         Order(r) \subseteq Order(conn) \cup (Contents(conn) \X Range(items)) \cup Pairs(items),
         NEW q, \A x \in Range(items) : ~Asks(x, q) /\ (x.kind = "close" => x.q # q)
  PROVE  SameOf(q, conn, r)
<1>1. \A x : Asks(x, q) \/ Closing(x, q) => (x \in Contents(r) <=> x \in Contents(conn))
  BY DEF Sends, Closing
<1>2. r.asks = conn.asks
  BY DEF Sends, Kept
<1>3. q \in r.closed <=> q \in conn.closed
  BY DEF Sends, Marks
<1>4. ASSUME NEW p \in Order(r), Closing(p[1], q), Asks(p[2], q) PROVE p \in Order(conn)
  <2>1. \A y \in (Contents(conn) \X Range(items)) \cup Pairs(items) : y[2] \in Range(items)
    BY DEF Pairs
  <2> QED BY <1>4, <2>1
<1> QED BY <1>1, <1>2, <1>3, <1>4 DEF SameOf

LEMMA DialogPumpEvent ==
  ASSUME DialogInv, Inv, NEW c \in Clients, PumpEvent(c)
  PROVE  DialogInv'
<1> DEFINE conn   == conns[c]
           m      == clients[c]
           next   == clients[c].next
           n      == conn.cursor + 1
           e      == log[n]
           gone   == Closes(conn.open, e)
           closes == SetToSeq(gone)
           first  == [kind |-> "event", q |-> e.q, seq |-> conn.cursor, event |-> e.kind]
           after  == [i \in DOMAIN closes |-> Msg("close", closes[i], n)]
           items  == <<first>> \o after
           open   == Tracked(conn.open, e)
           x      == [conn EXCEPT !.cursor = n, !.open = open]
           r      == PumpItems(x, items)
<1>1. /\ conn.up /\ conn.sub /\ conn.todo = <<>> /\ Behind(conn) /\ conns' = [conns EXCEPT ![c] = r]
      /\ UNCHANGED <<log, asked, board, clients>>
  BY DEF PumpEvent, Pumps
<1>2. Shape(conn) /\ Books(conn, NextSeq) /\ conn.cursor \in Nat /\ Flow(conn, next, conn.cursor) /\ next \in Nat
  BY <1>1, SubscribedAt, At
<1>3. Seqs(conn) /\ IsFiniteSet(conn.open) /\ DOMAIN conns = Clients
  BY <1>1, <1>2, SeqsOf DEF Books, Inv, Good
<1>4. conn.cursor < Len(log) /\ Len(log) \in Nat
  BY <1>1, <1>2, BehindIs, At DEF NextSeq
<1>5. n \in 1..Len(log) /\ n \in Nat /\ conn.cursor <= n /\ n > 0 /\ next <= n /\ n # -1 /\ conn.cursor < n
  BY <1>2, <1>4, FlowOrder
<1>6. e = Event(e.kind, e.q) /\ (e.kind \in {"asked", "answered"} => e.q \in Own)
  BY <1>5 DEF DialogInv, History
<1>7. SUFFICES ASSUME NEW tr, tr = Attempts(clients) PROVE Shows(r, m, log, board, tr)
  BY <1>1, <1>3, ShowsOne
<1>8. Shows(conn, m, log, board, tr)
  BY <1>7, ShowsAt
<1>9. Line(conn, next, log, board)
  BY <1>1, <1>8 DEF Shows
<1>10. gone \subseteq Own /\ (\A q \in gone : ClosedAt(log, q, n)) /\ open \subseteq Own
  <2>1. conn.open \subseteq Own
    BY <1>9 DEF Line
  <2> QED BY <1>6, <2>1 DEF Closes, Tracked, ClosedAt
<1>11. IsFiniteSet(gone)
  BY <1>3, FollowedFinite
<1>12. IsSeq(after) /\ Range(after) = {Msg("close", q, n) : q \in gone}
  BY <1>11, ListRange
<1>13. IsEvent(first) /\ first.kind = "event" /\ first.seq = conn.cursor /\ first.event = e.kind /\ first.q = e.q
  BY DEF IsEvent
<1>14. log[conn.cursor + 1] = Event(first.event, first.q)
  BY <1>6, <1>13
<1> HIDE DEF closes, first, after, n, open, gone
<1>15. /\ IsSeq(items) /\ Range(items) = {first} \cup Range(after)
       /\ Pairs(items) \subseteq ({first} \X Range(after)) \cup (Range(after) \X Range(after))
  BY <1>12, PairsCons
<1> HIDE DEF items
<1>16. \A y \in Range(after) : ~IsEvent(y) /\ y.kind = "close" /\ y.seq = n /\ y.q \in gone
  BY <1>12 DEF IsEvent, Msg
<1>17. /\ Shape(x) /\ x.out = conn.out /\ x.wait = conn.wait /\ x.todo = conn.todo /\ x.cursor = n /\ x.open = open
       /\ x.reqs = conn.reqs /\ x.asks = conn.asks /\ x.busy = conn.busy /\ x.closed = conn.closed
       /\ x.up = conn.up /\ x.sub = conn.sub
  BY <1>2 DEF Shape, Fields
<1> HIDE DEF x
<1>18. Seqs(x) /\ Ready(x) /\ Contents(x) = Contents(conn) /\ Order(x) = Order(conn)
  BY <1>1, <1>3, <1>17 DEF Seqs, Ready, Contents, Order, Queued
<1>19. /\ Sends(x, Range(items), r)
       /\ Order(r) \subseteq Order(x) \cup (Contents(x) \X Range(items)) \cup Pairs(items)
  BY <1>15, <1>17, <1>18, PumpItemsSends
<1> HIDE DEF r
<1>20. /\ r.up = conn.up /\ r.sub = conn.sub /\ r.cursor = n /\ r.open = open /\ r.reqs = conn.reqs
       /\ r.busy = conn.busy /\ r.asks = conn.asks
       /\ Contents(r) \subseteq Contents(conn) \cup Range(items) /\ Range(r.todo) \subseteq Range(items)
  <2>1. Range(x.todo) = {}
    BY <1>1, <1>17, NoPairs
  <2> QED BY <1>17, <1>18, <1>19, <2>1 DEF Sends, Kept
<1>21. \A y \in Range(items) : Faithful(y, next, n, log, board)
  <2>1. Faithful(first, next, n, log, board)
    BY <1>2, <1>4, <1>13, <1>14 DEF Faithful, Timed
  <2>2. ASSUME NEW y \in Range(after) PROVE Faithful(y, next, n, log, board)
    BY <1>5, <1>10, <1>16 DEF Faithful, Timed
  <2> QED BY <1>15, <2>1, <2>2
<1>22. \A p \in Order(r) : p \in Order(conn) \/ InTime(p)
  <2>1. ASSUME NEW p \in Contents(conn) \X Range(items) PROVE InTime(p)
    <3>1. p[1] \in Contents(conn) /\ p[2] \in Range(items)
      OBVIOUS
    <3>2. IsEvent(p[1]) => p[1].seq \in Nat /\ p[1].seq < conn.cursor
      BY <1>2, <3>1, FlowEvents
    <3>3. Timed(p[1]) => p[1].seq <= conn.cursor
      BY <1>9, <3>1 DEF Line, Faithful
    <3>4. (IsEvent(p[2]) => p[2].seq = conn.cursor) /\ (Timed(p[2]) => p[2].seq = n)
      BY <1>13, <1>15, <1>16, <3>1 DEF Timed
    <3>5. IsEvent(p[1]) /\ Timed(p[2]) => p[1].seq < p[2].seq
      BY <1>2, <1>5, <3>2, <3>4
    <3> QED BY <3>3, <3>4, <3>5 DEF InTime
  <2>2. ASSUME NEW p \in Pairs(items) PROVE InTime(p)
    <3>1. p[1] \in {first} \cup Range(after) /\ p[2] \in Range(after)
      BY <1>15
    <3>2. (IsEvent(p[1]) => p[1].seq = conn.cursor) /\ ~IsEvent(p[2]) /\ p[2].seq = n
      BY <1>13, <1>16, <3>1
    <3> QED BY <1>5, <3>2 DEF InTime
  <2> QED BY <1>18, <1>19, <2>1, <2>2
<1>23. Line(r, next, log, board)
  <2>1. \A y \in Range(r.todo) : y.kind = "close" => y.q \in Own
    BY <1>10, <1>13, <1>15, <1>16, <1>20
  <2>2. \A y \in Range(r.asks) : Report(y)
    BY <1>9, <1>20 DEF Line
  <2>3. \A y \in Contents(r) : y \in Contents(conn) \/ Faithful(y, next, r.cursor, log, board)
    BY <1>20, <1>21
  <2>4. r.open \subseteq Own /\ r.cursor \in Nat /\ conn.cursor <= r.cursor
    BY <1>5, <1>10, <1>20
  <2> QED BY <1>2, <1>9, <1>22, <2>1, <2>2, <2>3, <2>4, LineMore
<1>24. ASSUME NEW q \in Forwarded PROVE Dialog(q, r, m, board[q], q \in tr)
  <2>1. \A y \in Range(items) : ~Asks(y, q) /\ (y.kind = "close" => y.q # q)
    BY <1>10, <1>13, <1>15, <1>16, OwnNotForwarded DEF Asks
  <2>2. SameOf(q, x, r)
    BY <1>15, <1>19, <2>1, SentSame
  <2>3. SameOf(q, conn, r)
    BY <1>17, <1>18, <2>2 DEF SameOf
  <2>4. Dialog(q, conn, m, board[q], q \in tr)
    BY <1>1, <1>8 DEF Shows
  <2> QED BY <2>3, <2>4, DialogSame
<1> HIDE DEF conn, m, next
<1>25. m.next = next
  BY DEF m, next
<1> QED BY <1>1, <1>8, <1>20, <1>23, <1>24, <1>25, ShowsSent

(* The pump takes the next report of the board.                            *)
LEMMA DialogAsked ==
  ASSUME NEW q, NEW conn, NEW m, NEW at, NEW tried, Dialog(q, conn, m, at, tried),
         IsSeq(conn.asks), conn.asks # <<>>, NEW h, h = Head(conn.asks), h.kind \in {"question", "close"},
         NEW r, r.asks = Tail(conn.asks),
         Contents(conn) \subseteq Contents(r), Contents(r) \subseteq Contents(conn) \cup {h},
         Order(r) \subseteq Order(conn) \cup (Contents(conn) \X {h}),
         conn.closed \subseteq r.closed, r.closed \subseteq conn.closed \cup Marks({h}),
         h.kind = "question" => h \in Contents(r),
         h.kind = "close" => h.q \in conn.closed \/ h \in Contents(r)
  PROVE  Dialog(q, r, m, at, tried)
<1> DEFINE t == Tail(conn.asks)
<1>1. /\ Pairs(t) \subseteq Pairs(conn.asks) /\ {h} \X Range(t) \subseteq Pairs(conn.asks)
      /\ Range(conn.asks) = {h} \cup Range(t)
  BY PairsTail
<1>2. r.asks = t
  OBVIOUS
<1> HIDE DEF t
<1>3. q \in Marks({h}) => Closing(h, q)
  BY DEF Marks, Closing
<1>4. Offered(q, conn, m) => Offered(q, r, m)
  BY <1>1, <1>2 DEF Offered, Asks
<1>5. NotClosed(q, conn) => NotClosed(q, r)
  BY <1>1, <1>2, <1>3 DEF NotClosed
<1>6. WillClose(q, conn) => WillClose(q, r)
  <2>1. CASE \E x \in Contents(conn) : Closing(x, q)
    BY <2>1 DEF WillClose
  <2>2. CASE q \notin conn.closed /\ Closing(h, q)
    BY <2>2 DEF WillClose, Closing
  <2>3. CASE q \notin conn.closed /\ ~Closing(h, q) /\ \E x \in Range(t) : Closing(x, q)
    BY <1>2, <1>3, <2>3 DEF WillClose
  <2> QED BY <1>1, <2>1, <2>2, <2>3 DEF WillClose
<1>7. Following(q, conn) => Following(q, r)
  <2> SUFFICES ASSUME Following(q, conn) PROVE Following(q, r)
    OBVIOUS
  <2>1. ASSUME NEW p \in Order(r) \cup Pairs(r.asks) PROVE ~(Closing(p[1], q) /\ Asks(p[2], q))
    <3>1. CASE p \in Order(conn) \cup Pairs(conn.asks)
      BY <3>1 DEF Following
    <3>2. CASE p \in Contents(conn) \X {h}
      <4>1. p[1] \in Contents(conn) /\ p[2] = h /\ h \in Range(conn.asks)
        BY <1>1, <3>2
      <4> QED BY <4>1 DEF Following
    <3> QED BY <1>1, <1>2, <3>1, <3>2
  <2>2. ASSUME NEW x \in Contents(r), NEW y \in Range(r.asks) PROVE ~(Closing(x, q) /\ Asks(y, q))
    <3>1. y \in Range(conn.asks) /\ y \in Range(t)
      BY <1>1, <1>2
    <3>2. CASE x \in Contents(conn)
      BY <3>1, <3>2 DEF Following
    <3>3. CASE x = h
      <4>1. <<x, y>> \in Pairs(conn.asks) /\ <<x, y>>[1] = x /\ <<x, y>>[2] = y
        BY <1>1, <3>1, <3>3
      <4> QED BY <4>1 DEF Following
    <3> QED BY <3>2, <3>3
  <2> QED BY <2>1, <2>2 DEF Following
<1>8. (\E x \in Contents(r) \cup Range(r.asks) : Asks(x, q)) => \E x \in Contents(conn) \cup Range(conn.asks) : Asks(x, q)
  BY <1>1, <1>2
<1> QED BY <1>4, <1>5, <1>6, <1>7, <1>8 DEF Dialog

LEMMA DialogPumpAsk ==
  ASSUME DialogInv, Inv, NEW c \in Clients, PumpAsk(c)
  PROVE  DialogInv'
<1> DEFINE conn == conns[c]
           m    == clients[c]
           next == clients[c].next
           t    == Tail(conn.asks)
           h    == Head(conn.asks)
           x    == [conn EXCEPT !.asks = t]
           r    == PumpItem(x, h)
<1>1. /\ conn.up /\ conn.sub /\ conn.todo = <<>> /\ ~Waiting(conn, "pump") /\ conn.asks # <<>>
      /\ conns' = [conns EXCEPT ![c] = r] /\ UNCHANGED <<log, asked, board, clients>>
  BY DEF PumpAsk, Pumps
<1>2. Shape(conn) /\ Books(conn, NextSeq) /\ conn.cursor \in Nat /\ IsSeq(conn.asks)
  BY <1>1, SubscribedAt DEF Books
<1>3. Seqs(conn) /\ DOMAIN conns = Clients
  BY <1>1, SeqsOf DEF Inv, Good
<1>7. SUFFICES ASSUME NEW tr, tr = Attempts(clients) PROVE Shows(r, m, log, board, tr)
  BY <1>1, <1>3, ShowsOne
<1>8. Shows(conn, m, log, board, tr)
  BY <1>7, ShowsAt
<1>9. Line(conn, next, log, board)
  BY <1>1, <1>8 DEF Shows
<1>10. Range(conn.asks) = {h} \cup Range(t)
  BY <1>1, <1>2, PairsTail
<1>11. Report(h) /\ \A y \in Range(t) : Report(y)
  BY <1>9, <1>10 DEF Line
<1> HIDE DEF h, t
<1>12. /\ Shape(x) /\ x.out = conn.out /\ x.wait = conn.wait /\ x.todo = conn.todo /\ x.cursor = conn.cursor
       /\ x.open = conn.open /\ x.reqs = conn.reqs /\ x.asks = t /\ x.busy = conn.busy /\ x.closed = conn.closed
       /\ x.up = conn.up /\ x.sub = conn.sub
  BY <1>2 DEF Shape, Fields
<1> HIDE DEF x
<1>13. Seqs(x) /\ Ready(x) /\ Contents(x) = Contents(conn) /\ Order(x) = Order(conn) /\ ~Waiting(x, "pump")
  BY <1>1, <1>3, <1>12 DEF Seqs, Ready, Contents, Order, Queued, Waiting
<1>14. /\ Sends(x, {h}, r) /\ Order(r) \subseteq Order(x) \cup (Contents(x) \X {h})
       /\ h.kind = "close" => h.q \in x.closed \/ h \in Contents(r)
  BY <1>12, <1>13, PumpItemSends
<1> HIDE DEF r
<1>15. /\ r.up = conn.up /\ r.sub = conn.sub /\ r.cursor = conn.cursor /\ r.open = conn.open /\ r.reqs = conn.reqs
       /\ r.busy = conn.busy /\ r.asks = t
       /\ Contents(conn) \subseteq Contents(r) /\ Contents(r) \subseteq Contents(conn) \cup {h}
       /\ Order(r) \subseteq Order(conn) \cup (Contents(conn) \X {h})
       /\ conn.closed \subseteq r.closed /\ r.closed \subseteq conn.closed \cup Marks({h})
       /\ h.kind = "question" => h \in Contents(r)
  BY <1>12, <1>13, <1>14 DEF Sends, Kept
<1>16. ~IsEvent(h) /\ ~Timed(h) /\ h.q \in Forwarded /\ h.kind \in {"question", "close"}
  BY <1>11 DEF Report, IsEvent, Timed
<1>17. Line(r, next, log, board)
  <2>1. Faithful(h, next, r.cursor, log, board)
    BY <1>16, OwnNotForwarded DEF Faithful
  <2>2. \A p \in Contents(conn) \X {h} : InTime(p)
    BY <1>16 DEF InTime
  <2>3. \A y \in Range(r.todo) : y.kind = "close" => y.q \in Own
    <3>1. CASE h.kind = "close"
      <4>1. r.todo = x.todo
        BY <1>12, <1>13, <3>1, PumpItemSends DEF r
      <4>2. Range(r.todo) = {}
        BY <1>1, <1>12, <4>1, NoPairs
      <4> QED BY <4>2
    <3>2. CASE h.kind # "close"
      <4>1. Range(r.todo) \subseteq {h}
        BY <1>1, <1>12, <1>14, NoPairs DEF Sends
      <4> QED BY <3>2, <4>1
    <3> QED BY <3>1, <3>2
  <2>4. r.open \subseteq Own
    BY <1>9, <1>15 DEF Line
  <2> QED BY <1>2, <1>9, <1>11, <1>15, <2>1, <2>2, <2>3, <2>4, LineMore
<1>18. ASSUME NEW q \in Forwarded PROVE Dialog(q, r, m, board[q], q \in tr)
  <2>1. Dialog(q, conn, m, board[q], q \in tr)
    BY <1>1, <1>8 DEF Shows
  <2>2. h = Head(conn.asks) /\ r.asks = Tail(conn.asks)
    BY <1>15 DEF h, t
  <2>3. h.kind = "close" => h.q \in conn.closed \/ h \in Contents(r)
    BY <1>12, <1>14
  <2> QED BY <1>1, <1>2, <1>15, <1>16, <2>1, <2>2, <2>3, DialogAsked
<1> HIDE DEF conn, m, next
<1>19. m.next = next
  BY DEF m, next
<1> QED BY <1>1, <1>8, <1>15, <1>17, <1>18, <1>19, ShowsSent

LEMMA DialogPumpOn ==
  ASSUME DialogInv, Inv, NEW c \in Clients, PumpOn(c)
  PROVE  DialogInv'
<1> DEFINE conn == conns[c]
           m    == clients[c]
           next == clients[c].next
           todo == conn.todo
           x    == [conn EXCEPT !.todo = <<>>]
           r    == PumpItems(x, todo)
<1>1. /\ conn.up /\ conn.todo # <<>> /\ ~Waiting(conn, "pump")
      /\ conns' = [conns EXCEPT ![c] = r] /\ UNCHANGED <<log, asked, board, clients>>
  BY DEF PumpOn
<1>20. conn.sub
  BY <1>1, At DEF Connection, Fresh
<1>2. Shape(conn) /\ Books(conn, NextSeq) /\ conn.cursor \in Nat
  BY <1>1, <1>20, SubscribedAt DEF Books
<1>3. Seqs(conn) /\ DOMAIN conns = Clients
  BY <1>1, SeqsOf DEF Inv, Good
<1>7. SUFFICES ASSUME NEW tr, tr = Attempts(clients) PROVE Shows(r, m, log, board, tr)
  BY <1>1, <1>3, ShowsOne
<1>8. Shows(conn, m, log, board, tr)
  BY <1>7, ShowsAt
<1>9. Line(conn, next, log, board)
  BY <1>1, <1>8, <1>20 DEF Shows
<1>12. /\ Shape(x) /\ x.out = conn.out /\ x.wait = conn.wait /\ x.todo = <<>> /\ x.cursor = conn.cursor
       /\ x.open = conn.open /\ x.reqs = conn.reqs /\ x.asks = conn.asks /\ x.busy = conn.busy /\ x.closed = conn.closed
       /\ x.up = conn.up /\ x.sub = conn.sub
  BY <1>2 DEF Shape, Fields
<1> HIDE DEF x
<1>13. Seqs(x) /\ Ready(x) /\ IsSeq(todo)
  BY <1>3, <1>12, EmptyIsSeq DEF Seqs, Ready
<1>14. /\ Contents(x) = Queued(conn) /\ Contents(conn) = Contents(x) \cup Range(todo)
       /\ Order(conn) = Order(x) \cup (Contents(x) \X Range(todo)) \cup Pairs(todo)
  <2>1. Range(x.todo) = {} /\ Pairs(x.todo) = {}
    BY <1>12, NoPairs
  <2> QED BY <1>12, <2>1 DEF Contents, Order, Queued
<1> HIDE DEF todo
<1>15. /\ Sends(x, Range(todo), r)
       /\ Order(r) \subseteq Order(x) \cup (Contents(x) \X Range(todo)) \cup Pairs(todo)
  BY <1>12, <1>13, PumpItemsSends
<1> HIDE DEF r
<1>16. /\ r.up = conn.up /\ r.sub = conn.sub /\ r.cursor = conn.cursor /\ r.open = conn.open /\ r.reqs = conn.reqs
       /\ r.busy = conn.busy /\ r.asks = conn.asks
       /\ Contents(r) \subseteq Contents(conn) /\ Order(r) \subseteq Order(conn)
       /\ Contents(x) \subseteq Contents(r) /\ {y \in Range(todo) : y.kind # "close"} \subseteq Contents(r)
       /\ conn.closed \subseteq r.closed /\ r.closed \subseteq conn.closed \cup Marks(Range(todo))
       /\ Range(r.todo) \subseteq Range(todo)
  <2>1. Range(x.todo) = {}
    BY <1>12, NoPairs
  <2> QED BY <1>12, <1>14, <1>15, <2>1 DEF Sends, Kept
<1>17. \A y \in Range(todo) : y.kind = "close" => y.q \in Own
  BY <1>9 DEF Line, todo
<1>18. Line(r, next, log, board)
  <2>1. r.open \subseteq Own /\ \A y \in Range(r.asks) : Report(y)
    BY <1>9, <1>16 DEF Line
  <2>2. r.cursor \in Nat /\ conn.cursor <= r.cursor
    BY <1>2, <1>16
  <2> QED BY <1>2, <1>9, <1>16, <1>17, <2>1, <2>2, LineMore
<1>19. ASSUME NEW q \in Forwarded PROVE Dialog(q, r, m, board[q], q \in tr)
  <2>1. Dialog(q, conn, m, board[q], q \in tr)
    BY <1>1, <1>8, <1>20 DEF Shows
  <2>2. \A y : Asks(y, q) \/ Closing(y, q) => (y \in Contents(r) <=> y \in Contents(conn))
    BY <1>14, <1>16, <1>17, OwnNotForwarded DEF Asks, Closing
  <2>3. q \in r.closed <=> q \in conn.closed
    BY <1>16, <1>17, OwnNotForwarded DEF Marks
  <2>4. SameOf(q, conn, r)
    BY <1>16, <2>2, <2>3 DEF SameOf
  <2> QED BY <2>1, <2>4, DialogSame
<1> HIDE DEF conn, m, next
<1>21. m.next = next
  BY DEF m, next
<1> QED BY <1>1, <1>8, <1>16, <1>18, <1>19, <1>20, <1>21, ShowsSent

(* A new subscription starts with all the forwarded questions that are     *)
(* open, and nothing else.                                                 *)
LEMMA DialogSubscribe ==
  ASSUME DialogInv, Inv, NEW c \in Clients, Subscribe(c)
  PROVE  DialogInv'
<1> DEFINE conn    == conns[c]
           m       == clients[c]
           next    == clients[c].next
           taken   == Taken(conn)
           from    == Head(conn.reqs).from
           opened  == {q \in Forwarded : Open(q)}
           pending == SetToSeq(opened)
           items   == [i \in DOMAIN pending |-> Msg("question", pending[i], -1)]
           x       == [taken EXCEPT !.sub = TRUE, !.cursor = from, !.open = {}, !.asks = <<>>]
           r       == PumpItems(x, items)
<1>1. Request(c, "subscribe") /\ conns' = [conns EXCEPT ![c] = r] /\ UNCHANGED <<log, asked, board, clients>>
  BY DEF Subscribe
<1>2. conn.up /\ ~conn.sub /\ Shape(conn) /\ Fresh(conn, next)
  BY <1>1, RequestOf
<1>3. next \in Nat /\ DOMAIN conns = Clients
  BY At DEF Inv, Good
<1>4. SUFFICES ASSUME NEW tr, tr = Attempts(clients) PROVE Shows(r, m, log, board, tr)
  BY <1>1, <1>3, ShowsOne
<1>5. Knows(m, log, board) /\ conn.closed = {} /\ m.shown = {}
  BY <1>2, <1>4, ShowsAt DEF Shows
<1>6. IsFiniteSet(opened)
  BY ServerAssumption, FS_Subset
<1>7. IsSeq(items) /\ Range(items) = {Msg("question", q, -1) : q \in opened}
  <2> HIDE DEF opened
  <2> QED BY <1>6, ListRange
<1>8. \A y \in Range(items) : y.kind = "question" /\ y.q \in opened
  BY <1>7 DEF Msg
<1>9. from = next /\ Tail(conn.reqs) = <<>>
  <2>1. conn.reqs = <<[kind |-> "subscribe", from |-> next]>>
    BY <1>2 DEF Fresh
  <2>2. \A e : Tail(<<e>>) = <<>>
    OBVIOUS
  <2> QED BY <2>1, <2>2
<1> HIDE DEF items, from
<1>10. taken = [conn EXCEPT !.reqs = <<>>]
  BY <1>9 DEF Taken
<1>11. /\ Shape(taken) /\ taken.reqs = <<>> /\ taken.out = <<>> /\ taken.wait = <<>> /\ taken.todo = <<>>
       /\ taken.busy = <<>> /\ taken.closed = {} /\ taken.up
  BY <1>2, <1>5, <1>10 DEF Shape, Fields, Fresh
<1> HIDE DEF taken
<1>12. /\ Shape(x) /\ x.reqs = <<>> /\ x.out = <<>> /\ x.wait = <<>> /\ x.todo = <<>> /\ x.busy = <<>>
       /\ x.closed = {} /\ x.up /\ x.sub /\ x.cursor = next /\ x.open = {} /\ x.asks = <<>>
  BY <1>9, <1>11 DEF Shape, Fields
<1> HIDE DEF x
<1>13. Seqs(x) /\ Ready(x)
  BY <1>12, EmptyIsSeq DEF Seqs, Ready
<1>14. Contents(x) = {} /\ Order(x) = {}
  <2>1. WaitMsgs(x.wait) = {} /\ Messages(x.wait) = <<>>
    <3>1. DOMAIN <<>> = {} /\ Len(<<>>) = 0
      OBVIOUS
    <3>2. IsSeq(Messages(x.wait)) /\ Len(Messages(x.wait)) = 0
      BY <1>12, <3>1, EmptyIsSeq, MessagesFacts
    <3> QED BY <1>12, <3>1, <3>2, SeqFacts DEF WaitMsgs
  <2>2. Range(x.out) = {} /\ Range(x.todo) = {} /\ Pairs(x.out) = {} /\ Pairs(x.todo) = {} /\ Pairs(Messages(x.wait)) = {}
    BY <1>12, <2>1, NoPairs
  <2> QED BY <2>1, <2>2 DEF Contents, Order, Queued
<1>15. Sends(x, Range(items), r) /\ Order(r) \subseteq Pairs(items)
  <2>1. Order(r) \subseteq Order(x) \cup (Contents(x) \X Range(items)) \cup Pairs(items)
    BY <1>7, <1>12, <1>13, PumpItemsSends
  <2> QED BY <1>7, <1>12, <1>13, <1>14, <2>1, PumpItemsSends
<1> HIDE DEF r
<1>16. /\ r.up /\ r.sub /\ r.cursor = next /\ r.open = {} /\ r.reqs = <<>> /\ r.busy = <<>> /\ r.asks = <<>>
       /\ Contents(r) = Range(items) /\ Range(r.todo) \subseteq Range(items) /\ r.closed = {}
  <2>1. Marks(Range(items)) = {}
    BY <1>8 DEF Marks
  <2>2. Range(x.todo) = {}
    BY <1>12, NoPairs
  <2>3. Range(items) \subseteq {y \in Range(items) : y.kind # "close"}
    BY <1>8
  <2> QED BY <1>12, <1>14, <1>15, <2>1, <2>2, <2>3 DEF Sends, Kept
<1>17. Range(r.asks) = {} /\ Pairs(r.asks) = {} /\ Range(r.reqs) = {}
  BY <1>16, NoPairs
<1>18. \A p \in Order(r) : p[1] \in Range(items)
  BY <1>15 DEF Pairs
<1>19. Line(r, next, log, board)
  <2>1. ASSUME NEW y \in Contents(r) PROVE Faithful(y, next, r.cursor, log, board)
    BY <1>8, <1>16 DEF Faithful, IsEvent, Timed
  <2>2. ASSUME NEW p \in Order(r) PROVE InTime(p)
    BY <1>8, <1>18 DEF InTime, IsEvent, Timed
  <2>3. \A y \in Range(r.todo) : y.kind # "close"
    BY <1>8, <1>16
  <2> QED BY <1>16, <1>17, <2>1, <2>2, <2>3 DEF Line
<1>20. ASSUME NEW q \in Forwarded PROVE Dialog(q, r, m, board[q], q \in tr)
  <2>1. \A y \in Contents(r) : ~Closing(y, q)
    BY <1>8, <1>16 DEF Closing
  <2>2. board[q].state = "open" => Offered(q, r, m)
    <3>1. q \in opened => Msg("question", q, -1) \in Contents(r)
      BY <1>7, <1>16
    <3>2. Asks(Msg("question", q, -1), q)
      BY DEF Asks, Msg
    <3> QED BY <3>1, <3>2 DEF Offered, Open
  <2>3. NotClosed(q, r)
    BY <1>16, <1>17, <2>1 DEF NotClosed
  <2>4. Following(q, r)
    BY <1>16, <1>17, <1>18, <2>1 DEF Following
  <2>5. board[q].state # "open" => q \notin m.shown /\ \A y \in Contents(r) \cup Range(r.asks) : ~Asks(y, q)
    BY <1>5, <1>8, <1>16, <1>17 DEF Asks, Open
  <2> QED BY <2>2, <2>3, <2>4, <2>5 DEF Dialog
<1>21. Requests(r, board, tr)
  BY <1>16, <1>17 DEF Requests
<1> HIDE DEF conn, m, next
<1>22. m.next = next
  BY DEF m, next
<1> QED BY <1>5, <1>16, <1>19, <1>20, <1>21, <1>22 DEF Shows

(* A reply is sent: it is about no question.                               *)
LEMMA AckSame ==
  ASSUME NEW conn, Shape(conn), Seqs(conn), NEW by, NEW k, NEW b, NEW r, r = Offer(conn, by, AckOf(k, b))
  PROVE  /\ Kept(conn, r) /\ Contents(conn) \subseteq Contents(r)
         /\ \A x \in Contents(r) : x \in Contents(conn) \/ x.kind = "ack"
         /\ \A p \in Order(r) : p \in Order(conn) \/ p[1].kind = "ack" \/ p[2].kind = "ack"
         /\ r.todo = conn.todo /\ r.closed = conn.closed
         /\ \A q : SameOf(q, conn, r)
<1> DEFINE m == AckOf(k, b)
<1>1. m.kind = "ack"
  BY DEF AckOf
<1>2. /\ Kept(conn, r) /\ r.todo = conn.todo /\ r.closed = conn.closed
      /\ Contents(r) = Contents(conn) \cup {m}
      /\ Order(r) \subseteq Order(conn) \cup (Contents(conn) \X {m}) \cup ({m} \X Range(conn.todo))
  BY OfferOrder
<1> HIDE DEF m
<1>3. \A p \in Order(r) : p \in Order(conn) \/ p[1].kind = "ack" \/ p[2].kind = "ack"
  BY <1>1, <1>2
<1>4. \A x \in Contents(r) : x \in Contents(conn) \/ x.kind = "ack"
  BY <1>1, <1>2
<1>5. ASSUME NEW q PROVE SameOf(q, conn, r)
  <2>1. r.asks = conn.asks
    BY <1>2 DEF Kept
  <2>2. \A x : Asks(x, q) \/ Closing(x, q) => (x \in Contents(r) <=> x \in Contents(conn))
    BY <1>1, <1>2 DEF Asks, Closing
  <2>3. \A p \in Order(r) : Closing(p[1], q) /\ Asks(p[2], q) => p \in Order(conn)
    BY <1>3 DEF Asks, Closing
  <2> QED BY <1>2, <2>1, <2>2, <2>3 DEF SameOf
<1> QED BY <1>2, <1>3, <1>4, <1>5

LEMMA LineAck ==
  ASSUME NEW conn, Shape(conn), Seqs(conn), NEW by, NEW k, NEW b, NEW r, r = Offer(conn, by, AckOf(k, b)),
         NEW next, NEW lg, NEW bd, Line(conn, next, lg, bd)
  PROVE  Line(r, next, lg, bd)
<1>1. /\ Kept(conn, r) /\ r.todo = conn.todo
      /\ \A x \in Contents(r) : x \in Contents(conn) \/ x.kind = "ack"
      /\ \A p \in Order(r) : p \in Order(conn) \/ p[1].kind = "ack" \/ p[2].kind = "ack"
  BY AckSame
<1>2. ASSUME NEW x \in Contents(r) PROVE Faithful(x, next, r.cursor, lg, bd)
  <2>1. r.cursor = conn.cursor
    BY <1>1 DEF Kept
  <2>2. CASE x.kind = "ack"
    BY <2>2 DEF Faithful, IsEvent, Timed
  <2> QED BY <1>1, <2>1, <2>2 DEF Line
<1>3. ASSUME NEW p \in Order(r) PROVE InTime(p)
  <2>1. CASE p[1].kind = "ack" \/ p[2].kind = "ack"
    BY <2>1 DEF InTime, IsEvent, Timed
  <2> QED BY <1>1, <2>1 DEF Line
<1>4. r.open = conn.open /\ r.asks = conn.asks /\ r.todo = conn.todo
  BY <1>1 DEF Kept
<1> QED BY <1>2, <1>3, <1>4 DEF Line

(* Which questions wait after one event more.                              *)
LEMMA WaitsNext ==
  ASSUME NEW lg, NEW q, NEW n \in Nat
  PROVE  Waits(lg, q, n + 1) <=> lg[n + 1] = Event("asked", q) \/ (Waits(lg, q, n) /\ ~ClosedAt(lg, q, n + 1))
<1>1. ASSUME Waits(lg, q, n + 1)
      PROVE  lg[n + 1] = Event("asked", q) \/ (Waits(lg, q, n) /\ ~ClosedAt(lg, q, n + 1))
  <2>1. PICK i \in 1..(n + 1) : lg[i] = Event("asked", q) /\ \A j \in (i + 1)..(n + 1) : ~ClosedAt(lg, q, j)
    BY <1>1 DEF Waits
  <2>2. CASE i # n + 1
    <3>1. i \in 1..n /\ (\A j \in (i + 1)..n : j \in (i + 1)..(n + 1)) /\ n + 1 \in (i + 1)..(n + 1)
      BY <2>2
    <3> QED BY <2>1, <3>1 DEF Waits
  <2> QED BY <2>1, <2>2
<1>2. ASSUME lg[n + 1] = Event("asked", q) PROVE Waits(lg, q, n + 1)
  <2>1. n + 1 \in 1..(n + 1) /\ ((n + 1) + 1)..(n + 1) = {}
    OBVIOUS
  <2> QED BY <1>2, <2>1 DEF Waits
<1>3. ASSUME Waits(lg, q, n), ~ClosedAt(lg, q, n + 1) PROVE Waits(lg, q, n + 1)
  <2>1. PICK i \in 1..n : lg[i] = Event("asked", q) /\ \A j \in (i + 1)..n : ~ClosedAt(lg, q, j)
    BY <1>3 DEF Waits
  <2>2. i \in 1..(n + 1) /\ \A j \in (i + 1)..(n + 1) : j \in (i + 1)..n \/ j = n + 1
    OBVIOUS
  <2> QED BY <1>3, <2>1, <2>2 DEF Waits
<1> QED BY <1>1, <1>2, <1>3

(* The journal only grows.                                                 *)
Grown(lg, lg2) == lg2 = lg \/ \E e : lg2 = Append(lg, e)

LEMMA GrownIs ==
  ASSUME NEW lg, IsSeq(lg), NEW lg2, Grown(lg, lg2)
  PROVE  IsSeq(lg2) /\ Len(lg) \in Nat /\ Len(lg2) \in Nat /\ Len(lg) <= Len(lg2) /\ \A i \in 1..Len(lg) : lg2[i] = lg[i]
<1>1. CASE lg2 = lg
  BY <1>1, SeqFacts
<1>2. ASSUME NEW e, lg2 = Append(lg, e)
      PROVE  IsSeq(lg2) /\ Len(lg) \in Nat /\ Len(lg2) = Len(lg) + 1 /\ \A i \in 1..Len(lg) : lg2[i] = lg[i]
  BY <1>2, AppendFacts, SeqFacts
<1> QED BY <1>1, <1>2 DEF Grown

LEMMA WaitsSame ==
  ASSUME NEW lg, IsSeq(lg), NEW lg2, Grown(lg, lg2), NEW q, NEW n \in Nat, n <= Len(lg)
  PROVE  Waits(lg2, q, n) <=> Waits(lg, q, n)
<1>1. \A i \in 1..n : lg2[i] = lg[i]
  BY GrownIs
<1>2. \A i \in 1..n : ClosedAt(lg2, q, i) <=> ClosedAt(lg, q, i)
  BY <1>1 DEF ClosedAt
<1>3. \A i \in 1..n : \A j \in (i + 1)..n : j \in 1..n
  OBVIOUS
<1> QED BY <1>1, <1>2, <1>3 DEF Waits

Becomes(as, e, as2) ==
  /\ e = Event(e.kind, e.q) /\ (e.kind \in {"asked", "answered"} => e.q \in Own)
  /\ as2 \subseteq Own
  /\ \A q \in Own : q \in as2 <=> e = Event("asked", q) \/ (q \in as /\ e.kind # "hard" /\ e # Event("answered", q))

LEMMA HistoryMore ==
  ASSUME NEW lg, IsSeq(lg), NEW as, History(lg, as), NEW e, NEW as2, Becomes(as, e, as2), NEW lg2, lg2 = Append(lg, e)
  PROVE  History(lg2, as2)
<1> DEFINE n == Len(lg)
<1>1. IsSeq(lg2) /\ Len(lg2) = n + 1 /\ (\A i \in 1..n : lg2[i] = lg[i]) /\ lg2[n + 1] = e /\ n \in Nat
  BY AppendFacts, SeqFacts
<1>2. Grown(lg, lg2)
  BY DEF Grown
<1>3. ASSUME NEW i \in 1..Len(lg2)
      PROVE  lg2[i] = Event(lg2[i].kind, lg2[i].q) /\ (lg2[i].kind \in {"asked", "answered"} => lg2[i].q \in Own)
  <2>1. i \in 1..n \/ i = n + 1
    BY <1>1
  <2> QED BY <1>1, <2>1 DEF History, Becomes
<1>4. ASSUME NEW q \in Own PROVE Waits(lg2, q, Len(lg2)) <=> q \in as2
  <2>1. Waits(lg2, q, n) <=> q \in as
    <3>1. Waits(lg, q, n) <=> q \in as
      BY DEF History
    <3>2. Waits(lg2, q, n) <=> Waits(lg, q, n)
      <4>1. n \in Nat /\ n <= Len(lg)
        BY <1>1
      <4> HIDE DEF n
      <4> QED BY <1>2, <4>1, WaitsSame
    <3> QED BY <3>1, <3>2
  <2>2. ClosedAt(lg2, q, n + 1) <=> e.kind = "hard" \/ e = Event("answered", q)
    BY <1>1 DEF ClosedAt
  <2>3. Waits(lg2, q, n + 1) <=> e = Event("asked", q) \/ (Waits(lg2, q, n) /\ ~ClosedAt(lg2, q, n + 1))
    BY <1>1, WaitsNext
  <2> QED BY <1>1, <2>1, <2>2, <2>3 DEF Becomes
<1>5. as2 \subseteq Own
  BY DEF Becomes
<1> QED BY <1>3, <1>4, <1>5 DEF History

(* What is known stays so, when the journal grows and answers are taken.   *)
TakenMore(bd, bd2) == \A q \in Own : bd[q].taken => bd2[q].taken

LEMMA KnowsLater ==
  ASSUME NEW m, NEW lg, NEW bd, Knows(m, lg, bd), IsSeq(lg), NEW lg2, Grown(lg, lg2), m.next \in Nat, m.next <= Len(lg),
         NEW bd2, TakenMore(bd, bd2), NEW m2, m2.next = m.next, m2.pending = m.pending, m2.shown = m.shown
  PROVE  Knows(m2, lg2, bd2)
BY WaitsSame DEF Knows, TakenMore

LEMMA FaithfulLater ==
  ASSUME NEW x, NEW next, NEW cursor, NEW lg, NEW bd, Faithful(x, next, cursor, lg, bd), IsSeq(lg), NEW lg2, Grown(lg, lg2),
         cursor \in Nat, cursor <= Len(lg), NEW bd2, TakenMore(bd, bd2)
  PROVE  Faithful(x, next, cursor, lg2, bd2)
<1>1. Len(lg) \in Nat /\ Len(lg2) \in Nat /\ Len(lg) <= Len(lg2) /\ \A i \in 1..Len(lg) : lg2[i] = lg[i]
  BY GrownIs
<1>2. IsEvent(x) => x.seq \in Nat /\ x.seq < Len(lg2) /\ lg2[x.seq + 1] = Event(x.event, x.q)
  <2>1. SUFFICES ASSUME IsEvent(x) PROVE x.seq \in Nat /\ x.seq < Len(lg2) /\ lg2[x.seq + 1] = Event(x.event, x.q)
    OBVIOUS
  <2>2. x.seq \in Nat /\ x.seq < Len(lg) /\ lg[x.seq + 1] = Event(x.event, x.q)
    BY <2>1 DEF Faithful
  <2>3. x.seq + 1 \in 1..Len(lg)
    BY <1>1, <2>2
  <2> QED BY <1>1, <2>2, <2>3
<1>3. x.kind = "close" /\ x.q \in Own => bd2[x.q].taken \/ (Timed(x) /\ ClosedAt(lg2, x.q, x.seq))
  <2>1. CASE x.kind = "close" /\ x.q \in Own /\ Timed(x) /\ ClosedAt(lg, x.q, x.seq)
    <3>1. x.seq \in Nat /\ x.seq > 0 /\ x.seq <= cursor
      BY <2>1 DEF Faithful
    <3>2. x.seq \in 1..Len(lg)
      BY <1>1, <3>1
    <3> QED BY <1>1, <2>1, <3>2 DEF ClosedAt
  <2> QED BY <2>1 DEF Faithful, TakenMore
<1> QED BY <1>2, <1>3 DEF Faithful

LEMMA RequestsLater ==
  ASSUME NEW conn, NEW bd, NEW tr, Requests(conn, bd, tr), NEW r, Range(r.reqs) \subseteq Range(conn.reqs), r.busy = conn.busy,
         NEW bd2, TakenMore(bd, bd2), NEW tr2, tr \subseteq tr2
  PROVE  Requests(r, bd2, tr2)
BY DEF Requests, TakenMore

LEMMA DialogLater ==
  ASSUME NEW q, NEW conn, NEW m, NEW at, NEW tr, Dialog(q, conn, m, at, q \in tr), NEW tr2, tr \subseteq tr2
  PROVE  Dialog(q, conn, m, at, q \in tr2)
BY DEF Dialog

(* A connection, but for what it is asked and reports that are to be       *)
(* passed on.                                                              *)
Alike(conn, r) ==
  /\ r.up = conn.up /\ r.sub = conn.sub /\ r.cursor = conn.cursor /\ r.open = conn.open /\ r.todo = conn.todo
  /\ Contents(r) = Contents(conn) /\ Order(r) = Order(conn)
  /\ conn.sub \/ r.closed = conn.closed

LEMMA LineLater ==
  ASSUME NEW conn, NEW next, NEW lg, NEW bd, Line(conn, next, lg, bd), IsSeq(lg), NEW lg2, Grown(lg, lg2),
         conn.cursor \in Nat, conn.cursor <= Len(lg), NEW bd2, TakenMore(bd, bd2), NEW r, Alike(conn, r),
         \A x \in Range(r.asks) : x \in Range(conn.asks) \/ Report(x)
  PROVE  Line(r, next, lg2, bd2)
<1>1. ASSUME NEW x \in Contents(r) PROVE Faithful(x, next, r.cursor, lg2, bd2)
  <2>1. Faithful(x, next, conn.cursor, lg, bd)
    BY DEF Line, Alike
  <2>2. Faithful(x, next, conn.cursor, lg2, bd2)
    BY <2>1, FaithfulLater
  <2> QED BY <2>2 DEF Alike
<1> QED BY <1>1 DEF Line, Alike

LEMMA ShowsLater ==
  ASSUME NEW conn, NEW m, NEW lg, NEW bd, NEW tr, Shows(conn, m, lg, bd, tr), IsSeq(lg), NEW lg2, Grown(lg, lg2),
         m.next \in Nat, m.next <= Len(lg), conn.up /\ conn.sub => conn.cursor \in Nat /\ conn.cursor <= Len(lg),
         NEW bd2, TakenMore(bd, bd2), NEW r, Alike(conn, r), NEW tr2,
         NEW m2, m2.next = m.next, m2.pending = m.pending, m2.shown = m.shown,
         conn.up /\ conn.sub =>
           /\ \A x \in Range(r.asks) : x \in Range(conn.asks) \/ Report(x)
           /\ Requests(r, bd2, tr2) /\ \A q \in Forwarded : Dialog(q, r, m2, bd2[q], q \in tr2)
  PROVE  Shows(r, m2, lg2, bd2, tr2)
<1>1. Knows(m2, lg2, bd2)
  BY KnowsLater DEF Shows
<1>2. r.up /\ ~r.sub => r.closed = {} /\ m2.shown = {}
  BY DEF Shows, Alike
<1>3. r.up /\ r.sub => Line(r, m2.next, lg2, bd2)
  BY LineLater DEF Shows, Alike
<1>4. r.up /\ r.sub => Requests(r, bd2, tr2) /\ \A q \in Forwarded : Dialog(q, r, m2, bd2[q], q \in tr2)
  BY DEF Alike
<1> QED BY <1>1, <1>2, <1>3, <1>4 DEF Shows

(* A connection that stays as it is, and its client too, as it is shown.   *)
LEMMA ShowsStill ==
  ASSUME NEW conn, NEW m, NEW lg, NEW bd, NEW tr, Shows(conn, m, lg, bd, tr), IsSeq(lg), NEW lg2, Grown(lg, lg2),
         m.next \in Nat, m.next <= Len(lg), conn.up /\ conn.sub => conn.cursor \in Nat /\ conn.cursor <= Len(lg),
         NEW bd2, TakenMore(bd, bd2), \A q \in Forwarded : bd2[q] = bd[q], NEW tr2, tr \subseteq tr2,
         NEW m2, m2.next = m.next, m2.pending = m.pending, m2.shown = m.shown
  PROVE  Shows(conn, m2, lg2, bd2, tr2)
<1>1. Alike(conn, conn)
  BY DEF Alike
<1>2. conn.up /\ conn.sub => Requests(conn, bd2, tr2)
  BY RequestsLater DEF Shows
<1>3. ASSUME conn.up, conn.sub, NEW q \in Forwarded PROVE Dialog(q, conn, m2, bd2[q], q \in tr2)
  <2>1. Dialog(q, conn, m, bd2[q], q \in tr2)
    BY <1>3, DialogLater DEF Shows
  <2>2. SameOf(q, conn, conn)
    BY DEF SameOf
  <2> QED BY <2>1, <2>2, DialogSame
<1> QED BY <1>1, <1>2, <1>3, ShowsLater

(* What holds of every client of a step.                                   *)
LEMMA ShowingStep ==
  ASSUME DialogInv, History(log', asked'), Board(board'),
         \A c \in Clients : KeysKept(clients[c], clients'[c]),
         \A tr, tr2 : tr = Attempts(clients) /\ tr2 = Attempts(clients') /\ tr \subseteq tr2 =>
           \A c \in Clients : Shows(conns[c], clients[c], log, board, tr) => Shows(conns'[c], clients'[c], log', board', tr2)
  PROVE  DialogInv'
<1>1. PICK tr : tr = Attempts(clients) /\ Showing(conns, clients, log, board, tr)
  BY DEF DialogInv
<1>2. PICK tr2 : tr2 = Attempts(clients')
  OBVIOUS
<1>3. tr \subseteq tr2
  BY <1>1, <1>2 DEF Attempts, KeysKept
<1>4. Showing(conns', clients', log', board', tr2)
  BY <1>1, <1>2, <1>3 DEF Showing
<1>5. Keyed(clients')
  BY DEF Keyed, KeysKept, DialogInv
<1> QED BY <1>2, <1>4, <1>5 DEF DialogInv

(* What the board makes of a question.                                     *)
LEMMA BoardOpened ==
  ASSUME Board(board), NEW q \in Questions, NEW bd, bd = Opened(q)
  PROVE  /\ Board(bd) /\ bd[q].state = "open" /\ bd[q].opens = board[q].opens + 1
         /\ \A p \in Questions : bd[p].taken = board[p].taken /\ (p # q => bd[p] = board[p])
<1>1. bd = [board EXCEPT ![q] = [board[q] EXCEPT !.state = "open", !.opens = board[q].opens + 1]]
  BY DEF Opened
<1> DEFINE at == [board[q] EXCEPT !.state = "open", !.opens = board[q].opens + 1]
<1>2. /\ DOMAIN at = AtFields /\ at.state = "open" /\ at.opens = board[q].opens + 1 /\ at.taken = board[q].taken
      /\ at.opens \in Nat /\ at.opens # 0
  BY DEF Board, AtFields
<1>3. bd = [board EXCEPT ![q] = at]
  BY <1>1
<1> HIDE DEF at
<1>4. DOMAIN bd = Questions /\ \A p \in Questions : bd[p] = IF p = q THEN at ELSE board[p]
  BY <1>3 DEF Board
<1> QED BY <1>2, <1>4 DEF Board

LEMMA BoardAnswered ==
  ASSUME Board(board), NEW q \in Questions, NEW bd, bd = Answered(q)
  PROVE  /\ Board(bd) /\ bd[q].state = "answered" /\ bd[q].opens = board[q].opens /\ bd[q].taken
         /\ \A p \in Questions : p # q => bd[p] = board[p]
<1>1. bd = [board EXCEPT ![q] = [board[q] EXCEPT !.state = "answered", !.taken = TRUE]]
  BY DEF Answered
<1> DEFINE at == [board[q] EXCEPT !.state = "answered", !.taken = TRUE]
<1>2. DOMAIN at = AtFields /\ at.state = "answered" /\ at.opens = board[q].opens /\ at.opens \in Nat /\ at.taken
  BY DEF Board, AtFields
<1>3. bd = [board EXCEPT ![q] = at]
  BY <1>1
<1> HIDE DEF at
<1>4. DOMAIN bd = Questions /\ \A p \in Questions : bd[p] = IF p = q THEN at ELSE board[p]
  BY <1>3 DEF Board
<1> QED BY <1>2, <1>4 DEF Board

LEMMA BoardGone ==
  ASSUME Board(board), NEW qs, NEW bd, bd = Gone(qs)
  PROVE  /\ Board(bd)
         /\ \A q \in Questions : /\ bd[q].opens = board[q].opens /\ bd[q].taken = board[q].taken
                                 /\ q \notin qs => bd[q] = board[q]
                                 /\ q \in qs => bd[q].state = "none"
<1>1. DOMAIN bd = Questions /\ \A q \in Questions : bd[q] = IF q \in qs THEN [board[q] EXCEPT !.state = "none"] ELSE board[q]
  BY DEF Gone
<1>2. ASSUME NEW q \in Questions
      PROVE  /\ DOMAIN bd[q] = AtFields /\ bd[q].opens = board[q].opens /\ bd[q].taken = board[q].taken
             /\ q \notin qs => bd[q] = board[q]
             /\ q \in qs => bd[q].state = "none"
  <2> DEFINE at == [board[q] EXCEPT !.state = "none"]
  <2>1. DOMAIN at = AtFields /\ at.opens = board[q].opens /\ at.taken = board[q].taken /\ at.state = "none"
    BY DEF Board, AtFields
  <2>2. bd[q] = IF q \in qs THEN at ELSE board[q]
    BY <1>1
  <2> HIDE DEF at
  <2> QED BY <2>1, <2>2 DEF Board
<1>3. ASSUME NEW q \in Questions PROVE bd[q].opens \in Nat /\ (bd[q].opens = 0 => bd[q].state # "open")
  BY <1>2 DEF Board
<1> QED BY <1>1, <1>2, <1>3 DEF Board

LEMMA Asked == \A q : q \in Own \cup Forwarded <=> q \in Questions
BY DEF Questions

(* Of the journal: where clients and pumps are in it.                      *)
LEMMA Within ==
  ASSUME Inv, NEW c \in Clients
  PROVE  /\ IsSeq(log) /\ clients[c].next \in Nat /\ clients[c].next <= Len(log)
         /\ conns[c].up /\ conns[c].sub => conns[c].cursor \in Nat /\ conns[c].cursor <= Len(log)
<1>1. IsSeq(log) /\ clients[c].next \in Nat /\ clients[c].next <= Len(log)
  BY At DEF Inv, Client, NextSeq
<1>2. conns[c].up /\ conns[c].sub => conns[c].cursor \in Nat /\ conns[c].cursor <= Len(log)
  BY SubscribedAt DEF Books, NextSeq
<1> QED BY <1>1, <1>2

(* Nothing happens to connections, to what clients show, and to forwarded  *)
(* questions.                                                              *)
LEMMA DialogStill ==
  ASSUME DialogInv, Inv, History(log', asked'), Board(board'), Grown(log, log'), TakenMore(board, board'),
         \A q \in Forwarded : board'[q] = board[q], conns' = conns,
         \A c \in Clients : /\ clients'[c].next = clients[c].next /\ clients'[c].pending = clients[c].pending
                            /\ clients'[c].shown = clients[c].shown /\ KeysKept(clients[c], clients'[c])
  PROVE  DialogInv'
<1>1. ASSUME NEW tr, NEW tr2, tr \subseteq tr2, NEW c \in Clients, Shows(conns[c], clients[c], log, board, tr)
      PROVE  Shows(conns'[c], clients'[c], log', board', tr2)
  BY <1>1, Within, ShowsStill
<1> QED BY <1>1, ShowingStep

LEMMA DialogOwn ==
  ASSUME DialogInv, Inv, NEW q \in Own, AskOwn(q) \/ OpenOwn(q) \/ Resolve(q)
  PROVE  DialogInv'
<1>1. IsSeq(log) /\ History(log, asked) /\ Board(board) /\ q \in Questions /\ asked \subseteq Own
  BY Asked DEF Inv, DialogInv, History
<1>2. ASSUME NEW kind \in {"asked", "answered"}, log' = Append(log, Event(kind, q)),
             asked' = IF kind = "asked" THEN asked \cup {q} ELSE asked \ {q}
      PROVE  History(log', asked') /\ Grown(log, log')
  <2> DEFINE e == Event(kind, q)
  <2>1. e = Event(e.kind, e.q) /\ e.q \in Own /\ e.kind = kind
    BY DEF Event
  <2>2. ASSUME NEW p \in Own
        PROVE  p \in asked' <=> e = Event("asked", p) \/ (p \in asked /\ e.kind # "hard" /\ e # Event("answered", p))
    <3>1. e = Event("asked", p) <=> kind = "asked" /\ p = q
      BY DEF Event
    <3>2. e = Event("answered", p) <=> kind = "answered" /\ p = q
      BY DEF Event
    <3> QED BY <1>2, <2>1, <3>1, <3>2
  <2>3. asked' \subseteq Own
    BY <1>1, <1>2
  <2>4. log' = Append(log, e)
    BY <1>2
  <2> HIDE DEF e
  <2>5. Grown(log, log')
    BY <2>4 DEF Grown
  <2>6. Becomes(asked, e, asked')
    BY <2>1, <2>2, <2>3 DEF Becomes
  <2>7. History(log', asked')
    BY <1>1, <2>4, <2>6, HistoryMore
  <2> QED BY <2>5, <2>7
<1>3. CASE AskOwn(q)
  <2>1. History(log', asked') /\ Grown(log, log')
    BY <1>2, <1>3 DEF AskOwn
  <2> QED BY <1>1, <1>3, <2>1, DialogStill DEF AskOwn, TakenMore, KeysKept
<1>4. CASE Resolve(q)
  <2>1. History(log', asked') /\ Grown(log, log')
    BY <1>2, <1>4 DEF Resolve
  <2> QED BY <1>1, <1>4, <2>1, DialogStill DEF Resolve, TakenMore, KeysKept
<1>5. CASE OpenOwn(q)
  <2>1. Board(board') /\ \A p \in Questions : board'[p].taken = board[p].taken /\ (p # q => board'[p] = board[p])
    BY <1>1, <1>5, BoardOpened DEF OpenOwn
  <2>2. TakenMore(board, board')
    BY <2>1, Asked DEF TakenMore
  <2>3. \A p \in Forwarded : board'[p] = board[p]
    BY <2>1, Asked, OwnNotForwarded
  <2>4. UNCHANGED <<log, asked, conns, clients>>
    BY <1>5 DEF OpenOwn
  <2>5. Grown(log, log') /\ History(log', asked')
    BY <1>1, <2>4 DEF Grown
  <2>6. \A c \in Clients : /\ clients'[c].next = clients[c].next /\ clients'[c].pending = clients[c].pending
                           /\ clients'[c].shown = clients[c].shown /\ KeysKept(clients[c], clients'[c])
    BY <2>4 DEF KeysKept
  <2> QED BY <2>1, <2>2, <2>3, <2>4, <2>5, <2>6, DialogStill
<1> QED BY <1>3, <1>4, <1>5

LEMMA DialogHard ==
  ASSUME DialogInv, Inv, HardInterrupt
  PROVE  DialogInv'
<1> DEFINE e == Event("hard", "none")
<1>1. IsSeq(log) /\ History(log, asked) /\ Board(board) /\ asked \subseteq Own
  BY DEF Inv, DialogInv, History
<1>2. log' = Append(log, e) /\ board' = Gone(asked) /\ asked' = {} /\ UNCHANGED <<conns, clients>>
  BY DEF HardInterrupt
<1>3. e = Event(e.kind, e.q) /\ e.kind = "hard"
  BY DEF Event
<1>4. \A q : e # Event("asked", q)
  BY DEF Event
<1> HIDE DEF e
<1>5. History(log', asked') /\ Grown(log, log')
  <2>1. Grown(log, log')
    BY <1>2 DEF Grown
  <2>2. Becomes(asked, e, asked')
    BY <1>2, <1>3, <1>4 DEF Becomes
  <2>3. History(log', asked')
    BY <1>1, <1>2, <2>2, HistoryMore
  <2> QED BY <2>1, <2>3
<1>6. Board(board') /\ \A q \in Questions : board'[q].taken = board[q].taken /\ (q \notin asked => board'[q] = board[q])
  BY <1>1, <1>2, BoardGone
<1>7. TakenMore(board, board')
  BY <1>6, Asked DEF TakenMore
<1>8. \A q \in Forwarded : board'[q] = board[q]
  BY <1>1, <1>6, Asked, OwnNotForwarded
<1> QED BY <1>2, <1>5, <1>6, <1>7, <1>8, DialogStill DEF KeysKept

(* The board reports a question to a connection.                           *)
Passes(conn, x, r) == r.asks = Append(conn.asks, x) /\ r.reqs = conn.reqs /\ r.busy = conn.busy

LEMMA ReportedIs ==
  ASSUME NEW cs, NEW q, q \notin Own, NEW kind, NEW x, x = Msg(kind, q, -1), NEW new, new = Reported(cs, q, kind), NEW c \in Clients
  PROVE  /\ ~(cs[c].up /\ cs[c].sub) => new[c] = cs[c]
         /\ cs[c].up /\ cs[c].sub /\ Shape(cs[c]) =>
              Alike(cs[c], new[c]) /\ new[c].closed = cs[c].closed /\ Passes(cs[c], x, new[c])
<1> DEFINE conn == cs[c]
           r    == [conn EXCEPT !.asks = Append(conn.asks, x)]
<1>1. new[c] = IF conn.up /\ conn.sub THEN r ELSE conn
  BY DEF Reported
<1>2. ASSUME Shape(conn)
      PROVE  /\ r.asks = Append(conn.asks, x) /\ r.reqs = conn.reqs /\ r.busy = conn.busy /\ r.closed = conn.closed
             /\ r.up = conn.up /\ r.sub = conn.sub /\ r.cursor = conn.cursor /\ r.open = conn.open /\ r.todo = conn.todo
             /\ r.out = conn.out /\ r.wait = conn.wait
  BY <1>2 DEF Shape, Fields
<1> HIDE DEF conn, r
<1>3. ASSUME Shape(conn) PROVE Alike(conn, r) /\ Passes(conn, x, r) /\ r.closed = conn.closed
  BY <1>2, <1>3 DEF Alike, Passes, Contents, Order, Queued
<1> QED BY <1>1, <1>3 DEF conn

(* For other questions that makes no difference.                           *)
LEMMA DialogOther ==
  ASSUME NEW q, NEW conn, NEW m, NEW at, NEW tried, Dialog(q, conn, m, at, tried), IsSeq(conn.asks),
         NEW x, x.q # q, NEW r, r.asks = Append(conn.asks, x),
         Contents(r) = Contents(conn), Order(r) = Order(conn), q \in r.closed <=> q \in conn.closed
  PROVE  Dialog(q, r, m, at, tried)
<1>1. Range(r.asks) = Range(conn.asks) \cup {x} /\ Pairs(r.asks) \subseteq Pairs(conn.asks) \cup (Range(conn.asks) \X {x})
  BY AppendRange, PairsAppend
<1>2. ~Asks(x, q) /\ ~Closing(x, q)
  BY DEF Asks, Closing
<1>3. Offered(q, conn, m) => Offered(q, r, m)
  BY <1>1 DEF Offered
<1>4. NotClosed(q, conn) => NotClosed(q, r)
  BY <1>1, <1>2 DEF NotClosed
<1>5. WillClose(q, conn) => WillClose(q, r)
  BY <1>1 DEF WillClose
<1>6. Following(q, conn) => Following(q, r)
  BY <1>1, <1>2 DEF Following
<1>7. (\E y \in Contents(r) \cup Range(r.asks) : Asks(y, q)) => \E y \in Contents(conn) \cup Range(conn.asks) : Asks(y, q)
  BY <1>1, <1>2
<1> QED BY <1>3, <1>4, <1>5, <1>6, <1>7 DEF Dialog

(* It is open: the client will be asked.                                   *)
LEMMA DialogOpens ==
  ASSUME NEW q, NEW conn, NEW m, NEW at, NEW tried, Dialog(q, conn, m, at, tried), IsSeq(conn.asks),
         NEW x, x = Msg("question", q, -1), NEW r, r.asks = Append(conn.asks, x),
         Contents(r) = Contents(conn), Order(r) = Order(conn), r.closed = conn.closed,
         NEW at2, at2.state = "open", at.opens \in Nat, at2.opens = at.opens + 1
  PROVE  Dialog(q, r, m, at2, tried)
<1>1. Range(r.asks) = Range(conn.asks) \cup {x} /\ Pairs(r.asks) \subseteq Pairs(conn.asks) \cup (Range(conn.asks) \X {x})
  BY AppendRange, PairsAppend
<1>2. Asks(x, q) /\ ~Closing(x, q)
  BY DEF Asks, Closing, Msg
<1>3. Offered(q, r, m)
  BY <1>1, <1>2 DEF Offered
<1>4. ASSUME at2.opens <= 1, ~tried PROVE NotClosed(q, r) /\ Following(q, r)
  <2>1. at.opens = 0 /\ at.opens <= 1
    BY <1>4
  <2>2. NotClosed(q, conn) /\ Following(q, conn)
    BY <1>4, <2>1 DEF Dialog
  <2>3. NotClosed(q, r)
    BY <1>1, <1>2, <2>2 DEF NotClosed
  <2>4. \A p \in Pairs(r.asks) : p[1] \in Range(r.asks)
    BY DEF Pairs
  <2>5. Following(q, r)
    BY <2>2, <2>3, <2>4 DEF Following, NotClosed
  <2> QED BY <2>3, <2>5
<1> QED BY <1>3, <1>4 DEF Dialog

(* It is not open any more: what closes it comes after it.                 *)
LEMMA DialogCloses ==
  ASSUME NEW q, NEW conn, NEW m, NEW at, NEW tried, Dialog(q, conn, m, at, tried), IsSeq(conn.asks),
         at.state = "open", at.opens \in Nat, at.opens # 0,
         NEW x, x = Msg("close", q, -1), NEW r, r.asks = Append(conn.asks, x),
         Contents(r) = Contents(conn), Order(r) = Order(conn), r.closed = conn.closed,
         NEW at2, at2.state # "open", at2.opens = at.opens
  PROVE  Dialog(q, r, m, at2, tried)
<1>1. Range(r.asks) = Range(conn.asks) \cup {x} /\ Pairs(r.asks) \subseteq Pairs(conn.asks) \cup (Range(conn.asks) \X {x})
  BY AppendRange, PairsAppend
<1>2. ~Asks(x, q) /\ Closing(x, q)
  BY DEF Asks, Closing, Msg
<1>3. ASSUME at2.opens <= 1, ~tried PROVE WillClose(q, r) /\ Following(q, r)
  <2>1. NotClosed(q, conn) /\ Following(q, conn)
    BY <1>3 DEF Dialog
  <2>2. WillClose(q, r)
    BY <1>1, <1>2, <2>1 DEF WillClose, NotClosed
  <2>3. Following(q, r)
    BY <1>1, <1>2, <2>1 DEF Following
  <2> QED BY <2>2, <2>3
<1> QED BY <1>3 DEF Dialog

(* Nothing is known of one that is not open and that somebody has tried to *)
(* answer, nothing changes for one that was not open.                      *)
LEMMA DialogGone ==
  ASSUME NEW q, NEW conn, NEW m, NEW at, NEW tried, Dialog(q, conn, m, at, tried), at.state # "open",
         NEW at2, at2.state # "open", at2.opens = at.opens
  PROVE  Dialog(q, conn, m, at2, tried)
BY DEF Dialog

LEMMA DialogOver ==
  ASSUME NEW q, NEW conn, NEW m, NEW at, at.state # "open"
  PROVE  Dialog(q, conn, m, at, TRUE)
BY DEF Dialog

(* A step of the board on a forwarded question, which it reports.          *)
LEMMA DialogReported ==
  ASSUME DialogInv, Inv, NEW q \in Forwarded, NEW kind \in {"question", "close"}, Board(board'),
         conns' = Reported(conns, q, kind), UNCHANGED <<log, asked, clients>>,
         TakenMore(board, board'),
         \A p \in Questions : p # q => board'[p] = board[p],
         \/ kind = "question" /\ board'[q].state = "open" /\ board'[q].opens = board[q].opens + 1
         \/ kind = "close" /\ Open(q) /\ board'[q].state # "open" /\ board'[q].opens = board[q].opens
  PROVE  DialogInv'
<1> DEFINE x == Msg(kind, q, -1)
<1>1. Board(board) /\ History(log, asked) /\ q \in Questions /\ q \notin Own
  BY Asked, OwnNotForwarded DEF DialogInv
<1>2. TakenMore(board, board')
  OBVIOUS
<1>3. Report(x) /\ x.q = q
  BY DEF Report, Msg
<1>4. board[q].opens \in Nat /\ (board[q].opens = 0 => board[q].state # "open")
  BY <1>1 DEF Board
<1>5. ASSUME NEW tr, NEW tr2, tr \subseteq tr2, NEW c \in Clients, Shows(conns[c], clients[c], log, board, tr)
      PROVE  Shows(conns'[c], clients'[c], log', board', tr2)
  <2> DEFINE conn == conns[c]
             r    == conns'[c]
             m    == clients[c]
  <2>1. /\ IsSeq(log) /\ m.next \in Nat /\ m.next <= Len(log)
        /\ conn.up /\ conn.sub => conn.cursor \in Nat /\ conn.cursor <= Len(log)
    BY Within
  <2>2. /\ ~(conn.up /\ conn.sub) => r = conn
        /\ conn.up /\ conn.sub /\ Shape(conn) => Alike(conn, r) /\ r.closed = conn.closed /\ Passes(conn, x, r)
    BY <1>1, ReportedIs
  <2>3. conn.up /\ conn.sub => Shape(conn) /\ IsSeq(conn.asks)
    BY SubscribedAt DEF Books
  <2>4. Shows(conn, m, log, board, tr) /\ Grown(log, log)
    BY <1>5 DEF Grown
  <2> HIDE DEF conn, r, m, x
  <2>5. CASE ~(conn.up /\ conn.sub)
    <3>1. Shows(conn, m, log, board', tr2)
      <4>1. Alike(conn, conn)
        BY DEF Alike
      <4> QED BY <1>2, <2>1, <2>4, <2>5, <4>1, ShowsLater
    <3> QED BY <2>2, <2>5, <3>1 DEF conn, r, m
  <2>6. CASE conn.up /\ conn.sub
    <3>1. Alike(conn, r) /\ r.closed = conn.closed /\ r.asks = Append(conn.asks, x) /\ r.reqs = conn.reqs /\ r.busy = conn.busy
      BY <2>2, <2>3, <2>6 DEF Passes
    <3>2. Range(r.asks) = Range(conn.asks) \cup {x}
      <4>1. IsSeq(conn.asks) /\ r.asks = Append(conn.asks, x)
        BY <2>3, <2>6, <3>1
      <4> QED BY <4>1, AppendRange
    <3>3. Contents(r) = Contents(conn) /\ Order(r) = Order(conn)
      BY <3>1 DEF Alike
    <3>4. ASSUME NEW p \in Forwarded PROVE Dialog(p, r, m, board'[p], p \in tr2)
      <4>1. Dialog(p, conn, m, board[p], p \in tr)
        BY <2>4, <2>6 DEF Shows
      <4>2. Dialog(p, conn, m, board[p], p \in tr2)
        BY <1>5, <4>1, DialogLater
      <4>3. CASE p # q
        <5>1. board'[p] = board[p] /\ x.q # p
          BY <1>3, <4>3, Asked
        <5>2. Dialog(p, r, m, board[p], p \in tr2)
          BY <2>3, <2>6, <3>1, <3>3, <4>2, <5>1, DialogOther
        <5> QED BY <5>1, <5>2
      <4>4. CASE p = q /\ kind = "question"
        <5>1. x = Msg("question", q, -1)
          BY <4>4 DEF x
        <5>2. Dialog(q, r, m, board'[q], q \in tr2)
          BY <1>4, <2>3, <2>6, <3>1, <3>3, <4>2, <4>4, <5>1, DialogOpens
        <5> QED BY <4>4, <5>2
      <4>5. CASE p = q /\ kind = "close"
        <5>1. x = Msg("close", q, -1)
          BY <4>5 DEF x
        <5>2. board[q].state = "open" /\ board'[q].state # "open" /\ board'[q].opens = board[q].opens
          BY <4>5 DEF Open
        <5>3. Dialog(q, r, m, board'[q], q \in tr2)
          BY <1>4, <2>3, <2>6, <3>1, <3>3, <4>2, <4>5, <5>1, <5>2, DialogCloses
        <5> QED BY <4>5, <5>3
      <4> QED BY <4>3, <4>4, <4>5
    <3>5. Requests(r, board', tr2)
      BY <1>2, <1>5, <2>4, <2>6, <3>1, RequestsLater DEF Shows
    <3>6. \A y \in Range(r.asks) : y \in Range(conn.asks) \/ Report(y)
      BY <1>3, <3>2
    <3>7. Shows(r, m, log, board', tr2)
      BY <1>2, <2>1, <2>4, <3>1, <3>4, <3>5, <3>6, ShowsLater
    <3> QED BY <3>7 DEF r, m
  <2> QED BY <2>5, <2>6
<1>6. History(log', asked') /\ \A c \in Clients : KeysKept(clients[c], clients'[c])
  BY <1>1 DEF KeysKept
<1> QED BY <1>5, <1>6, ShowingStep

(* Of the board's own.                                                     *)
LEMMA DialogQuiet ==
  ASSUME DialogInv, Inv, Board(board'), UNCHANGED <<log, asked, conns, clients>>, TakenMore(board, board'),
         \A q \in Forwarded : board'[q] = board[q] \/ (board[q].state # "open" /\ board'[q].state # "open" /\ board'[q].opens = board[q].opens)
  PROVE  DialogInv'
<1>1. ASSUME NEW tr, NEW tr2, tr \subseteq tr2, NEW c \in Clients, Shows(conns[c], clients[c], log, board, tr)
      PROVE  Shows(conns'[c], clients'[c], log', board', tr2)
  <2> DEFINE conn == conns[c]
             m    == clients[c]
  <2>1. /\ IsSeq(log) /\ m.next \in Nat /\ m.next <= Len(log)
        /\ conn.up /\ conn.sub => conn.cursor \in Nat /\ conn.cursor <= Len(log)
    BY Within
  <2>2. Shows(conn, m, log, board, tr) /\ Grown(log, log) /\ Alike(conn, conn)
    BY <1>1 DEF Grown, Alike
  <2> HIDE DEF conn, m
  <2>3. ASSUME conn.up, conn.sub, NEW q \in Forwarded PROVE Dialog(q, conn, m, board'[q], q \in tr2)
    <3>1. Dialog(q, conn, m, board[q], q \in tr)
      BY <2>2, <2>3 DEF Shows
    <3>2. Dialog(q, conn, m, board[q], q \in tr2)
      BY <1>1, <3>1, DialogLater
    <3> QED BY <3>2, DialogGone
  <2>4. conn.up /\ conn.sub => Requests(conn, board', tr2)
    BY <1>1, <2>2, RequestsLater DEF Shows
  <2>5. Shows(conn, m, log, board', tr2)
    BY <2>1, <2>2, <2>3, <2>4, ShowsLater
  <2> QED BY <2>5 DEF conn, m
<1>2. History(log', asked') /\ \A c \in Clients : KeysKept(clients[c], clients'[c])
  BY DEF DialogInv, KeysKept
<1> QED BY <1>1, <1>2, ShowingStep

LEMMA DialogForward ==
  ASSUME DialogInv, Inv, NEW q \in Forwarded, Forward(q) \/ Withdraw(q)
  PROVE  DialogInv'
<1>1. Board(board) /\ q \in Questions
  BY Asked DEF DialogInv
<1>2. CASE Forward(q)
  <2>1. /\ board' = Opened(q) /\ conns' = Reported(conns, q, "question") /\ UNCHANGED <<log, asked, clients>>
    BY <1>2 DEF Forward
  <2>2. /\ Board(board') /\ board'[q].state = "open" /\ board'[q].opens = board[q].opens + 1
        /\ \A p \in Questions : board'[p].taken = board[p].taken /\ (p # q => board'[p] = board[p])
    BY <1>1, <2>1, BoardOpened
  <2>3. TakenMore(board, board')
    BY <2>2, Asked DEF TakenMore
  <2>4. \A p \in Questions : p # q => board'[p] = board[p]
    BY <2>2
  <2> QED BY <2>1, <2>2, <2>3, <2>4, DialogReported
<1>3. CASE Withdraw(q)
  <2>1. /\ board' = Gone({q}) /\ conns' = (IF Open(q) THEN Reported(conns, q, "close") ELSE conns)
        /\ UNCHANGED <<log, asked, clients>>
    BY <1>3 DEF Withdraw
  <2>2. /\ Board(board')
        /\ \A p \in Questions : /\ board'[p].opens = board[p].opens /\ board'[p].taken = board[p].taken
                                /\ p \notin {q} => board'[p] = board[p]
                                /\ p \in {q} => board'[p].state = "none"
    BY <1>1, <2>1, BoardGone
  <2>3. TakenMore(board, board')
    BY <2>2, Asked DEF TakenMore
  <2>4. (\A p \in Questions : p # q => board'[p] = board[p]) /\ board'[q].state # "open" /\ board'[q].opens = board[q].opens
    BY <1>1, <2>2
  <2>5. CASE Open(q)
    BY <2>1, <2>2, <2>3, <2>4, <2>5, DialogReported
  <2>6. CASE ~Open(q)
    <3>1. ASSUME NEW p \in Forwarded
          PROVE  board'[p] = board[p] \/ (board[p].state # "open" /\ board'[p].state # "open" /\ board'[p].opens = board[p].opens)
      BY <2>4, <2>6, Asked DEF Open
    <3>2. UNCHANGED <<log, asked, conns, clients>>
      BY <2>1, <2>6
    <3> QED BY <2>2, <2>3, <3>1, <3>2, DialogQuiet
  <2> QED BY <2>5, <2>6
<1> QED BY <1>2, <1>3

LEMMA DialogCode ==
  ASSUME DialogInv, Inv, NEW q \in Questions, CodeAnswers(q)
  PROVE  DialogInv'
<1>1. /\ Open(q) /\ board' = Answered(q) /\ conns' = Reported(conns, q, "close") /\ UNCHANGED <<log, asked, clients>>
  BY DEF CodeAnswers
<1>2. Board(board)
  BY DEF DialogInv
<1>3. /\ Board(board') /\ board'[q].state = "answered" /\ board'[q].opens = board[q].opens /\ board'[q].taken
      /\ \A p \in Questions : p # q => board'[p] = board[p]
  BY <1>1, <1>2, BoardAnswered
<1>4. TakenMore(board, board')
  BY <1>3, Asked DEF TakenMore
<1>5. CASE q \in Own
  <2>1. conns' = conns
    BY <1>1, <1>5 DEF Reported
  <2>2. \A p \in Forwarded : board'[p] = board[p]
    BY <1>3, <1>5, Asked, OwnNotForwarded
  <2> QED BY <1>1, <1>3, <1>4, <2>1, <2>2, DialogQuiet
<1>6. CASE q \notin Own
  <2>1. q \in Forwarded
    BY <1>6, Asked
  <2>2. board'[q].state # "open"
    BY <1>3
  <2> QED BY <1>1, <1>3, <1>4, <2>1, <2>2, DialogReported
<1> QED BY <1>5, <1>6

(* One client, one connection.                                             *)
LEMMA OneShows ==
  ASSUME DialogInv, Inv, NEW c \in Clients, History(log', asked'), Grown(log, log'), board' = board,
         \A d \in Clients : d # c => conns'[d] = conns[d] /\ clients'[d] = clients[d],
         KeysKept(clients[c], clients'[c]),
         \A tr, tr2 : tr = Attempts(clients) /\ tr2 = Attempts(clients') /\ tr \subseteq tr2
             /\ Shows(conns[c], clients[c], log, board, tr)
           => Shows(conns'[c], clients'[c], log', board, tr2)
  PROVE  DialogInv'
<1>1. ASSUME NEW tr, NEW tr2, tr = Attempts(clients), tr2 = Attempts(clients'), tr \subseteq tr2,
             NEW d \in Clients, Shows(conns[d], clients[d], log, board, tr)
      PROVE  Shows(conns'[d], clients'[d], log', board, tr2)
  <2>1. CASE d = c
    BY <1>1, <2>1
  <2>2. CASE d # c
    <3>1. conns'[d] = conns[d] /\ clients'[d] = clients[d]
      BY <2>2
    <3>2. TakenMore(board, board)
      BY DEF TakenMore
    <3>3. Shows(conns[d], clients[d], log', board, tr2)
      BY <1>1, <3>2, Within, ShowsStill
    <3> QED BY <3>1, <3>3
  <2> QED BY <2>1, <2>2
<1>2. Board(board')
  BY DEF DialogInv
<1>3. \A d \in Clients : KeysKept(clients[d], clients'[d])
  BY DEF KeysKept
<1>4. ASSUME NEW tr, NEW tr2, tr = Attempts(clients), tr2 = Attempts(clients'), tr \subseteq tr2,
             NEW d \in Clients, Shows(conns[d], clients[d], log, board, tr)
      PROVE  Shows(conns'[d], clients'[d], log', board', tr2)
  <2>1. Shows(conns'[d], clients'[d], log', board, tr2)
    BY <1>1, <1>4
  <2> QED BY <2>1
<1> QED BY <1>2, <1>3, <1>4, ShowingStep

(* A connection without a subscription.                                    *)
LEMMA ShowsBare ==
  ASSUME NEW conn, NEW m, NEW lg, NEW bd, NEW tr, Shows(conn, m, lg, bd, tr), NEW bd2, TakenMore(bd, bd2),
         NEW m2, m2.next = m.next, m2.pending = m.pending, m2.shown = m.shown \/ m2.shown = {},
         NEW r, r.up => ~r.sub /\ r.closed = {} /\ m2.shown = {}, NEW tr2
  PROVE  Shows(r, m2, lg, bd2, tr2)
<1>1. Knows(m2, lg, bd2)
  BY DEF Shows, Knows, TakenMore
<1> QED BY <1>1 DEF Shows

LEMMA DialogEnds ==
  ASSUME DialogInv, Inv, NEW c \in Clients, Stall(c) \/ Disconnect(c) \/ Connect(c)
  PROVE  DialogInv'
<1>1. DOMAIN conns = Clients /\ DOMAIN clients = Clients /\ Client(clients[c], NextSeq)
  BY DEF Inv, Good
<1>2. UNCHANGED <<log, asked, board>> /\ History(log, asked)
  BY DEF Stall, Disconnect, Connect, DialogInv
<1>3. /\ \A d \in Clients : d # c => conns'[d] = conns[d] /\ clients'[d] = clients[d]
      /\ clients'[c].keys = clients[c].keys /\ clients'[c].next = clients[c].next /\ clients'[c].pending = clients[c].pending
      /\ clients'[c].shown = clients[c].shown \/ clients'[c].shown = {}
      /\ conns'[c].up => ~conns'[c].sub /\ conns'[c].closed = {} /\ clients'[c].shown = {}
  <2> DEFINE m == clients[c]
  <2>1. CASE Stall(c)
    <3>1. /\ conns' = [conns EXCEPT ![c] = NoConn]
          /\ \E hint : clients' = [clients EXCEPT ![c].hint = hint]
      BY <2>1 DEF Stall
    <3>2. PICK hint : clients' = [clients EXCEPT ![c].hint = hint]
      BY <3>1
    <3> DEFINE n == [m EXCEPT !.hint = hint]
    <3>3. clients' = [clients EXCEPT ![c] = n]
      BY <3>2
    <3>4. n.keys = m.keys /\ n.next = m.next /\ n.pending = m.pending /\ n.shown = m.shown
      BY <1>1 DEF Client, ClientFields
    <3> HIDE DEF n
    <3>5. ~NoConn.up
      BY DEF NoConn
    <3> QED BY <1>1, <3>1, <3>3, <3>4, <3>5
  <2>2. CASE Disconnect(c)
    <3>1. conns' = [conns EXCEPT ![c] = NoConn] /\ clients' = clients
      BY <2>2 DEF Disconnect
    <3>2. ~NoConn.up
      BY DEF NoConn
    <3> QED BY <1>1, <3>1, <3>2
  <2>3. CASE Connect(c)
    <3> DEFINE r == [NoConn EXCEPT !.up = TRUE, !.reqs = <<[kind |-> "subscribe", from |-> m.next]>>]
               n == [m EXCEPT !.shown = {}]
    <3>1. conns' = [conns EXCEPT ![c] = r] /\ clients' = [clients EXCEPT ![c] = n]
      BY <2>3 DEF Connect
    <3>2. n.keys = m.keys /\ n.next = m.next /\ n.pending = m.pending /\ n.shown = {}
      BY <1>1 DEF Client, ClientFields
    <3>3. ~r.sub /\ r.closed = {}
      BY DEF NoConn
    <3> HIDE DEF n, r
    <3> QED BY <1>1, <3>1, <3>2, <3>3
  <2> QED BY <2>1, <2>2, <2>3
<1>4. TakenMore(board, board)
  BY DEF TakenMore
<1>5. ASSUME NEW tr, NEW tr2, Shows(conns[c], clients[c], log, board, tr)
      PROVE  Shows(conns'[c], clients'[c], log', board, tr2)
  <2>1. Shows(conns'[c], clients'[c], log, board, tr2)
    BY <1>3, <1>4, <1>5, ShowsBare
  <2> QED BY <1>2, <2>1
<1>6. Grown(log, log') /\ History(log', asked')
  BY <1>2 DEF Grown
<1> QED BY <1>2, <1>3, <1>5, <1>6, OneShows DEF KeysKept

LEMMA DialogRestart ==
  ASSUME DialogInv, Inv, Restart
  PROVE  DialogInv'
<1>1. conns' = [c \in Clients |-> NoConn] /\ board' = Gone(Questions) /\ UNCHANGED <<log, asked, clients>>
  BY DEF Restart
<1>2. Board(board) /\ History(log, asked)
  BY DEF DialogInv
<1>3. Board(board') /\ \A q \in Questions : board'[q].taken = board[q].taken
  BY <1>1, <1>2, BoardGone
<1>4. TakenMore(board, board')
  BY <1>3, Asked DEF TakenMore
<1>5. ASSUME NEW tr, NEW tr2, NEW c \in Clients, Shows(conns[c], clients[c], log, board, tr)
      PROVE  Shows(conns'[c], clients'[c], log', board', tr2)
  <2>1. conns'[c] = NoConn /\ ~NoConn.up
    BY <1>1 DEF NoConn
  <2>2. Shows(NoConn, clients[c], log, board', tr2)
    BY <1>4, <1>5, <2>1, ShowsBare
  <2> QED BY <1>1, <2>1, <2>2
<1> QED BY <1>1, <1>2, <1>3, <1>5, ShowingStep DEF KeysKept

(* The user's requests.                                                    *)
LEMMA ShowsAsking ==
  ASSUME NEW conn, Shape(conn), NEW m, NEW lg, NEW bd, NEW tr, Shows(conn, m, lg, bd, tr), conn.up, conn.sub,
         NEW tr2, tr \subseteq tr2, NEW req, req.kind = "answer" => req.q \in tr2, conn.reqs = <<>>,
         NEW r, r = [conn EXCEPT !.reqs = Append(conn.reqs, req)],
         NEW m2, m2.next = m.next, m2.pending = m.pending, m2.shown = m.shown
  PROVE  Shows(r, m2, lg, bd, tr2)
<1>1. Append(conn.reqs, req) = <<req>>
  OBVIOUS
<1>2. r = [conn EXCEPT !.reqs = <<req>>]
  BY <1>1
<1>3. /\ r.up = conn.up /\ r.sub = conn.sub /\ r.cursor = conn.cursor /\ r.open = conn.open /\ r.todo = conn.todo
      /\ r.out = conn.out /\ r.wait = conn.wait /\ r.closed = conn.closed /\ r.asks = conn.asks /\ r.busy = conn.busy
      /\ r.reqs = <<req>>
  BY <1>2 DEF Shape, Fields
<1>4. Contents(r) = Contents(conn) /\ Order(r) = Order(conn)
  BY <1>3 DEF Contents, Order, Queued
<1>5. \A q : SameOf(q, conn, r)
  BY <1>3, <1>4 DEF SameOf
<1>6. ASSUME NEW q \in Forwarded PROVE Dialog(q, r, m2, bd[q], q \in tr2)
  <2>1. Dialog(q, conn, m, bd[q], q \in tr2)
    BY DialogLater DEF Shows
  <2> QED BY <1>5, <2>1, DialogSame
<1>7. Requests(r, bd, tr2)
  <2>1. Range(r.reqs) = {req}
    <3>1. DOMAIN <<req>> = {1} /\ <<req>>[1] = req
      OBVIOUS
    <3> QED BY <1>3, <3>1 DEF Range
  <2> QED BY <1>3, <2>1 DEF Shows, Requests
<1>8. Line(r, m2.next, lg, bd)
  BY <1>3, <1>4 DEF Shows, Line
<1>9. Knows(m2, lg, bd)
  BY DEF Shows, Knows
<1> QED BY <1>3, <1>6, <1>7, <1>8, <1>9 DEF Shows

LEMMA DialogUserAnswers ==
  ASSUME DialogInv, Inv, NEW c \in Clients, NEW q \in Questions, UserAnswers(c, q)
  PROVE  DialogInv'
<1> DEFINE conn == conns[c]
           m == clients[c]
           Req(key) == [kind |-> "answer", key |-> key, q |-> q]
<1>1. conn.up /\ conn.reqs = <<>> /\ UNCHANGED <<log, asked, board>>
  BY DEF UserAnswers
<1>2. PICK key \in {<<c, q, Len(m.keys) + 1>>} \cup {k \in Range(m.keys) : k[2] = q /\ ~Acked(m, k)} :
         /\ conns' = [conns EXCEPT ![c].reqs = Append(@, Req(key))]
         /\ clients' = [clients EXCEPT ![c].keys = IF Contains(@, key) THEN @ ELSE Append(@, key)]
  BY DEF UserAnswers
<1> DEFINE keys == IF Contains(m.keys, key) THEN m.keys ELSE Append(m.keys, key)
           new == [m EXCEPT !.keys = keys]
           req == Req(key)
           r   == [conn EXCEPT !.reqs = Append(conn.reqs, req)]
<1>3. key[2] = q
  <2>1. <<c, q, Len(m.keys) + 1>>[2] = q
    OBVIOUS
  <2> QED BY <1>2, <2>1
<1>4. IsSeq(m.keys) /\ DOMAIN conns = Clients /\ DOMAIN clients = Clients /\ Client(m, NextSeq)
  BY DEF Inv, Good, DialogInv, Keyed
<1>5. IsSeq(keys) /\ Range(m.keys) \subseteq Range(keys) /\ key \in Range(keys)
  <2>1. CASE Contains(m.keys, key)
    BY <1>4, <2>1, SeqFacts DEF Contains, Range
  <2>2. CASE ~Contains(m.keys, key)
    <3>1. keys = Append(m.keys, key)
      BY <2>2
    <3> HIDE DEF keys
    <3>2. IsSeq(m.keys)
      BY <1>4
    <3> HIDE DEF m
    <3>3. IsSeq(keys) /\ Range(keys) = Range(m.keys) \cup {key}
      BY <3>1, <3>2, AppendRange
    <3> QED BY <3>3
  <2> QED BY <2>1, <2>2
<1>6. clients' = [clients EXCEPT ![c] = new] /\ conns' = [conns EXCEPT ![c] = r]
  BY <1>2
<1>7. req.kind = "answer" /\ req.q = q
  OBVIOUS
<1> HIDE DEF keys, req
<1>8. new.keys = keys /\ new.next = m.next /\ new.pending = m.pending /\ new.shown = m.shown
  BY <1>4 DEF Client, ClientFields
<1> HIDE DEF new
<1>9. conn.sub
  <2>1. Connection(conn, clients[c].next, NextSeq)
    BY At
  <2> QED BY <1>1, <2>1 DEF Connection, Fresh
<1>10. Shape(conn)
  BY <1>1, <1>9, SubscribedAt
<1> HIDE DEF r
<1>11. /\ \A d \in Clients : d # c => conns'[d] = conns[d] /\ clients'[d] = clients[d]
       /\ conns'[c] = r /\ clients'[c] = new
  BY <1>4, <1>6
<1>12. KeysKept(m, clients'[c])
  BY <1>5, <1>8, <1>11 DEF KeysKept
<1>13. ASSUME NEW tr, NEW tr2, tr2 = Attempts(clients'), tr \subseteq tr2, Shows(conn, m, log, board, tr)
       PROVE  Shows(conns'[c], clients'[c], log', board, tr2)
  <2>1. q \in tr2
    BY <1>3, <1>5, <1>8, <1>11, <1>13 DEF Attempts
  <2> HIDE DEF conn, m
  <2>2. Shows(r, new, log, board, tr2)
    <3>1. r = [conn EXCEPT !.reqs = Append(conn.reqs, req)]
      BY DEF r
    <3>2. req.kind = "answer" => req.q \in tr2
      BY <1>7, <2>1
    <3> QED BY <1>1, <1>8, <1>9, <1>10, <1>13, <3>1, <3>2, ShowsAsking
  <2> QED BY <1>1, <1>11, <2>2
<1>14. Grown(log, log') /\ History(log', asked')
  BY <1>1 DEF Grown, DialogInv
<1> QED BY <1>1, <1>11, <1>12, <1>13, <1>14, OneShows

LEMMA DialogUserCommands ==
  ASSUME DialogInv, Inv, NEW c \in Clients, NEW key, UserCommands(c, key)
  PROVE  DialogInv'
<1> DEFINE conn == conns[c]
           m == clients[c]
           req == [kind |-> "command", key |-> key]
           r   == [conn EXCEPT !.reqs = Append(conn.reqs, req)]
<1>1. conn.up /\ conn.reqs = <<>> /\ UNCHANGED <<log, asked, board, clients>> /\ conns' = [conns EXCEPT ![c] = r]
  BY DEF UserCommands
<1>2. req.kind # "answer"
  OBVIOUS
<1> HIDE DEF req
<1>3. conn.sub
  <2>1. Connection(conn, clients[c].next, NextSeq)
    BY At
  <2> QED BY <1>1, <2>1 DEF Connection, Fresh
<1>4. Shape(conn) /\ DOMAIN conns = Clients
  BY <1>1, <1>3, SubscribedAt DEF Inv, Good
<1>5. ASSUME NEW tr, tr = Attempts(clients) PROVE Shows(r, m, log, board, tr)
  <2>1. Shows(conn, m, log, board, tr)
    BY <1>5, ShowsAt
  <2> HIDE DEF conn, m
  <2>2. r = [conn EXCEPT !.reqs = Append(conn.reqs, req)]
    OBVIOUS
  <2> HIDE DEF r
  <2> QED BY <1>1, <1>2, <1>3, <1>4, <2>1, <2>2, ShowsAsking
<1> HIDE DEF r
<1> QED BY <1>1, <1>4, <1>5, ShowsOne

(* The next request is taken.                                              *)
LEMMA TakenAlike ==
  ASSUME NEW conn, Shape(conn), Seqs(conn), conn.reqs = <<Head(conn.reqs)>>, NEW x, x = Taken(conn)
  PROVE  /\ Shape(x) /\ Seqs(x) /\ Alike(conn, x) /\ x.closed = conn.closed /\ x.asks = conn.asks
         /\ x.busy = conn.busy /\ x.reqs = <<>> /\ x.out = conn.out /\ x.wait = conn.wait
<1>1. Tail(conn.reqs) = <<>>
  <2>1. \A e : Tail(<<e>>) = <<>>
    OBVIOUS
  <2> QED BY <2>1
<1>2. x = [conn EXCEPT !.reqs = <<>>]
  BY <1>1 DEF Taken
<1>3. /\ x.up = conn.up /\ x.sub = conn.sub /\ x.cursor = conn.cursor /\ x.open = conn.open /\ x.todo = conn.todo
      /\ x.out = conn.out /\ x.wait = conn.wait /\ x.closed = conn.closed /\ x.asks = conn.asks /\ x.busy = conn.busy
      /\ x.reqs = <<>> /\ Shape(x)
  BY <1>2 DEF Shape, Fields
<1> QED BY <1>3 DEF Alike, Contents, Order, Queued, Seqs

LEMMA ShowsReply ==
  ASSUME NEW conn, Shape(conn), Seqs(conn), conn.reqs = <<Head(conn.reqs)>>, conn.up, conn.sub,
         NEW m, NEW lg, NEW bd, NEW tr, Shows(conn, m, lg, bd, tr),
         NEW k, NEW b, NEW r, r = Offer(Taken(conn), "processor", AckOf(k, b))
  PROVE  Shows(r, m, lg, bd, tr) /\ r.up /\ r.sub /\ r.cursor = conn.cursor
<1> DEFINE x == Taken(conn)
<1>1. /\ Shape(x) /\ Seqs(x) /\ Alike(conn, x) /\ x.closed = conn.closed /\ x.asks = conn.asks
      /\ x.busy = conn.busy /\ x.reqs = <<>>
  BY TakenAlike
<1>2. r = Offer(x, "processor", AckOf(k, b))
  OBVIOUS
<1> HIDE DEF x
<1>3. Kept(x, r) /\ \A q : SameOf(q, x, r)
  BY <1>1, <1>2, AckSame
<1>4. r.up = conn.up /\ r.sub = conn.sub /\ r.cursor = conn.cursor /\ r.reqs = <<>> /\ r.busy = conn.busy
  BY <1>1, <1>3 DEF Kept, Alike
<1>5. Line(x, m.next, lg, bd)
  BY <1>1 DEF Line, Shows, Alike
<1>6. Line(r, m.next, lg, bd)
  BY <1>1, <1>2, <1>5, LineAck
<1>7. ASSUME NEW q \in Forwarded PROVE Dialog(q, r, m, bd[q], q \in tr)
  <2>1. SameOf(q, conn, x)
    BY <1>1 DEF SameOf, Alike
  <2>2. SameOf(q, conn, r)
    BY <1>3, <2>1 DEF SameOf
  <2>3. Dialog(q, conn, m, bd[q], q \in tr)
    BY DEF Shows
  <2> QED BY <2>2, <2>3, DialogSame
<1>8. Range(r.reqs) \subseteq Range(conn.reqs)
  BY <1>4, NoPairs
<1> QED BY <1>4, <1>6, <1>7, <1>8, ShowsSent

LEMMA DialogReply ==
  ASSUME DialogInv, Inv, NEW c \in Clients, Command(c) \/ AnswerAgain(c)
  PROVE  DialogInv'
<1> DEFINE conn == conns[c]
           m == clients[c]
           key == Head(conn.reqs).key
<1>1. /\ Request(c, "command") \/ Request(c, "answer")
      /\ \E b : conns' = [conns EXCEPT ![c] = Offer(Taken(conn), "processor", AckOf(key, b))]
      /\ UNCHANGED <<asked, board, clients>>
      /\ log' = log \/ log' = Append(log, Event("input", key[2]))
  BY DEF Command, AnswerAgain
<1>2. PICK b : conns' = [conns EXCEPT ![c] = Offer(Taken(conn), "processor", AckOf(key, b))]
  BY <1>1
<1>3. conn.up /\ conn.sub /\ conn.reqs = <<Head(conn.reqs)>>
  BY <1>1, RequestOf
<1>4. Shape(conn) /\ Seqs(conn) /\ DOMAIN conns = Clients /\ DOMAIN clients = Clients /\ IsSeq(log)
  BY <1>3, SeqsOf DEF Inv, Good
<1>5. Grown(log, log') /\ History(log', asked')
  <2> DEFINE e == Event("input", key[2])
  <2>1. Becomes(asked, e, asked)
    <3>1. e = Event(e.kind, e.q) /\ e.kind = "input" /\ \A q : e # Event("asked", q) /\ e # Event("answered", q)
      BY DEF Event
    <3> HIDE DEF e
    <3> QED BY <3>1 DEF Becomes, DialogInv, History
  <2>2. log' = log \/ log' = Append(log, e)
    BY <1>1
  <2> HIDE DEF e
  <2>3. History(log, asked) /\ asked' = asked
    BY <1>1 DEF DialogInv
  <2>4. Grown(log, log')
    BY <2>2 DEF Grown
  <2>5. CASE log' = Append(log, e)
    <3>1. History(log', asked)
      BY <1>4, <2>1, <2>3, <2>5, HistoryMore
    <3> QED BY <2>3, <2>4, <3>1
  <2>6. CASE log' = log
    BY <2>3, <2>4, <2>6
  <2> QED BY <2>2, <2>5, <2>6
<1> DEFINE r == Offer(Taken(conn), "processor", AckOf(key, b))
<1>6. conns'[c] = r /\ clients' = clients /\ board' = board /\ \A d \in Clients : d # c => conns'[d] = conns[d]
  BY <1>1, <1>2, <1>4
<1> HIDE DEF key, conn
<1>7. ASSUME NEW tr, NEW tr2, tr \subseteq tr2, Shows(conn, m, log, board, tr)
      PROVE  Shows(conns'[c], clients'[c], log', board, tr2)
  <2>1. Shows(r, m, log, board, tr) /\ r.up /\ r.sub /\ r.cursor = conn.cursor
    BY <1>3, <1>4, <1>7, ShowsReply
  <2>2. /\ m.next \in Nat /\ m.next <= Len(log)
        /\ conn.up /\ conn.sub => conn.cursor \in Nat /\ conn.cursor <= Len(log)
    BY Within DEF conn
  <2>3. TakenMore(board, board)
    BY DEF TakenMore
  <2> HIDE DEF r, m
  <2>4. Shows(r, m, log', board, tr2)
    BY <1>3, <1>4, <1>5, <1>7, <2>1, <2>2, <2>3, ShowsStill
  <2> QED BY <1>6, <2>4 DEF m
<1>8. KeysKept(clients[c], clients'[c])
  BY <1>6 DEF KeysKept
<1> HIDE DEF r
<1> QED BY <1>5, <1>6, <1>7, <1>8, OneShows DEF conn

(* Somebody answers a question.                                            *)
LEMMA ShowsAnswered ==
  ASSUME NEW conn, NEW m, NEW lg, NEW bd, NEW tr, Shows(conn, m, lg, bd, tr), IsSeq(lg), m.next \in Nat, m.next <= Len(lg),
         conn.up /\ conn.sub => conn.cursor \in Nat /\ conn.cursor <= Len(lg) /\ IsSeq(conn.asks),
         NEW q, q \in tr, NEW bd2, TakenMore(bd, bd2), bd2[q].state # "open", \A p \in Forwarded : p # q => bd2[p] = bd[p],
         NEW r, Alike(conn, r), \A p : p # q => (p \in r.closed <=> p \in conn.closed),
         conn.up /\ conn.sub => r.asks = conn.asks \/ \E x : Report(x) /\ x.q = q /\ r.asks = Append(conn.asks, x),
         conn.up /\ conn.sub => Requests(r, bd2, tr)
  PROVE  Shows(r, m, lg, bd2, tr)
<1>1. Contents(r) = Contents(conn) /\ Order(r) = Order(conn)
  BY DEF Alike
<1>2. ASSUME conn.up, conn.sub, NEW p \in Forwarded PROVE Dialog(p, r, m, bd2[p], p \in tr)
  <2>1. CASE p = q
    <3>1. Dialog(q, r, m, bd2[q], TRUE)
      BY DialogOver
    <3>2. (q \in tr) = TRUE
      OBVIOUS
    <3> QED BY <2>1, <3>1, <3>2
  <2>2. CASE p # q
    <3>1. Dialog(p, conn, m, bd2[p], p \in tr) /\ (p \in r.closed <=> p \in conn.closed)
      BY <1>2, <2>2 DEF Shows
    <3>2. CASE r.asks = conn.asks
      <4>1. SameOf(p, conn, r)
        BY <1>1, <3>1, <3>2 DEF SameOf
      <4> QED BY <3>1, <4>1, DialogSame
    <3>3. ASSUME NEW x, x.q = q, r.asks = Append(conn.asks, x) PROVE Dialog(p, r, m, bd2[p], p \in tr)
      <4>1. x.q # p /\ IsSeq(conn.asks)
        BY <1>2, <2>2, <3>3
      <4> QED BY <1>1, <3>1, <3>3, <4>1, DialogOther
    <3> QED BY <1>2, <3>2, <3>3
  <2> QED BY <2>1, <2>2
<1>3. ASSUME conn.up, conn.sub, NEW y \in Range(r.asks) PROVE y \in Range(conn.asks) \/ Report(y)
  <2>1. CASE r.asks = conn.asks
    BY <1>3, <2>1
  <2>2. ASSUME NEW x, Report(x), r.asks = Append(conn.asks, x) PROVE y \in Range(conn.asks) \/ Report(y)
    <3>1. IsSeq(conn.asks)
      BY <1>3
    <3>2. Range(r.asks) = Range(conn.asks) \cup {x}
      BY <2>2, <3>1, AppendRange
    <3> QED BY <1>3, <2>2, <3>2
  <2> QED BY <1>3, <2>1, <2>2
<1>4. Grown(lg, lg)
  BY DEF Grown
<1> QED BY <1>2, <1>3, <1>4, ShowsLater

LEMMA DialogAnswer ==
  ASSUME DialogInv, Inv, NEW c \in Clients, Answer(c)
  PROVE  DialogInv'
<1> DEFINE conn  == conns[c]
           req   == Head(conn.reqs)
           q     == req.q
           fresh == q \notin conn.closed
           busy  == <<req.key, q, fresh, Open(q)>>
           x     == Taken(conn)
           taken == [x EXCEPT !.closed = x.closed \cup {q}, !.busy = busy]
           cs    == [conns EXCEPT ![c] = taken]
<1>1. Request(c, "answer") /\ UNCHANGED <<log, asked, clients>>
  BY DEF Answer
<1>2. /\ board' = IF Open(q) THEN Answered(q) ELSE board
      /\ conns' = IF Open(q) THEN Reported(cs, q, "close") ELSE cs
  BY DEF Answer
<1>3. conn.up /\ conn.sub /\ conn.reqs = <<req>> /\ req.kind = "answer"
  <2>1. conn.up /\ conn.sub /\ conn.reqs = <<req>>
    BY <1>1, RequestOf
  <2> QED BY <1>1, <2>1 DEF Request
<1>4. Shape(conn) /\ Seqs(conn) /\ DOMAIN conns = Clients /\ IsSeq(log)
  BY <1>3, SeqsOf DEF Inv, Good
<1>5. Board(board) /\ History(log, asked)
  BY DEF DialogInv
<1>6. /\ Shape(x) /\ Seqs(x) /\ Alike(conn, x) /\ x.closed = conn.closed /\ x.asks = conn.asks
      /\ x.busy = conn.busy /\ x.reqs = <<>> /\ x.out = conn.out /\ x.wait = conn.wait
  BY <1>3, <1>4, TakenAlike
<1> HIDE DEF x
<1>7. busy # <<>> /\ busy[2] = q /\ busy[4] = Open(q)
  OBVIOUS
<1> HIDE DEF busy
<1>8. /\ taken.up = x.up /\ taken.sub = x.sub /\ taken.cursor = x.cursor /\ taken.open = x.open /\ taken.todo = x.todo
      /\ taken.out = x.out /\ taken.wait = x.wait /\ taken.closed = x.closed \cup {q} /\ taken.asks = x.asks
      /\ taken.reqs = x.reqs /\ taken.busy = busy /\ Shape(taken)
  BY <1>6 DEF Shape, Fields
<1> HIDE DEF taken
<1>9. /\ Alike(conn, taken) /\ taken.asks = conn.asks /\ Shape(taken) /\ taken.up /\ taken.sub
      /\ \A p : p # q => (p \in taken.closed <=> p \in conn.closed)
  BY <1>3, <1>6, <1>8 DEF Alike, Contents, Order, Queued
<1>10. \A d \in Clients : cs[d] = IF d = c THEN taken ELSE conns[d]
  BY <1>4
<1> HIDE DEF cs
<1>11. ASSUME NEW tr, tr = Attempts(clients), NEW d \in Clients, Shows(conns[d], clients[d], log, board, tr)
       PROVE  Shows(conns'[d], clients[d], log, board', tr)
  <2>1. q \in tr /\ q \in Questions
    <3>1. Shows(conn, clients[c], log, board, tr)
      BY <1>11, ShowsAt
    <3>2. Requests(conn, board, tr)
      BY <1>3, <3>1 DEF Shows
    <3>3. req \in Range(conn.reqs)
      <4>1. 1 \in DOMAIN <<req>> /\ <<req>>[1] = req
        OBVIOUS
      <4> QED BY <1>3, <4>1 DEF Range
    <3>4. q \in tr
      BY <1>3, <3>2, <3>3 DEF Requests
    <3> QED BY <1>11, <3>4 DEF Attempts
  <2>2. /\ board'[q].state # "open" /\ (Open(q) => board'[q].taken) /\ TakenMore(board, board')
        /\ \A p \in Forwarded : p # q => board'[p] = board[p]
    <3>1. CASE Open(q)
      <4>1. board' = Answered(q)
        BY <1>2, <3>1
      <4>2. /\ board'[q].state = "answered" /\ board'[q].taken
            /\ \A p \in Questions : p # q => board'[p] = board[p]
        BY <1>5, <2>1, <4>1, BoardAnswered
      <4> QED BY <4>2, Asked DEF TakenMore
    <3>2. CASE ~Open(q)
      BY <1>2, <3>2 DEF TakenMore, Open
    <3> QED BY <3>1, <3>2
  <2> DEFINE old == conns[d]
             base == cs[d]
             r == conns'[d]
             m == clients[d]
             y == Msg("close", q, -1)
  <2>3. /\ m.next \in Nat /\ m.next <= Len(log)
        /\ old.up /\ old.sub => old.cursor \in Nat /\ old.cursor <= Len(log) /\ Shape(old) /\ IsSeq(old.asks)
    BY Within, SubscribedAt DEF Books
  <2>4. /\ Alike(old, base) /\ base.asks = old.asks /\ (old.up /\ old.sub => Shape(base))
        /\ \A p : p # q => (p \in base.closed <=> p \in old.closed)
    BY <1>9, <1>10, <2>3 DEF Alike
  <2>5. old.up /\ old.sub => Requests(base, board', tr)
    <3>1. CASE d = c
      <4>1. base = taken /\ taken.reqs = <<>> /\ taken.busy = busy
        BY <1>6, <1>8, <1>10, <3>1
      <4> QED BY <1>7, <2>1, <2>2, <4>1, NoPairs DEF Requests
    <3>2. CASE d # c
      <4>1. base = old
        BY <1>10, <3>2
      <4> QED BY <1>11, <2>2, <4>1, RequestsLater DEF Shows
    <3> QED BY <3>1, <3>2
  <2>6. y.q = q /\ (q \notin Own => Report(y))
    BY <2>1, Asked DEF Report, Msg
  <2>7. \/ r = base
        \/ /\ q \notin Own /\ ~(base.up /\ base.sub) => r = base
           /\ q \notin Own /\ base.up /\ base.sub => Alike(base, r) /\ r.closed = base.closed /\ Passes(base, y, r)
           /\ q \notin Own
    <3>1. CASE ~Open(q)
      BY <1>2, <3>1
    <3>2. CASE Open(q) /\ q \in Own
      BY <1>2, <3>2 DEF Reported
    <3>3. CASE Open(q) /\ q \notin Own
      <4>1. conns' = Reported(cs, q, "close")
        BY <1>2, <3>3
      <4>2. /\ ~(base.up /\ base.sub) => r = base
            /\ base.up /\ base.sub /\ Shape(base) => Alike(base, r) /\ r.closed = base.closed /\ Passes(base, y, r)
        BY <3>3, <4>1, ReportedIs
      <4>3. base.up /\ base.sub => Shape(base)
        BY <2>4 DEF Alike
      <4> QED BY <3>3, <4>2, <4>3
    <3> QED BY <3>1, <3>2, <3>3
  <2>8. Shows(old, m, log, board, tr)
    BY <1>11
  <2> HIDE DEF old, base, r, m, y, q
  <2>9. CASE r = base
    <3>1. Shows(base, m, log, board', tr)
      BY <1>4, <2>1, <2>2, <2>3, <2>4, <2>5, <2>8, ShowsAnswered
    <3> QED BY <2>9, <3>1 DEF r, m
  <2>10. CASE r # base
    <3>1. base.up /\ base.sub /\ q \notin Own /\ Alike(base, r) /\ r.closed = base.closed /\ Passes(base, y, r)
      BY <2>7, <2>10
    <3>2. Alike(old, r) /\ old.up /\ old.sub /\ \A p : p # q => (p \in r.closed <=> p \in old.closed)
      BY <2>4, <3>1 DEF Alike
    <3>3. Report(y) /\ y.q = q /\ r.asks = Append(old.asks, y)
      BY <2>4, <2>6, <3>1 DEF Passes
    <3>4. TakenMore(board', board')
      BY DEF TakenMore
    <3>5. Requests(r, board', tr)
      BY <2>5, <3>1, <3>2 DEF Passes, Requests
    <3>6. Shows(r, m, log, board', tr)
      BY <1>4, <2>1, <2>2, <2>3, <2>8, <3>2, <3>3, <3>5, ShowsAnswered
    <3> QED BY <3>6 DEF r, m
  <2> QED BY <2>9, <2>10
<1>12. Board(board')
  <2>1. PICK tr : tr = Attempts(clients) /\ Shows(conn, clients[c], log, board, tr)
    BY ShowsAt
  <2>2. q \in Questions
    <3>1. Requests(conn, board, tr)
      BY <1>3, <2>1 DEF Shows
    <3>2. 1 \in DOMAIN <<req>> /\ <<req>>[1] = req
      OBVIOUS
    <3>3. req \in Range(conn.reqs)
      BY <1>3, <3>2 DEF Range
    <3>4. q \in tr
      BY <1>3, <3>1, <3>3 DEF Requests
    <3> QED BY <2>1, <3>4 DEF Attempts
  <2> QED BY <1>2, <1>5, <2>2, BoardAnswered
<1>13. \A d \in Clients : KeysKept(clients[d], clients'[d])
  BY <1>1 DEF KeysKept
<1>14. ASSUME NEW tr, NEW tr2, tr = Attempts(clients), tr2 = Attempts(clients'), NEW d \in Clients,
              Shows(conns[d], clients[d], log, board, tr)
       PROVE  Shows(conns'[d], clients'[d], log', board', tr2)
  <2>1. tr2 = tr
    BY <1>1, <1>14
  <2>2. Shows(conns'[d], clients[d], log, board', tr)
    BY <1>11, <1>14
  <2> QED BY <1>1, <2>1, <2>2
<1>15. History(log', asked')
  BY <1>1, <1>5
<1> QED BY <1>12, <1>13, <1>14, <1>15, ShowingStep

(* The ack of an answer, and what it means for the question it is about.   *)
Freed(conn, x, closed) ==
  /\ Shape(x) /\ Seqs(x) /\ Alike(conn, x) /\ x.asks = conn.asks /\ x.reqs = conn.reqs
  /\ x.busy = <<>> /\ x.closed = closed

LEMMA FreedIs ==
  ASSUME NEW conn, Shape(conn), Seqs(conn), conn.sub, NEW closed, NEW x, x = [conn EXCEPT !.busy = <<>>, !.closed = closed]
  PROVE  Freed(conn, x, closed)
<1>1. /\ x.up = conn.up /\ x.sub = conn.sub /\ x.cursor = conn.cursor /\ x.open = conn.open /\ x.todo = conn.todo
      /\ x.out = conn.out /\ x.wait = conn.wait /\ x.closed = closed /\ x.asks = conn.asks
      /\ x.reqs = conn.reqs /\ x.busy = <<>> /\ Shape(x)
  BY DEF Shape, Fields
<1>2. Contents(x) = Contents(conn) /\ Order(x) = Order(conn) /\ Seqs(x)
  BY <1>1 DEF Contents, Order, Queued, Seqs
<1> QED BY <1>1, <1>2 DEF Freed, Alike

LEMMA ShowsDone ==
  ASSUME NEW conn, conn.up, conn.sub, NEW m, NEW lg, NEW bd, NEW tr, Shows(conn, m, lg, bd, tr),
         NEW q, q \in tr, NEW closed, closed = conn.closed \/ closed = conn.closed \ {q},
         NEW x, Freed(conn, x, closed), NEW k, NEW b, NEW r, r = Offer(x, "processor", AckOf(k, b))
  PROVE  Shows(r, m, lg, bd, tr)
<1>1. /\ x.up = conn.up /\ x.sub = conn.sub /\ x.cursor = conn.cursor /\ x.open = conn.open /\ x.todo = conn.todo
      /\ x.closed = closed /\ x.asks = conn.asks /\ x.reqs = conn.reqs /\ x.busy = <<>> /\ Shape(x)
  BY DEF Freed, Alike
<1>2. Contents(x) = Contents(conn) /\ Order(x) = Order(conn) /\ Seqs(x)
  BY DEF Freed, Alike
<1>3. Line(x, m.next, lg, bd)
  BY <1>1, <1>2 DEF Line, Shows
<1>4. Line(r, m.next, lg, bd)
  BY <1>1, <1>2, <1>3, LineAck
<1>5. /\ Kept(x, r) /\ Contents(x) \subseteq Contents(r) /\ r.closed = x.closed
      /\ \A p : SameOf(p, x, r)
  BY <1>1, <1>2, AckSame
<1>6. /\ r.up = conn.up /\ r.sub = conn.sub /\ r.reqs = conn.reqs /\ r.busy = <<>> /\ r.asks = conn.asks
  BY <1>1, <1>5 DEF Kept
<1>7. ASSUME NEW p \in Forwarded PROVE Dialog(p, r, m, bd[p], p \in tr)
  <2>1. Dialog(p, conn, m, bd[p], p \in tr)
    BY DEF Shows
  <2>2. CASE p = q
    <3>1. Contents(conn) \subseteq Contents(r)
      BY <1>2, <1>5
    <3>2. Dialog(p, r, m, bd[p], TRUE)
      BY <1>6, <2>1, <3>1, DialogTried
    <3>3. (p \in tr) = TRUE
      BY <2>2
    <3> QED BY <3>2, <3>3
  <2>3. CASE p # q
    <3>1. SameOf(p, conn, x)
      BY <1>1, <1>2, <2>3 DEF SameOf
    <3>2. SameOf(p, conn, r)
      BY <1>5, <3>1 DEF SameOf
    <3> QED BY <2>1, <3>2, DialogSame
  <2> QED BY <2>2, <2>3
<1>8. Requests(r, bd, tr)
  BY <1>6 DEF Shows, Requests
<1>9. Knows(m, lg, bd)
  BY DEF Shows
<1> QED BY <1>4, <1>6, <1>7, <1>8, <1>9 DEF Shows

(* Others are told that the question is closed.                            *)
LEMMA ShowsClosed ==
  ASSUME NEW conn, Shape(conn), Seqs(conn), conn.up, conn.sub, NEW m, NEW lg, NEW bd, NEW tr, Shows(conn, m, lg, bd, tr),
         NEW q, q \in tr, q \in Own => bd[q].taken, NEW r, r = CloseQuestion(conn, q)
  PROVE  Shows(r, m, lg, bd, tr)
<1> DEFINE y == Msg("close", q, -1)
           x == [conn EXCEPT !.closed = conn.closed \cup {q}]
<1>1. CASE q \in conn.closed
  BY <1>1 DEF CloseQuestion
<1>2. CASE q \notin conn.closed
  <2>1. r = Offer(x, "other", y)
    BY <1>2 DEF CloseQuestion
  <2>2. /\ Kept(conn, x) /\ Seqs(x) /\ x.closed = conn.closed \cup {q}
        /\ x.todo = conn.todo /\ x.wait = conn.wait
        /\ Contents(x) = Contents(conn) /\ Order(x) = Order(conn)
    BY MarkedSame
  <2>3. y.kind = "close" /\ y.q = q /\ y.seq = -1
    BY DEF Msg
  <2> HIDE DEF x, y
  <2>4. Shape(x)
    BY <2>2 DEF Kept
  <2>5. /\ Kept(x, r) /\ r.todo = x.todo /\ r.closed = x.closed
        /\ Contents(r) = Contents(x) \cup {y}
        /\ Order(r) \subseteq Order(x) \cup (Contents(x) \X {y}) \cup ({y} \X Range(x.todo))
    BY <2>1, <2>2, <2>4, OfferOrder
  <2>6. Kept(conn, r)
    BY <2>2, <2>5, KeptTwice
  <2>7. /\ r.up = conn.up /\ r.sub = conn.sub /\ r.cursor = conn.cursor /\ r.open = conn.open /\ r.asks = conn.asks
        /\ r.reqs = conn.reqs /\ r.busy = conn.busy /\ r.todo = conn.todo
    BY <2>2, <2>5, <2>6 DEF Kept
  <2>8. /\ Contents(r) = Contents(conn) \cup {y} /\ r.closed = conn.closed \cup {q}
        /\ \A p \in Order(r) : p \in Order(conn) \/ p[1] = y \/ p[2] = y
    BY <2>2, <2>5
  <2>9. Line(r, m.next, lg, bd)
    <3>1. Line(conn, m.next, lg, bd)
      BY DEF Shows
    <3>2. ASSUME NEW z \in Contents(r) PROVE Faithful(z, m.next, r.cursor, lg, bd)
      <4>1. CASE z = y
        BY <2>3, <4>1 DEF Faithful, IsEvent, Timed
      <4> QED BY <2>7, <2>8, <3>1, <4>1 DEF Line
    <3>3. ASSUME NEW p \in Order(r) PROVE InTime(p)
      <4>1. CASE p[1] = y \/ p[2] = y
        BY <2>3, <4>1 DEF InTime, IsEvent, Timed
      <4> QED BY <2>8, <3>1, <4>1 DEF Line
    <3> QED BY <2>7, <3>1, <3>2, <3>3 DEF Line
  <2>10. ASSUME NEW p \in Forwarded PROVE Dialog(p, r, m, bd[p], p \in tr)
    <3>1. Dialog(p, conn, m, bd[p], p \in tr)
      BY DEF Shows
    <3>2. CASE p = q
      <4>1. Contents(conn) \subseteq Contents(r)
        BY <2>8
      <4>2. Dialog(p, r, m, bd[p], TRUE)
        BY <2>7, <3>1, <4>1, DialogTried
      <4>3. (p \in tr) = TRUE
        BY <3>2
      <4> QED BY <4>2, <4>3
    <3>3. CASE p # q
      <4>1. ~Asks(y, p) /\ ~Closing(y, p)
        BY <2>3, <3>3 DEF Asks, Closing
      <4>2. \A z : Asks(z, p) \/ Closing(z, p) => (z \in Contents(r) <=> z \in Contents(conn))
        BY <2>8, <4>1
      <4>3. \A z \in Order(r) : Closing(z[1], p) /\ Asks(z[2], p) => z \in Order(conn)
        BY <2>8, <4>1
      <4>4. SameOf(p, conn, r)
        BY <2>7, <2>8, <3>3, <4>2, <4>3 DEF SameOf
      <4> QED BY <3>1, <4>4, DialogSame
    <3> QED BY <3>2, <3>3
  <2> QED BY <2>7, <2>9, <2>10, ShowsSent
<1> QED BY <1>1, <1>2

LEMMA DialogAnswerDone ==
  ASSUME DialogInv, Inv, NEW c \in Clients, AnswerDone(c)
  PROVE  DialogInv'
<1> DEFINE conn   == conns[c]
           key    == conn.busy[1]
           q      == conn.busy[2]
           won    == conn.busy[4]
           closed == IF ~won /\ conn.busy[3] THEN conn.closed \ {q} ELSE conn.closed
           mine   == [conn EXCEPT !.busy = <<>>, !.closed = closed]
<1>1. conn.up /\ conn.busy # <<>> /\ UNCHANGED <<log, asked, board, clients>>
  BY DEF AnswerDone
<1>2. conns' = [d \in Clients |->
              IF d = c THEN Offer(mine, "processor", AckOf(key, won))
              ELSE IF won /\ conns[d].up /\ conns[d].sub THEN CloseQuestion(conns[d], q) ELSE conns[d]]
  BY DEF AnswerDone
<1>3. conn.sub
  <2>1. Connection(conn, clients[c].next, NextSeq)
    BY At
  <2> QED BY <1>1, <2>1 DEF Connection, Fresh
<1>4. ASSUME NEW tr, NEW d \in Clients, Shows(conn, clients[c], log, board, tr),
             Shows(conns[d], clients[d], log, board, tr)
      PROVE  Shows(conns'[d], clients[d], log, board, tr)
  <2>1. q \in tr /\ (won /\ q \in Own => board[q].taken)
    BY <1>1, <1>3, <1>4 DEF Shows, Requests
  <2>2. closed = conn.closed \/ closed = conn.closed \ {q}
    OBVIOUS
  <2>3. CASE d = c
    <3>1. Shape(conn) /\ Seqs(conn)
      BY <1>1, SeqsOf
    <3>2. conns'[d] = Offer(mine, "processor", AckOf(key, won))
      BY <1>2, <2>3
    <3> DEFINE r == Offer(mine, "processor", AckOf(key, won))
               m == clients[c]
    <3>3. Shows(conn, m, log, board, tr)
      BY <1>4
    <3> HIDE DEF conn, q, key, won, closed, m
    <3>5. Freed(conn, mine, closed)
      BY <1>3, <3>1, FreedIs
    <3> HIDE DEF mine
    <3>4. Shows(r, m, log, board, tr)
      BY <1>1, <1>3, <2>1, <2>2, <3>3, <3>5, ShowsDone
    <3> QED BY <2>3, <3>2, <3>4 DEF m
  <2>4. CASE d # c /\ won /\ conns[d].up /\ conns[d].sub
    <3> DEFINE old == conns[d]
               m == clients[d]
    <3>1. Shape(old) /\ Seqs(old)
      BY <2>4, SeqsOf
    <3>2. conns'[d] = CloseQuestion(old, q) /\ old.up /\ old.sub
      BY <1>2, <2>4
    <3>3. Shows(old, m, log, board, tr)
      BY <1>4
    <3> HIDE DEF old, m, q, won
    <3>4. Shows(CloseQuestion(old, q), m, log, board, tr)
      BY <2>1, <2>4, <3>1, <3>2, <3>3, ShowsClosed
    <3> QED BY <3>2, <3>4 DEF m
  <2>5. CASE d # c /\ ~(won /\ conns[d].up /\ conns[d].sub)
    BY <1>2, <1>4, <2>5
  <2> QED BY <2>3, <2>4, <2>5
<1> HIDE DEF conn
<1>5. ASSUME NEW tr, NEW tr2, tr = Attempts(clients), tr2 = Attempts(clients'), NEW d \in Clients,
             Shows(conns[d], clients[d], log, board, tr)
      PROVE  Shows(conns'[d], clients'[d], log', board', tr2)
  <2>1. tr2 = tr
    BY <1>1, <1>5
  <2>2. Shows(conn, clients[c], log, board, tr)
    BY <1>5, ShowsAt DEF conn
  <2>3. Shows(conns'[d], clients[d], log, board, tr)
    BY <1>4, <1>5, <2>2
  <2> QED BY <1>1, <2>1, <2>3
<1>6. Board(board') /\ History(log', asked')
  BY <1>1 DEF DialogInv
<1>7. \A d \in Clients : KeysKept(clients[d], clients'[d])
  BY <1>1 DEF KeysKept
<1> QED BY <1>5, <1>6, <1>7, ShowingStep

(* What a client makes of a message, as far as dialogs go.                 *)
After(pending, e) ==
  IF e.event = "asked" THEN pending \cup {e.q}
  ELSE IF e.event = "answered" THEN pending \ {e.q} ELSE IF e.event = "hard" THEN {} ELSE pending

Heeds(m, h, n) ==
  /\ n.keys = m.keys
  /\ h.kind = "event" => n.next = m.next + 1 /\ n.shown = m.shown /\ n.pending = After(m.pending, h)
  /\ h.kind = "close" => n.next = m.next /\ n.shown = m.shown /\ n.pending = m.pending \ {h.q}
  /\ h.kind = "question" => n.next = m.next /\ n.shown = m.shown \cup {h.q} /\ n.pending = m.pending \cup {h.q}
  /\ h.kind = "ack" => n.next = m.next /\ n.shown = m.shown /\ n.pending = m.pending

LEMMA Applied ==
  ASSUME NEW m, DOMAIN m = ClientFields, NEW h, Known(h), IsEvent(h) => h.seq = m.next, m.next \in Nat, NEW n, n = Apply(m, h)
  PROVE  Heeds(m, h, n)
<1>1. CASE h.kind = "event"
  <2> DEFINE pending == CASE h.event = "asked" -> m.pending \cup {h.q}
                          [] h.event = "answered" -> m.pending \ {h.q}
                          [] h.event = "hard" -> {}
                          [] OTHER -> m.pending
             got == m.got \cup {h.seq}
  <2>1. h.seq = m.next
    BY <1>1 DEF IsEvent
  <2>2. n = Shown(m, h) /\ ~(h.seq < m.next)
    BY <1>1, <2>1 DEF Apply
  <2>3. n = [m EXCEPT !.next = h.seq + 1, !.got = got, !.pending = pending]
    BY <2>2 DEF Shown
  <2>4. pending = After(m.pending, h)
    BY DEF After
  <2> HIDE DEF pending, got
  <2>5. n.next = h.seq + 1 /\ n.shown = m.shown /\ n.pending = pending /\ n.keys = m.keys
    BY <2>3 DEF ClientFields
  <2> QED BY <1>1, <2>1, <2>4, <2>5 DEF Heeds
<1>2. CASE h.kind = "close"
  <2> DEFINE pending == m.pending \ {h.q}
  <2>1. n = [m EXCEPT !.pending = pending]
    BY <1>2 DEF Apply
  <2> HIDE DEF pending
  <2>2. n.next = m.next /\ n.shown = m.shown /\ n.pending = pending /\ n.keys = m.keys
    BY <2>1 DEF ClientFields
  <2> QED BY <1>2, <2>2 DEF pending, Heeds
<1>3. CASE h.kind = "question"
  <2> DEFINE pending == m.pending \cup {h.q}
             shown == m.shown \cup {h.q}
  <2>1. n = [m EXCEPT !.pending = pending, !.shown = shown]
    BY <1>3 DEF Apply
  <2> HIDE DEF pending, shown
  <2>2. n.next = m.next /\ n.shown = shown /\ n.pending = pending /\ n.keys = m.keys
    BY <2>1 DEF ClientFields
  <2> QED BY <1>3, <2>2 DEF pending, shown, Heeds
<1>4. CASE h.kind = "ack"
  <2> DEFINE acks == m.acks \cup {<<h.key, h.accepted>>}
  <2>1. n = [m EXCEPT !.acks = acks]
    BY <1>4 DEF Apply
  <2> HIDE DEF acks
  <2>2. n.next = m.next /\ n.shown = m.shown /\ n.pending = m.pending /\ n.keys = m.keys
    BY <2>1 DEF ClientFields
  <2> QED BY <1>4, <2>2 DEF Heeds
<1> QED BY <1>1, <1>2, <1>3, <1>4 DEF Known

(* A message about a question of a sub-agent reaches the client.           *)
Arrives(conn, h, r) ==
  /\ Contents(conn) = Contents(r) \cup {h} /\ Order(r) \subseteq Order(conn) /\ {h} \X Contents(r) \subseteq Order(conn)
  /\ r.asks = conn.asks /\ r.closed = conn.closed

LEMMA FollowingOn ==
  ASSUME NEW q, NEW conn, NEW h, NEW r, Arrives(conn, h, r), Following(q, conn)
  PROVE  Following(q, r)
BY DEF Arrives, Following

LEMMA DialogShown ==
  ASSUME NEW q, NEW conn, NEW m, NEW at, NEW tried, Dialog(q, conn, m, at, tried), NEW h, NEW r, Arrives(conn, h, r), Asks(h, q),
         NEW n, n.shown = m.shown \cup {q}
  PROVE  Dialog(q, r, n, at, tried)
<1>1. ~Closing(h, q)
  BY DEF Asks, Closing
<1>2. NotClosed(q, conn) => NotClosed(q, r)
  BY DEF NotClosed, Arrives
<1>3. WillClose(q, conn) => WillClose(q, r)
  BY <1>1 DEF WillClose, Arrives
<1>4. \E x \in Contents(conn) \cup Range(conn.asks) : Asks(x, q)
  BY DEF Arrives
<1>5. Offered(q, r, n)
  BY DEF Offered
<1> QED BY <1>2, <1>3, <1>4, <1>5, FollowingOn DEF Dialog

LEMMA DialogClosed ==
  ASSUME NEW q, NEW conn, NEW m, NEW at, NEW tried, Dialog(q, conn, m, at, tried), NEW h, NEW r, Arrives(conn, h, r), Closing(h, q),
         NEW n, n.shown = m.shown, q \notin n.pending
  PROVE  Dialog(q, r, n, at, tried)
<1>1. ~Asks(h, q) /\ h \in Contents(conn)
  BY DEF Asks, Closing, Arrives
<1>2. ~NotClosed(q, conn)
  BY <1>1 DEF NotClosed
<1>3. Offered(q, conn, m) => Offered(q, r, n)
  BY <1>1 DEF Offered, Arrives
<1>4. ASSUME Following(q, conn), NEW x \in Contents(r) \cup Range(r.asks), Asks(x, q) PROVE FALSE
  <2>1. CASE x \in Contents(r)
    <3>1. <<h, x>> \in Order(conn) /\ <<h, x>>[1] = h /\ <<h, x>>[2] = x
      BY <2>1 DEF Arrives
    <3> QED BY <1>4, <3>1 DEF Following
  <2>2. CASE x \in Range(r.asks)
    BY <1>1, <1>4, <2>2 DEF Following, Arrives
  <2> QED BY <1>4, <2>1, <2>2
<1> QED BY <1>2, <1>3, <1>4, FollowingOn DEF Dialog

LEMMA SameArrives ==
  ASSUME NEW q, NEW conn, NEW h, NEW r, Arrives(conn, h, r), ~Asks(h, q), ~Closing(h, q)
  PROVE  SameOf(q, conn, r)
BY DEF Arrives, SameOf

(* An event, or the close of a question of the session, reaches it.        *)
LEMMA ClosedNot ==
  ASSUME NEW lg, NEW q, NEW n \in Nat, n > 0, ClosedAt(lg, q, n)
  PROVE  ~Waits(lg, q, n)
<1>1. n - 1 \in Nat /\ (n - 1) + 1 = n
  OBVIOUS
<1>2. lg[n] # Event("asked", q)
  <2>1. Event("asked", q).kind = "asked" /\ Event("asked", q) # Event("answered", q)
    BY DEF Event
  <2> QED BY <2>1 DEF ClosedAt
<1>3. Waits(lg, q, (n - 1) + 1) <=> lg[(n - 1) + 1] = Event("asked", q) \/ (Waits(lg, q, n - 1) /\ ~ClosedAt(lg, q, (n - 1) + 1))
  BY <1>1, WaitsNext
<1> QED BY <1>1, <1>2, <1>3

LEMMA KnowsEvent ==
  ASSUME NEW m, NEW lg, NEW bd, Knows(m, lg, bd), m.next \in Nat, NEW h, lg[m.next + 1] = Event(h.event, h.q),
         NEW n, n.next = m.next + 1, n.shown = m.shown, n.pending = After(m.pending, h)
  PROVE  Knows(n, lg, bd)
<1>1. ASSUME NEW q \in Own
      PROVE  /\ q \in n.pending => Waits(lg, q, n.next)
             /\ Waits(lg, q, n.next) /\ ~bd[q].taken => q \in n.pending
  <2>1. /\ lg[m.next + 1] = Event("asked", q) <=> h.event = "asked" /\ h.q = q
        /\ ClosedAt(lg, q, m.next + 1) <=> h.event = "hard" \/ (h.event = "answered" /\ h.q = q)
    BY DEF ClosedAt, Event
  <2>2. Waits(lg, q, m.next + 1) <=> lg[m.next + 1] = Event("asked", q) \/ (Waits(lg, q, m.next) /\ ~ClosedAt(lg, q, m.next + 1))
    BY WaitsNext
  <2>3. (q \in m.pending => Waits(lg, q, m.next)) /\ (Waits(lg, q, m.next) /\ ~bd[q].taken => q \in m.pending)
    BY DEF Knows
  <2>4. q \in After(m.pending, h) <=> (h.event = "asked" /\ h.q = q) \/ (q \in m.pending /\ ~(h.event = "hard" \/ (h.event = "answered" /\ h.q = q)))
    BY DEF After
  <2>5. Waits(lg, q, m.next + 1) <=> (h.event = "asked" /\ h.q = q) \/ (Waits(lg, q, m.next) /\ ~(h.event = "hard" \/ (h.event = "answered" /\ h.q = q)))
    BY <2>1, <2>2
  <2> QED BY <2>3, <2>4, <2>5
<1>2. n.shown \subseteq Forwarded
  BY DEF Knows
<1> QED BY <1>1, <1>2 DEF Knows

LEMMA KnowsClose ==
  ASSUME NEW m, NEW lg, NEW bd, Knows(m, lg, bd), NEW h,
         h.q \in Own => bd[h.q].taken \/ ~Waits(lg, h.q, m.next),
         NEW n, n.next = m.next, n.shown = m.shown, n.pending = m.pending \ {h.q}
  PROVE  Knows(n, lg, bd)
BY DEF Knows

LEMMA KnowsQuestion ==
  ASSUME NEW m, NEW lg, NEW bd, Knows(m, lg, bd), NEW h, h.q \in Forwarded,
         NEW n, n.next = m.next, n.shown = m.shown \cup {h.q}, n.pending = m.pending \cup {h.q}
  PROVE  Knows(n, lg, bd)
<1>1. h.q \notin Own
  BY OwnNotForwarded
<1> QED BY <1>1 DEF Knows

(* What is still on its way is as faithful, to a client that has seen more.*)
LEMMA LineArrives ==
  ASSUME NEW conn, NEW next \in Nat, NEW lg, NEW bd, Line(conn, next, lg, bd), NEW h, NEW r, Arrives(conn, h, r),
         r.cursor = conn.cursor, r.open = conn.open, r.todo = conn.todo, IsEvent(h) => h.seq = next,
         NEW later, later = IF IsEvent(h) THEN next + 1 ELSE next
  PROVE  Line(r, later, lg, bd)
<1>1. ASSUME NEW x \in Contents(r) PROVE Faithful(x, later, r.cursor, lg, bd)
  <2>1. Faithful(x, next, conn.cursor, lg, bd)
    BY DEF Line, Arrives
  <2>2. ASSUME Timed(x), IsEvent(h) PROVE next + 1 <= x.seq
    <3>1. <<h, x>> \in Order(conn)
      BY DEF Arrives
    <3>2. InTime(<<h, x>>)
      BY <3>1 DEF Line
    <3>3. h.seq < x.seq
      BY <2>2, <3>2 DEF InTime
    <3>4. x.seq \in Nat
      BY <2>1, <2>2 DEF Faithful
    <3> QED BY <2>2, <3>3, <3>4
  <2>3. Timed(x) => later <= x.seq
    BY <2>1, <2>2 DEF Faithful
  <2> QED BY <2>1, <2>3 DEF Faithful
<1>2. \A p \in Order(r) : InTime(p)
  BY DEF Line, Arrives
<1>3. r.open \subseteq Own /\ (\A x \in Range(r.asks) : Report(x)) /\ \A x \in Range(r.todo) : x.kind = "close" => x.q \in Own
  BY DEF Line, Arrives
<1> QED BY <1>1, <1>2, <1>3 DEF Line

(* The close of a question of the session does not come before the event   *)
(* that implies it, and nothing comes between them.                        *)
LEMMA CloseArrives ==
  ASSUME NEW conn, NEW next \in Nat, NEW lg, NEW bd, Line(conn, next, lg, bd), NEW h, NEW r, Arrives(conn, h, r),
         conn.cursor \in Nat, next < conn.cursor => \E x \in Contents(r) : IsEvent(x) /\ x.seq = next,
         h.kind = "close", h.q \in Own
  PROVE  bd[h.q].taken \/ ~Waits(lg, h.q, next)
<1>1. SUFFICES ASSUME ~bd[h.q].taken PROVE ~Waits(lg, h.q, next)
  OBVIOUS
<1>2. Faithful(h, next, conn.cursor, lg, bd)
  BY DEF Line, Arrives
<1>3. Timed(h) /\ ClosedAt(lg, h.q, h.seq)
  BY <1>1, <1>2 DEF Faithful
<1>4. h.seq \in Nat /\ h.seq > 0 /\ next <= h.seq /\ h.seq <= conn.cursor
  BY <1>2, <1>3 DEF Faithful
<1>5. h.seq <= next
  <2>1. SUFFICES ASSUME next < h.seq PROVE FALSE
    BY <1>4
  <2>2. PICK x \in Contents(r) : IsEvent(x) /\ x.seq = next
    BY <1>4, <2>1
  <2>3. <<h, x>> \in Order(conn)
    BY DEF Arrives
  <2>4. InTime(<<h, x>>)
    BY <2>3 DEF Line
  <2> QED BY <1>3, <1>4, <2>1, <2>2, <2>4 DEF InTime
<1>6. h.seq = next
  BY <1>4, <1>5
<1> QED BY <1>3, <1>4, <1>6, ClosedNot

LEMMA KnowsArrives ==
  ASSUME NEW m, NEW lg, NEW bd, Knows(m, lg, bd), m.next \in Nat, NEW h, Known(h),
         h.kind = "event" => lg[m.next + 1] = Event(h.event, h.q),
         h.kind = "close" /\ h.q \in Own => bd[h.q].taken \/ ~Waits(lg, h.q, m.next),
         h.kind = "question" => h.q \in Forwarded, NEW n, Heeds(m, h, n)
  PROVE  Knows(n, lg, bd)
<1>1. CASE h.kind = "event"
  BY <1>1, KnowsEvent DEF Heeds
<1>2. CASE h.kind = "close"
  BY <1>2, KnowsClose DEF Heeds
<1>3. CASE h.kind = "question"
  BY <1>3, KnowsQuestion DEF Heeds
<1>4. CASE h.kind = "ack"
  <2>1. n.next = m.next /\ n.shown = m.shown /\ n.pending = m.pending
    BY <1>4 DEF Heeds
  <2> QED BY <2>1 DEF Knows
<1> QED BY <1>1, <1>2, <1>3, <1>4 DEF Known

LEMMA DialogArrives ==
  ASSUME NEW q \in Forwarded, NEW conn, NEW m, NEW at, NEW tried, Dialog(q, conn, m, at, tried), NEW h, Known(h), NEW r,
         Arrives(conn, h, r), h.kind = "event" /\ h.event = "asked" => h.q \in Own, NEW n, Heeds(m, h, n)
  PROVE  Dialog(q, r, n, at, tried)
<1>1. CASE Asks(h, q)
  <2>1. n.shown = m.shown \cup {q}
    BY <1>1 DEF Heeds, Asks
  <2> QED BY <1>1, <2>1, DialogShown
<1>2. CASE Closing(h, q)
  <2>1. n.shown = m.shown /\ q \notin n.pending
    BY <1>2 DEF Heeds, Closing
  <2> QED BY <1>2, <2>1, DialogClosed
<1>3. CASE ~Asks(h, q) /\ ~Closing(h, q)
  <2>1. SameOf(q, conn, r)
    BY <1>3, SameArrives
  <2>2. (q \in m.shown <=> q \in n.shown) /\ (q \in n.pending => q \in m.pending)
    <3>1. CASE h.kind = "event"
      <4>1. n.shown = m.shown /\ n.pending = After(m.pending, h)
        BY <3>1 DEF Heeds
      <4>2. h.event = "asked" => q # h.q
        BY <3>1, OwnNotForwarded
      <4> QED BY <4>1, <4>2 DEF After
    <3>2. CASE h.kind = "close"
      BY <3>2 DEF Heeds
    <3>3. CASE h.kind = "question"
      BY <1>3, <3>3 DEF Heeds, Asks
    <3>4. CASE h.kind = "ack"
      BY <3>4 DEF Heeds
    <3> QED BY <3>1, <3>2, <3>3, <3>4 DEF Known
  <2> QED BY <2>1, <2>2, DialogSame
<1> QED BY <1>1, <1>2, <1>3

(* All that holds of a connection holds after its client has received.    *)
LEMMA ShowsReceived ==
  ASSUME NEW conn, conn.up, conn.sub, Shape(conn), Seqs(conn), NEW m, NEW lg, NEW bd, NEW tr, Shows(conn, m, lg, bd, tr),
         \A i \in 1..Len(lg) : lg[i].kind \in {"asked", "answered"} => lg[i].q \in Own, Len(lg) \in Nat,
         m.next \in Nat, DOMAIN m = ClientFields, conn.cursor \in Nat, Flow(conn, m.next, conn.cursor), conn.out # <<>>,
         NEW r, r = Moved(conn), NEW h, h = Head(conn.out), NEW n, n = Apply(m, h)
  PROVE  Shows(r, n, lg, bd, tr) /\ n.keys = m.keys
<1>1. /\ Kept(conn, r) /\ Known(h)
      /\ IF IsEvent(h) THEN h.seq = m.next /\ Flow(r, m.next + 1, conn.cursor) ELSE Flow(r, m.next, conn.cursor)
  BY MovedIs
<1>2. Arrives(conn, h, r) /\ r.todo = conn.todo
  BY MovedOrder DEF Arrives, Kept
<1>3. /\ r.up = conn.up /\ r.sub = conn.sub /\ r.cursor = conn.cursor /\ r.open = conn.open
      /\ r.reqs = conn.reqs /\ r.busy = conn.busy
  BY <1>1 DEF Kept
<1>4. Heeds(m, h, n)
  BY <1>1, Applied
<1>5. /\ Line(conn, m.next, lg, bd) /\ Knows(m, lg, bd) /\ Requests(conn, bd, tr)
      /\ \A q \in Forwarded : Dialog(q, conn, m, bd[q], q \in tr)
  BY DEF Shows
<1>6. IsEvent(h) => h.seq = m.next
  BY <1>1
<1>7. n.next = IF IsEvent(h) THEN m.next + 1 ELSE m.next
  BY <1>1, <1>4 DEF Heeds, Known, IsEvent
<1>8. Line(r, n.next, lg, bd)
  BY <1>2, <1>3, <1>5, <1>6, <1>7, LineArrives
<1>9. Faithful(h, m.next, conn.cursor, lg, bd)
  BY <1>2, <1>5 DEF Line, Arrives
<1>10. IsEvent(h) => m.next + 1 \in 1..Len(lg) /\ lg[m.next + 1] = Event(h.event, h.q)
  BY <1>6, <1>9 DEF Faithful
<1>11. h.kind = "event" /\ h.event = "asked" => h.q \in Own
  <2>1. Event(h.event, h.q).kind = h.event /\ Event(h.event, h.q).q = h.q
    BY DEF Event
  <2> QED BY <1>10, <2>1 DEF IsEvent
<1>12. h.kind = "close" => (m.next < conn.cursor => \E x \in Contents(r) : IsEvent(x) /\ x.seq = m.next)
  <2>1. SUFFICES ASSUME h.kind = "close", m.next < conn.cursor PROVE \E x \in Contents(r) : IsEvent(x) /\ x.seq = m.next
    OBVIOUS
  <2>2. Flow(r, m.next, conn.cursor)
    BY <1>1, <2>1 DEF IsEvent
  <2> QED BY <2>1, <2>2, FlowEvents
<1>13. h.kind = "close" /\ h.q \in Own => bd[h.q].taken \/ ~Waits(lg, h.q, m.next)
  BY <1>2, <1>5, <1>12, CloseArrives
<1>14. h.kind = "question" => h.q \in Forwarded
  BY <1>9 DEF Faithful
<1>15. Knows(n, lg, bd)
  BY <1>1, <1>4, <1>5, <1>10, <1>13, <1>14, KnowsArrives DEF IsEvent
<1>16. \A q \in Forwarded : Dialog(q, r, n, bd[q], q \in tr)
  BY <1>1, <1>2, <1>4, <1>5, <1>11, DialogArrives
<1>17. Requests(r, bd, tr)
  BY <1>3, <1>5 DEF Requests
<1>18. Shows(r, n, lg, bd, tr)
  BY <1>3, <1>8, <1>15, <1>16, <1>17 DEF Shows
<1> QED BY <1>4, <1>18 DEF Heeds

(* A client receives a message.                                            *)
LEMMA DialogReceive ==
  ASSUME DialogInv, Inv, NEW c \in Clients, Receive(c)
  PROVE  DialogInv'
<1> DEFINE conn == conns[c]
           m == clients[c]
           h == Head(conn.out)
           r == Moved(conn)
           n == Apply(m, h)
<1>1. /\ conn.up /\ conn.out # <<>> /\ UNCHANGED <<log, asked, board>>
      /\ conns' = [conns EXCEPT ![c] = r] /\ clients' = [clients EXCEPT ![c] = n]
  BY DEF Receive, Moved
<1>2. conn.sub
  <2>1. Connection(conn, m.next, NextSeq)
    BY At
  <2> QED BY <1>1, <2>1 DEF Connection, Fresh
<1>3. Shape(conn) /\ Seqs(conn) /\ conn.cursor \in Nat /\ Flow(conn, m.next, conn.cursor)
  BY <1>1, <1>2, SubscribedAt, SeqsOf
<1>4. m.next \in Nat /\ DOMAIN m = ClientFields /\ Len(log) \in Nat /\ DOMAIN conns = Clients /\ DOMAIN clients = Clients
  BY At DEF Client, NextSeq, Inv, Good
<1>5. \A i \in 1..Len(log) : log[i].kind \in {"asked", "answered"} => log[i].q \in Own
  BY DEF DialogInv, History
<1>6. /\ conns'[c] = r /\ clients'[c] = n
      /\ \A d \in Clients : d # c => conns'[d] = conns[d] /\ clients'[d] = clients[d]
  BY <1>1, <1>4
<1>7. PICK tr0 : tr0 = Attempts(clients) /\ Shows(conn, m, log, board, tr0)
  BY DEF DialogInv, Showing
<1> HIDE DEF h, r, n
<1>8. \A tr : Shows(conn, m, log, board, tr) => Shows(r, n, log, board, tr) /\ n.keys = m.keys
  <2>1. TAKE tr
  <2>2. h = Head(conn.out) /\ r = Moved(conn) /\ n = Apply(m, h)
    BY DEF h, r, n
  <2> HIDE DEF conn, m
  <2> QED BY <1>1, <1>2, <1>3, <1>4, <1>5, <2>2, ShowsReceived
<1>9. n.keys = m.keys
  BY <1>7, <1>8
<1>10. KeysKept(clients[c], clients'[c])
  BY <1>6, <1>9 DEF KeysKept
<1>11. ASSUME NEW tr, NEW tr2, tr = Attempts(clients), tr2 = Attempts(clients'), Shows(conns[c], clients[c], log, board, tr)
       PROVE  Shows(conns'[c], clients'[c], log', board, tr2)
  <2>1. \A d \in Clients : clients'[d].keys = clients[d].keys
    BY <1>6, <1>9
  <2>2. tr2 = tr
    BY <1>11, <2>1 DEF Attempts
  <2>3. Shows(r, n, log, board, tr)
    BY <1>8, <1>11
  <2> QED BY <1>1, <1>6, <2>2, <2>3
<1>12. History(log', asked') /\ Grown(log, log') /\ board' = board
  BY <1>1 DEF DialogInv, Grown
<1> HIDE DEF conn, m
<1> QED BY <1>6, <1>10, <1>11, <1>12, OneShows

-----------------------------------------------------------------------------
(* DialogInv holds to begin with, and each step keeps it.                  *)
LEMMA DialogOthers ==
  ASSUME DialogInv, UNCHANGED <<log, asked, board, conns, clients>>
  PROVE  DialogInv'
BY DEF DialogInv, Attempts

LEMMA DialogInit ==
  ASSUME Init
  PROVE  DialogInv
<1> DEFINE e == Event("started", "none")
<1>1. /\ log = <<e>> /\ asked = {} /\ board = [q \in Questions |-> [state |-> "none", opens |-> 0, taken |-> FALSE]]
      /\ conns = [c \in Clients |-> NoConn] /\ clients = [c \in Clients |-> NewClient]
  BY DEF Init
<1>2. e.kind = "started" /\ e = Event(e.kind, e.q) /\ \A q : e # Event("asked", q)
  BY DEF Event
<1> HIDE DEF e
<1>3. Len(log) = 1 /\ log[1] = e
  BY <1>1
<1>4. History(log, asked)
  <2>1. \A q : ~Waits(log, q, 1)
    BY <1>2, <1>3 DEF Waits
  <2> QED BY <1>1, <1>2, <1>3, <2>1 DEF History
<1>5. Board(board)
  BY <1>1 DEF Board, AtFields
<1>6. Keyed(clients)
  BY <1>1, EmptyIsSeq DEF Keyed, NewClient
<1>7. ASSUME NEW c \in Clients, NEW tr PROVE Shows(conns[c], clients[c], log, board, tr)
  <2>1. conns[c] = NoConn /\ clients[c] = NewClient
    BY <1>1
  <2>2. ~conns[c].up
    BY <2>1 DEF NoConn
  <2>3. clients[c].shown = {} /\ clients[c].pending = {} /\ clients[c].next = 0
    BY <2>1 DEF NewClient
  <2>4. \A q : ~Waits(log, q, 0)
    BY DEF Waits
  <2>5. Knows(clients[c], log, board)
    BY <2>3, <2>4 DEF Knows
  <2> QED BY <2>2, <2>5 DEF Shows
<1>8. \E tr : tr = Attempts(clients) /\ Showing(conns, clients, log, board, tr)
  BY <1>7 DEF Showing
<1> QED BY <1>4, <1>5, <1>6, <1>8 DEF DialogInv

LEMMA DialogNext ==
  ASSUME DialogInv, Inv, [Next]_vars
  PROVE  DialogInv'
<1>1. ASSUME NEW c \in Clients, Serves(c) PROVE DialogInv'
  BY <1>1, DialogPumpEvent, DialogPumpAsk, DialogPumpOn, DialogSubscribe, DialogReply, DialogAnswer, DialogAnswerDone
     DEF Serves
<1>2. ASSUME NEW c \in Clients, Uses(c) PROVE DialogInv'
  BY <1>2, DialogEnds, DialogReceive, DialogUserAnswers, DialogUserCommands DEF Uses
<1>3. ASSUME NEW c \in Clients, Stall(c) \/ Disconnect(c) PROVE DialogInv'
  BY <1>3, DialogEnds
<1>4. ASSUME NEW o \in Observers, Hear(o) \/ SaveCursor(o) PROVE DialogInv'
  <2>1. UNCHANGED <<log, asked, board, conns, clients>>
    BY <1>4 DEF Hear, SaveCursor
  <2> QED BY <2>1, DialogOthers
<1>5. CASE Session
  BY <1>5, DialogOwn, DialogForward, DialogCode, DialogHard DEF Session
<1>6. CASE Restart
  BY <1>6, DialogRestart
<1>7. CASE UNCHANGED vars
  BY <1>7, DialogOthers DEF vars
<1> QED BY <1>1, <1>2, <1>3, <1>4, <1>5, <1>6, <1>7 DEF Next

LEMMA DialogAlways == Spec => []DialogInv
<1>1. Init => DialogInv
  BY DialogInit
<1>2. DialogInv /\ Inv /\ [Next]_vars => DialogInv'
  BY DialogNext
<1> QED BY <1>1, <1>2, Delivers, PTL DEF Spec

(* With nothing under way, what clients know is what there is.             *)
LEMMA InvDialogsRight ==
  ASSUME Inv, DialogInv
  PROVE  DialogsRight
<1>1. PICK tr : tr = Attempts(clients) /\ Showing(conns, clients, log, board, tr)
  BY DEF DialogInv
<1>2. \A q \in Questions : Tried(q) <=> q \in tr
  BY <1>1 DEF Attempts, Tried
<1>3. ASSUME NEW c \in Clients, Quiet(c)
      PROVE  /\ clients[c].pending \cap Own \subseteq asked
             /\ \A q \in asked : Open(q) /\ ~board[q].taken => q \in clients[c].pending
             /\ \A q \in Forwarded : Open(q) => q \in clients[c].shown
             /\ \A q \in clients[c].pending \cap clients[c].shown : Open(q) \/ Tried(q) \/ board[q].opens > 1
  <2> DEFINE conn == conns[c]
             m == clients[c]
  <2>1. /\ conn.up /\ conn.sub
        /\ conn.out = <<>> /\ conn.wait = <<>> /\ conn.todo = <<>> /\ conn.asks = <<>>
    BY <1>3 DEF Quiet
  <2>2. m.next = Len(log)
    BY <1>3, InvGapless DEF Gapless, NextSeq
  <2>3. Shows(conn, m, log, board, tr)
    BY <1>1 DEF Showing
  <2> HIDE DEF conn, m
  <2>4. Knows(m, log, board) /\ \A q \in Forwarded : Dialog(q, conn, m, board[q], q \in tr)
    BY <2>1, <2>3 DEF Shows
  <2>5. Contents(conn) = {} /\ Range(conn.asks) = {}
    <3>1. Range(conn.out) = {} /\ Range(conn.todo) = {} /\ Range(conn.asks) = {}
      BY <2>1, NoPairs
    <3>2. Range(Messages(conn.wait)) = {}
      <4>1. IsSeq(Messages(conn.wait)) /\ Len(Messages(conn.wait)) = 0
        BY <2>1, EmptyIsSeq, MessagesFacts
      <4>2. Messages(conn.wait) = <<>>
        BY <4>1, SeqFacts
      <4> QED BY <4>2, NoPairs
    <3>3. IsSeq(conn.wait)
      BY <2>1, EmptyIsSeq
    <3>4. Contents(conn) = Range(conn.out) \cup Range(Messages(conn.wait)) \cup Range(conn.todo)
      BY <3>3, RangeMessages DEF Contents, Queued
    <3> QED BY <3>1, <3>2, <3>4
  <2>6. asked \subseteq Own /\ \A q \in Own : Waits(log, q, m.next) <=> q \in asked
    BY <2>2 DEF DialogInv, History
  <2>7. m.pending \cap Own \subseteq asked
    BY <2>4, <2>6 DEF Knows
  <2>8. \A q \in asked : ~board[q].taken => q \in m.pending
    BY <2>4, <2>6 DEF Knows
  <2>9. \A q \in Forwarded : Open(q) => q \in m.shown
    BY <2>4, <2>5 DEF Dialog, Offered, Open
  <2>10. ASSUME NEW q \in m.pending \cap m.shown, ~Open(q), ~Tried(q) PROVE board[q].opens > 1
    <3>1. q \in Forwarded
      BY <2>4 DEF Knows
    <3>2. q \in Questions
      BY <3>1 DEF Questions
    <3>3. board[q].opens \in Nat /\ q \notin tr
      BY <1>2, <2>10, <3>2 DEF DialogInv, Board
    <3>4. ~WillClose(q, conn)
      BY <2>5 DEF WillClose
    <3>5. Dialog(q, conn, m, board[q], q \in tr)
      BY <2>4, <3>1
    <3>6. ~(board[q].opens <= 1)
      BY <2>10, <3>3, <3>4, <3>5 DEF Dialog, Open
    <3> QED BY <3>3, <3>6
  <2> QED BY <2>7, <2>8, <2>9, <2>10 DEF m
<1> QED BY <1>3 DEF DialogsRight

(* A client that has received all there is shows just the questions of the *)
(* session that wait for an answer, and all of its sub-agents' that are    *)
(* open; one of those that it still shows, that nobody has tried to answer *)
(* and that was open once, is open: DialogsRight (pump and subscribe of    *)
(* src/crates/server/src/server.rs, Model::apply of                        *)
(* src/crates/tui/src/model.rs).                                           *)
THEOREM SpecDialogsRight == Spec => []DialogsRight
<1>1. Inv /\ DialogInv => DialogsRight
  BY InvDialogsRight
<1> QED BY <1>1, Delivers, DialogAlways, PTL
=============================================================================
