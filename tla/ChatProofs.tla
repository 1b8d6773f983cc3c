----------------------------- MODULE ChatProofs -----------------------------
(***************************************************************************)
(* Why no question of the session is put to the person twice by one run,   *)
(* for any number of questions, texts, wakes and crashes: the journal and  *)
(* the board both tell the run of each question, in any order, and it      *)
(* shows one by the first of them that finds it open.                      *)
(***************************************************************************)
EXTENDS Chat, TLAPS

IsSeq(s) == s \in Seq(Range(s))

(* Where the journal asks q, and whether the run has come past it.         *)
Asks(i, q) == log[i].e = "asked" /\ log[i].q = q
HeardOf(q) == \E i \in 1..run.pos : Asks(i, q)

CtrlOK(s) == IsSeq(s) /\ \A i \in 1..Len(s) : s[i].c \in {"steer", "interrupt", "answer"}
RunFields == {"phase", "from", "pos", "waiting", "first"}

(* The journal asks a question once, which is then about something.        *)
Journal ==
  /\ IsSeq(log) /\ DOMAIN kind = Questions
  /\ \A i, j \in 1..Len(log) : log[i].e = "asked" /\ log[j].e = "asked" /\ log[i].q = log[j].q => i = j
  /\ \A i \in 1..Len(log) : log[i].e = "asked" => kind[log[i].q] # "other"

(* A question that was shown, or that waits for the board to open it, was  *)
(* asked before the run's place in the journal; and it is never both.      *)
Follows ==
  run.phase \in {"subscribed", "backlog", "following"} =>
    \A q \in Asked : /\ shown[q] = 1 \/ q \in run.waiting => HeardOf(q)
                     /\ ~(shown[q] = 1 /\ q \in run.waiting)
Opening == run.phase = "opening" => run.waiting = {} /\ \A q \in Asked : shown[q] = 0

Inv ==
  /\ Journal /\ CtrlOK(ctrl)
  /\ DOMAIN run = RunFields /\ run.pos \in 0..Len(log)
  /\ DOMAIN shown = Questions /\ \A q \in Asked : shown[q] \in {0, 1}
  /\ Follows /\ Opening

-----------------------------------------------------------------------------
(* Sequences.                                                              *)

LEMMA SeqFacts ==
  ASSUME NEW s, IsSeq(s)
  PROVE  Len(s) \in Nat /\ DOMAIN s = 1..Len(s)
BY DEF IsSeq

LEMMA IsSeqIn ==
  ASSUME NEW S, NEW s \in Seq(S)
  PROVE  IsSeq(s)
<1>1. Len(s) \in Nat /\ DOMAIN s = 1..Len(s) /\ s = [i \in 1..Len(s) |-> s[i]]
  OBVIOUS
<1>2. \A i \in 1..Len(s) : s[i] \in Range(s)
  BY <1>1 DEF Range
<1>3. s \in [1..Len(s) -> Range(s)]
  BY <1>1, <1>2
<1> QED BY <1>1, <1>3 DEF IsSeq

LEMMA AppendFacts ==
  ASSUME NEW s, IsSeq(s), NEW e
  PROVE  /\ IsSeq(Append(s, e)) /\ Len(Append(s, e)) = Len(s) + 1
         /\ \A i \in 1..Len(s) : Append(s, e)[i] = s[i]
         /\ Append(s, e)[Len(s) + 1] = e
<1> DEFINE S == Range(s) \cup {e}
           t == Append(s, e)
<1>1. s \in Seq(Range(s)) /\ Range(s) \subseteq S /\ e \in S
  BY DEF IsSeq
<1> HIDE DEF S
<1>2. s \in Seq(S)
  BY <1>1
<1>3. t \in Seq(S) /\ Len(t) = Len(s) + 1 /\ (\A i \in 1..Len(s) : t[i] = s[i]) /\ t[Len(s) + 1] = e
  BY <1>1, <1>2
<1>4. IsSeq(t)
  BY <1>3, IsSeqIn
<1> QED BY <1>3, <1>4

(* Messages to the run that it knows stay so, sent and received.           *)
LEMMA CtrlSent ==
  ASSUME NEW s, CtrlOK(s), NEW t, CtrlOK(t)
  PROVE  CtrlOK(s \o t)
<1> DEFINE S == Range(s) \cup Range(t)
           u == s \o t
<1>1. s \in Seq(Range(s)) /\ t \in Seq(Range(t)) /\ Range(s) \subseteq S /\ Range(t) \subseteq S
  BY DEF CtrlOK, IsSeq
<1> HIDE DEF S
<1>2. s \in Seq(S) /\ t \in Seq(S)
  BY <1>1
<1>3. /\ u \in Seq(S) /\ Len(u) = Len(s) + Len(t) /\ Len(s) \in Nat /\ Len(t) \in Nat
      /\ \A i \in 1..Len(u) : u[i] = IF i <= Len(s) THEN s[i] ELSE t[i - Len(s)]
  BY <1>2
<1>4. ASSUME NEW i \in 1..Len(u) PROVE u[i].c \in {"steer", "interrupt", "answer"}
  <2>1. CASE i <= Len(s)
    BY <1>3, <2>1 DEF CtrlOK
  <2>2. CASE ~(i <= Len(s))
    <3>1. i - Len(s) \in 1..Len(t)
      BY <1>3, <2>2
    <3> QED BY <1>3, <2>2, <3>1 DEF CtrlOK
  <2> QED BY <2>1, <2>2
<1> QED BY <1>3, <1>4, IsSeqIn DEF CtrlOK

LEMMA CtrlReceived ==
  ASSUME NEW s, CtrlOK(s), s # <<>>
  PROVE  CtrlOK(Tail(s)) /\ Head(s).c \in {"steer", "interrupt", "answer"}
<1> DEFINE t == Tail(s)
<1>1. s \in Seq(Range(s))
  BY DEF CtrlOK, IsSeq
<1>2. /\ t \in Seq(Range(s)) /\ Len(t) = Len(s) - 1 /\ Len(s) >= 1 /\ Len(s) \in Nat
      /\ (\A i \in 1..Len(t) : t[i] = s[i + 1]) /\ Head(s) = s[1]
  BY <1>1
<1>3. ASSUME NEW i \in 1..Len(t) PROVE t[i].c \in {"steer", "interrupt", "answer"}
  <2>1. i + 1 \in 1..Len(s)
    BY <1>2
  <2> QED BY <1>2, <2>1 DEF CtrlOK
<1> HIDE DEF t
<1>4. IsSeq(t)
  BY <1>2, IsSeqIn
<1>5. CtrlOK(t) /\ Head(s).c \in {"steer", "interrupt", "answer"}
  BY <1>2, <1>3, <1>4 DEF CtrlOK
<1> QED BY <1>5 DEF t

LEMMA CtrlFew ==
  /\ CtrlOK(<<>>)
  /\ \A a : a.c \in {"steer", "interrupt", "answer"} => CtrlOK(<<a>>)
  /\ \A a, b : a.c \in {"steer", "interrupt", "answer"} /\ b.c \in {"steer", "interrupt", "answer"}
                => CtrlOK(<<a, b>>)
<1>1. CtrlOK(<<>>)
  <2>1. <<>> \in Seq({}) /\ Len(<<>>) = 0
    OBVIOUS
  <2>2. IsSeq(<<>>)
    BY <2>1, IsSeqIn
  <2>3. Len(<<>>) = 0
    BY <2>1
  <2> QED BY <2>1, <2>2, <2>3 DEF CtrlOK
<1>2. ASSUME NEW a, a.c \in {"steer", "interrupt", "answer"} PROVE CtrlOK(<<a>>)
  <2>1. <<a>> \in Seq({a}) /\ Len(<<a>>) = 1 /\ <<a>>[1] = a
    OBVIOUS
  <2>2. IsSeq(<<a>>)
    BY <2>1, IsSeqIn
  <2>3. Len(<<a>>) = 1
    BY <2>1
  <2> QED BY <1>2, <2>1, <2>2, <2>3 DEF CtrlOK
<1>3. ASSUME NEW a, NEW b, a.c \in {"steer", "interrupt", "answer"}, b.c \in {"steer", "interrupt", "answer"}
      PROVE  CtrlOK(<<a, b>>)
  <2>1. <<a, b>> \in Seq({a, b}) /\ Len(<<a, b>>) = 2 /\ <<a, b>>[1] = a /\ <<a, b>>[2] = b
    OBVIOUS
  <2>2. IsSeq(<<a, b>>)
    BY <2>1, IsSeqIn
  <2>3. Len(<<a, b>>) = 2
    BY <2>1
  <2> QED BY <1>3, <2>1, <2>2, <2>3 DEF CtrlOK
<1> QED BY <1>1, <1>2, <1>3

LEMMA Told ==
  ASSUME CtrlOK(ctrl), NEW cs, CtrlOK(cs), Tells(cs)
  PROVE  CtrlOK(ctrl)'
<1>1. ctrl' = ctrl \/ ctrl' = ctrl \o cs
  BY DEF Tells
<1> QED BY <1>1, CtrlSent

-----------------------------------------------------------------------------
(* The journal grows.                                                      *)

LEMMA RunOf ==
  ASSUME Inv
  PROVE  run.pos \in Nat /\ run.pos <= Len(log) /\ Len(log) \in Nat
BY SeqFacts DEF Inv, Journal

(* By the end of a turn.                                                   *)
LEMMA Grown ==
  ASSUME Inv, NEW e, e.e # "asked", log' = Append(log, e), CtrlOK(ctrl)', UNCHANGED <<kind, run, shown>>
  PROVE  Inv'
<1> DEFINE n == Len(log)
<1>1. n \in Nat /\ run.pos \in 0..n
  BY RunOf
<1>2. IsSeq(log') /\ Len(log') = n + 1 /\ (\A i \in 1..n : log'[i] = log[i]) /\ log'[n + 1] = e
  BY AppendFacts DEF Inv, Journal
<1> HIDE DEF n
<1>3. \A i \in 1..(n + 1) : log'[i].e = "asked" => i \in 1..n /\ log'[i] = log[i]
  BY <1>1, <1>2
<1>4. Journal'
  BY <1>2, <1>3 DEF Inv, Journal, n
<1>5. \A q : HeardOf(q) => HeardOf(q)'
  <2>1. \A i \in 1..run.pos : i \in 1..n
    BY <1>1
  <2> QED BY <1>2, <2>1 DEF HeardOf, Asks
<1>6. Follows' /\ Opening'
  BY <1>5 DEF Inv, Follows, Opening
<1>7. run'.pos \in 0..Len(log')
  BY <1>1, <1>2
<1> QED BY <1>4, <1>6, <1>7 DEF Inv

(* By a question, of which nothing was known before.                       *)
LEMMA StepAsk ==
  ASSUME Inv, NEW q \in Questions, Ask(q)
  PROVE  Inv'
<1> DEFINE n == Len(log)
           e == [e |-> "asked", q |-> q]
<1>1. n \in Nat /\ run.pos \in 0..n
  BY RunOf
<1>2. IsSeq(log') /\ Len(log') = n + 1 /\ (\A i \in 1..n : log'[i] = log[i]) /\ log'[n + 1] = e
  BY AppendFacts DEF Inv, Journal, Ask
<1>3. /\ kind[q] = "other" /\ run' = run /\ shown' = shown /\ ctrl' = ctrl
      /\ DOMAIN kind' = Questions /\ kind'[q] # "other" /\ \A p \in Questions : p # q => kind'[p] = kind[p]
  BY DEF Ask, Inv, Journal
<1>4. \A i \in 1..n : log[i].e = "asked" => log[i].q # q /\ kind'[log[i].q] # "other"
  <2>1. \A p : p # q => kind'[p] = kind[p]
    BY DEF Ask, Inv, Journal
  <2> QED BY <1>3, <2>1 DEF Inv, Journal
<1>5. e.e = "asked" /\ e.q = q
  OBVIOUS
<1> HIDE DEF n, e
<1>6. \A i \in 1..(n + 1) : i \in 1..n \/ i = n + 1
  BY <1>1
<1>7. \A i, j \in 1..(n + 1) : log'[i].e = "asked" /\ log'[j].e = "asked" /\ log'[i].q = log'[j].q => i = j
  <2>1. \A i, j \in 1..n : log[i].e = "asked" /\ log[j].e = "asked" /\ log[i].q = log[j].q => i = j
    BY DEF Inv, Journal, n
  <2> QED BY <1>2, <1>4, <1>5, <1>6, <2>1
<1>8. \A i \in 1..(n + 1) : log'[i].e = "asked" => kind'[log'[i].q] # "other"
  BY <1>2, <1>3, <1>4, <1>5, <1>6
<1>9. Journal'
  BY <1>2, <1>3, <1>7, <1>8 DEF Journal
<1>10. \A p : HeardOf(p) => HeardOf(p)'
  <2>1. \A i \in 1..run.pos : i \in 1..n
    BY <1>1
  <2> QED BY <1>2, <1>3, <2>1 DEF HeardOf, Asks
<1>11. Follows' /\ Opening'
  BY <1>3, <1>10 DEF Inv, Follows, Opening
<1>12. run'.pos \in 0..Len(log')
  BY <1>1, <1>2, <1>3
<1>13. CtrlOK(ctrl)'
  BY <1>3 DEF Inv
<1> QED BY <1>3, <1>9, <1>11, <1>12, <1>13 DEF Inv

(* Or not at all.                                                          *)
LEMMA Same ==
  ASSUME Inv, CtrlOK(ctrl)', UNCHANGED <<log, kind, run, shown>>
  PROVE  Inv'
<1>1. Journal' /\ Follows' /\ Opening'
  BY DEF Inv, Journal, Follows, Opening, HeardOf, Asks
<1> QED BY <1>1 DEF Inv

-----------------------------------------------------------------------------
(* The run.                                                                *)

LEMMA NewRun ==
  ASSUME Inv, UNCHANGED <<log, kind>>, CtrlOK(ctrl)',
         DOMAIN run' = RunFields, run'.pos = 0, run'.waiting = {}, run'.phase \in {"none", "opening", "done"},
         DOMAIN shown' = Questions, \A q \in Asked : shown'[q] \in {0, 1},
         run'.phase = "opening" => \A q \in Asked : shown'[q] = 0
  PROVE  Inv'
<1>1. Journal'
  BY DEF Inv, Journal
<1>2. Follows' /\ Opening'
  BY DEF Follows, Opening
<1>3. run'.pos \in 0..Len(log')
  BY RunOf
<1> QED BY <1>1, <1>2, <1>3 DEF Inv

LEMMA NoRunIs == DOMAIN NoRun = RunFields /\ NoRun.pos = 0 /\ NoRun.waiting = {} /\ NoRun.phase = "none"
BY DEF NoRun, RunFields

LEMMA UnseenIs == DOMAIN Unseen = Questions /\ \A q \in Asked : Unseen[q] = 0
BY DEF Unseen, Questions

LEMMA StepSubscribe ==
  ASSUME Inv, Subscribe
  PROVE  Inv'
<1>1. /\ run.phase = "opening" /\ log' = log /\ kind' = kind /\ ctrl' = ctrl /\ shown' = shown
      /\ run' = [run EXCEPT !.phase = "subscribed", !.from = Len(log), !.pos = Len(log)]
  BY DEF Subscribe
<1>2. DOMAIN run = RunFields /\ run.waiting = {} /\ \A q \in Asked : shown[q] = 0
  BY <1>1 DEF Inv, Opening
<1>3. DOMAIN run' = RunFields /\ run'.phase = "subscribed" /\ run'.pos = Len(log) /\ run'.waiting = {}
  BY <1>1, <1>2 DEF RunFields
<1>4. Journal'
  BY <1>1 DEF Inv, Journal
<1>5. Follows' /\ Opening'
  BY <1>1, <1>2, <1>3 DEF Follows, Opening
<1>6. run'.pos \in 0..Len(log')
  BY <1>1, <1>3, RunOf
<1> QED BY <1>1, <1>3, <1>4, <1>5, <1>6 DEF Inv

(* What the backlog shows is not the session's own.                        *)
LEMMA StepBacklog ==
  ASSUME Inv, Backlog
  PROVE  Inv'
<1> DEFINE open == {q \in Forwarded : board[q] = "open"}
<1>1. /\ run.phase = "subscribed" /\ log' = log /\ kind' = kind /\ ctrl' = ctrl
      /\ run' = [run EXCEPT !.phase = "backlog"]
      /\ shown' = [q \in Questions |-> IF q \in open THEN shown[q] + 1 ELSE shown[q]]
  BY DEF Backlog, session
<1>2. DOMAIN run' = RunFields /\ run'.phase = "backlog" /\ run'.pos = run.pos /\ run'.waiting = run.waiting
  BY <1>1 DEF Inv, RunFields
<1>3. \A q \in Asked : q \in Questions /\ q \notin open
  BY ChatAssumption DEF Asked, Questions
<1> HIDE DEF open
<1>4. DOMAIN shown' = Questions /\ \A q \in Asked : shown'[q] = shown[q]
  BY <1>1, <1>3
<1>5. Journal'
  BY <1>1 DEF Inv, Journal
<1>6. Follows' /\ Opening'
  BY <1>1, <1>2, <1>4 DEF Inv, Follows, Opening, HeardOf, Asks
<1> QED BY <1>1, <1>2, <1>4, <1>5, <1>6 DEF Inv

LEMMA StepSendFirst ==
  ASSUME Inv, SendFirst
  PROVE  Inv'
<1>1. /\ run.phase = "backlog" /\ log' = log /\ kind' = kind /\ ctrl' = ctrl /\ shown' = shown
      /\ run' = [run EXCEPT !.phase = "following"]
  BY DEF SendFirst
<1>2. DOMAIN run' = RunFields /\ run'.phase = "following" /\ run'.pos = run.pos /\ run'.waiting = run.waiting
  BY <1>1 DEF Inv, RunFields
<1>3. Journal'
  BY <1>1 DEF Inv, Journal
<1>4. Follows' /\ Opening'
  BY <1>1, <1>2 DEF Inv, Follows, Opening, HeardOf, Asks
<1> QED BY <1>1, <1>2, <1>3, <1>4 DEF Inv

(* The next event of the journal.  It is the only one about its question,  *)
(* which so was not shown yet and does not wait.                           *)
LEMMA StepDriveEvent ==
  ASSUME Inv, DriveEvent
  PROVE  Inv'
<1>0. PICK pos, p : pos = run.pos + 1 /\ p = log[pos].q
  OBVIOUS
<1>1. /\ run.phase = "following" /\ run.pos < Len(log) /\ log' = log /\ kind' = kind
  BY DEF DriveEvent, session
<1>2. run.pos \in Nat /\ Len(log) \in Nat /\ pos \in 1..Len(log)
  BY <1>0, <1>1, RunOf
<1>3. CASE log[pos].e = "asked"
  <2>1. AskedEvent(p) /\ ctrl' = ctrl
    BY <1>0, <1>3 DEF DriveEvent
  <2>2. ASSUME p \in Asked PROVE shown[p] = 0 /\ p \notin run.waiting
    <3>1. ~HeardOf(p)
      <4>1. SUFFICES ASSUME NEW i \in 1..run.pos, Asks(i, p) PROVE FALSE
        BY DEF HeardOf
      <4>2. i \in 1..Len(log) /\ i # pos
        BY <1>0, <1>1, <1>2
      <4> QED BY <1>0, <1>2, <1>3, <4>1, <4>2 DEF Asks, Inv, Journal
    <3> QED BY <1>1, <2>2, <3>1 DEF Inv, Follows
  <2> DEFINE waiting == IF board[p] \in {"open", "answered"} THEN run.waiting ELSE run.waiting \cup {p}
  <2>3. run' = [run EXCEPT !.pos = pos, !.waiting = waiting]
    BY <1>0, <2>1 DEF AskedEvent
  <2>4. \/ board[p] = "open" /\ shown' = [shown EXCEPT ![p] = shown[p] + 1]
        \/ board[p] # "open" /\ shown' = shown
    BY <2>1 DEF AskedEvent, Shows, Silent
  <2>5. waiting \subseteq run.waiting \cup {p} /\ (board[p] = "open" => waiting = run.waiting)
    OBVIOUS
  <2> HIDE DEF waiting
  <2>6. DOMAIN run' = RunFields /\ run'.pos = pos /\ run'.waiting = waiting /\ run'.phase = "following"
    BY <1>1, <2>3 DEF Inv, RunFields
  <2>7. DOMAIN shown' = Questions /\ \A q \in Questions : q # p => shown'[q] = shown[q]
    BY <2>4 DEF Inv
  <2>8. ASSUME p \in Asked
        PROVE  \/ shown'[p] = 1 /\ p \notin waiting
               \/ shown'[p] = 0
    <3>1. p \in DOMAIN shown
      BY <2>8 DEF Inv, Questions
    <3> QED BY <2>2, <2>4, <2>5, <2>8, <3>1
  <2>9. \A q : HeardOf(q) => HeardOf(q)'
    <3>1. \A i \in 1..run.pos : i \in 1..pos
      BY <1>0, <1>2
    <3> QED BY <1>1, <2>6, <3>1 DEF HeardOf, Asks
  <2>10. HeardOf(p)'
    <3>1. pos \in 1..pos
      BY <1>2
    <3> QED BY <1>0, <1>1, <1>3, <2>6, <3>1 DEF HeardOf, Asks
  <2>11. ASSUME NEW q \in Asked
         PROVE  /\ shown'[q] \in {0, 1}
                /\ shown'[q] = 1 \/ q \in run'.waiting => HeardOf(q)'
                /\ ~(shown'[q] = 1 /\ q \in run'.waiting)
    <3>1. CASE q = p
      BY <2>6, <2>8, <2>10, <3>1
    <3>2. CASE q # p
      <4>1. shown'[q] = shown[q] /\ (q \in waiting => q \in run.waiting)
        BY <2>5, <2>7, <3>2 DEF Questions
      <4> QED BY <1>1, <2>6, <2>9, <4>1 DEF Inv, Follows
    <3> QED BY <3>1, <3>2
  <2>12. Follows' /\ Opening'
    BY <2>6, <2>11 DEF Follows, Opening
  <2>13. Journal' /\ CtrlOK(ctrl)'
    BY <1>1, <2>1 DEF Inv, Journal
  <2>14. run'.pos \in 0..Len(log')
    BY <1>1, <1>2, <2>6
  <2> QED BY <2>6, <2>7, <2>11, <2>12, <2>13, <2>14 DEF Inv
<1>4. CASE log[pos].e # "asked"
  <2>1. run' = [NoRun EXCEPT !.phase = "done"] /\ ctrl' = <<>> /\ shown' = shown
    BY <1>0, <1>4 DEF DriveEvent
  <2>2. DOMAIN run' = RunFields /\ run'.pos = 0 /\ run'.waiting = {} /\ run'.phase = "done"
    BY <2>1 DEF NoRun, RunFields
  <2>3. CtrlOK(ctrl)'
    BY <2>1, CtrlFew
  <2> QED BY <1>1, <2>1, <2>2, <2>3, NewRun DEF Inv
<1> QED BY <1>3, <1>4

(* What the board opens.                                                   *)
LEMMA StepDriveCast ==
  ASSUME Inv, DriveCast
  PROVE  Inv'
<1> DEFINE p == Head(cast)
<1>1. /\ run.phase = "following" /\ log' = log /\ kind' = kind /\ ctrl' = ctrl
      /\ run' = [run EXCEPT !.waiting = run.waiting \ {p}]
      /\ \/ Announced(p) /\ shown' = [shown EXCEPT ![p] = shown[p] + 1]
         \/ ~Announced(p) /\ shown' = shown
  BY DEF DriveCast, session, Shows, Silent
<1> HIDE DEF p
<1>2. /\ DOMAIN run' = RunFields /\ run'.pos = run.pos /\ run'.waiting = run.waiting \ {p}
      /\ run'.phase = "following"
  BY <1>1 DEF Inv, RunFields
<1>3. DOMAIN shown' = Questions /\ \A q \in Questions : q # p => shown'[q] = shown[q]
  BY <1>1 DEF Inv
<1>4. \A q : HeardOf(q) <=> HeardOf(q)'
  BY <1>1, <1>2 DEF HeardOf, Asks
<1>5. ASSUME NEW q \in Asked
      PROVE  /\ shown'[q] \in {0, 1}
             /\ shown'[q] = 1 \/ q \in run'.waiting => HeardOf(q)'
             /\ ~(shown'[q] = 1 /\ q \in run'.waiting)
  <2>1. /\ shown[q] \in {0, 1} /\ (shown[q] = 1 \/ q \in run.waiting => HeardOf(q))
        /\ ~(shown[q] = 1 /\ q \in run.waiting)
    BY <1>1 DEF Inv, Follows
  <2>2. CASE q = p
    <3>1. q \notin Forwarded /\ q \in DOMAIN shown
      BY ChatAssumption DEF Asked, Inv, Questions
    <3>2. CASE Announced(p)
      <4>1. q \in run.waiting
        BY <2>2, <3>1, <3>2 DEF Announced
      <4>2. shown[q] = 0 /\ shown' = [shown EXCEPT ![p] = shown[p] + 1]
        BY <1>1, <2>1, <3>2, <4>1
      <4>3. shown'[q] = 1
        BY <2>2, <3>1, <4>2
      <4> QED BY <1>2, <1>4, <2>1, <2>2, <4>1, <4>3
    <3>3. CASE ~Announced(p)
      BY <1>1, <1>2, <1>4, <2>1, <2>2, <3>3
    <3> QED BY <3>2, <3>3
  <2>3. CASE q # p
    BY <1>2, <1>3, <1>4, <2>1, <2>3 DEF Questions
  <2> QED BY <2>2, <2>3
<1>6. Follows' /\ Opening'
  BY <1>2, <1>5 DEF Follows, Opening
<1>7. Journal' /\ CtrlOK(ctrl)' /\ run'.pos \in 0..Len(log')
  BY <1>1, <1>2 DEF Inv, Journal
<1> QED BY <1>2, <1>3, <1>5, <1>6, <1>7 DEF Inv

(* What the terminal says.                                                 *)
LEMMA StepDriveCtrl ==
  ASSUME Inv, DriveCtrl
  PROVE  Inv'
<1> DEFINE c == Head(ctrl)
<1>1. ctrl # <<>> /\ ctrl' = Tail(ctrl) /\ UNCHANGED <<kind, run, shown>>
  BY DEF DriveCtrl
<1>2. CtrlOK(ctrl)' /\ c.c \in {"steer", "interrupt", "answer"}
  BY <1>1, CtrlReceived DEF Inv
<1>3. log' = log \/ \E e : e.e # "asked" /\ log' = Append(log, e)
  <2>1. CASE c.c = "steer"
    BY <2>1 DEF DriveCtrl
  <2>2. CASE c.c = "answer"
    BY <2>2 DEF DriveCtrl
  <2>3. CASE c.c = "interrupt"
    <3>1. Interrupts
      BY <2>3 DEF DriveCtrl
    <3>2. log' = log \/ log' = Append(log, [e |-> "ended", q |-> turn[1]])
      BY <3>1 DEF Interrupts, Ends
    <3> DEFINE e == [e |-> "ended", q |-> turn[1]]
    <3>3. e.e # "asked"
      OBVIOUS
    <3> QED BY <3>2, <3>3
  <2> QED BY <1>2, <2>1, <2>2, <2>3
<1> QED BY <1>1, <1>2, <1>3, Same, Grown

-----------------------------------------------------------------------------
(* The others.                                                             *)

LEMMA StepEndTurn ==
  ASSUME Inv, EndTurn
  PROVE  Inv'
<1> DEFINE e == [e |-> "ended", q |-> turn[1]]
<1>1. log' = Append(log, e) /\ ctrl' = ctrl /\ UNCHANGED <<kind, run, shown>>
  BY DEF EndTurn, Ends
<1>2. e.e # "asked" /\ CtrlOK(ctrl)'
  BY <1>1 DEF Inv
<1> QED BY <1>1, <1>2, Grown

LEMMA StepTerminal ==
  ASSUME Inv, (\E m \in {"default", "acceptEdits", "plan"} : SetMode(m)) \/ Steer \/ CtrlC \/ Render \/ Answer
  PROVE  Inv'
<1>1. UNCHANGED <<log, kind, run, shown>>
  BY DEF SetMode, Steer, CtrlC, Render, Answer, Quiet, session
<1>2. \/ ctrl' = ctrl
      \/ \E t : Tells(<<[c |-> "steer", text |-> t]>>)
      \/ Tells(<<[c |-> "interrupt"]>>)
      \/ \E q : Tells(<<[c |-> "answer", q |-> q]>>) \/ Tells(<<[c |-> "answer", q |-> q], [c |-> "interrupt"]>>)
  BY DEF SetMode, Steer, CtrlC, Render, Answer
<1>3. CtrlOK(ctrl)'
  <2>1. \A t, q : /\ CtrlOK(<<[c |-> "steer", text |-> t]>>) /\ CtrlOK(<<[c |-> "interrupt"]>>)
                  /\ CtrlOK(<<[c |-> "answer", q |-> q]>>)
                  /\ CtrlOK(<<[c |-> "answer", q |-> q], [c |-> "interrupt"]>>)
    BY CtrlFew
  <2>2. CtrlOK(ctrl)
    BY DEF Inv
  <2> QED BY <1>2, <2>1, <2>2, Told
<1> QED BY <1>1, <1>3, Same

LEMMA StepNewRun ==
  ASSUME Inv, Say \/ Crash
  PROVE  Inv'
<1>1. /\ UNCHANGED <<log, kind>> /\ ctrl' = <<>> /\ shown' = Unseen
      /\ run' = NoRun \/ run' = [NoRun EXCEPT !.phase = "opening", !.first = texts + 1]
  BY DEF Say, Crash, Quiet, session
<1>2. DOMAIN run' = RunFields /\ run'.pos = 0 /\ run'.waiting = {} /\ run'.phase \in {"none", "opening"}
  <2>1. CASE run' = NoRun
    BY <2>1, NoRunIs
  <2>2. CASE run' = [NoRun EXCEPT !.phase = "opening", !.first = texts + 1]
    <3>1. DOMAIN run' = RunFields /\ run'.pos = 0 /\ run'.waiting = {}
      BY <2>2, NoRunIs DEF RunFields
    <3>2. run'.phase = "opening"
      BY <2>2, NoRunIs DEF RunFields
    <3> QED BY <3>1, <3>2
  <2> QED BY <1>1, <2>1, <2>2
<1>3. CtrlOK(ctrl)'
  BY <1>1, CtrlFew
<1> QED BY <1>1, <1>2, <1>3, UnseenIs, NewRun

LEMMA InitInv ==
  ASSUME Init
  PROVE  Inv
<1>1. log = <<>> /\ ctrl = <<>> /\ run = NoRun /\ shown = Unseen /\ kind = [q \in Questions |-> "other"]
  BY DEF Init
<1>2. IsSeq(log) /\ Len(log) = 0 /\ CtrlOK(ctrl)
  BY <1>1, CtrlFew DEF CtrlOK
<1>3. Journal
  BY <1>1, <1>2 DEF Journal
<1>4. Follows /\ Opening
  BY <1>1, NoRunIs DEF Follows, Opening
<1> QED BY <1>1, <1>2, <1>3, <1>4, NoRunIs, UnseenIs DEF Inv

LEMMA NextInv ==
  ASSUME Inv, [Next]_vars
  PROVE  Inv'
<1>1. CASE UNCHANGED <<log, kind, run, shown, ctrl>>
  <2>1. CtrlOK(ctrl)'
    BY <1>1 DEF Inv
  <2> QED BY <1>1, <2>1, Same
<1>2. CASE Wake \/ HearSteer
  BY <1>1, <1>2 DEF Wake, HearSteer
<1>3. ASSUME NEW q \in Questions, Forward(q) \/ Gates(q) PROVE Inv'
  BY <1>1, <1>3 DEF Forward, Gates, Judge, Return
<1>4. CASE UNCHANGED vars
  BY <1>1, <1>4 DEF vars, session
<1>5. CASE Drive
  BY <1>5, StepSubscribe, StepBacklog, StepSendFirst, StepDriveEvent, StepDriveCast, StepDriveCtrl DEF Drive
<1>6. CASE EndTurn
  BY <1>6, StepEndTurn
<1>7. CASE Say \/ Crash
  BY <1>7, StepNewRun
<1>8. CASE (\E m \in {"default", "acceptEdits", "plan"} : SetMode(m)) \/ Steer \/ CtrlC \/ Render \/ Answer
  BY <1>8, StepTerminal
<1> QED BY <1>2, <1>3, <1>4, <1>5, <1>6, <1>7, <1>8, StepAsk DEF Next

LEMMA ChatInvariant == Spec => []Inv
<1>1. Init => Inv
  BY InitInv
<1>2. Inv /\ [Next]_vars => Inv'
  BY NextInv
<1> QED BY <1>1, <1>2, PTL DEF Spec

(* A run shows no question of its session twice, although it learns of     *)
(* each from the journal and from the board, in either order: AskOnce      *)
(* (drive in src/crates/sdk/src/run.rs).                                   *)
THEOREM AskedOnce == Spec => []AskOnce
<1>1. Inv => AskOnce
  <2>1. \A x : x \in {0, 1} => x <= 1
    OBVIOUS
  <2> QED BY <2>1 DEF Inv, AskOnce
<1> QED BY <1>1, ChatInvariant, PTL
=============================================================================
