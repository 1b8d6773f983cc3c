------------------------------- MODULE Server -------------------------------
(* The service of one session: connections with bounded queues, the        *)
(* subscription each pump reads, answers and commands with their keys, the *)
(* board's questions, the terminal clients that show them, observers with  *)
(* their cursors, and restarts of the process.                             *)
EXTENDS Integers, SequencesExt, FiniteSetsExt, Functions

CONSTANTS Clients,      \* terminal clients, each with a connection at a time
          Own,          \* questions of the session, which its journal records
          Forwarded,    \* questions its sub-agents put on its board
          Observers, CursorOf, \* observers, and the name of each one's cursor
          Commands,     \* keys of commands, which any client may retry
          Capacity,     \* of a connection's outgoing queue
          Recent,       \* events kept in memory for subscribers
          Remembered,   \* keys of answers, and of commands, remembered
          MaxInputs,    \* of users, of the session and of the world
          MaxHeard      \* events at the start of the journal observers hear

ASSUME ServerAssumption ==
    /\ Own \cap Forwarded = {} /\ IsFiniteSet(Forwarded)
    /\ Commands \cap (Own \cup Forwarded) = {}
    /\ CursorOf \in [Observers -> STRING]
    /\ {Capacity, Recent, Remembered} \subseteq Nat \ {0} /\ {MaxInputs, MaxHeard} \subseteq Nat

VARIABLES log,       \* the journal, of which subscribers know
          asked,     \* the session's own questions that wait for an answer
          board,     \* of each question: its state, and how often it opened
          answers,   \* <<key, accepted>> of the answers remembered
          dedupe,    \* keys of the commands remembered
          conns,     \* the server's end of each connection
          clients,   \* the view-model of each client
          observers, \* of each: the next event it hears, and what it has heard
          cursors,   \* the saved cursors
          restarted, \* has the process restarted?
          inputs
vars == <<log, asked, board, answers, dedupe, conns, clients, observers, cursors, restarted, inputs>>

Questions == Own \cup Forwarded
NextSeq == Len(log)

NoConn == [up |-> FALSE, out |-> <<>>, wait |-> <<>>, todo |-> <<>>, reqs |-> <<>>, busy |-> <<>>,
           closed |-> {}, sub |-> FALSE, cursor |-> 0, open |-> {}, asks |-> <<>>]
NewClient == [next |-> 0, got |-> {}, pending |-> {}, shown |-> {}, keys |-> <<>>, acks |-> {},
              hint |-> -1]

Msg(kind, q, seq) == [kind |-> kind, q |-> q, seq |-> seq]
Event(kind, q) == [kind |-> kind, q |-> q]
CommandKey(k) == <<"command", k, 0>>  \* keys of answers are <<client, question, number>>
Input == inputs < MaxInputs /\ inputs' = inputs + 1

-----------------------------------------------------------------------------
(* The outgoing queue.  A reliable message that finds it full waits for    *)
(* its turn, and whoever sends it waits too.                               *)
Offer(conn, by, m) ==
    IF conn.wait = <<>> /\ Len(conn.out) < Capacity THEN [conn EXCEPT !.out = Append(@, m)]
    ELSE [conn EXCEPT !.wait = Append(@, [by |-> by, msg |-> m])]
Waiting(conn, by) == \E i \in DOMAIN conn.wait : conn.wait[i].by = by

(* One message of the pump; what is left to do after one that waits waits. *)
(* A question is closed once on a connection.                              *)
PumpItem(conn, m) ==
    IF Waiting(conn, "pump") THEN [conn EXCEPT !.todo = Append(@, m)]
    ELSE IF m.kind # "close" THEN Offer(conn, "pump", m)
    ELSE IF m.q \in conn.closed THEN conn
    ELSE Offer([conn EXCEPT !.closed = @ \cup {m.q}], "pump", m)
PumpItems(conn, items) ==
    LET sent[i \in 0..Len(items)] == IF i = 0 THEN conn ELSE PumpItem(sent[i-1], items[i])
    IN sent[Len(items)]

(* Whoever answered closes the question on the other connections, and does *)
(* not wait for them.                                                      *)
CloseQuestion(conn, q) ==
    IF q \in conn.closed THEN conn
    ELSE Offer([conn EXCEPT !.closed = @ \cup {q}], "other", Msg("close", q, -1))

-----------------------------------------------------------------------------
(* Subscriptions.                                                          *)
Oldest == IF NextSeq <= Recent THEN 0 ELSE NextSeq - Recent
InMemory == Oldest..NextSeq-1

(* Mutant of Fetch: what is in memory is all there is.                     *)
FetchRecent(cursor) == {seq \in InMemory : seq >= cursor}

(* The events from a cursor on: out of memory when that goes back far      *)
(* enough, or else out of the journal.                                     *)
Fetch(cursor) == {seq \in (IF Oldest <= cursor THEN InMemory ELSE 0..NextSeq-1) : seq >= cursor}
Behind(conn) == conn.cursor \in Fetch(conn.cursor)

(* Which questions an event closes, of those asked since the subscription. *)
Closes(open, e) ==
    IF e.kind = "answered" THEN {e.q} ELSE IF e.kind = "hard" THEN open ELSE {}
Tracked(open, e) ==
    IF e.kind = "asked" THEN open \cup {e.q} ELSE open \ Closes(open, e)

Pumps(c) == conns[c].up /\ conns[c].sub /\ conns[c].todo = <<>> /\ ~Waiting(conns[c], "pump")

(* The pump sends the next event and the closes it implies.                *)
PumpEvent(c) ==
    LET conn   == conns[c]
        e      == log[conn.cursor + 1]
        closes == SetToSeq(Closes(conn.open, e))
        items  == <<[kind |-> "event", q |-> e.q, seq |-> conn.cursor, event |-> e.kind]>>
                  \o [i \in DOMAIN closes |-> Msg("close", closes[i], conn.cursor + 1)]
    IN /\ Pumps(c) /\ Behind(conn)
       /\ conns' = [conns EXCEPT ![c] = PumpItems([conn EXCEPT !.cursor = @ + 1, !.open = Tracked(@, e)], items)]
       /\ UNCHANGED <<log, asked, board, answers, dedupe, clients, observers, cursors, restarted, inputs>>

(* Or passes on what the board reports of a forwarded question.            *)
PumpAsk(c) ==
    LET conn == conns[c]
    IN /\ Pumps(c) /\ conn.asks # <<>>
       /\ conns' = [conns EXCEPT ![c] = PumpItem([conn EXCEPT !.asks = Tail(@)], Head(conn.asks))]
       /\ UNCHANGED <<log, asked, board, answers, dedupe, clients, observers, cursors, restarted, inputs>>

(* It goes on after a message that had to wait.                            *)
PumpOn(c) ==
    LET conn == conns[c]
    IN /\ conn.up /\ conn.todo # <<>> /\ ~Waiting(conn, "pump")
       /\ conns' = [conns EXCEPT ![c] = PumpItems([conn EXCEPT !.todo = <<>>], conn.todo)]
       /\ UNCHANGED <<log, asked, board, answers, dedupe, clients, observers, cursors, restarted, inputs>>

-----------------------------------------------------------------------------
(* The board.  Its reports reach every subscribed pump, those of forwarded *)
(* questions matter to it.                                                 *)
Reported(cs, q, kind) ==
    IF q \in Own THEN cs
    ELSE [c \in Clients |-> IF cs[c].up /\ cs[c].sub
                            THEN [cs[c] EXCEPT !.asks = Append(@, Msg(kind, q, -1))] ELSE cs[c]]
Opened(q) == [board EXCEPT ![q].state = "open", ![q].opens = @ + 1]
Answered(q) == [board EXCEPT ![q].state = "answered", ![q].taken = TRUE]
Gone(qs) == [q \in Questions |-> IF q \in qs THEN [board[q] EXCEPT !.state = "none"] ELSE board[q]]
Open(q) == board[q].state = "open"

(* The kernel asks and records it; the gate then puts it on the board.     *)
AskOwn(q) ==
    /\ Input /\ board[q].opens = 0 /\ q \notin asked
    /\ log' = Append(log, Event("asked", q))
    /\ asked' = asked \cup {q}
    /\ UNCHANGED <<board, answers, dedupe, conns, clients, observers, cursors, restarted>>
OpenOwn(q) ==
    /\ q \in asked /\ board[q].state = "none"
    /\ board' = Opened(q)
    /\ UNCHANGED <<log, asked, answers, dedupe, conns, clients, observers, cursors, restarted, inputs>>

(* A sub-agent's question appears on the board of its parent, and goes.    *)
Forward(q) ==
    /\ Input /\ board[q].state = "none"
    /\ board' = Opened(q)
    /\ conns' = Reported(conns, q, "question")
    /\ UNCHANGED <<log, asked, answers, dedupe, clients, observers, cursors, restarted>>
Withdraw(q) ==
    /\ Input /\ board[q].state # "none"
    /\ board' = Gone({q})
    /\ conns' = IF Open(q) THEN Reported(conns, q, "close") ELSE conns
    /\ UNCHANGED <<log, asked, answers, dedupe, clients, observers, cursors, restarted>>

(* Code of the embedding program answers.                                  *)
CodeAnswers(q) ==
    /\ Input /\ Open(q)
    /\ board' = Answered(q)
    /\ conns' = Reported(conns, q, "close")
    /\ UNCHANGED <<log, asked, answers, dedupe, clients, observers, cursors, restarted>>

(* The gate of an own question completes, and the kernel records it.       *)
Resolve(q) ==
    /\ q \in asked /\ board[q].state = "answered"
    /\ log' = Append(log, Event("answered", q))
    /\ asked' = asked \ {q}
    /\ UNCHANGED <<board, answers, dedupe, conns, clients, observers, cursors, restarted, inputs>>

(* The driver closes the questions of its gates, the kernel forgets them.  *)
HardInterrupt ==
    /\ Input /\ asked # {}
    /\ log' = Append(log, Event("hard", "none"))
    /\ board' = Gone(asked)
    /\ asked' = {}
    /\ UNCHANGED <<answers, dedupe, conns, clients, observers, cursors, restarted>>

-----------------------------------------------------------------------------
(* Requests, one at a time and in order, of each connection.               *)
Request(c, kind) ==
    /\ conns[c].up /\ conns[c].busy = <<>> /\ ~Waiting(conns[c], "processor")
    /\ conns[c].reqs # <<>> /\ Head(conns[c].reqs).kind = kind
Taken(conn) == [conn EXCEPT !.reqs = Tail(@)]
AckOf(key, accepted) == [kind |-> "ack", key |-> key, accepted |-> accepted]
Keep(seen, entry) == LET all == Append(seen, entry) IN SubSeq(all, Max({1, Len(all) - Remembered + 1}), Len(all))
Seen(seen, key) == \E i \in DOMAIN seen : seen[i][1] = key
Original(seen, key) == seen[Min({i \in DOMAIN seen : seen[i][1] = key})][2]

(* Mutant of Subscribe: only the questions to come are passed on.          *)
SubscribeLive(c) ==
    LET conn == Taken(conns[c])
    IN /\ Request(c, "subscribe")
       /\ conns' = [conns EXCEPT ![c] =
              [conn EXCEPT !.sub = TRUE, !.cursor = Head(conns[c].reqs).from, !.open = {}, !.asks = <<>>]]
       /\ UNCHANGED <<log, asked, board, answers, dedupe, clients, observers, cursors, restarted, inputs>>

(* The new pump starts with the forwarded questions that are open now.     *)
Subscribe(c) ==
    LET conn    == Taken(conns[c])
        pending == SetToSeq({q \in Forwarded : Open(q)})
    IN /\ Request(c, "subscribe")
       /\ conns' = [conns EXCEPT ![c] =
              PumpItems([conn EXCEPT !.sub = TRUE, !.cursor = Head(conns[c].reqs).from, !.open = {}, !.asks = <<>>],
                        [i \in DOMAIN pending |-> Msg("question", pending[i], -1)])]
       /\ UNCHANGED <<log, asked, board, answers, dedupe, clients, observers, cursors, restarted, inputs>>

Command(c) ==
    LET key == Head(conns[c].reqs).key
    IN /\ Request(c, "command")
       /\ \/ Seen(dedupe, key) /\ UNCHANGED <<log, dedupe>>
          \/ /\ ~Seen(dedupe, key)
             /\ log' = Append(log, Event("input", key[2]))
             /\ dedupe' = Keep(dedupe, <<key, TRUE>>)
       /\ conns' = [conns EXCEPT ![c] = Offer(Taken(@), "processor", AckOf(key, TRUE))]
       /\ UNCHANGED <<asked, board, answers, clients, observers, cursors, restarted, inputs>>

(* A key that was answered before gets its ack again.                      *)
AnswerAgain(c) ==
    LET req == Head(conns[c].reqs)
    IN /\ Request(c, "answer") /\ Seen(answers, req.key) /\ \A d \in Clients : conns[d].busy = <<>>
       /\ conns' = [conns EXCEPT ![c] = Offer(Taken(@), "processor", AckOf(req.key, Original(answers, req.key)))]
       /\ UNCHANGED <<log, asked, board, answers, dedupe, clients, observers, cursors, restarted, inputs>>

(* Mutant of Answer: keys are not looked up.                               *)
AnswerAnew(c) ==
    LET req   == Head(conns[c].reqs)
        fresh == req.q \notin conns[c].closed
        taken == [Taken(conns[c]) EXCEPT !.closed = @ \cup {req.q}, !.busy = <<req.key, req.q, fresh, Open(req.q)>>]
    IN /\ Request(c, "answer") /\ \A d \in Clients : conns[d].busy = <<>>
       /\ board' = IF Open(req.q) THEN Answered(req.q) ELSE board
       /\ conns' = IF Open(req.q) THEN Reported([conns EXCEPT ![c] = taken], req.q, "close") ELSE [conns EXCEPT ![c] = taken]
       /\ UNCHANGED <<log, asked, answers, dedupe, clients, observers, cursors, restarted, inputs>>

(* One answer at a time in a session: the question is marked closed on the *)
(* connection in advance, the board takes the first answer ...             *)
Answer(c) ==
    LET req   == Head(conns[c].reqs)
        fresh == req.q \notin conns[c].closed
        taken == [Taken(conns[c]) EXCEPT !.closed = @ \cup {req.q}, !.busy = <<req.key, req.q, fresh, Open(req.q)>>]
    IN /\ Request(c, "answer") /\ ~Seen(answers, req.key) /\ \A d \in Clients : conns[d].busy = <<>>
       /\ board' = IF Open(req.q) THEN Answered(req.q) ELSE board
       /\ conns' = IF Open(req.q) THEN Reported([conns EXCEPT ![c] = taken], req.q, "close") ELSE [conns EXCEPT ![c] = taken]
       /\ UNCHANGED <<log, asked, answers, dedupe, clients, observers, cursors, restarted, inputs>>

(* ... then the ack is remembered, the mark of a refused one taken back,   *)
(* and an accepted one closes the question on the other connections.       *)
AnswerDone(c) ==
    LET conn   == conns[c]
        key    == conn.busy[1]
        q      == conn.busy[2]
        won    == conn.busy[4]
        mine   == [conn EXCEPT !.busy = <<>>, !.closed = IF ~won /\ conn.busy[3] THEN @ \ {q} ELSE @]
        others == {d \in Clients \ {c} : conns[d].up /\ conns[d].sub}
    IN /\ conn.up /\ conn.busy # <<>>
       /\ answers' = Keep(answers, <<key, won>>)
       /\ conns' = [d \in Clients |->
              IF d = c THEN Offer(mine, "processor", AckOf(key, won))
              ELSE IF won /\ d \in others THEN CloseQuestion(conns[d], q) ELSE conns[d]]
       /\ UNCHANGED <<log, asked, board, dedupe, clients, observers, cursors, restarted, inputs>>

-----------------------------------------------------------------------------
(* Connections end.                                                        *)

(* A message that waited too long: what is queued is not sent any more,    *)
(* the client is told from where to subscribe again, or nothing.           *)
HintOf(m) == IF m.kind \in {"event", "close"} THEN m.seq ELSE -1
Stall(c) ==
    LET conn == conns[c]
    IN /\ conn.up /\ conn.wait # <<>>
       /\ conns' = [conns EXCEPT ![c] = NoConn]
       /\ \E hint \in {-1, HintOf(Head(conn.wait).msg)} : clients' = [clients EXCEPT ![c].hint = hint]
       /\ UNCHANGED <<log, asked, board, answers, dedupe, observers, cursors, restarted, inputs>>

Disconnect(c) ==
    /\ Input /\ conns[c].up
    /\ conns' = [conns EXCEPT ![c] = NoConn]
    /\ UNCHANGED <<log, asked, board, answers, dedupe, clients, observers, cursors, restarted>>

(* The process restarts: the journal and the cursors are what is left, and *)
(* observers go on from their cursors.                                     *)
Restart ==
    /\ Input /\ restarted' = TRUE
    /\ conns' = [c \in Clients |-> NoConn]
    /\ board' = Gone(Questions)
    /\ answers' = <<>> /\ dedupe' = <<>>
    /\ observers' = [o \in Observers |-> [observers[o] EXCEPT !.next = Min({cursors[CursorOf[o]], NextSeq})]]
    /\ UNCHANGED <<log, asked, clients, cursors>>

-----------------------------------------------------------------------------
(* The clients.                                                            *)

(* The handshake subscribes from the event after the last one seen.        *)
Connect(c) ==
    /\ Input /\ ~conns[c].up
    /\ conns' = [conns EXCEPT ![c] = [NoConn EXCEPT !.up = TRUE, !.reqs = <<[kind |-> "subscribe", from |-> clients[c].next]>>]]
    /\ clients' = [clients EXCEPT ![c].shown = {}]
    /\ UNCHANGED <<log, asked, board, answers, dedupe, observers, cursors, restarted>>

Shown(m, e) ==
    IF e.seq < m.next THEN m
    ELSE [m EXCEPT !.next = e.seq + 1, !.got = @ \cup {e.seq},
                   !.pending = CASE e.event = "asked" -> @ \cup {e.q}
                                 [] e.event = "answered" -> @ \ {e.q}
                                 [] e.event = "hard" -> {}
                                 [] OTHER -> @]

Apply(m, msg) ==
    CASE msg.kind = "event" -> Shown(m, msg)
      [] msg.kind = "close" -> [m EXCEPT !.pending = @ \ {msg.q}]
      [] msg.kind = "question" -> [m EXCEPT !.pending = @ \cup {msg.q}, !.shown = @ \cup {msg.q}]
      [] msg.kind = "ack" -> [m EXCEPT !.acks = @ \cup {<<msg.key, msg.accepted>>}]

(* A message is written, and read by the client; one that waits moves up.  *)
Receive(c) ==
    LET conn  == conns[c]
        moved == IF conn.wait = <<>> THEN [conn EXCEPT !.out = Tail(@)]
                 ELSE [conn EXCEPT !.out = Append(Tail(@), Head(conn.wait).msg), !.wait = Tail(@)]
    IN /\ conn.up /\ conn.out # <<>>
       /\ conns' = [conns EXCEPT ![c] = moved]
       /\ clients' = [clients EXCEPT ![c] = Apply(@, Head(conn.out))]
       /\ UNCHANGED <<log, asked, board, answers, dedupe, observers, cursors, restarted, inputs>>

Acked(m, key) == \E b \in BOOLEAN : <<key, b>> \in m.acks

(* The user answers a dialog, with a new key or, after a lost ack, again.  *)
UserAnswers(c, q) ==
    LET m == clients[c]
    IN /\ Input /\ conns[c].up /\ conns[c].reqs = <<>> /\ q \in m.pending
       /\ \E key \in {<<c, q, Len(m.keys) + 1>>} \cup {k \in Range(m.keys) : k[2] = q /\ ~Acked(m, k)} :
             /\ conns' = [conns EXCEPT ![c].reqs = Append(@, [kind |-> "answer", key |-> key, q |-> q])]
             /\ clients' = [clients EXCEPT ![c].keys = IF Contains(@, key) THEN @ ELSE Append(@, key)]
       /\ UNCHANGED <<log, asked, board, answers, dedupe, observers, cursors, restarted>>

UserCommands(c, key) ==
    /\ Input /\ conns[c].up /\ conns[c].reqs = <<>> /\ <<key, TRUE>> \notin clients[c].acks
    /\ conns' = [conns EXCEPT ![c].reqs = Append(@, [kind |-> "command", key |-> key])]
    /\ UNCHANGED <<log, asked, board, answers, dedupe, clients, observers, cursors, restarted>>

-----------------------------------------------------------------------------
(* Observers: the cursor is saved after the observer has heard the event,  *)
(* if it can be saved.                                                     *)
Hear(o) ==
    /\ observers[o].next < Min({NextSeq, MaxHeard})
    /\ observers' = [observers EXCEPT ![o].next = @ + 1, ![o].heard = @ \cup {observers[o].next}]
    /\ UNCHANGED <<log, asked, board, answers, dedupe, conns, clients, cursors, restarted, inputs>>

(* Mutant of SaveCursor: it is saved before the event is heard.            *)
SaveAhead(o) ==
    /\ observers[o].next < Min({NextSeq, MaxHeard}) /\ cursors[CursorOf[o]] < observers[o].next + 1
    /\ cursors' = [cursors EXCEPT ![CursorOf[o]] = observers[o].next + 1]
    /\ UNCHANGED <<log, asked, board, answers, dedupe, conns, clients, observers, restarted, inputs>>

SaveCursor(o) ==
    /\ cursors[CursorOf[o]] < observers[o].next
    /\ cursors' = [cursors EXCEPT ![CursorOf[o]] = observers[o].next]
    /\ UNCHANGED <<log, asked, board, answers, dedupe, conns, clients, observers, restarted, inputs>>

-----------------------------------------------------------------------------
Init ==
    /\ log = <<Event("started", "none")>> /\ asked = {}
    /\ board = [q \in Questions |-> [state |-> "none", opens |-> 0, taken |-> FALSE]]
    /\ answers = <<>> /\ dedupe = <<>>
    /\ conns = [c \in Clients |-> NoConn]
    /\ clients = [c \in Clients |-> NewClient]
    /\ observers = [o \in Observers |-> [next |-> 0, heard |-> {}]]
    /\ cursors = [n \in Range(CursorOf) |-> 0]
    /\ restarted = FALSE /\ inputs = 0

Serves(c) ==
    \/ PumpEvent(c) \/ PumpAsk(c) \/ PumpOn(c)
    \/ Subscribe(c) \/ Command(c) \/ AnswerAgain(c) \/ Answer(c) \/ AnswerDone(c)
Uses(c) ==
    \/ Connect(c) \/ Receive(c)
    \/ \E q \in Questions : UserAnswers(c, q)
    \/ \E k \in Commands : UserCommands(c, CommandKey(k))
Session ==
    \/ \E q \in Own : AskOwn(q) \/ OpenOwn(q) \/ Resolve(q)
    \/ \E q \in Forwarded : Forward(q) \/ Withdraw(q)
    \/ \E q \in Questions : CodeAnswers(q)
    \/ HardInterrupt

Next ==
    \/ \E c \in Clients : Serves(c) \/ Uses(c) \/ Stall(c) \/ Disconnect(c)
    \/ \E o \in Observers : Hear(o) \/ SaveCursor(o)
    \/ Session
    \/ Restart

Spec == Init /\ [][Next]_vars

-----------------------------------------------------------------------------
(* A connection with nothing under way, to it or about its questions.      *)
Quiet(c) ==
    LET conn == conns[c]
    IN /\ conn.up /\ conn.sub /\ ~Behind(conn)
       /\ <<conn.out, conn.wait, conn.todo, conn.asks>> = <<<<>>, <<>>, <<>>, <<>>>>
       /\ \A d \in Clients : conns[d].busy = <<>>

(* However connections and the process come and go, and however little of  *)
(* the journal is in memory, a client sees every event once and in order,  *)
(* and at rest has seen all of them.                                       *)
Gapless ==
    \A c \in Clients :
        /\ clients[c].got = 0..clients[c].next-1
        /\ Quiet(c) => clients[c].next = NextSeq

Tried(q) == \E c \in Clients : \E k \in Range(clients[c].keys) : k[2] = q

(* What a client shows at rest: of the session's questions those that wait *)
(* for an answer, and of the forwarded ones all that are open; of those it *)
(* has been offered and no client tried to answer, none that was closed.   *)
DialogsRight ==
    \A c \in Clients : Quiet(c) =>
        LET m == clients[c]
        IN /\ m.pending \cap Own \subseteq asked
           /\ \A q \in asked : Open(q) /\ ~board[q].taken => q \in m.pending
           /\ \A q \in Forwarded : Open(q) => q \in m.shown
           /\ \A q \in m.pending \cap m.shown : Open(q) \/ Tried(q) \/ board[q].opens > 1

(* A key has one ack, whoever retries it and when, a question one winner,  *)
(* and a command is carried out once while the process lives.              *)
Acks == UNION {clients[c].acks : c \in Clients}
OneOutcome ==
    /\ \A a, b \in Acks : a[1] = b[1] => a[2] = b[2]
    /\ \A a, b \in Acks : a[2] /\ b[2] /\ a[1][2] = b[1][2] /\ (a[1][2] \in Questions => board[a[1][2]].opens = 1)
                            => a[1] = b[1]
    /\ ~restarted => \A i, j \in DOMAIN log : log[i].kind = "input" /\ log[i] = log[j] => i = j

(* Where an observer resumes, it has heard everything before.              *)
AtLeastOnce == \A o \in Observers : 0..cursors[CursorOf[o]]-1 \subseteq observers[o].heard

(* Whoever subscribes again from where the server says misses nothing.  It *)
(* is false of the code: what waited in the queue is dropped.              *)
HintComplete == \A c \in Clients : clients[c].hint # -1 => clients[c].hint <= clients[c].next
=============================================================================
