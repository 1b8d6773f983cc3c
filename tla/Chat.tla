-------------------------------- MODULE Chat --------------------------------
(***************************************************************************)
(* A conversation as a person has it: the terminal (code/src/repl.rs) and  *)
(* its permission modes (code/src/mode.rs) over a Run (sdk/src/run.rs),    *)
(* which follows the journal and the board of questions of one session.    *)
(*                                                                         *)
(* Four actors meet: the session, the task that drives the run, the        *)
(* terminal, and the board, with a channel between each two of them.       *)
(* Turns also begin without the terminal (a background task wakes the      *)
(* session), sub-agents put their questions on the board, the person types *)
(* and interrupts at any time, and the process may die.                    *)
(*                                                                         *)
(* Of a turn only its questions and its end are modelled (Session has the  *)
(* rest); a steer is heard at any point of a turn.  Pulses, plugins, what   *)
(* is printed, the mode that approves everything and a closed standard     *)
(* input are left out.                                                     *)
(***************************************************************************)
EXTENDS Naturals, SequencesExt, FiniteSets

CONSTANTS
  MaxTexts,      \* bound on what the person says
  MaxQuestions,  \* bound on questions of the session
  Forwarded,     \* questions a sub-agent forwards
  MaxOutside,    \* bound on wakes, crashes and questions forwarded, together
  MaxEvents      \* bound on all of these together

ASSUME ChatAssumption == MaxQuestions \in Nat /\ Forwarded \cap 1..MaxQuestions = {}

Asked == 1..MaxQuestions
Questions == Asked \cup Forwarded

VARIABLES
  live,      \* the session's driver runs in this process
  log,       \* of the journal: the questions asked and the turns ended
  turn,      \* the text, or the wake, the current turn is about
  mail,      \* signals that wait
  gate,      \* of each question: how far its gate is
  kind,      \* what each question is about
  board,     \* AskBoard: each question
  cast,      \* questions opened, on their way to the driving task
  run,       \* the Run and the task that drives it
  ctrl,      \* Ctrl messages on their way to it
  updates,   \* Updates on their way to the terminal
  repl,      \* what the terminal waits for
  mode, granted,
  texts, wakes, crashes,
  shown      \* how often this run showed a question

session  == <<live, log, turn, mail, gate, kind>>
terminal == <<repl, mode, granted, texts>>
vars == <<session, board, cast, run, ctrl, updates, terminal, wakes, crashes, shown>>

NoRun == [phase |-> "none", from |-> 0, pos |-> 0, waiting |-> {}, first |-> 0]
Prompt == [at |-> "prompt"]
InTurn == [at |-> "turn"]
Unseen == [q \in Questions |-> 0]

Init ==
  /\ live = FALSE /\ log = <<>> /\ turn = <<>> /\ mail = <<>>
  /\ gate = [q \in Questions |-> "none"] /\ kind = [q \in Questions |-> "other"]
  /\ board = [q \in Questions |-> "none"] /\ cast = <<>>
  /\ run = NoRun /\ ctrl = <<>> /\ updates = <<>>
  /\ repl = Prompt /\ mode \in {"default", "plan"} /\ granted = FALSE
  /\ texts = 0 /\ wakes = 0 /\ crashes = 0
  /\ shown = Unseen

-----------------------------------------------------------------------------
(* The session: signals start a turn or wait; turns ask, hear, end.        *)

Busy == turn # <<>>
Begun(qs) == Cardinality({q \in qs : gate[q] # "none"})
Room == texts + wakes + crashes + Begun(Questions) < MaxEvents
Outside == Room /\ wakes + crashes + Begun(Forwarded) < MaxOutside
Item(signal, text) == [signal |-> signal, text |-> text]
Queued == SelectSeq(mail, LAMBDA i : i.signal = "submit")

Hears(signal, text) ==
  IF Busy THEN mail' = Append(mail, Item(signal, text)) /\ UNCHANGED turn
  ELSE turn' = <<text>> /\ UNCHANGED mail

(* The end of a turn starts the next message that waits.                   *)
Ends ==
  /\ log' = Append(log, [e |-> "ended", q |-> turn[1]])
  /\ IF Queued = <<>> THEN turn' = <<>> /\ UNCHANGED mail
     ELSE turn' = <<Head(Queued).text>> /\ mail' = SelectSeq(mail, LAMBDA i : i # Head(Queued))

Wake ==
  /\ live /\ ~Busy /\ Outside /\ wakes' = wakes + 1
  /\ turn' = <<0>>
  /\ UNCHANGED <<live, log, mail, gate, kind, board, cast, run, ctrl, updates, terminal, crashes, shown>>

HearSteer ==
  /\ live /\ Busy /\ \E i \in Range(mail) : i.signal = "steer" /\ mail' = SelectSeq(mail, LAMBDA j : j # i)
  /\ UNCHANGED <<live, log, turn, gate, kind, board, cast, run, ctrl, updates, terminal, wakes, crashes, shown>>

(* A call the policy asks about; plan mode itself lets only its end be     *)
(* asked about (Permissions::gate).                                        *)
Ask(q) ==
  /\ Room /\ live /\ Busy /\ q \in Asked /\ kind[q] = "other"
  /\ \A p \in Asked : p < q => kind[p] # "other"
  /\ \E k \in (IF mode = "plan" THEN {"plan"} ELSE {"edit", "command"}) : kind' = [kind EXCEPT ![q] = k]
  /\ gate' = [gate EXCEPT ![q] = "judging"]
  /\ log' = Append(log, [e |-> "asked", q |-> q])
  /\ UNCHANGED <<live, turn, mail, board, cast, run, ctrl, updates, terminal, wakes, crashes, shown>>

(* Ring 5 (ModeRule, Permissions::auto_answer), else the board.            *)
Covers(q) == granted /\ kind[q] = "command"
AutoAnswered(q) == (mode = "acceptEdits" /\ kind[q] = "edit") \/ Covers(q)

Opens(q) == board' = [board EXCEPT ![q] = "open"] /\ cast' = Append(cast, q)

Judge(q) ==
  /\ live /\ gate[q] = "judging"
  /\ gate' = [gate EXCEPT ![q] = "waiting"]
  /\ IF AutoAnswered(q) THEN board' = [board EXCEPT ![q] = "answered"] /\ UNCHANGED cast
     ELSE Opens(q)
  /\ UNCHANGED <<live, log, turn, mail, kind, run, ctrl, updates, terminal, wakes, crashes, shown>>

Forward(q) ==
  /\ Outside /\ live /\ Busy /\ q \in Forwarded /\ board[q] = "none" /\ Opens(q)
  /\ gate' = [gate EXCEPT ![q] = "waiting"]
  /\ UNCHANGED <<live, log, turn, mail, kind, run, ctrl, updates, terminal, wakes, crashes, shown>>

(* The answer goes to the kernel and stays on the board, or goes to the    *)
(* sub-agent, which closes what it forwarded.                              *)
Return(q) ==
  /\ live /\ gate[q] = "waiting" /\ board[q] = "answered"
  /\ gate' = [gate EXCEPT ![q] = "over"]
  /\ board' = IF q \in Forwarded THEN [board EXCEPT ![q] = "closed"] ELSE board
  /\ UNCHANGED <<live, log, turn, mail, kind, cast, run, ctrl, updates, terminal, wakes, crashes, shown>>

Held == {q \in Questions : gate[q] \in {"judging", "waiting"}}

EndTurn ==
  /\ live /\ Busy /\ Held = {} /\ Ends
  /\ UNCHANGED <<live, gate, kind, board, cast, run, ctrl, updates, terminal, wakes, crashes, shown>>

(* A hard interrupt cancels the gates, which close their questions.        *)
Interrupts ==
  IF ~Busy THEN UNCHANGED <<log, turn, mail, gate, board>>
  ELSE /\ Ends
       /\ gate'  = [q \in Questions |-> IF q \in Held THEN "over" ELSE gate[q]]
       /\ board' = [q \in Questions |-> IF q \in Held THEN "closed" ELSE board[q]]

-----------------------------------------------------------------------------
(* `drive': the task behind a Run.                                         *)

Shows(q) == updates' = Append(updates, [u |-> "ask", q |-> q]) /\ shown' = [shown EXCEPT ![q] = @ + 1]
Silent == UNCHANGED <<updates, shown>>

(* Subscribe first; then show the questions of sub-agents that wait.       *)
Subscribe ==
  /\ run.phase = "opening" /\ live' = TRUE
  /\ run' = [run EXCEPT !.phase = "subscribed", !.from = Len(log), !.pos = Len(log)]
  /\ cast' = <<>>
  /\ UNCHANGED <<log, turn, mail, gate, kind, board, ctrl, updates, terminal, wakes, crashes, shown>>

Backlog ==
  /\ run.phase = "subscribed" /\ run' = [run EXCEPT !.phase = "backlog"]
  /\ LET open == {q \in Forwarded : board[q] = "open"} IN
     /\ updates' = updates \o SetToSeq({[u |-> "ask", q |-> q] : q \in open})
     /\ shown' = [q \in Questions |-> IF q \in open THEN shown[q] + 1 ELSE shown[q]]
  /\ UNCHANGED <<session, board, cast, ctrl, terminal, wakes, crashes>>

SendFirst ==
  /\ run.phase = "backlog"
  /\ Hears("submit", run.first)
  /\ run' = [run EXCEPT !.phase = "following"]
  /\ UNCHANGED <<live, log, gate, kind, board, cast, ctrl, updates, terminal, wakes, crashes, shown>>

(* Mutant: a question not open yet is left to the board.                   *)
AskedUnheeded(q) ==
  /\ run' = [run EXCEPT !.pos = @ + 1]
  /\ IF board[q] = "open" THEN Shows(q) ELSE Silent

(* A question reaches the client once it is known to need a human.         *)
AskedEvent(q) ==
  /\ IF board[q] = "open" THEN Shows(q) ELSE Silent
  /\ run' = [run EXCEPT !.pos = @ + 1,
                        !.waiting = IF board[q] \in {"open", "answered"} THEN @ ELSE @ \cup {q}]

DriveEvent ==
  /\ run.phase = "following" /\ run.pos < Len(log)
  /\ LET event == log[run.pos + 1] IN
     IF event.e = "asked" THEN AskedEvent(event.q) /\ UNCHANGED <<ctrl, cast>>
     ELSE /\ updates' = Append(updates, [u |-> "done", q |-> event.q])
          /\ run' = [NoRun EXCEPT !.phase = "done"]
          /\ ctrl' = <<>> /\ cast' = <<>> /\ UNCHANGED shown
  /\ UNCHANGED <<session, board, terminal, wakes, crashes>>

(* Mutant: whatever is opened is shown.                                    *)
AnnouncedTwice(q) == TRUE
Announced(q) == q \in Forwarded \cup run.waiting

DriveCast ==
  /\ run.phase = "following" /\ cast # <<>> /\ cast' = Tail(cast)
  /\ IF Announced(Head(cast)) THEN Shows(Head(cast)) ELSE Silent
  /\ run' = [run EXCEPT !.waiting = @ \ {Head(cast)}]
  /\ UNCHANGED <<session, board, ctrl, terminal, wakes, crashes>>

DriveCtrl ==
  /\ run.phase = "following" /\ ctrl # <<>> /\ ctrl' = Tail(ctrl)
  /\ LET c == Head(ctrl) IN
     CASE c.c = "steer" -> Hears("steer", c.text) /\ UNCHANGED <<log, gate, board>>
       [] c.c = "interrupt" -> Interrupts
       [] c.c = "answer" -> /\ board' = IF board[c.q] = "open" THEN [board EXCEPT ![c.q] = "answered"] ELSE board
                            /\ UNCHANGED <<log, turn, mail, gate>>
  /\ UNCHANGED <<live, kind, cast, run, updates, terminal, wakes, crashes, shown>>

-----------------------------------------------------------------------------
(* The terminal.                                                           *)

Tells(cs) == ctrl' = IF run.phase = "done" THEN ctrl ELSE ctrl \o cs
Quiet == UNCHANGED <<session, board, cast, wakes, crashes>>

(* Repl::turn: a new Run, which starts when it is first polled.            *)
Say ==
  /\ repl = Prompt /\ Room /\ texts < MaxTexts /\ texts' = texts + 1
  /\ repl' = InTurn /\ run' = [NoRun EXCEPT !.phase = "opening", !.first = texts + 1]
  /\ ctrl' = <<>> /\ updates' = <<>> /\ shown' = Unseen
  /\ UNCHANGED <<mode, granted>> /\ Quiet

SetMode(m) ==
  /\ repl = Prompt /\ mode # m /\ mode' = m
  /\ UNCHANGED <<repl, granted, texts, run, ctrl, updates, shown>> /\ Quiet

(* A line typed during the turn; what was sent to a run that is over is    *)
(* nowhere.                                                                *)
Steer ==
  /\ repl = InTurn /\ Room /\ texts < MaxTexts /\ texts' = texts + 1
  /\ Tells(<<[c |-> "steer", text |-> texts + 1]>>)
  /\ UNCHANGED <<repl, mode, granted, run, updates, shown>> /\ Quiet

CtrlC ==
  /\ repl = InTurn /\ [c |-> "interrupt"] \notin Range(ctrl) /\ Tells(<<[c |-> "interrupt"]>>)
  /\ UNCHANGED <<repl, mode, granted, texts, run, updates, shown>> /\ Quiet

Render ==
  /\ repl = InTurn /\ updates # <<>> /\ updates' = Tail(updates)
  /\ repl' = IF Head(updates).u = "done" THEN Prompt
             ELSE [at |-> "ask", ask |-> Head(updates).q]
  /\ UNCHANGED <<mode, granted, texts, run, ctrl, shown>> /\ Quiet

Asking == repl.at = "ask"

(* `ask': yes; yes to a plan, with a mode; no, because of an interrupt; or  *)
(* don't ask again, which changes the mode or grants before it answers.    *)
Allows(k) ==
  CASE k = "plan" -> mode' \in {"acceptEdits", "default"} /\ UNCHANGED granted
    [] k = "edit" -> mode' \in {mode, "acceptEdits"} /\ UNCHANGED granted
    [] k = "command" -> granted' \in {granted, TRUE} /\ UNCHANGED mode
    [] OTHER -> UNCHANGED <<mode, granted>>

Answer ==
  /\ Asking /\ repl' = InTurn
  /\ \/ Allows(kind[repl.ask]) /\ Tells(<<[c |-> "answer", q |-> repl.ask]>>)
     \/ /\ Tells(<<[c |-> "answer", q |-> repl.ask], [c |-> "interrupt"]>>)
        /\ UNCHANGED <<mode, granted>>
  /\ UNCHANGED <<texts, run, updates, shown>> /\ Quiet

-----------------------------------------------------------------------------
(* The process dies: the journal stays, and the gates it has outstanding   *)
(* are judged again when the session is next opened.                       *)
Crash ==
  /\ Outside /\ crashes' = crashes + 1
  /\ live' = FALSE
  /\ gate' = [q \in Questions |-> IF q \in Held THEN (IF q \in Asked THEN "judging" ELSE "over") ELSE gate[q]]
  /\ board' = [q \in Questions |-> IF q \in Held THEN "none" ELSE board[q]]
  /\ cast' = <<>> /\ run' = NoRun /\ ctrl' = <<>> /\ updates' = <<>>
  /\ repl' = Prompt /\ mode' = "default" /\ granted' = FALSE
  /\ shown' = Unseen
  /\ UNCHANGED <<log, turn, mail, kind, texts, wakes>>

Gates(q) == Judge(q) \/ Return(q)
Drive == Subscribe \/ Backlog \/ SendFirst \/ DriveEvent \/ DriveCast \/ DriveCtrl

Next ==
  \/ Wake \/ HearSteer \/ EndTurn
  \/ \E q \in Questions : Ask(q) \/ Forward(q) \/ Gates(q)
  \/ Drive
  \/ Say \/ (\E m \in {"default", "acceptEdits", "plan"} : SetMode(m)) \/ Steer \/ CtrlC \/ Render \/ Answer
  \/ Crash

Spec == Init /\ [][Next]_vars

(* Fairness: the tasks of the process run, turns end when nothing holds    *)
(* them, and the person answers what they are shown.                       *)
Fairness ==
  /\ WF_vars(EndTurn) /\ WF_vars(HearSteer) /\ (\A q \in Questions : WF_vars(Gates(q)))
  /\ WF_vars(Subscribe) /\ WF_vars(Backlog) /\ WF_vars(SendFirst)
  /\ WF_vars(DriveEvent) /\ WF_vars(DriveCast) /\ WF_vars(DriveCtrl)
  /\ WF_vars(Render) /\ WF_vars(Answer)

Live == Spec /\ Fairness

-----------------------------------------------------------------------------
(* No question of the session is put to the person twice by one run,       *)
(* although the journal and the board both tell it of each (`drive').      *)
AskOnce == \A q \in Asked : shown[q] <= 1

(* The person gets the prompt back, unless a question is open that the run *)
(* could not learn of: one asked before the run followed the session.      *)
Since(q) == q \in Forwarded \/ \E i \in DOMAIN log : i > run.from /\ log[i] = [e |-> "asked", q |-> q]
Unknown == \E q \in Questions : board[q] = "open" /\ ~Since(q)
PromptReturns == repl # Prompt ~> (repl = Prompt \/ Unknown)

(* "A question reaches the client once it is known to need a human: open   *)
(* and unanswered on the board."  It is false of a question that was asked *)
(* before the run began to follow, and is opened after.                    *)
AsksReach ==
  \A q \in Questions :
    (board[q] = "open" /\ run.phase = "following") ~> (shown[q] > 0 \/ board[q] # "open" \/ run.phase # "following")
=============================================================================
