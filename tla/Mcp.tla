-------------------------------- MODULE Mcp --------------------------------
(***************************************************************************)
(* The client of an MCP server (tools/src/mcp.rs): the handshake and the   *)
(* listing of tools, then calls that run side by side, each with an id of  *)
(* its own, over the pipes of a child process (stdio), over requests of    *)
(* their own (http), or over requests with one event stream for all        *)
(* answers (sse), which is what a server that refuses http is spoken to    *)
(* with.  Calls time out, are cancelled at any point, and the server       *)
(* answers late, in any order, asks the client, hangs, or goes away.       *)
(*                                                                         *)
(* A line on the pipe is written in two pieces, as `write_all' may be.     *)
(* What the answers say, the SSE framing and the headers are left out.     *)
(***************************************************************************)
EXTENDS Naturals, SequencesExt, FiniteSets

CONSTANTS
  Tools,     \* calls of tools that may run side by side
  Links,     \* transports the client may start with, of {"stdio", "http"}
  MaxMade,   \* bound on the requests made
  MaxPipe,   \* pieces a pipe holds, messages a stream holds
  MaxAsks    \* bound on the server's own requests

Callers == Tools \cup {"setup"}

VARIABLES
  link,      \* McpClient::transport
  stage,     \* of the setup: what is being done
  nextId,    \* McpClient::next_id
  made,      \* requests made so far: tells two requests of one id apart
  call,      \* the request of each caller
  pending,   \* McpClient::pending, the ids that have a sender
  lock,      \* who holds stdin
  waiting,   \* who waits for it, first come first served
  reader,    \* the task that reads the server's messages
  input,     \* the server's standard input
  line,      \* pieces of the line it is reading
  unanswered, \* requests it has read and not answered
  stream,    \* its messages: one stream for all, or one for each POST
  server,    \* "up", "hung" or "gone"
  asks

client == <<stage, nextId, made, call, pending, lock, waiting, reader>>
remote == <<input, line, unanswered, stream, server, asks>>
clientVars == <<link, client, remote>>

Streams == Callers \cup {"all"}
Nothing == [m |-> "none"]
NoCall  == [phase |-> "idle", id |-> 0, nr |-> 0, box |-> Nothing]
Active(c) == call[c].phase \notin {"idle", "done"}

(* The client is made with its transport and begins to initialize.         *)
ClientInit ==
  /\ link \in Links /\ stage = "connect" /\ nextId = 1 /\ made = 0
  /\ call = [c \in Callers |-> NoCall] /\ pending = {}
  /\ lock = "none" /\ waiting = <<>> /\ reader = "reading"
  /\ input = <<>> /\ line = <<>> /\ unanswered = {}
  /\ stream = [s \in Streams |-> <<>>] /\ server = "up" /\ asks = 0

-----------------------------------------------------------------------------
(* `request': a fresh id, a place for the answer, and the way out.         *)

(* Mutant: the next id is the first place free among those that wait.      *)
NextIdFree == nextId' = Cardinality(pending \cup {nextId}) + 1
NextId == nextId' = nextId + 1

Phase == IF link = "http" THEN "posting" ELSE "writing"

Queue(c) == IF link = "stdio" THEN waiting' = Append(waiting, c) ELSE UNCHANGED waiting

Request(c) ==
  /\ made < MaxMade
  /\ NextId /\ made' = made + 1
  /\ call' = [call EXCEPT ![c] = [phase |-> Phase, id |-> nextId, nr |-> made + 1, box |-> Nothing]]
  /\ pending' = IF link = "http" THEN pending ELSE pending \cup {nextId}
  /\ Queue(c)
  /\ stream' = IF link = "http" THEN [stream EXCEPT ![c] = <<>>] ELSE stream
  /\ UNCHANGED <<link, lock, reader, input, line, unanswered, server, asks>>

(* `notify' has no id and waits for no answer.                             *)
NotifyServer(c) ==
  /\ call' = [call EXCEPT ![c] = [phase |-> "writing", id |-> 0, nr |-> 0, box |-> Nothing]]
  /\ Queue(c)
  /\ UNCHANGED <<link, nextId, made, pending, lock, reader, remote>>

(* McpTool::call on an idle connection, as the kernel has admitted it.     *)
Call(c) == c \in Tools /\ stage = "open" /\ ~Active(c) /\ Request(c) /\ UNCHANGED stage

Ends(c, result) == call' = [call EXCEPT ![c].phase = "done", ![c].box = [m |-> result]]
Unlocks(c) == lock' = (IF lock = c THEN "none" ELSE lock) /\ waiting' = SelectSeq(waiting, LAMBDA x : x # c)
Forget(c)  == pending' = pending \ {call[c].id}

-----------------------------------------------------------------------------
(* `write' on the pipe: under the lock, in two pieces.                     *)

Piece(c, first, last) == [id |-> call[c].id, nr |-> call[c].nr, first |-> first, last |-> last]
Room == server # "gone" /\ Len(input) < MaxPipe

Lock ==
  /\ lock = "none" /\ waiting # <<>>
  /\ lock' = Head(waiting) /\ waiting' = Tail(waiting)
  /\ UNCHANGED <<link, stage, nextId, made, call, pending, reader, remote>>

WriteFirst(c) ==
  /\ lock = c /\ call[c].phase = "writing" /\ Room
  /\ input' = Append(input, Piece(c, TRUE, FALSE))
  /\ call' = [call EXCEPT ![c].phase = "finishing"]
  /\ UNCHANGED <<link, stage, nextId, made, pending, lock, waiting, reader, line, unanswered, stream, server, asks>>

WriteLast(c) ==
  /\ lock = c /\ call[c].phase = "finishing" /\ Room
  /\ input' = Append(input, Piece(c, FALSE, TRUE))
  /\ call' = [call EXCEPT ![c].phase = IF call[c].id = 0 THEN "done" ELSE "waiting"]
  /\ Unlocks(c)
  /\ UNCHANGED <<link, stage, nextId, made, pending, reader, line, unanswered, stream, server, asks>>

WriteFails(c) ==
  /\ lock = c /\ call[c].phase \in {"writing", "finishing"} /\ server = "gone"
  /\ Ends(c, "io") /\ Forget(c) /\ Unlocks(c)
  /\ UNCHANGED <<link, stage, nextId, made, reader, remote>>

(* `write' over sse: a POST; it may fail though the server has it.         *)
Told(c) == IF call[c].id = 0 THEN unanswered ELSE unanswered \cup {[id |-> call[c].id, nr |-> call[c].nr]}

Post(c) ==
  /\ link # "stdio" /\ call[c].phase = "writing"
  /\ \/ /\ server = "up" /\ unanswered' = Told(c)
        /\ call' = [call EXCEPT ![c].phase = IF call[c].id = 0 THEN "done" ELSE "waiting"]
        /\ UNCHANGED pending
     \/ /\ server = "up" /\ unanswered' \in {unanswered, Told(c)} /\ Ends(c, "io") /\ Forget(c)
     \/ server = "gone" /\ Ends(c, "io") /\ Forget(c) /\ UNCHANGED unanswered
  /\ UNCHANGED <<link, stage, nextId, made, lock, waiting, reader, input, line, stream, server, asks>>

(* HttpTransport::request: the answer comes back on the POST's own stream; *)
(* what else comes there is passed over, and the server's requests are     *)
(* answered by POSTs of their own.                                         *)
HttpSend(c) ==
  /\ call[c].phase = "posting"
  /\ \/ server = "up" /\ unanswered' = Told(c) /\ call' = [call EXCEPT ![c].phase = "streaming"]
     \/ server = "up" /\ \E e \in {"refused", "io"} : Ends(c, e) /\ UNCHANGED unanswered
     \/ server = "gone" /\ Ends(c, "io") /\ UNCHANGED unanswered
  /\ UNCHANGED <<link, stage, nextId, made, pending, lock, waiting, reader, input, line, stream, server, asks>>

HttpRead(c) ==
  /\ call[c].phase = "streaming"
  /\ \/ /\ stream[c] # <<>>
        /\ LET m == Head(stream[c]) IN
           IF m.m = "answer" /\ m.id = call[c].id THEN call' = [call EXCEPT ![c].phase = "done", ![c].box = m]
           ELSE UNCHANGED call
        /\ stream' = [stream EXCEPT ![c] = Tail(@)]
     \/ /\ stream[c] = <<>> /\ server # "hung"
        /\ Ends(c, "closed") /\ UNCHANGED stream
  /\ UNCHANGED <<link, stage, nextId, made, pending, lock, waiting, reader, input, line, unanswered, server, asks>>

-----------------------------------------------------------------------------
(* The task that reads the pipe, or the event stream.                      *)

Deliver(p, m) ==
  /\ p = m.id
  /\ pending' = pending \ {p}
  /\ call' = [c \in Callers |-> IF p \in pending /\ call[c].id = p /\ call[c].phase \in {"writing", "finishing", "waiting"}
                                THEN [call[c] EXCEPT !.box = m] ELSE call[c]]

Read ==
  /\ link # "http" /\ reader = "reading" /\ stream["all"] # <<>>
  /\ LET m == Head(stream["all"]) IN
     IF m.m = "answer" THEN Deliver(m.id, m) /\ UNCHANGED <<reader, waiting>>
     ELSE IF m.m = "ask" THEN reader' = "replying" /\ Queue("reader") /\ UNCHANGED <<call, pending>>
     ELSE UNCHANGED <<reader, waiting, call, pending>>
  /\ stream' = [stream EXCEPT !["all"] = Tail(@)]
  /\ UNCHANGED <<link, stage, nextId, made, lock, input, line, unanswered, server, asks>>

(* `reply_to': it needs the lock and room in the pipe, or a POST.          *)
Reply ==
  /\ reader = "replying" /\ reader' = "reading"
  /\ IF link = "stdio"
     THEN /\ lock = "reader" /\ Unlocks("reader")
          /\ \/ Room /\ input' = Append(input, [id |-> 0, nr |-> 0, first |-> TRUE, last |-> TRUE])
             \/ server = "gone" /\ UNCHANGED input
     ELSE server # "hung" /\ UNCHANGED <<lock, waiting, input>>
  /\ UNCHANGED <<link, stage, nextId, made, call, pending, line, unanswered, stream, server, asks>>

(* The end of the stream: `fail_all'.                                      *)
FailAll ==
  /\ link # "http" /\ reader = "reading" /\ stream["all"] = <<>> /\ server = "gone"
  /\ reader' = "ended" /\ pending' = {}
  /\ call' = [c \in Callers |-> IF Active(c) /\ call[c].id \in pending
                                THEN [call[c] EXCEPT !.box = [m |-> "closed"]] ELSE call[c]]
  /\ UNCHANGED <<link, stage, nextId, made, lock, waiting, remote>>

-----------------------------------------------------------------------------
(* How a request ends.                                                     *)

Take(c) ==
  /\ call[c].phase = "waiting" /\ call[c].box # Nothing
  /\ call' = [call EXCEPT ![c].phase = "done"]
  /\ UNCHANGED <<link, stage, nextId, made, pending, lock, waiting, reader, remote>>

(* Mutant: only requests over http have the timeout.                       *)
TimesOutPosted(c) == call[c].phase \in {"posting", "streaming"}
TimesOut(c) == call[c].phase \in {"posting", "streaming", "waiting"} /\ call[c].box = Nothing

TimeOut(c) ==
  /\ TimesOut(c) /\ Ends(c, "timeout") /\ Forget(c)
  /\ UNCHANGED <<link, stage, nextId, made, lock, waiting, reader, remote>>

(* The call is dropped where it is: half a line may stay behind, and the   *)
(* sender stays in `pending'.                                              *)
CancelCall(c) ==
  /\ c \in Tools /\ Active(c)
  /\ Ends(c, "cancelled") /\ Unlocks(c)
  /\ UNCHANGED <<link, stage, nextId, made, pending, reader, remote>>

-----------------------------------------------------------------------------
(* `spawn', `connect', `initialize', `list_tools'.                         *)

Setup == call["setup"]
Answered == Setup.phase = "done" /\ Setup.box.m \in {"none", "answer"}

Initialize == stage = "connect" /\ Request("setup") /\ stage' = "initialize"

Initialized == stage = "initialize" /\ Answered /\ NotifyServer("setup") /\ stage' = "notify"

(* A failed notification fails the connection; else the tools are listed,  *)
(* page after page.                                                        *)
ListTools ==
  /\ stage \in {"notify", "list"} /\ Answered
  /\ Request("setup") /\ stage' = "list"

Listed == stage = "list" /\ Answered /\ stage' = "open" /\ UNCHANGED <<link, nextId, made, call, pending, lock, waiting, reader, remote>>

(* A server that refuses the POST of `initialize' is asked for its event   *)
(* stream, with a client made anew.                                        *)
ConnectSse ==
  /\ stage = "initialize" /\ Setup.box.m = "refused" /\ link' = "sse"
  /\ stage' = "endpoint" /\ nextId' = 1 /\ call' = [call EXCEPT !["setup"] = NoCall]
  /\ unanswered' = {} /\ stream' = [s \in Streams |-> <<>>]
  /\ UNCHANGED <<made, pending, lock, waiting, reader, input, line, server, asks>>

Endpoint == stage = "endpoint" /\ server = "up" /\ Request("setup") /\ stage' = "initialize"

Fail ==
  /\ \/ stage = "endpoint"
     \/ stage \in {"initialize", "notify", "list"} /\ Setup.phase = "done" /\ ~Answered
        /\ ~(stage = "initialize" /\ Setup.box.m = "refused")
  /\ stage' = "failed" /\ UNCHANGED <<link, nextId, made, call, pending, lock, waiting, reader, remote>>

-----------------------------------------------------------------------------
(* The server, as the client may find it: it takes each line for what it   *)
(* is, answers what it has read, asks, tells, hangs, and goes away.        *)

ServerReads ==
  /\ server = "up" /\ input # <<>>
  /\ LET p == Head(input)  l == Append(line, p) IN
     /\ input' = Tail(input)
     /\ line' = IF p.last THEN <<>> ELSE l
     /\ unanswered' = IF p.last /\ p.id # 0 /\ Len(l) = 2 /\ l[1].nr = p.nr /\ l[1].first
                 THEN unanswered \cup {[id |-> p.id, nr |-> p.nr]} ELSE unanswered
  /\ UNCHANGED <<link, client, stream, server, asks>>

Sends(m) ==
  /\ \E s \in Streams :
       /\ IF link = "http" THEN s \in Callers /\ call[s].phase = "streaming" ELSE s = "all"
       /\ Len(stream[s]) < MaxPipe
       /\ stream' = [stream EXCEPT ![s] = Append(@, m)]
  /\ UNCHANGED <<link, client, input, line, server>>

ServerAnswers ==
  /\ server = "up"
  /\ \E h \in unanswered : Sends([m |-> "answer", id |-> h.id, nr |-> h.nr]) /\ unanswered' = unanswered \ {h}
  /\ UNCHANGED asks

ServerAsks ==
  /\ server = "up" /\ asks < MaxAsks /\ asks' = asks + 1
  /\ \E kind \in {"ask", "tell"} : Sends([m |-> kind])
  /\ UNCHANGED unanswered

ServerStops ==
  /\ \/ server = "up" /\ server' \in {"hung", "gone"}
     \/ server = "hung" /\ server' = "gone"
  /\ UNCHANGED <<link, client, input, line, unanswered, stream, asks>>

-----------------------------------------------------------------------------
Progress(c) ==
  \/ WriteFirst(c) \/ WriteLast(c) \/ WriteFails(c) \/ Post(c) \/ HttpSend(c) \/ HttpRead(c)
  \/ Take(c) \/ TimeOut(c)

Reader == Read \/ Reply \/ FailAll

ClientNext ==
  \/ Initialize \/ Initialized \/ ListTools \/ Listed \/ ConnectSse \/ Endpoint \/ Fail
  \/ \E c \in Callers : Call(c) \/ Progress(c) \/ CancelCall(c)
  \/ Lock \/ Reader
  \/ ServerReads \/ ServerAnswers \/ ServerAsks \/ ServerStops

ClientSpec == ClientInit /\ [][ClientNext]_clientVars

(* Fairness: tasks that can go on do, the timeout fires, and a server that *)
(* is up reads what it is sent.                                            *)
ClientFairness ==
  /\ WF_clientVars(Lock) /\ WF_clientVars(Reader) /\ WF_clientVars(ServerReads)
  /\ \A c \in Callers : WF_clientVars(Progress(c))

ClientLive == ClientSpec /\ ClientFairness

-----------------------------------------------------------------------------
(* A call is given the answer to its own request and to no other, however  *)
(* late others are answered, whatever was cancelled, and whatever stream   *)
(* an answer comes on (`request', `deliver').                              *)
AnswerMine ==
  \A c \in Callers : call[c].box.m = "answer" => call[c].box.nr = call[c].nr

(* A request ends, with the answer or an error, unless it is being written *)
(* to a server that hangs: over http all but the `initialized'             *)
(* notification is under the timeout, else only the wait for the answer    *)
(* is (`request', `write').                                                *)
Stuck(c) == server = "hung" /\ call[c].phase \in {"writing", "finishing"}
CallsEnd == \A c \in Callers : Active(c) ~> (~Active(c) \/ Stuck(c))
=============================================================================
