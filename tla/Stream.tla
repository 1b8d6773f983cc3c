------------------------------- MODULE Stream -------------------------------
(***************************************************************************)
(* A reply on its way from the model to the kernel: the vendor's events,   *)
(* the mapper of each vendor and `delta_stream' (adapters/src/model), the  *)
(* layers `retry(n).rate_limit(q)' around the port, the sampling effect    *)
(* (runtime/src/dispatch.rs) and the Assembler.                            *)
(*                                                                         *)
(* What a model says is a sequence of tokens: a piece of text, the start   *)
(* of a call, or a piece of its input.  A token knows the attempt that     *)
(* said it and its place there.  Thinking is text; usage, stop reasons,    *)
(* the bytes of an event, prices and the quota per minute are left out.    *)
(***************************************************************************)
EXTENDS Naturals, SequencesExt

CONSTANTS
  Sessions,
  Vendor,      \* "anthropic" or "openai", of each session
  Permits,     \* Quota: streams at a time
  MaxRetries,  \* RetryPolicy::max_retries
  MaxSaid,     \* bound on the tokens, and on the blocks, of one attempt
  MaxWire      \* bound on the events that are under way

ASSUME StreamAssumption ==
  /\ Vendor \in [Sessions -> {"anthropic", "openai"}]
  /\ Permits \in Nat /\ MaxRetries \in Nat /\ MaxSaid \in Nat /\ MaxWire \in Nat

VARIABLES
  phase,       \* the request of each session
  queue,       \* sessions that wait for a permit, first come first served
  free,        \* permits left
  attempt,     \* Retry: retries so far
  emitted,     \* Retry: a delta has been handed on
  vendor,      \* the server: the block it is in, and what it has still to send
  said,        \* what it has said in this attempt
  wire,        \* events on their way
  mapper,      \* the StreamMapper of this attempt
  deltas,      \* delta_stream: deltas not yet handed on
  parts,       \* Assembler::parts
  streamed,    \* calls handed to the kernel before the reply
  reply        \* how each request has ended

port  == <<vendor, said, wire, mapper, deltas>>
modelVars == <<phase, queue, free, attempt, emitted, port, parts, streamed, reply>>

Serving    == [open |-> "none", blocks |-> 0, left |-> "content"]
NewMapper  == [open |-> {}, stop |-> FALSE, finished |-> FALSE]

ModelInit ==
  /\ phase = [s \in Sessions |-> "idle"] /\ queue = <<>> /\ free = Permits
  /\ attempt = [s \in Sessions |-> 0] /\ emitted = [s \in Sessions |-> FALSE]
  /\ vendor = [s \in Sessions |-> Serving] /\ said = [s \in Sessions |-> <<>>]
  /\ wire = [s \in Sessions |-> <<>>] /\ mapper = [s \in Sessions |-> NewMapper]
  /\ deltas = [s \in Sessions |-> <<>>]
  /\ parts = [s \in Sessions |-> <<>>] /\ streamed = [s \in Sessions |-> <<>>]
  /\ reply = [s \in Sessions |-> "none"]

-----------------------------------------------------------------------------
(* The server answers with blocks, one after the other, may fail or close  *)
(* the connection at any point, and ends.                                  *)

Streaming(s) == phase[s] = "streaming"
Answering(s) == Streaming(s) /\ vendor[s].left # "nothing" /\ Len(wire[s]) < MaxWire
Emits(s, event) == wire' = [wire EXCEPT ![s] = Append(@, event)]
Token(s, kind)  == [kind |-> kind, of |-> attempt[s], at |-> Len(said[s])]
Says(s, token)  == said' = [said EXCEPT ![s] = Append(@, token)]
Serves(s, now)  == vendor' = [vendor EXCEPT ![s] = now]
Rest == <<phase, queue, free, attempt, emitted, mapper, deltas, parts, streamed, reply>>

(* content_block_start, or the first chunk of a tool call with a new index *)
(* (a chunk of text needs no start).                                       *)
OpenBlock(s, kind) ==
  /\ Answering(s) /\ vendor[s].left = "content" /\ Len(said[s]) < MaxSaid /\ vendor[s].blocks < MaxSaid
  /\ vendor[s].open = "none" \/ Vendor[s] = "openai"
  /\ LET block == vendor[s].blocks + 1  token == Token(s, "call") IN
     /\ Serves(s, [vendor[s] EXCEPT !.open = kind, !.blocks = block])
     /\ IF kind = "call"
        THEN Says(s, token) /\ Emits(s, [e |-> "open", kind |-> kind, block |-> block, token |-> token])
        ELSE /\ UNCHANGED said
             /\ IF Vendor[s] = "openai" THEN UNCHANGED wire
                ELSE Emits(s, [e |-> "open", kind |-> kind, block |-> block])
  /\ UNCHANGED Rest

Speak(s) ==
  /\ Answering(s) /\ vendor[s].open # "none" /\ Len(said[s]) < MaxSaid
  /\ LET kind  == IF vendor[s].open = "call" THEN "input" ELSE "text"
         token == Token(s, kind)
     IN Says(s, token) /\ Emits(s, [e |-> "delta", kind |-> kind, block |-> vendor[s].blocks, token |-> token])
  /\ UNCHANGED <<vendor, Rest>>

CloseBlock(s) ==
  /\ Answering(s) /\ vendor[s].open # "none" /\ Vendor[s] = "anthropic"
  /\ Emits(s, [e |-> "close", block |-> vendor[s].blocks])
  /\ Serves(s, [vendor[s] EXCEPT !.open = "none"])
  /\ UNCHANGED <<said, Rest>>

(* message_delta or finish_reason, then message_stop or [DONE], then the   *)
(* end of the body; some servers omit [DONE].                              *)
Conclude(s) ==
  /\ Answering(s)
  /\ vendor[s].open = "none" \/ Vendor[s] = "openai"
  /\ CASE vendor[s].left = "content" -> Emits(s, [e |-> "stopping"]) /\ Serves(s, [Serving EXCEPT !.left = "stop"])
       [] vendor[s].left = "stop" ->
            \/ Emits(s, [e |-> "stop"]) /\ Serves(s, [Serving EXCEPT !.left = "end"])
            \/ Vendor[s] = "openai" /\ Emits(s, [e |-> "end"]) /\ Serves(s, [Serving EXCEPT !.left = "nothing"])
       [] OTHER -> Emits(s, [e |-> "end"]) /\ Serves(s, [Serving EXCEPT !.left = "nothing"])
  /\ UNCHANGED <<said, Rest>>

(* An HTTP status, an `error' event, a reset of the connection, or its end *)
(* before the answer is over.                                              *)
Break(s) ==
  /\ Answering(s)
  /\ \E event \in {[e |-> "error", retryable |-> r] : r \in BOOLEAN} \cup {[e |-> "end"]} : Emits(s, event)
  /\ Serves(s, [vendor[s] EXCEPT !.left = "nothing"])
  /\ UNCHANGED <<said, Rest>>

-----------------------------------------------------------------------------
(* StreamMapper: the state after an event, and the deltas it gives.        *)

Gives(m, ds) == [mapper |-> m, deltas |-> ds]
Text(token)  == [d |-> "text", token |-> token]
Begin(token) == [d |-> "start", token |-> token]
Input(token) == [d |-> "input", token |-> token]
End  == [d |-> "end"]
Stop == [d |-> "stop"]
Error(retryable) == [d |-> "error", retryable |-> retryable]
Cut == Error(TRUE)
Finished(m) == [m EXCEPT !.finished = TRUE]

(* AnthropicStreamMapper: blocks by index, `open' those that are calls.    *)
Anthropic(m, event) ==
  CASE event.e = "open" /\ event.kind = "call" -> Gives([m EXCEPT !.open = @ \cup {event.block}], <<Begin(event.token)>>)
    [] event.e = "delta" /\ event.kind = "text" -> Gives(m, <<Text(event.token)>>)
    [] event.e = "delta" /\ event.kind = "input" ->
         Gives(m, IF event.block \in m.open THEN <<Input(event.token)>> ELSE <<>>)
    [] event.e = "close" -> Gives([m EXCEPT !.open = @ \ {event.block}], IF event.block \in m.open THEN <<End>> ELSE <<>>)
    [] event.e = "stop" -> Gives(Finished(m), <<Stop>>)
    [] event.e = "end" -> Gives(Finished(m), <<Cut>>)
    [] OTHER -> Gives(m, <<>>)

(* OpenAiStreamMapper: no event ends a call, the next chunk does.          *)
CloseTool(m) == IF m.open # {} THEN <<End>> ELSE <<>>
Closed(m)    == [m EXCEPT !.open = {}]
Terminal(m)  == Gives(Finished(Closed(m)), CloseTool(m) \o <<Stop>>)
OpenAi(m, event) ==
  CASE event.e = "open" -> Gives([m EXCEPT !.open = {event.block}], CloseTool(m) \o <<Begin(event.token)>>)
    [] event.e = "delta" /\ event.kind = "text" -> Gives(Closed(m), CloseTool(m) \o <<Text(event.token)>>)
    [] event.e = "delta" /\ event.kind = "input" -> Gives(m, <<Input(event.token)>>)
    [] event.e = "stopping" -> Gives([Closed(m) EXCEPT !.stop = TRUE], CloseTool(m))
    [] event.e = "stop" -> Terminal(m)
    [] OTHER -> IF m.stop THEN Terminal(m) ELSE Gives(Finished(m), <<Cut>>)

Mapped(s, event) ==
  LET m == mapper[s] IN
  IF m.finished THEN Gives(m, <<>>)
  ELSE IF event.e = "error" THEN Gives(Finished(m), <<Error(event.retryable)>>)
  ELSE IF Vendor[s] = "anthropic" THEN Anthropic(m, event) ELSE OpenAi(m, event)

(* delta_stream: the deltas of an event go before the next event.          *)
ReadEvent(s) ==
  /\ Streaming(s) /\ deltas[s] = <<>> /\ wire[s] # <<>>
  /\ LET got == Mapped(s, Head(wire[s])) IN
     mapper' = [mapper EXCEPT ![s] = got.mapper] /\ deltas' = [deltas EXCEPT ![s] = got.deltas]
  /\ wire' = [wire EXCEPT ![s] = Tail(@)]
  /\ UNCHANGED <<phase, queue, free, attempt, emitted, vendor, said, parts, streamed, reply>>

-----------------------------------------------------------------------------
(* Assembler::push                                                         *)

Part(kind, token) == [kind |-> kind, tokens |-> <<token>>, open |-> kind = "call"]
OpenCalls(ps) == {i \in DOMAIN ps : ps[i].open}
LastCall(ps)  == CHOOSE i \in OpenCalls(ps) : \A j \in OpenCalls(ps) : j <= i
CloseCall(ps) == IF OpenCalls(ps) = {} THEN ps ELSE [ps EXCEPT ![LastCall(ps)].open = FALSE]
Completed(ps) == IF OpenCalls(ps) = {} THEN <<>> ELSE <<ps[LastCall(ps)].tokens>>

Push(ps, d) ==
  CASE d.d = "text" ->
         IF ps # <<>> /\ Last(ps).kind = "text" THEN [ps EXCEPT ![Len(ps)].tokens = Append(@, d.token)]
         ELSE Append(ps, Part("text", d.token))
    [] d.d = "start" -> Append(CloseCall(ps), Part("call", d.token))
    [] d.d = "input" -> IF OpenCalls(ps) = {} THEN ps ELSE [ps EXCEPT ![LastCall(ps)].tokens = Append(@, d.token)]
    [] d.d = "end"   -> CloseCall(ps)
    [] OTHER -> ps

Tokens(ps) == FlattenSeq([i \in DOMAIN ps |-> ps[i].tokens])
Calls(ps)  == FlattenSeq([i \in DOMAIN ps |-> IF ps[i].kind = "call" THEN <<ps[i].tokens>> ELSE <<>>])

-----------------------------------------------------------------------------
(* Sampling, through the layers.  With the stream all its state is        *)
(* dropped; the reply is what `Assembled' gives at that point.             *)

Reset(s) ==
  /\ vendor' = [vendor EXCEPT ![s] = Serving] /\ wire' = [wire EXCEPT ![s] = <<>>]
  /\ mapper' = [mapper EXCEPT ![s] = NewMapper] /\ deltas' = [deltas EXCEPT ![s] = <<>>]

(* Assembler::finish and ::partial: a call that is still open is dropped.  *)
Kept(ps)     == FlattenSeq([i \in DOMAIN ps |-> IF ps[i].open THEN <<>> ELSE <<ps[i]>>])
Assembled(s) == Kept(parts[s])

Over(s, kind) ==
  /\ phase' = [phase EXCEPT ![s] = "ended"]
  /\ reply' = [reply EXCEPT ![s] = kind]
  /\ Reset(s) /\ said' = [said EXCEPT ![s] = <<>>]
  /\ parts' = [parts EXCEPT ![s] = <<>>] /\ streamed' = [streamed EXCEPT ![s] = <<>>]
  /\ attempt' = [attempt EXCEPT ![s] = 0] /\ emitted' = [emitted EXCEPT ![s] = FALSE]

(* Mutant of Release: the permit is given back when the model says stop.   *)
ReleaseAtStop(s) == free' = IF Streaming(s) /\ deltas[s] # <<>> /\ Head(deltas[s]).d = "stop" THEN free + 1 ELSE free

(* The permit lives as long as the stream it was taken for.                *)
Release(s) == free' = IF phase[s] \in {"streaming", "backoff"} THEN free + 1 ELSE free

Start(s) ==
  /\ phase[s] = "idle"
  /\ phase' = [phase EXCEPT ![s] = "waiting"] /\ queue' = Append(queue, s)
  /\ UNCHANGED <<free, attempt, emitted, port, parts, streamed, reply>>

Acquire(s) ==
  /\ phase[s] = "waiting" /\ queue # <<>> /\ Head(queue) = s /\ free > 0
  /\ queue' = Tail(queue) /\ free' = free - 1
  /\ phase' = [phase EXCEPT ![s] = "streaming"]
  /\ UNCHANGED <<attempt, emitted, port, parts, streamed, reply>>

(* Mutant of Retries: also when something has been handed on.              *)
RetriesAnyway(s, d) == d.retryable /\ attempt[s] < MaxRetries

(* Retry: nothing has been handed on, the error may pass, and there are    *)
(* retries left.                                                           *)
Retries(s, d) == ~emitted[s] /\ d.retryable /\ attempt[s] < MaxRetries

Fails(s) ==
  /\ Streaming(s) /\ deltas[s] # <<>> /\ Head(deltas[s]).d = "error"
  /\ IF Retries(s, Head(deltas[s]))
     THEN /\ phase' = [phase EXCEPT ![s] = "backoff"]
          /\ attempt' = [attempt EXCEPT ![s] = @ + 1]
          /\ Reset(s)
          /\ UNCHANGED <<free, emitted, said, parts, streamed, reply>>
     ELSE Over(s, "failed") /\ Release(s)
  /\ UNCHANGED queue

Resend(s) ==
  /\ phase[s] = "backoff"
  /\ phase' = [phase EXCEPT ![s] = "streaming"]
  /\ said' = [said EXCEPT ![s] = <<>>]
  /\ UNCHANGED <<queue, free, attempt, emitted, vendor, wire, mapper, deltas, parts, streamed, reply>>

(* A delta reaches the assembler; a call that is complete goes to the      *)
(* kernel at once.                                                         *)
HandOn(s) ==
  /\ Streaming(s) /\ deltas[s] # <<>> /\ Head(deltas[s]).d \notin {"error", "stop"}
  /\ LET d == Head(deltas[s]) IN
     /\ parts' = [parts EXCEPT ![s] = Push(@, d)]
     /\ streamed' = [streamed EXCEPT ![s] = IF d.d \in {"start", "end"} THEN @ \o Completed(parts[s]) ELSE @]
  /\ emitted' = [emitted EXCEPT ![s] = TRUE]
  /\ deltas' = [deltas EXCEPT ![s] = Tail(@)]
  /\ UNCHANGED <<phase, queue, free, attempt, vendor, said, wire, mapper, reply>>

(* The stream is over after its first Stop.                                *)
Finish(s) ==
  /\ Streaming(s) /\ deltas[s] # <<>> /\ Head(deltas[s]).d = "stop"
  /\ Over(s, "ok") /\ Release(s)
  /\ UNCHANGED queue

(* A hard interrupt drops the stream, wherever it is, and takes what the   *)
(* assembler has.                                                          *)
Interrupted(s) ==
  /\ phase[s] \in {"waiting", "streaming", "backoff"}
  /\ Over(s, "interrupted") /\ Release(s)
  /\ queue' = SelectSeq(queue, LAMBDA t : t # s)

ModelNext ==
  \E s \in Sessions :
    \/ Start(s) \/ Acquire(s) \/ Interrupted(s)
    \/ \E kind \in {"text", "call"} : OpenBlock(s, kind)
    \/ Speak(s) \/ CloseBlock(s) \/ Conclude(s) \/ Break(s)
    \/ ReadEvent(s) \/ HandOn(s) \/ Fails(s) \/ Resend(s) \/ Finish(s)

(* The runtime polls what is ready; a server that has been asked ends its  *)
(* answer some way.                                                        *)
ModelFairness ==
  \A s \in Sessions :
    /\ WF_modelVars(Acquire(s)) /\ WF_modelVars(ReadEvent(s)) /\ WF_modelVars(HandOn(s))
    /\ WF_modelVars(Fails(s)) /\ WF_modelVars(Resend(s)) /\ WF_modelVars(Finish(s))
    /\ WF_modelVars(CloseBlock(s) \/ Conclude(s) \/ Break(s))

ModelSpec == ModelInit /\ [][ModelNext]_modelVars /\ ModelFairness

-----------------------------------------------------------------------------
(* A reply that counts is what one attempt said, whole and in order, and   *)
(* its calls are those the kernel was handed early; one cut by an          *)
(* interrupt is the beginning of it.                                       *)
Whole(s) == Tokens(Assembled(s)) = said[s] /\ Calls(Assembled(s)) = streamed[s]
Beginning(s) == IsPrefix(Tokens(Assembled(s)), said[s]) /\ IsPrefix(Calls(Assembled(s)), streamed[s])
ReplyFaithful ==
  [][\A s \in Sessions :
       phase'[s] # phase[s] => /\ reply'[s] = "ok" => Whole(s)
                               /\ reply'[s] = "interrupted" => Beginning(s)]_modelVars

(* Every request gets its turn and an end, whatever happens to those it    *)
(* shares the quota with.                                                  *)
RequestsEnd == \A s \in Sessions : phase[s] = "waiting" ~> phase[s] = "ended"
=============================================================================
