------------------------------- MODULE Policy -------------------------------
(* What the first rings of the gate make of a call: built-in invariants,   *)
(* the rules of the profile and budgets; and how the configuration of a    *)
(* sub-agent is narrowed to its parent's.  The lines of Shell are judged   *)
(* with a profile's table of commands.                                     *)
EXTENDS Shell, Profile

CONSTANTS SelfConfig,      \* the resource of the agent's own configuration
          Tools            \* the tools there are

(* A kernel's configuration: the compiled profile, with its tools and what *)
(* the host offers.                                                        *)
Kernel(profile, host) ==
    LET sandbox == host.sandbox /\ profile.prefer # "none"
        added == [tools |-> Tools, sandbox |-> sandbox, isolation |-> sandbox /\ host.isolation,
                  untrusted |-> profile.untrusted \cup {Net(h) : h \in Hosts}]
    IN [f \in DOMAIN profile \cup DOMAIN added |-> IF f \in DOMAIN added THEN added[f] ELSE profile[f]]

InWorkspace(r) == r[1] = "fs" /\ r[2] \notin Outside
Covers(pattern, r) == pattern = r \/ (pattern = Workspace /\ InWorkspace(r))
Matching(patterns, r) == \E p \in patterns : Covers(p, r)

WritesOf(call) == {a \in call.access : a.mode = "write"}
SideEffecting(call) == call.class # "pure" \/ WritesOf(call) # {}
RunsIsolated(c, call) == call.isolated /\ c.isolation

(* The first access that says so makes the result of a call untrusted.     *)
Distrusted(c, call) ==
    \E a \in call.access :
        /\ a.mode = "read" \/ call.class = "opaque" \/ a.res = Cmd
        /\ ~Matching(c.sources, a.res)
        /\ \/ Matching(c.untrusted, a.res)
           \/ (a.res[1] = "fs" /\ (~InWorkspace(a.res) \/ ~c.trusted))
           \/ (a.res = Cmd /\ ~c.trusted)

ReadsPrivate(c, call) == \E a \in call.access : a.mode = "read" /\ Matching(c.private, a.res)

(* Ring 1, the invariants a call hits.  The facts of the session: whether  *)
(* it is tainted, has read private data, where it was allowed to send to.  *)
Exits(c, facts, call) ==
    {a \in call.access : /\ a.res[1] = "net" /\ ~Matching(c.egress, a.res)
                         /\ a.res \notin facts.destinations}
UnknownEffect(c, call) == call.class = "opaque" /\ call.tool # "agent"
Invariants(c, facts, call) ==
    LET private == facts.private \/ ReadsPrivate(c, call)
        unknown == UnknownEffect(c, call) /\ ~RunsIsolated(c, call)
    IN {hit \in {"exfiltration", "persistence", "self_modification", "unknown_effect"} :
          \/ /\ hit = "exfiltration" /\ facts.tainted /\ private
             /\ (Exits(c, facts, call) # {} \/ (unknown /\ ~c.sandbox))
          \/ /\ hit = "persistence" /\ facts.tainted
             /\ \E a \in WritesOf(call) : Matching(c.persistence, a.res)
          \/ (hit = "self_modification" /\ \E a \in WritesOf(call) : a.res = SelfConfig)
          \/ (hit = "unknown_effect" /\ unknown)}

-----------------------------------------------------------------------------
(* Ring 2, the rules: any, or those of a tool, a resource, a mode.         *)
Applies(rule, call, a) ==
    /\ rule.tool \in {"any", call.tool} /\ rule.mode \in {"any", a.mode}
    /\ (rule.resource = "any" \/ Covers(rule.resource, a.res))
Fires(rule, call) ==
    \/ \E a \in call.access : Applies(rule, call, a)
    \/ (rule.resource = "any" /\ rule.mode = "any" /\ rule.tool \in {"any", call.tool})

Mismatched(c, head, call) == (call.tool \in head) # (call.tool \in c.tools)

Fired(c, call, action) == {r \in c.rules : r.action = action /\ Fires(r, call)}
Covered(c, call) ==
    LET allows == Fired(c, call, "allow")
    IN \/ \E r \in allows : r.resource = "any" /\ r.mode = "any"
       \/ call.access # {} /\ \A a \in call.access : \E r \in allows : Applies(r, call, a)

(* A denial wins, then a question; what no rule covers is asked if it has  *)
(* side effects.  A call that runs isolated has none before its review.    *)
PolicyAction(c, head, call) ==
    IF \/ c.readOnly /\ SideEffecting(call)
       \/ Mismatched(c, head, call)
       \/ Fired(c, call, "deny") # {} THEN "deny"
    ELSE IF Fired(c, call, "ask") # {} THEN "ask"
    ELSE IF Covered(c, call) \/ ~SideEffecting(call) \/ RunsIsolated(c, call) THEN "allow" ELSE "ask"

(* Ring 3.  A budget of 0 is no limit.                                     *)
Exhausted(c, facts) ==
    \/ (c.tokens > 0 /\ facts.tokens >= c.tokens)
    \/ (c.calls > 0 /\ facts.ordinal > c.calls)

Strictness == <<"allow", "ask", "deny">>
StrictnessOf(v) == CHOOSE i \in DOMAIN Strictness : Strictness[i] = v

(* The verdict of the three rings.                                         *)
Evaluate(c, head, facts, call) ==
    LET action == PolicyAction(c, head, call)
    IN IF action = "deny" \/ Exhausted(c, facts) THEN "deny"
       ELSE IF action = "ask" \/ Invariants(c, facts, call) # {} THEN "ask" ELSE "allow"

(* The changes that an isolated call has staged, as a call that writes.    *)
ChangesOf(call, staged) ==
    [call EXCEPT !.access = {Writes(f) : f \in staged}, !.class = "local_write", !.isolated = FALSE]

(* A call of the shell tool.                                               *)
ShellCall(line, c) ==
    LET read == Analyze(line, Defaults \o c.shell, c.sandbox)
    IN [tool |-> "bash", class |-> read.class, access |-> read.access,
        isolated |-> read.opaque /\ c.isolation]

-----------------------------------------------------------------------------
(* The budgets of a child: what is left of the parent's; none when nothing *)
(* is left of a limited one.                                               *)
Within(limit, own) == IF own \in 1..limit THEN own ELSE limit
Carve(limit, used, own) ==
    IF limit = 0 THEN own ELSE IF limit > used THEN Within(limit - used, own) ELSE 0
NarrowLimit(p, c) == IF p = 0 THEN c ELSE Within(p, c)
MayDelegate(parent, facts) == parent.tokens = 0 \/ facts.tokens < parent.tokens

NotGranted(tool) == [resource |-> "any", tool |-> tool, mode |-> "any", action |-> "deny"]

(* Mutant of Narrow: what the child's own rules allow is allowed.          *)
NarrowKeepingAllows(child, parent, facts) ==
    [child EXCEPT !.rules = @ \cup parent.rules, !.readOnly = @ \/ parent.readOnly]

(* The configuration of a child within its parent's.                       *)
Narrow(child, parent, facts) ==
    [child EXCEPT
        !.tools       = @ \cap parent.tools,
        !.rules       = parent.rules \cup {NotGranted(t) : t \in child.tools \ parent.tools}
                            \cup {r \in @ : r.action # "allow"},
        !.tokens      = Carve(parent.tokens, facts.tokens, @),
        !.calls       = NarrowLimit(parent.calls, @),
        !.unattended  = parent.unattended,
        !.readOnly    = @ \/ parent.readOnly,
        !.private     = @ \cup parent.private,
        !.untrusted   = @ \cup parent.untrusted,
        !.persistence = @ \cup parent.persistence,
        !.egress      = @ \cap parent.egress,
        !.sources     = @ \cap parent.sources,
        !.trusted     = @ /\ parent.trusted,
        !.disposable  = @ /\ parent.disposable]

-----------------------------------------------------------------------------
(* Questions nobody needs to be asked: an auto-answer rule for the call,   *)
(* never for an invariant, or the answer for want of anybody to ask.       *)
Answer(c, level, call) ==
    LET rules == {r \in c.auto : r.tool = call.tool}
    IN IF level = "policy" /\ rules # {}
       THEN IF \E r \in rules : r.answer = "deny" THEN "deny" ELSE "allow"
       ELSE IF c.unattended = "none" THEN "ask"
       ELSE IF level = "policy" THEN c.unattended
       ELSE IF c.disposable THEN "allow" ELSE "defer"
AnswerStrictness(a) == IF a = "allow" THEN 0 ELSE IF a = "deny" THEN 2 ELSE 1
=============================================================================
