---------------------------- MODULE PolicyProofs ----------------------------
(* A configuration that is stricter than another gives every call a        *)
(* verdict at least as strict.  A sub-agent's configuration is stricter    *)
(* than its parent's, and a profile is stricter with the files of a        *)
(* project that is not trusted than without them.  And what a line of the  *)
(* shell writes by redirections is declared: the parser and the analysis   *)
(* are followed from token to token.                                       *)
EXTENDS Configuration, WellFoundedInduction, TLAPS

(* A configuration has these fields; those of its budgets are numbers.     *)
Fields == {"trusted", "disposable", "egress", "sources", "private", "untrusted", "persistence",
           "rules", "unattended", "auto", "hooks", "servers", "prefer", "require", "shell",
           "readOnly", "tokens", "calls", "tools", "sandbox", "isolation"}
IsConfig(c) ==
    /\ c = [f \in Fields |-> c[f]]
    /\ c.tokens \in Nat /\ c.calls \in Nat /\ c.readOnly \in BOOLEAN /\ c.trusted \in BOOLEAN

(* Of two configurations: what is set aside is no less, what is let out no *)
(* more, no other rule allows, every other rule holds, and nothing runs    *)
(* isolated that did not.                                                  *)
Stricter(n, p) ==
    /\ n.isolation => p.isolation
    /\ p.readOnly => n.readOnly
    /\ p.private \subseteq n.private /\ p.persistence \subseteq n.persistence
    /\ n.egress \subseteq p.egress
    /\ \A r \in p.rules : r.action # "allow" => r \in n.rules
    /\ \A r \in n.rules : r.action = "allow" => r \in p.rules

(* The facts of two sessions: no less tainted, no more destinations.       *)
Inherits(nf, pf) ==
    /\ pf.tainted => nf.tainted
    /\ pf.private => nf.private
    /\ nf.destinations \subseteq pf.destinations

-----------------------------------------------------------------------------
(* More patterns match more.                                               *)
LEMMA MatchingMore ==
  ASSUME NEW few, NEW many, few \subseteq many, NEW r, Matching(few, r)
  PROVE  Matching(many, r)
BY DEF Matching

(* A call that hits an invariant hits one under a stricter configuration:  *)
(* what might send anything anywhere where there is no sandbox, is also    *)
(* not known for its effects.                                              *)
LEMMA InvariantsStricter ==
  ASSUME NEW n, NEW p, NEW nf, NEW pf, NEW call, Stricter(n, p), Inherits(nf, pf),
         Invariants(p, pf, call) # {}
  PROVE  Invariants(n, nf, call) # {}
<1>1. /\ n.isolation => p.isolation
      /\ p.private \subseteq n.private /\ p.persistence \subseteq n.persistence
      /\ n.egress \subseteq p.egress
  BY DEF Stricter
<1>2. ReadsPrivate(p, call) => ReadsPrivate(n, call)
  BY <1>1, MatchingMore DEF ReadsPrivate
<1>3. Exits(p, pf, call) \subseteq Exits(n, nf, call)
  BY <1>1, MatchingMore DEF Exits, Inherits
<1>4. RunsIsolated(n, call) => RunsIsolated(p, call)
  BY <1>1 DEF RunsIsolated
<1>5. UnknownEffect(n, call) <=> UnknownEffect(p, call)
  BY DEF UnknownEffect
<1>6. (\E a \in WritesOf(call) : Matching(p.persistence, a.res))
        => \E a \in WritesOf(call) : Matching(n.persistence, a.res)
  BY <1>1, MatchingMore
<1>7. (pf.tainted => nf.tainted) /\ (pf.private => nf.private)
  BY DEF Inherits
<1>8. PICK hit : hit \in Invariants(p, pf, call)
  OBVIOUS
<1>9. CASE UnknownEffect(p, call) /\ ~RunsIsolated(p, call)
  <2>1. "unknown_effect" \in Invariants(n, nf, call)
    BY <1>4, <1>5, <1>9 DEF Invariants
  <2> QED BY <2>1
<1>10. CASE ~(UnknownEffect(p, call) /\ ~RunsIsolated(p, call))
  <2>1. CASE hit = "exfiltration"
    <3>1. "exfiltration" \in Invariants(n, nf, call)
      BY <1>2, <1>3, <1>7, <1>8, <1>10, <2>1 DEF Invariants
    <3> QED BY <3>1
  <2>2. CASE hit = "persistence"
    <3>1. "persistence" \in Invariants(n, nf, call)
      BY <1>6, <1>7, <1>8, <2>2 DEF Invariants
    <3> QED BY <3>1
  <2>3. CASE hit = "self_modification"
    <3>1. "self_modification" \in Invariants(n, nf, call)
      BY <1>8, <2>3 DEF Invariants
    <3> QED BY <3>1
  <2>4. hit \in {"exfiltration", "persistence", "self_modification"}
    BY <1>8, <1>10 DEF Invariants
  <2> QED BY <2>1, <2>2, <2>3, <2>4
<1> QED BY <1>9, <1>10

(* What the rules deny or ask stays so.                                    *)
LEMMA PolicyStricter ==
  ASSUME NEW n, NEW p, NEW nHead, NEW pHead, NEW call, Stricter(n, p),
         Mismatched(p, pHead, call) => Mismatched(n, nHead, call)
  PROVE  /\ PolicyAction(p, pHead, call) = "deny" => PolicyAction(n, nHead, call) = "deny"
         /\ PolicyAction(p, pHead, call) = "ask" => PolicyAction(n, nHead, call) \in {"ask", "deny"}
<1>1. (p.readOnly => n.readOnly) /\ (n.isolation => p.isolation)
  BY DEF Stricter
<1>2. /\ Fired(p, call, "deny") \subseteq Fired(n, call, "deny")
      /\ Fired(p, call, "ask") \subseteq Fired(n, call, "ask")
      /\ Fired(n, call, "allow") \subseteq Fired(p, call, "allow")
  BY DEF Stricter, Fired
<1>3. Covered(n, call) => Covered(p, call)
  BY <1>2 DEF Covered
<1>4. RunsIsolated(n, call) => RunsIsolated(p, call)
  BY <1>1 DEF RunsIsolated
<1>5. PolicyAction(p, pHead, call) = "deny" => PolicyAction(n, nHead, call) = "deny"
  BY <1>1, <1>2 DEF PolicyAction
<1>6. PolicyAction(p, pHead, call) = "ask" => PolicyAction(n, nHead, call) \in {"ask", "deny"}
  BY <1>2, <1>3, <1>4 DEF PolicyAction
<1> QED BY <1>5, <1>6

(* The three rings together.                                               *)
LEMMA VerdictStricter ==
  ASSUME NEW n, NEW p, NEW nHead, NEW pHead, NEW nf, NEW pf, NEW call,
         Stricter(n, p), Inherits(nf, pf),
         Mismatched(p, pHead, call) => Mismatched(n, nHead, call),
         Exhausted(p, pf) => Exhausted(n, nf)
  PROVE  StrictnessOf(Evaluate(n, nHead, nf, call)) >= StrictnessOf(Evaluate(p, pHead, pf, call))
<1> DEFINE ofN == Evaluate(n, nHead, nf, call)
           ofP == Evaluate(p, pHead, pf, call)
<1>1. Invariants(p, pf, call) # {} => Invariants(n, nf, call) # {}
  BY InvariantsStricter
<1>2. /\ PolicyAction(p, pHead, call) = "deny" => PolicyAction(n, nHead, call) = "deny"
      /\ PolicyAction(p, pHead, call) = "ask" => PolicyAction(n, nHead, call) \in {"ask", "deny"}
  BY PolicyStricter
<1>3. ofN \in {"allow", "ask", "deny"} /\ ofP \in {"allow", "ask", "deny"}
  BY DEF Evaluate
<1>4. ofP = "deny" => ofN = "deny"
  BY <1>2 DEF Evaluate
<1>5. ofP = "ask" => ofN \in {"ask", "deny"}
  BY <1>1, <1>2 DEF Evaluate
<1> HIDE DEF ofN, ofP
<1>6. StrictnessOf("allow") = 1 /\ StrictnessOf("ask") = 2 /\ StrictnessOf("deny") = 3
  BY DEF StrictnessOf, Strictness
<1> QED BY <1>3, <1>4, <1>5, <1>6 DEF ofN, ofP

-----------------------------------------------------------------------------
(* Sub-agents: what is in a narrowed configuration.                        *)
LEMMA NarrowFields ==
  ASSUME NEW child, NEW parent, NEW facts, IsConfig(child), IsConfig(parent)
  PROVE  LET n == Narrow(child, parent, facts)
         IN /\ n.tools = child.tools \cap parent.tools
            /\ n.rules = parent.rules \cup {NotGranted(t) : t \in child.tools \ parent.tools}
                            \cup {r \in child.rules : r.action # "allow"}
            /\ n.tokens = Carve(parent.tokens, facts.tokens, child.tokens)
            /\ n.calls = NarrowLimit(parent.calls, child.calls)
            /\ n.readOnly = (child.readOnly \/ parent.readOnly)
            /\ n.private = child.private \cup parent.private
            /\ n.persistence = child.persistence \cup parent.persistence
            /\ n.egress = child.egress \cap parent.egress
            /\ n.isolation = child.isolation
BY DEF Narrow, IsConfig, Fields

(* A narrowed configuration is stricter than the parent's.                 *)
LEMMA NarrowStricter ==
  ASSUME NEW child, NEW parent, NEW facts, IsConfig(child), IsConfig(parent),
         child.isolation => parent.isolation
  PROVE  Stricter(Narrow(child, parent, facts), parent)
<1> DEFINE n == Narrow(child, parent, facts)
<1>1. /\ n.isolation => parent.isolation
      /\ parent.readOnly => n.readOnly
      /\ parent.private \subseteq n.private /\ parent.persistence \subseteq n.persistence
      /\ n.egress \subseteq parent.egress
  BY NarrowFields DEF IsConfig
<1>2. n.rules = parent.rules \cup {NotGranted(t) : t \in child.tools \ parent.tools}
                    \cup {r \in child.rules : r.action # "allow"}
  BY NarrowFields
<1>3. \A t : NotGranted(t).action = "deny"
  BY DEF NotGranted
<1>4. \A r \in n.rules : r.action = "allow" => r \in parent.rules
  BY <1>2, <1>3
<1> QED BY <1>1, <1>2, <1>4 DEF Stricter

(* A limit within another is a limit, and no higher.                       *)
LEMMA WithinIsLess ==
  ASSUME NEW limit \in Nat \ {0}, NEW wanted \in Nat
  PROVE  Within(limit, wanted) \in 1..limit
BY DEF Within

(* What has been carved out of the parent's budgets is used up no later    *)
(* than these.                                                             *)
LEMMA ExhaustedNarrow ==
  ASSUME NEW child, NEW parent, NEW cf, NEW pf, NEW facts, IsConfig(child), IsConfig(parent),
         facts.tokens \in Nat, cf.tokens \in Nat, pf.tokens = facts.tokens + cf.tokens,
         cf.ordinal = pf.ordinal, cf.ordinal \in Nat,
         MayDelegate(parent, facts), Exhausted(parent, pf)
  PROVE  Exhausted(Narrow(child, parent, facts), cf)
<1> DEFINE n == Narrow(child, parent, facts)
           given == facts.tokens
<1>1. /\ n.tokens = Carve(parent.tokens, given, child.tokens)
      /\ n.calls = NarrowLimit(parent.calls, child.calls)
  BY NarrowFields
<1>2. child.tokens \in Nat /\ parent.tokens \in Nat /\ child.calls \in Nat /\ parent.calls \in Nat
  BY DEF IsConfig
<1> HIDE DEF n
<1>3. CASE parent.tokens > 0 /\ pf.tokens >= parent.tokens
  <2>1. given < parent.tokens
    BY <1>2, <1>3 DEF MayDelegate
  <2>2. n.tokens = Within(parent.tokens - given, child.tokens)
    BY <1>1, <1>2, <2>1 DEF Carve
  <2>3. parent.tokens - given \in Nat \ {0}
    BY <1>2, <2>1
  <2>4. Within(parent.tokens - given, child.tokens) \in 1..(parent.tokens - given)
    BY <1>2, <2>3, WithinIsLess
  <2>5. n.tokens > 0 /\ cf.tokens >= n.tokens
    BY <1>2, <1>3, <2>1, <2>2, <2>4
  <2> QED BY <2>5 DEF Exhausted, n
<1>4. CASE parent.calls > 0 /\ pf.ordinal > parent.calls
  <2>1. parent.calls \in Nat \ {0}
    BY <1>2, <1>4
  <2>2. Within(parent.calls, child.calls) \in 1..parent.calls
    BY <1>2, <2>1, WithinIsLess
  <2>3. n.calls \in 1..parent.calls
    BY <1>1, <2>1, <2>2 DEF NarrowLimit
  <2>4. n.calls > 0 /\ cf.ordinal > n.calls
    BY <1>2, <1>4, <2>3
  <2> QED BY <2>4 DEF Exhausted, n
<1> QED BY <1>3, <1>4 DEF Exhausted

(* For every two configurations, the child's isolated only where the       *)
(* parent's is, when the parent has something left to delegate: each call  *)
(* of the child gets a verdict at least as strict as it would get in the   *)
(* parent's session, if what the child has used were charged to it.        *)
THEOREM ChildNeverWider ==
  ASSUME NEW child, NEW parent, NEW cf, NEW pf, NEW facts, NEW call,
         IsConfig(child), IsConfig(parent), Inherits(cf, pf),
         child.isolation => parent.isolation,
         facts.tokens \in Nat, cf.tokens \in Nat, pf.tokens = facts.tokens + cf.tokens,
         cf.ordinal = pf.ordinal, cf.ordinal \in Nat, MayDelegate(parent, facts)
  PROVE  LET n == Narrow(child, parent, facts)
         IN StrictnessOf(Evaluate(n, n.tools, cf, call))
              >= StrictnessOf(Evaluate(parent, parent.tools, pf, call))
<1> DEFINE n == Narrow(child, parent, facts)
<1>1. Stricter(n, parent)
  BY NarrowStricter
<1>2. Exhausted(parent, pf) => Exhausted(n, cf)
  BY ExhaustedNarrow
<1>3. ~Mismatched(parent, parent.tools, call)
  BY DEF Mismatched
<1> HIDE DEF n
<1>4. StrictnessOf(Evaluate(n, n.tools, cf, call)) >= StrictnessOf(Evaluate(parent, parent.tools, pf, call))
  BY <1>1, <1>2, <1>3, VerdictStricter
<1> QED BY <1>4 DEF n

-----------------------------------------------------------------------------
(* The files of a project: what they change in what is compiled.           *)
LEMMA LayersDiffer == "managed" \notin Project /\ Sensitive \cap Project = {}
BY DEF Project, Sensitive

(* The same keys are locked without the project.                           *)
LEMMA OthersUnlocked ==
  ASSUME NEW read
  PROVE  Unlocked(Others(read)) = Others(Unlocked(read))
<1>1. In(Of(Others(read), "locked"), {"managed"}) = In(Of(read, "locked"), {"managed"})
  BY LayersDiffer DEF Others, Of, In
<1>2. Locked(Others(read)) = Locked(read)
  BY <1>1 DEF Locked
<1> QED BY <1>2 DEF Unlocked, Others

(* The project adds to what is additive, takes away from what is           *)
(* sensitive, and its rules can only deny.                                 *)
LEMMA ProjectAdds ==
  ASSUME NEW read, NEW key
  PROVE  Additive(Others(read), key) \subseteq Additive(read, key)
BY DEF Additive, Values, Of, Others

(* A list that is sensitive loses by the settings of a project.            *)
LEMMA ProjectTakes ==
  ASSUME NEW read, NEW key
  PROVE  PickSensitiveList(read, key) \subseteq PickSensitiveList(Others(read), key)
<1>1. In(Of(Others(read), key), Sensitive) = In(Of(read, key), Sensitive)
  BY LayersDiffer DEF In, Of, Others
<1>2. Base(Others(read), key, {}) = Base(read, key, {})
  BY <1>1 DEF Base
<1>3. OfProject(Others(read), key) = {}
  BY DEF OfProject, Values, In, Of, Others
<1> QED BY <1>2, <1>3 DEF PickSensitiveList

(* A plain field that the project does not set stays.                      *)
LEMMA ProjectPicksNothing ==
  ASSUME NEW read, NEW key, \A s \in read : s.layer \in Project => s.key # key, NEW default
  PROVE  Pick(read, key, default) = Pick(Others(read), key, default)
<1>1. Of(Others(read), key) = Of(read, key)
  BY DEF Of, Others
<1> QED BY <1>1 DEF Pick

(* Of a project that is not trusted only denials are added to the rules.   *)
LEMMA ProjectDenies ==
  ASSUME NEW read, ~Trusted(read)
  PROVE  /\ Permissions(Others(read)) \subseteq Permissions(read)
         /\ \A r \in Permissions(read) : r.action = "allow" => r \in Permissions(Others(read))
<1>1. Permissions(Others(read)) \subseteq Permissions(read)
  BY DEF Permissions, Believed, Of, Others
<1>2. \A r \in Permissions(read) : r.action = "allow" => r \in Permissions(Others(read))
  BY DEF Permissions, Believed, Of, Others
<1> QED BY <1>1, <1>2

-----------------------------------------------------------------------------
(* The setting of the highest layer is one of the settings.                *)
LEMMA PriorityIs ==
  ASSUME NEW s, s.layer \in Range(Layers)
  PROVE  Priority(s) \in 1..5 /\ Layers[Priority(s)] = s.layer
<1>1. DOMAIN Layers = 1..5
  BY DEF Layers
<1>2. \E i \in DOMAIN Layers : Layers[i] = s.layer
  BY DEF Range
<1> QED BY <1>1, <1>2 DEF Priority

(* The setting of the highest layer is one of the settings.                *)
LEMMA HighestIs ==
  ASSUME NEW settings, settings # {}, \A s \in settings : s.layer \in Range(Layers)
  PROVE  Highest(settings) \in settings /\ \A t \in settings : Priority(Highest(settings)) <= Priority(t)
<1>1. \A s \in settings : Priority(s) \in 1..5
  BY PriorityIs
<1>2. \E s \in settings : \A t \in settings : Priority(s) <= Priority(t)
  <2> DEFINE Some(k) == \E s \in settings : Priority(s) = k
  <2>1. CASE Some(1) BY <1>1, <2>1
  <2>2. CASE ~Some(1) /\ Some(2) BY <1>1, <2>2
  <2>3. CASE ~Some(1) /\ ~Some(2) /\ Some(3) BY <1>1, <2>3
  <2>4. CASE ~Some(1) /\ ~Some(2) /\ ~Some(3) /\ Some(4) BY <1>1, <2>4
  <2>5. CASE ~Some(1) /\ ~Some(2) /\ ~Some(3) /\ ~Some(4) BY <1>1, <2>5
  <2> QED BY <2>1, <2>2, <2>3, <2>4, <2>5
<1> QED BY <1>2 DEF Highest

(* A field is its default or one of the settings.                          *)
LEMMA PickIs ==
  ASSUME NEW read, NEW key, NEW default, \A s \in read : s.layer \in Range(Layers)
  PROVE  \/ Pick(read, key, default) = default
         \/ \E s \in read : s.key = key /\ Pick(read, key, default) = s.value
<1>1. CASE Of(read, key) = {}
  BY <1>1 DEF Pick, ValueOf
<1>2. CASE Of(read, key) # {}
  <2>1. \A s \in Of(read, key) : s.layer \in Range(Layers) /\ s \in read /\ s.key = key
    BY DEF Of
  <2>2. Highest(Of(read, key)) \in Of(read, key)
    BY <1>2, <2>1, HighestIs
  <2> QED BY <1>2, <2>1, <2>2 DEF Pick, ValueOf
<1> QED BY <1>1, <1>2

(* What is compiled of the settings there may be is a configuration.       *)
LEMMA KernelIsConfig ==
  ASSUME NEW sources, sources \subseteq Settings, NEW host
  PROVE  IsConfig(Kernel(Compile(sources), host))
<1> DEFINE profile == Compile(sources)
           read    == Unlocked(sources)
           kernel  == Kernel(profile, host)
           added   == {"tools", "sandbox", "isolation", "untrusted"}
<1>1. DOMAIN profile = Fields \ {"tools", "sandbox", "isolation"}
  BY DEF Compile, Fields
<1>2. /\ profile.tokens = Pick(read, "max_tokens", 0)
      /\ profile.calls = Pick(read, "max_calls_per_turn", 0)
      /\ profile.readOnly = Pick(read, "read_only", FALSE)
      /\ profile.trusted = Trusted(read)
  BY DEF Compile
<1>3. \A s \in read : s \in Settings
  BY DEF Unlocked
<1> HIDE DEF profile, read
<1>4. \A s \in read :
        /\ s.layer \in Range(Layers)
        /\ s.key = "max_tokens" => s.value \in Nat
        /\ s.key = "max_calls_per_turn" => s.value \in Nat
        /\ s.key = "read_only" => s.value \in BOOLEAN
  BY <1>3, ConfigurationAssumption
<1>5. /\ profile.tokens \in Nat
      /\ profile.calls \in Nat
      /\ profile.readOnly \in BOOLEAN
  <2>1. Pick(read, "max_tokens", 0) \in Nat
    <3> DEFINE v == Pick(read, "max_tokens", 0)
    <3>1. v = 0 \/ \E s \in read : s.key = "max_tokens" /\ v = s.value
      BY <1>4, PickIs
    <3> QED BY <1>4, <3>1
  <2>2. Pick(read, "max_calls_per_turn", 0) \in Nat
    <3> DEFINE v == Pick(read, "max_calls_per_turn", 0)
    <3>1. v = 0 \/ \E s \in read : s.key = "max_calls_per_turn" /\ v = s.value
      BY <1>4, PickIs
    <3> QED BY <1>4, <3>1
  <2>3. Pick(read, "read_only", FALSE) \in BOOLEAN
    <3> DEFINE no == FALSE
               v == Pick(read, "read_only", no)
    <3>1. no \in BOOLEAN
      OBVIOUS
    <3> HIDE DEF no
    <3>2. v = no \/ \E s \in read : s.key = "read_only" /\ v = s.value
      BY <1>4, PickIs
    <3>3. v \in BOOLEAN
      BY <1>4, <3>1, <3>2
    <3> QED BY <3>3 DEF no
  <2> QED BY <1>2, <2>1, <2>2, <2>3
<1>6. profile.trusted \in BOOLEAN
  BY <1>2 DEF Trusted, PickSensitiveFlag
<1>7. /\ kernel = [f \in Fields |-> kernel[f]]
      /\ kernel.tokens = profile.tokens /\ kernel.calls = profile.calls
      /\ kernel.readOnly = profile.readOnly /\ kernel.trusted = profile.trusted
  <2>1. DOMAIN kernel = DOMAIN profile \cup added
    BY DEF Kernel
  <2>2. \A f \in DOMAIN profile \ added : kernel[f] = profile[f]
    BY DEF Kernel
  <2>3. kernel = [f \in DOMAIN kernel |-> kernel[f]]
    BY DEF Kernel
  <2> QED BY <1>1, <2>1, <2>2, <2>3 DEF Fields
<1> HIDE DEF kernel
<1>8. IsConfig(kernel)
  BY <1>5, <1>6, <1>7 DEF IsConfig
<1> QED BY <1>8 DEF kernel, profile

(* What the kernel gets of a profile, from the settings that count.        *)
IsCompiled(c, read) ==
    /\ c.rules = Permissions(read)
    /\ c.private = Additive(read, "private")
    /\ c.untrusted = Additive(read, "untrusted") \cup {Net(h) : h \in Hosts}
    /\ c.persistence = Additive(read, "persistence")
    /\ c.egress = PickSensitiveList(read, "egress_allow")
    /\ c.sources = PickSensitiveList(read, "trusted_sources")
    /\ c.trusted = Trusted(read)
    /\ c.readOnly = Pick(read, "read_only", FALSE)
    /\ c.tokens = Pick(read, "max_tokens", 0)
    /\ c.calls = Pick(read, "max_calls_per_turn", 0)
    /\ c.tools = Tools

(* The kernel gets these fields of what is compiled.                       *)
LEMMA CompiledFields ==
  ASSUME NEW sources, NEW host
  PROVE  IsCompiled(Kernel(Compile(sources), host), Unlocked(sources))
<1> DEFINE profile == Compile(sources)
           read    == Unlocked(sources)
           kernel  == Kernel(profile, host)
           kept    == {"rules", "private", "persistence", "egress", "sources", "trusted",
                       "readOnly", "tokens", "calls"}
<1>1. /\ profile.rules = Permissions(read)
      /\ profile.private = Additive(read, "private")
      /\ profile.untrusted = Additive(read, "untrusted")
      /\ profile.persistence = Additive(read, "persistence")
      /\ profile.egress = PickSensitiveList(read, "egress_allow")
      /\ profile.sources = PickSensitiveList(read, "trusted_sources")
      /\ profile.trusted = Trusted(read)
      /\ profile.readOnly = Pick(read, "read_only", FALSE)
      /\ profile.tokens = Pick(read, "max_tokens", 0)
      /\ profile.calls = Pick(read, "max_calls_per_turn", 0)
      /\ kept \subseteq DOMAIN profile
  BY DEF Compile
<1> HIDE DEF profile
<1>2. /\ \A f \in kept : kernel[f] = profile[f]
      /\ kernel["tools"] = Tools
      /\ kernel["untrusted"] = profile.untrusted \cup {Net(h) : h \in Hosts}
  BY <1>1 DEF Kernel
<1> HIDE DEF kernel
<1>3. kernel = Kernel(Compile(sources), host)
  BY DEF kernel, profile
<1> QED BY <1>1, <1>2, <1>3 DEF IsCompiled

(* Without a project's files, of the other files.                          *)
LEMMA CompiledOthers ==
  ASSUME NEW sources, NEW host
  PROVE  IsCompiled(Kernel(Compile(Others(sources)), host), Others(Unlocked(sources)))
BY CompiledFields, OthersUnlocked

(* Whatever the files of a project that is not trusted say, unless they    *)
(* set what every layer may set: no call gets a laxer verdict than it      *)
(* would get without them, but for isolation that only the project asks    *)
(* for.                                                                    *)
THEOREM ProjectNeverWider ==
  ASSUME NEW sources, NEW host, NEW facts, NEW call,
         ~Trusted(Unlocked(sources)),
         \A s \in sources : s.layer \in Project => s.key \notin Plain,
         Kernel(Compile(sources), host).isolation => Kernel(Compile(Others(sources)), host).isolation
  PROVE  LET with    == Kernel(Compile(sources), host)
             without == Kernel(Compile(Others(sources)), host)
         IN StrictnessOf(Evaluate(with, with.tools, facts, call))
              >= StrictnessOf(Evaluate(without, without.tools, facts, call))
<1> DEFINE read    == Unlocked(sources)
           with    == Kernel(Compile(sources), host)
           without == Kernel(Compile(Others(sources)), host)
<1>1. with.isolation => without.isolation
  OBVIOUS
<1>2. IsCompiled(with, read)
  BY CompiledFields
<1>3. IsCompiled(without, Others(read))
  BY CompiledOthers
<1>4. \A s \in read : s.layer \in Project => s.key \notin Plain
  BY DEF Unlocked
<1> HIDE DEF read, with, without
<1>5. /\ with.readOnly = without.readOnly
      /\ with.tokens = without.tokens /\ with.calls = without.calls
  <2>1. \A s \in read : s.layer \in Project =>
            s.key # "read_only" /\ s.key # "max_tokens" /\ s.key # "max_calls_per_turn"
    BY <1>4 DEF Plain
  <2>2. Pick(read, "read_only", FALSE) = Pick(Others(read), "read_only", FALSE)
    BY <2>1, ProjectPicksNothing
  <2>3. Pick(read, "max_tokens", 0) = Pick(Others(read), "max_tokens", 0)
    BY <2>1, ProjectPicksNothing
  <2>4. Pick(read, "max_calls_per_turn", 0) = Pick(Others(read), "max_calls_per_turn", 0)
    BY <2>1, ProjectPicksNothing
  <2> QED BY <1>2, <1>3, <2>2, <2>3, <2>4 DEF IsCompiled
<1>6. /\ without.private \subseteq with.private
      /\ without.persistence \subseteq with.persistence
      /\ with.egress \subseteq without.egress
  BY <1>2, <1>3, ProjectAdds, ProjectTakes DEF IsCompiled
<1>7. ~Trusted(read)
  BY DEF read
<1>8. /\ without.rules \subseteq with.rules
      /\ \A r \in with.rules : r.action = "allow" => r \in without.rules
  BY <1>2, <1>3, <1>7, ProjectDenies DEF IsCompiled
<1>9. Stricter(with, without)
  BY <1>1, <1>5, <1>6, <1>8 DEF Stricter
<1>10. Inherits(facts, facts) /\ (Exhausted(without, facts) => Exhausted(with, facts))
  BY <1>5 DEF Inherits, Exhausted
<1>11. Mismatched(without, without.tools, call) => Mismatched(with, with.tools, call)
  BY <1>2, <1>3 DEF Mismatched, IsCompiled
<1>12. StrictnessOf(Evaluate(with, with.tools, facts, call))
         >= StrictnessOf(Evaluate(without, without.tools, facts, call))
  BY <1>9, <1>10, <1>11, VerdictStricter
<1> QED BY <1>12 DEF with, without

(* What was not trusted without the files of such a project is not         *)
(* trusted with them.                                                      *)
LEMMA DistrustedMore ==
  ASSUME NEW c, NEW d, NEW call, Distrusted(d, call), ~c.trusted,
         c.sources \subseteq d.sources, d.untrusted \subseteq c.untrusted
  PROVE  Distrusted(c, call)
<1>1. PICK a \in call.access :
        /\ a.mode = "read" \/ call.class = "opaque" \/ a.res = Cmd
        /\ ~Matching(d.sources, a.res)
        /\ \/ Matching(d.untrusted, a.res)
           \/ (a.res[1] = "fs" /\ (~InWorkspace(a.res) \/ ~d.trusted))
           \/ (a.res = Cmd /\ ~d.trusted)
  BY DEF Distrusted
<1>2. ~Matching(c.sources, a.res) /\ (Matching(d.untrusted, a.res) => Matching(c.untrusted, a.res))
  BY <1>1, MatchingMore
<1> QED BY <1>1, <1>2 DEF Distrusted

(* With a project's files no result is trusted that was not.               *)
LEMMA ProjectDistrusts ==
  ASSUME NEW sources, NEW host, NEW call, ~Trusted(Unlocked(sources)),
         Distrusted(Kernel(Compile(Others(sources)), host), call)
  PROVE  Distrusted(Kernel(Compile(sources), host), call)
<1> DEFINE read    == Unlocked(sources)
           with    == Kernel(Compile(sources), host)
           without == Kernel(Compile(Others(sources)), host)
<1>2. IsCompiled(with, read)
  BY CompiledFields
<1>3. IsCompiled(without, Others(read))
  BY CompiledOthers
<1>4. ~Trusted(read) /\ Distrusted(without, call)
  OBVIOUS
<1> HIDE DEF read, with, without
<1>5. with.sources \subseteq without.sources /\ without.untrusted \subseteq with.untrusted /\ ~with.trusted
  BY <1>2, <1>3, <1>4, ProjectAdds, ProjectTakes DEF IsCompiled
<1>6. Distrusted(with, call)
  BY <1>4, <1>5, DistrustedMore
<1> QED BY <1>6 DEF with

-----------------------------------------------------------------------------
(* What the sensitive layers say does not depend on the project.           *)
LEMMA OthersBase ==
  ASSUME NEW read, NEW key, NEW default
  PROVE  /\ Base(Others(read), key, default) = Base(read, key, default)
         /\ OfProject(Others(read), key) = {}
<1>1. In(Of(Others(read), key), Sensitive) = In(Of(read, key), Sensitive)
  BY LayersDiffer DEF In, Of, Others
<1>2. Base(Others(read), key, default) = Base(read, key, default)
  BY <1>1 DEF Base
<1>3. OfProject(Others(read), key) = {}
  BY DEF OfProject, Values, In, Of, Others
<1> QED BY <1>2, <1>3

(* The answers by strictness.                                              *)
Asks == {"allow", "defer", "deny"}
(* Every answer for want of anybody has its place in the order.            *)
LEMMA AsksOrdered ==
  /\ Range(OnAskOrder) = Asks
  /\ OnAskStrictness("allow") = 1 /\ OnAskStrictness("defer") = 2 /\ OnAskStrictness("deny") = 3
  /\ AnswerStrictness("allow") = 0 /\ AnswerStrictness("defer") = 1 /\ AnswerStrictness("deny") = 2
  /\ AnswerStrictness("ask") = 1
<1>1. DOMAIN OnAskOrder = 1..3 /\ OnAskOrder[1] = "allow" /\ OnAskOrder[2] = "defer" /\ OnAskOrder[3] = "deny"
  BY DEF OnAskOrder
<1>2. Range(OnAskOrder) = Asks
  BY <1>1 DEF Range, Asks
<1>3. OnAskStrictness("allow") = 1 /\ OnAskStrictness("defer") = 2 /\ OnAskStrictness("deny") = 3
  BY <1>1 DEF OnAskStrictness
<1>4. /\ AnswerStrictness("allow") = 0 /\ AnswerStrictness("defer") = 1 /\ AnswerStrictness("deny") = 2
      /\ AnswerStrictness("ask") = 1
  BY DEF AnswerStrictness
<1> QED BY <1>2, <1>3, <1>4

(* The strictest of some answers is one of them.                           *)
LEMMA StrictestIs ==
  ASSUME NEW asks, asks \subseteq Asks, NEW base \in asks
  PROVE  Strictest(asks) \in asks /\ OnAskStrictness(base) <= OnAskStrictness(Strictest(asks))
<1>1. \A a \in asks : a \in {"allow", "defer", "deny"}
  BY DEF Asks
<1>2. \E a \in asks : \A b \in asks : OnAskStrictness(b) <= OnAskStrictness(a)
  <2>1. CASE "deny" \in asks
    BY <1>1, <2>1, AsksOrdered
  <2>2. CASE "deny" \notin asks /\ "defer" \in asks
    BY <1>1, <2>2, AsksOrdered
  <2>3. CASE "deny" \notin asks /\ "defer" \notin asks
    BY <1>1, <2>3, AsksOrdered
  <2> QED BY <2>1, <2>2, <2>3
<1> QED BY <1>2 DEF Strictest

(* With a project, the answer for want of anybody is at least as strict.   *)
LEMMA UnattendedStricter ==
  ASSUME NEW read, read \subseteq Settings
  PROVE  LET with == Unattended(read)  without == Unattended(Others(read))
         IN \/ with = "none" /\ without = "none"
            \/ /\ with \in Asks /\ without \in Asks
               /\ AnswerStrictness(with) >= AnswerStrictness(without)
<1> DEFINE base == Base(read, "on_ask", "none")
           asks == {base} \cup OfProject(read, "on_ask")
<1>1. \A s \in read : s.layer \in Range(Layers) /\ (s.key = "on_ask" => s.value \in Asks)
  BY ConfigurationAssumption, AsksOrdered
<1>2. Unattended(Others(read)) = IF base = "none" THEN base ELSE Strictest({base})
  <2>1. Unattended(Others(read)) = IF base = "none" THEN base ELSE Strictest({base} \cup {})
    BY OthersBase DEF Unattended
  <2> QED BY <2>1
<1>3. Unattended(read) = IF base = "none" THEN base ELSE Strictest(asks)
  BY DEF Unattended
<1>4. CASE base = "none"
  BY <1>2, <1>3, <1>4
<1>5. CASE base # "none"
  <2>1. base \in Asks
    <3> DEFINE set == In(Of(read, "on_ask"), Sensitive)
    <3>1. set # {} /\ base = Highest(set).value
      BY <1>5 DEF Base, ValueOf
    <3>2. \A s \in set : s \in read /\ s.key = "on_ask"
      BY DEF In, Of
    <3> HIDE DEF set, base
    <3>3. \A s \in set : s.layer \in Range(Layers)
      BY <1>1, <3>2
    <3>4. Highest(set) \in set
      BY <3>1, <3>3, HighestIs
    <3> QED BY <1>1, <3>1, <3>2, <3>4
  <2>2. asks \subseteq Asks /\ base \in asks
    BY <1>1, <2>1 DEF OfProject, Values, In, Of
  <2>3. Strictest(asks) \in asks /\ OnAskStrictness(base) <= OnAskStrictness(Strictest(asks))
    BY <2>2, StrictestIs
  <2>4. Strictest({base}) = base
    BY <2>1, StrictestIs
  <2> HIDE DEF base, asks
  <2>5. \A a, b \in Asks : OnAskStrictness(b) <= OnAskStrictness(a) => AnswerStrictness(a) >= AnswerStrictness(b)
    BY AsksOrdered DEF Asks
  <2>6. Strictest(asks) \in Asks
    BY <2>2, <2>3
  <2> QED BY <1>2, <1>3, <1>5, <2>1, <2>3, <2>4, <2>5, <2>6
<1> QED BY <1>4, <1>5

(* Questions are answered as strictly.                                     *)
LEMMA AnswerStricter ==
  ASSUME NEW c, NEW d, NEW level, NEW call, d.auto \subseteq c.auto,
         \A r \in c.auto : r \in d.auto \/ r.answer = "deny",
         \/ c.unattended = "none" /\ d.unattended = "none"
         \/ /\ c.unattended \in Asks /\ d.unattended \in Asks
            /\ AnswerStrictness(c.unattended) >= AnswerStrictness(d.unattended),
         c.disposable => d.disposable
  PROVE  AnswerStrictness(Answer(c, level, call)) >= AnswerStrictness(Answer(d, level, call))
<1> DEFINE rulesC == {r \in c.auto : r.tool = call.tool}
           rulesD == {r \in d.auto : r.tool = call.tool}
           ofC == Answer(c, level, call)
           ofD == Answer(d, level, call)
<1>1. rulesD \subseteq rulesC /\ \A r \in rulesC : r \in rulesD \/ r.answer = "deny"
  OBVIOUS
<1>2. /\ level = "policy" /\ rulesC # {} => ofC = IF \E r \in rulesC : r.answer = "deny" THEN "deny" ELSE "allow"
      /\ level # "policy" \/ rulesC = {} =>
           ofC = IF c.unattended = "none" THEN "ask" ELSE IF level = "policy" THEN c.unattended
                 ELSE IF c.disposable THEN "allow" ELSE "defer"
  BY DEF Answer
<1>3. /\ level = "policy" /\ rulesD # {} => ofD = IF \E r \in rulesD : r.answer = "deny" THEN "deny" ELSE "allow"
      /\ level # "policy" \/ rulesD = {} =>
           ofD = IF d.unattended = "none" THEN "ask" ELSE IF level = "policy" THEN d.unattended
                 ELSE IF d.disposable THEN "allow" ELSE "defer"
  BY DEF Answer
<1> HIDE DEF rulesC, rulesD, ofC, ofD
<1>4. ofD \in {"allow", "ask", "defer", "deny"}
  BY <1>3 DEF Asks
<1>5. CASE level = "policy" /\ rulesC # {}
  <2>1. CASE ofC = "deny"
    BY <1>4, <2>1, AsksOrdered DEF ofC, ofD
  <2>2. CASE ofC # "deny"
    <3>1. (\A r \in rulesC : r.answer # "deny") /\ ofC = "allow"
      BY <1>2, <1>5, <2>2
    <3>2. rulesD # {} /\ \A r \in rulesD : r.answer # "deny"
      BY <1>1, <1>5, <3>1
    <3>3. ofD = "allow"
      BY <1>3, <1>5, <3>2
    <3> QED BY <3>1, <3>3, AsksOrdered DEF ofC, ofD
  <2> QED BY <2>1, <2>2
<1>6. CASE level = "policy" /\ rulesC = {}
  <2>1. rulesD = {}
    BY <1>1, <1>6
  <2>2. /\ ofC = IF c.unattended = "none" THEN "ask" ELSE c.unattended
        /\ ofD = IF d.unattended = "none" THEN "ask" ELSE d.unattended
    BY <1>2, <1>3, <1>6, <2>1
  <2>3. "none" \notin Asks
    BY DEF Asks
  <2>4. AnswerStrictness(ofC) >= AnswerStrictness(ofD)
    BY <2>2, <2>3, AsksOrdered
  <2> QED BY <2>4 DEF ofC, ofD
<1>7. CASE level # "policy"
  <2>1. /\ ofC = IF c.unattended = "none" THEN "ask" ELSE IF c.disposable THEN "allow" ELSE "defer"
        /\ ofD = IF d.unattended = "none" THEN "ask" ELSE IF d.disposable THEN "allow" ELSE "defer"
    BY <1>2, <1>3, <1>7
  <2>2. "none" \notin Asks
    BY DEF Asks
  <2>3. AnswerStrictness(ofC) >= AnswerStrictness(ofD)
    BY <2>1, <2>2, AsksOrdered
  <2> QED BY <2>3 DEF ofC, ofD
<1> QED BY <1>5, <1>6, <1>7

(* So are the answers that nobody needs to be asked for.                   *)
LEMMA ProjectAnswers ==
  ASSUME NEW sources, sources \subseteq Settings, NEW level, NEW call
  PROVE  AnswerStrictness(Answer(Compile(sources), level, call))
           >= AnswerStrictness(Answer(Compile(Others(sources)), level, call))
<1> DEFINE read    == Unlocked(sources)
           with    == Compile(sources)
           without == Compile(Others(sources))
<1>1. /\ with.auto = AutoAnswers(read)
      /\ with.unattended = Unattended(read)
      /\ with.disposable = PickSensitiveFlag(read, "disposable_env")
  BY DEF Compile
<1>2. /\ without.auto = AutoAnswers(Others(read))
      /\ without.unattended = Unattended(Others(read))
      /\ without.disposable = PickSensitiveFlag(Others(read), "disposable_env")
  BY OthersUnlocked DEF Compile
<1>3. read \subseteq Settings
  BY DEF Unlocked
<1> HIDE DEF read, with, without
<1>4. /\ without.auto \subseteq with.auto
      /\ \A r \in with.auto : r \in without.auto \/ r.answer = "deny"
  BY <1>1, <1>2 DEF AutoAnswers, Of, Others
<1>5. with.disposable => without.disposable
  BY <1>1, <1>2, OthersBase DEF PickSensitiveFlag
<1>6. \/ with.unattended = "none" /\ without.unattended = "none"
      \/ /\ with.unattended \in Asks /\ without.unattended \in Asks
         /\ AnswerStrictness(with.unattended) >= AnswerStrictness(without.unattended)
  BY <1>1, <1>2, <1>3, UnattendedStricter
<1>7. AnswerStrictness(Answer(with, level, call)) >= AnswerStrictness(Answer(without, level, call))
  BY <1>4, <1>5, <1>6, AnswerStricter
<1> QED BY <1>7 DEF with, without

-----------------------------------------------------------------------------
(* With the settings of a project no sandbox is given up.                  *)
LEMMA PreferStays ==
  ASSUME NEW read, read \subseteq Settings, Single(read), Prefer(Others(read)) # "none"
  PROVE  Prefer(read) # "none"
<1> DEFINE many == {s \in Of(read, "prefer") : s.layer \notin Project \/ s.value # "none"}
           few  == {s \in Of(Others(read), "prefer") : s.layer \notin Project \/ s.value # "none"}
<1>1. few = {s \in many : s.layer \notin Project}
  BY DEF Of, Others
<1>2. Prefer(read) = ValueOf(many, "any") /\ Prefer(Others(read)) = ValueOf(few, "any")
  BY DEF Prefer
<1>3. \A s \in many : s \in read /\ s.key = "prefer" /\ s.layer \in Range(Layers)
                        /\ (s.layer \notin Project \/ s.value # "none")
  BY ConfigurationAssumption DEF Of
<1> HIDE DEF many, few
<1>4. CASE many = {}
  BY <1>2, <1>4 DEF ValueOf
<1>5. CASE many # {}
  <2> DEFINE h == Highest(many)
             g == Highest(few)
  <2>1. h \in many /\ \A t \in many : Priority(h) <= Priority(t)
    BY <1>3, <1>5, HighestIs
  <2>2. SUFFICES ASSUME h.value = "none" PROVE FALSE
    BY <1>2, <1>5 DEF ValueOf
  <2>3. h \in few
    BY <1>1, <1>3, <2>1, <2>2
  <2>4. g \in few /\ \A t \in few : Priority(g) <= Priority(t)
    BY <1>1, <1>3, <2>3, HighestIs
  <2> HIDE DEF h, g
  <2>5. g \in many
    BY <1>1, <2>4
  <2>6. Priority(h) = Priority(g)
    <3>1. Priority(h) <= Priority(g) /\ Priority(g) <= Priority(h)
      BY <2>1, <2>3, <2>4, <2>5
    <3>2. Priority(h) \in 1..5 /\ Priority(g) \in 1..5
      BY <1>3, <2>1, <2>5, PriorityIs
    <3> QED BY <3>1, <3>2
  <2>7. h.layer = g.layer
    BY <1>3, <2>1, <2>5, <2>6, PriorityIs
  <2>8. h = g
    BY <1>3, <2>1, <2>5, <2>7 DEF Single, Lists
  <2>9. Prefer(Others(read)) = g.value
    BY <1>2, <2>4 DEF ValueOf, g
  <2> QED BY <2>2, <2>8, <2>9
<1> QED BY <1>4, <1>5

(* A project's servers are not trusted.                                    *)
LEMMA ServersTrusted ==
  ASSUME NEW read, NEW m \in Servers(read), m.trusted
  PROVE  m.layer \notin Project
<1> DEFINE listed == {x \in Of(read, "mcp") : Believed(read, x)}
           server(name) == Highest({x \in listed : x.value.name = name})
<1>1. PICK n \in {x.value.name : x \in listed} :
        m = [name |-> n, layer |-> server(n).layer,
             trusted |-> server(n).value.trusted /\ server(n).layer \notin Project]
  BY DEF Servers
<1> HIDE DEF listed, server
<1>2. m.layer = server(n).layer /\ m.trusted = (server(n).value.trusted /\ server(n).layer \notin Project)
  BY <1>1
<1> QED BY <1>2

(* The files, and those of the sub-agent, consist of settings there may be,*)
(* a plain one once per layer.                                             *)
Permitted == files \subseteq Settings /\ own \subseteq Settings /\ Single(files)

(* The files there may be to begin with are such.                          *)
LEMMA PermittedInit == Init => Permitted
BY ConfigurationAssumption DEF Init, Permitted

(* Writing a setting keeps them so.                                        *)
LEMMA PermittedNext == Permitted /\ [Next]_vars => Permitted'
<1> SUFFICES ASSUME Permitted, [Next]_vars PROVE Permitted'
  OBVIOUS
<1>1. CASE Type
  BY <1>1 DEF Type, Permitted
<1>2. CASE Write
  BY <1>2 DEF Write, Fits, Permitted
<1>3. CASE Define
  BY <1>3 DEF Define, Fits, Permitted
<1>4. CASE UNCHANGED vars
  BY <1>4 DEF vars, Permitted
<1> QED BY <1>1, <1>2, <1>3, <1>4 DEF Next

(* The files only ever hold settings there may be.                         *)
THEOREM FilesPermitted == Spec => []Permitted
<1> QED BY PermittedInit, PermittedNext, PTL DEF Spec

(* What follows for the files there are at any time.                       *)
LEMMA Tightens == Permitted => ProjectTightens
<1> SUFFICES ASSUME Permitted, In(files, Project) # {},
                    \A s \in In(files, Project) : s.key \notin Plain
             PROVE  LET with    == Compile(files)
                        without == Compile(Others(files))
                        tighter == Kernel(with, Host)
                        looser  == Kernel(without, Host)
                    IN /\ ~with.trusted =>
                            \A call \in Calls :
                              /\ Distrusted(looser, call) => Distrusted(tighter, call)
                              /\ (tighter.isolation => looser.isolation) =>
                                   \A facts \in Facts :
                                     StrictnessOf(Evaluate(tighter, Tools, facts, call))
                                       >= StrictnessOf(Evaluate(looser, Tools, facts, call))
                              /\ \A level \in {"policy", "invariant"} :
                                   AnswerStrictness(Answer(with, level, call))
                                     >= AnswerStrictness(Answer(without, level, call))
                       /\ without.prefer # "none" => with.prefer # "none"
                       /\ \A m \in with.servers : m.trusted => m.layer \notin Project
  BY DEF ProjectTightens
<1> DEFINE with    == Compile(files)
           without == Compile(Others(files))
           tighter == Kernel(with, Host)
           looser  == Kernel(without, Host)
           read    == Unlocked(files)
<1>1. with.trusted = Trusted(read) /\ with.prefer = Prefer(read) /\ with.servers = Servers(read)
  BY DEF Compile
<1>2. without.prefer = Prefer(Others(read))
  BY OthersUnlocked DEF Compile
<1>3. /\ files \subseteq Settings /\ read \subseteq Settings /\ Single(read)
      /\ \A s \in files : s.layer \in Project => s.key \notin Plain
  BY DEF Permitted, Unlocked, Single, In
<1>4. tighter.tools = Tools /\ looser.tools = Tools
  BY CompiledFields DEF IsCompiled
<1>5. ASSUME ~with.trusted, NEW call \in Calls
      PROVE  /\ Distrusted(looser, call) => Distrusted(tighter, call)
             /\ (tighter.isolation => looser.isolation) =>
                  \A facts \in Facts :
                    StrictnessOf(Evaluate(tighter, Tools, facts, call))
                      >= StrictnessOf(Evaluate(looser, Tools, facts, call))
             /\ \A level \in {"policy", "invariant"} :
                  AnswerStrictness(Answer(with, level, call)) >= AnswerStrictness(Answer(without, level, call))
  <2>1. ~Trusted(read)
    BY <1>1, <1>5
  <2>2. Distrusted(looser, call) => Distrusted(tighter, call)
    BY <2>1, ProjectDistrusts
  <2>3. ASSUME tighter.isolation => looser.isolation, NEW facts \in Facts
        PROVE  StrictnessOf(Evaluate(tighter, Tools, facts, call))
                 >= StrictnessOf(Evaluate(looser, Tools, facts, call))
    <3>1. StrictnessOf(Evaluate(tighter, tighter.tools, facts, call))
            >= StrictnessOf(Evaluate(looser, looser.tools, facts, call))
      BY <1>3, <2>1, <2>3, ProjectNeverWider
    <3> QED BY <1>4, <3>1
  <2>4. \A level \in {"policy", "invariant"} :
          AnswerStrictness(Answer(with, level, call)) >= AnswerStrictness(Answer(without, level, call))
    BY <1>3, ProjectAnswers
  <2> QED BY <2>2, <2>3, <2>4
<1>6. without.prefer # "none" => with.prefer # "none"
  BY <1>1, <1>2, <1>3, PreferStays
<1>7. \A m \in with.servers : m.trusted => m.layer \notin Project
  BY <1>1, ServersTrusted
<1> QED BY <1>5, <1>6, <1>7

(* Whatever the files hold at any time, those of a project that is not     *)
(* trusted only tighten: verdicts, trust in results and answers; no server *)
(* of its own is trusted and it does not give up the sandbox.              *)
THEOREM ProjectOnlyTightens == Spec => []ProjectTightens
<1> QED BY FilesPermitted, Tightens, PTL

(* The files at any time give a sub-agent no more than its parent has.     *)
LEMMA OwnWithin == Permitted => ChildWithin
<1> DEFINE whole  == Kernel(Compile(files), Host)
           parent == [whole EXCEPT !.tools = @ \ {"agent"}]
           child  == Kernel(Compile(own), Host)
<1> SUFFICES ASSUME Permitted, child.isolation => parent.isolation,
                    NEW facts \in Facts, NEW used \in 0..MaxUsed,
                    MayDelegate(parent, [facts EXCEPT !.tokens = used]),
                    NEW call \in Calls, NEW spent \in 0..MaxUsed, NEW nth \in 1..MaxUsed + 1
             PROVE  LET narrow == Narrow(child, parent, [facts EXCEPT !.tokens = used])
                    IN StrictnessOf(Evaluate(narrow, narrow.tools,
                                             [facts EXCEPT !.tokens = spent, !.ordinal = nth, !.destinations = {}], call))
                         >= StrictnessOf(Evaluate(parent, parent.tools,
                                                  [facts EXCEPT !.tokens = used + spent, !.ordinal = nth], call))
  BY DEF ChildWithin
<1> DEFINE now == [facts EXCEPT !.tokens = used]
           cf  == [facts EXCEPT !.tokens = spent, !.ordinal = nth, !.destinations = {}]
           pf  == [facts EXCEPT !.tokens = used + spent, !.ordinal = nth]
           narrow == Narrow(child, parent, now)
<1>1. IsConfig(child) /\ IsConfig(whole)
  BY KernelIsConfig DEF Permitted
<1>2. used \in Nat /\ spent \in Nat /\ nth \in Nat
  BY ConfigurationAssumption
<1>3. facts \in [tainted : BOOLEAN, private : BOOLEAN, destinations : SUBSET {Net(h) : h \in Hosts},
                 tokens : Nat, ordinal : Nat]
  BY ConfigurationAssumption
<1>4. /\ now.tokens = used
      /\ cf.tokens = spent /\ cf.ordinal = nth /\ cf.destinations = {}
      /\ cf.tainted = facts.tainted /\ cf.private = facts.private
      /\ pf.tokens = used + spent /\ pf.ordinal = nth /\ pf.destinations = facts.destinations
      /\ pf.tainted = facts.tainted /\ pf.private = facts.private
  BY <1>3
<1>5. Inherits(cf, pf)
  BY <1>4 DEF Inherits
<1>6. MayDelegate(parent, now) /\ (child.isolation => parent.isolation)
  OBVIOUS
<1> HIDE DEF child, whole, now, cf, pf
<1>7. IsConfig(parent)
  BY <1>1 DEF IsConfig, Fields
<1> HIDE DEF parent
<1>8. StrictnessOf(Evaluate(narrow, narrow.tools, cf, call))
        >= StrictnessOf(Evaluate(parent, parent.tools, pf, call))
  BY <1>1, <1>2, <1>4, <1>5, <1>6, <1>7, ChildNeverWider
<1> QED BY <1>8 DEF narrow, now, cf, pf, parent, whole, child

(* Whatever the files and those of a sub-agent hold at any time, each of   *)
(* its calls gets a verdict at least as strict as its parent would get.    *)
THEOREM ChildIsWithin == Spec => []ChildWithin
<1> QED BY FilesPermitted, OwnWithin, PTL

-----------------------------------------------------------------------------
(* What holds of 0, and with a number of the next, holds of all.           *)
LEMMA Upwards ==
  ASSUME NEW S, 0 \in S, \A n \in Nat : n \in S => n + 1 \in S
  PROVE  Nat \subseteq S
<1> DEFINE R == OpToRel(<, Nat)
           T == Nat \ S
<1>1. IsWellFoundedOn(R, Nat)
  BY NatLessThanWellFounded
<1>2. SUFFICES ASSUME T # {} PROVE FALSE
  OBVIOUS
<1>3. T \subseteq Nat
  OBVIOUS
<1> HIDE DEF R, T
<1>4. PICK x \in T : \A y \in T : ~(<<y, x>> \in R)
  BY <1>1, <1>2, <1>3, WFMin
<1>5. x \in Nat /\ x # 0
  BY DEF T
<1>6. x - 1 \in Nat /\ (x - 1 \in S => x \in S)
  BY <1>5
<1>7. x - 1 \in T
  BY <1>4, <1>5, <1>6 DEF T
<1>8. <<x - 1, x>> \in R
  BY <1>5 DEF R, OpToRel
<1> QED BY <1>4, <1>7, <1>8

(* Reading from the left, token by token, as far as each of some places.   *)
TakenBy(f, n, tokens) ==
    f = [s \in SUBSET (1..n) |-> IF s = {} THEN Parsed ELSE Take(f[s \ {Max(s)}], tokens[Max(s)])]

(* There is such a function for every number of places.                    *)
LEMMA TakenExists ==
  ASSUME NEW tokens, NEW n \in Nat
  PROVE  \E f : TakenBy(f, n, tokens)
<1> DEFINE S == {m \in Nat : \E f : TakenBy(f, m, tokens)}
<1>1. 0 \in S
  <2> DEFINE f == [s \in SUBSET (1..0) |-> Parsed]
  <2>1. \A s \in SUBSET (1..0) : s = {}
    OBVIOUS
  <2>2. TakenBy(f, 0, tokens)
    BY <2>1 DEF TakenBy
  <2> QED BY <2>2
<1>2. ASSUME NEW m \in Nat, m \in S PROVE m + 1 \in S
  <2>1. PICK f : TakenBy(f, m, tokens)
    BY <1>2
  <2> DEFINE g == [s \in SUBSET (1..m + 1) |-> IF m + 1 \in s THEN Take(f[s \ {m + 1}], tokens[m + 1]) ELSE f[s]]
             h == [s \in SUBSET (1..m + 1) |-> IF s = {} THEN Parsed ELSE Take(g[s \ {Max(s)}], tokens[Max(s)])]
  <2>2. ASSUME NEW s \in SUBSET (1..m + 1) PROVE g[s] = h[s]
    <3>1. CASE s = {}
      <4>1. s \in SUBSET (1..m)
        BY <3>1
      <4>2. f[s] = Parsed
        BY <2>1, <3>1, <4>1 DEF TakenBy
      <4> QED BY <3>1, <4>2
    <3>2. CASE m + 1 \in s
      <4>1. Max(s) = m + 1
        <5>1. m + 1 \in s /\ \A y \in s : y \in Nat /\ m + 1 >= y
          BY <3>2
        <5>2. \A x \in s : (\A y \in s : x >= y) => x = m + 1
          BY <5>1
        <5> QED BY <5>1, <5>2 DEF Max
      <4>2. s \ {m + 1} \in SUBSET (1..m + 1) /\ m + 1 \notin s \ {m + 1} /\ s # {}
        BY <3>2
      <4>3. g[s \ {m + 1}] = f[s \ {m + 1}]
        BY <4>2
      <4>4. g[s] = Take(f[s \ {m + 1}], tokens[m + 1])
        BY <3>2
      <4>5. h[s] = Take(g[s \ {Max(s)}], tokens[Max(s)])
        BY <4>2
      <4> HIDE DEF g, h
      <4> QED BY <4>1, <4>3, <4>4, <4>5
    <3>3. CASE s # {} /\ m + 1 \notin s
      <4>1. s \in SUBSET (1..m)
        BY <3>3
      <4>2. f[s] = Take(f[s \ {Max(s)}], tokens[Max(s)])
        BY <2>1, <3>3, <4>1 DEF TakenBy
      <4>3. g[s] = f[s]
        BY <3>3
      <4>4. s \ {Max(s)} \in SUBSET (1..m + 1) /\ m + 1 \notin s \ {Max(s)}
        BY <3>3
      <4>5. g[s \ {Max(s)}] = f[s \ {Max(s)}]
        BY <4>4
      <4>6. h[s] = Take(g[s \ {Max(s)}], tokens[Max(s)])
        BY <3>3
      <4> HIDE DEF g, h
      <4> QED BY <4>2, <4>3, <4>5, <4>6
    <3> QED BY <3>1, <3>2, <3>3
  <2>3. g = h
    <3> g = [s \in SUBSET (1..m + 1) |-> g[s]] /\ h = [s \in SUBSET (1..m + 1) |-> h[s]]
      OBVIOUS
    <3> HIDE DEF g, h
    <3> QED BY <2>2
  <2>4. TakenBy(g, m + 1, tokens)
    <3>1. h = [s \in SUBSET (1..m + 1) |-> IF s = {} THEN Parsed ELSE Take(g[s \ {Max(s)}], tokens[Max(s)])]
      OBVIOUS
    <3> HIDE DEF g, h
    <3> QED BY <2>3, <3>1 DEF TakenBy
  <2> QED BY <2>4
<1> HIDE DEF S
<1>3. Nat \subseteq S
  BY <1>1, <1>2, Upwards
<1> QED BY <1>3 DEF S

(* The states of the parser along a line.                                  *)
LEMMA TakenAlong ==
  ASSUME NEW T, NEW tokens \in Seq(T)
  PROVE  \E g : /\ g[0] = Parsed
                /\ \A k \in 0..Len(tokens) - 1 : g[k + 1] = Take(g[k], tokens[k + 1])
                /\ g[Len(tokens)] = FoldLeft(Take, Parsed, tokens)
<1> DEFINE n == Len(tokens)
           f == CHOOSE x : TakenBy(x, n, tokens)
           g == [k \in 0..n |-> f[1..k]]
<1>1. DOMAIN tokens = 1..n /\ n \in Nat
  OBVIOUS
<1>2. FoldLeft(Take, Parsed, tokens) = f[1..n]
  BY <1>1 DEF FoldLeft, MapThenFoldSet, TakenBy
<1> HIDE DEF n
<1>3. TakenBy(f, n, tokens)
  BY <1>1, TakenExists
<1> HIDE DEF f
<1>4. g[0] = Parsed
  <2>1. 1..0 = {} /\ 1..0 \in SUBSET (1..n) /\ 0 \in 0..n
    BY <1>1
  <2>2. f[1..0] = Parsed
    BY <1>3, <2>1 DEF TakenBy
  <2> QED BY <2>1, <2>2
<1>5. ASSUME NEW k \in 0..n - 1 PROVE g[k + 1] = Take(g[k], tokens[k + 1])
  <2>1. /\ 1..k + 1 \in SUBSET (1..n) /\ 1..k + 1 # {} /\ (1..k + 1) \ {k + 1} = 1..k
        /\ k \in 0..n /\ k + 1 \in 0..n /\ k + 1 \in 1..k + 1
    <3>1. k \in Nat /\ k + 1 <= n
      BY <1>1
    <3>2. k \in 0..n /\ k + 1 \in 0..n /\ k + 1 \in 1..k + 1
      BY <1>1, <3>1
    <3>3. 1..k + 1 \in SUBSET (1..n) /\ 1..k + 1 # {}
      BY <1>1, <3>1
    <3>4. (1..k + 1) \ {k + 1} = 1..k
      BY <3>1
    <3> QED BY <3>2, <3>3, <3>4
  <2>2. Max(1..k + 1) = k + 1
    <3>1. \A y \in 1..k + 1 : k + 1 >= y
      BY <1>1
    <3>2. \A x \in 1..k + 1 : (\A y \in 1..k + 1 : x >= y) => x = k + 1
      BY <1>1, <2>1
    <3> QED BY <2>1, <3>1, <3>2 DEF Max
  <2>3. f[1..k + 1] = Take(f[(1..k + 1) \ {Max(1..k + 1)}], tokens[Max(1..k + 1)])
    BY <1>3, <2>1 DEF TakenBy
  <2>4. f[1..k + 1] = Take(f[1..k], tokens[k + 1])
    BY <2>1, <2>2, <2>3
  <2> QED BY <2>1, <2>4
<1>6. g[n] = f[1..n]
  BY <1>1
<1> QED BY <1>2, <1>4, <1>5, <1>6 DEF n

-----------------------------------------------------------------------------
(* The states of the parser.                                               *)
Redirecting == [op : Redirections, target : Words]
Reading     == [words : Seq(Words), redirects : Seq(Redirecting)]
Parsing ==
    [commands : Seq(Reading), cur : Reading, depth : Int, redirect : {"none"} \cup Redirections,
     needCommand : BOOLEAN, closedGroup : BOOLEAN, opaque : BOOLEAN]

(* A redirection has been read, for one of the commands.                   *)
Has(p, r) == r \in Range(p.cur.redirects) \/ \E c \in Range(p.commands) : r \in Range(c.redirects)
Keeps(p, q) == q.opaque \/ (~p.opaque /\ \A r : Has(p, r) => Has(q, r))

(* What is appended is added.                                              *)
LEMMA RangeAppend ==
  ASSUME NEW T, NEW s \in Seq(T), NEW e
  PROVE  Range(Append(s, e)) = Range(s) \cup {e}
<1>1. DOMAIN Append(s, e) = 1..Len(s) + 1 /\ DOMAIN s = 1..Len(s) /\ Len(s) \in Nat
  OBVIOUS
<1>2. Append(s, e)[Len(s) + 1] = e /\ \A i \in 1..Len(s) : Append(s, e)[i] = s[i]
  OBVIOUS
<1>3. Range(Append(s, e)) \subseteq Range(s) \cup {e}
  BY <1>1, <1>2 DEF Range
<1>4. Range(s) \cup {e} \subseteq Range(Append(s, e))
  BY <1>1, <1>2 DEF Range
<1> QED BY <1>3, <1>4

(* What a state of the parser consists of.                                 *)
LEMMA ParsingFields ==
  ASSUME NEW p \in Parsing
  PROVE  /\ p.commands \in Seq(Reading) /\ p.cur \in Reading
         /\ p.cur.words \in Seq(Words) /\ p.cur.redirects \in Seq(Redirecting)
BY DEF Parsing, Reading

(* Failing forgets nothing, a failed state is opaque.                      *)
LEMMA FailIfKeeps ==
  ASSUME NEW p \in Parsing, NEW cond
  PROVE  FailIf(cond, p) \in Parsing /\ Keeps(p, FailIf(cond, p)) /\ FailIf(cond, p).redirect = p.redirect
<1>1. CASE cond
  BY <1>1 DEF FailIf, Fail, Keeps, Parsing
<1>2. CASE ~cond
  BY <1>2 DEF FailIf, Keeps, Parsing
<1> QED BY <1>1, <1>2

(* A failed state is opaque.                                               *)
LEMMA FailFails ==
  ASSUME NEW p \in Parsing
  PROVE  Fail(p) \in Parsing /\ Fail(p).opaque /\ Fail(p).redirect = p.redirect
BY DEF Fail, Parsing

(* What is kept is kept over two steps.                                    *)
LEMMA KeepsOn ==
  ASSUME NEW p, NEW q, NEW r, Keeps(p, q), Keeps(q, r)
  PROVE  Keeps(p, r)
BY DEF Keeps

(* What keeps the commands, and what has been read of the current one.     *)
LEMMA KeepsSame ==
  ASSUME NEW p, NEW q, q.commands = p.commands, q.cur.redirects = p.cur.redirects, q.opaque = p.opaque,
         p.opaque \in BOOLEAN
  PROVE  Keeps(p, q)
BY DEF Keeps, Has

(* The command that is complete keeps its redirections.                    *)
LEMMA FinishKeeps ==
  ASSUME NEW p \in Parsing
  PROVE  Finish(p) \in Parsing /\ Keeps(p, Finish(p)) /\ Finish(p).redirect = p.redirect
<1>1. CASE p.cur.words = <<>>
  BY <1>1, FailIfKeeps DEF Finish
<1>2. CASE p.cur.words # <<>>
  <2> DEFINE q == [p EXCEPT !.commands = Append(@, p.cur), !.cur = NoCommand]
  <2>1. Finish(p) = q
    BY <1>2 DEF Finish
  <2>2. NoCommand \in Reading
    BY DEF NoCommand, Reading
  <2>3. Append(p.commands, p.cur) \in Seq(Reading)
    BY ParsingFields
  <2>4. /\ q.commands = Append(p.commands, p.cur) /\ q.redirect = p.redirect /\ q.opaque = p.opaque
        /\ q \in Parsing
    BY <2>2, <2>3 DEF Parsing
  <2> HIDE DEF q
  <2>5. Range(q.commands) = Range(p.commands) \cup {p.cur}
    BY <2>4, ParsingFields, RangeAppend
  <2>6. \A r : Has(p, r) => Has(q, r)
    BY <2>5 DEF Has
  <2>7. p.opaque \in BOOLEAN
    BY DEF Parsing
  <2>8. Keeps(p, q)
    BY <2>4, <2>6, <2>7 DEF Keeps
  <2> QED BY <2>1, <2>4, <2>8
<1> QED BY <1>1, <1>2

(* A token after which no file is expected.                                *)
LEMMA WordKeeps ==
  ASSUME NEW p \in Parsing, NEW w \in Words
  PROVE  TakeWord(p, w) \in Parsing /\ Keeps(p, TakeWord(p, w)) /\ TakeWord(p, w).redirect = p.redirect
<1> DEFINE q == [p EXCEPT !.cur.words = Append(@, w), !.needCommand = FALSE]
<1>1. TakeWord(p, w) = FailIf(p.closedGroup, q)
  BY DEF TakeWord
<1>2. Append(p.cur.words, w) \in Seq(Words)
  BY ParsingFields
<1>3. [p.cur EXCEPT !.words = Append(@, w)] \in Reading
  BY <1>2, ParsingFields DEF Reading
<1>4. /\ q.commands = p.commands /\ q.cur = [p.cur EXCEPT !.words = Append(@, w)]
      /\ q.redirect = p.redirect /\ q.opaque = p.opaque /\ q \in Parsing
  BY <1>3 DEF Parsing
<1> HIDE DEF q
<1>5. q.cur.redirects = p.cur.redirects
  BY <1>4, ParsingFields DEF Reading
<1>6. p.opaque \in BOOLEAN
  BY DEF Parsing
<1>7. Keeps(p, q)
  BY <1>4, <1>5, <1>6, KeepsSame
<1>8. /\ FailIf(p.closedGroup, q) \in Parsing /\ Keeps(q, FailIf(p.closedGroup, q))
      /\ FailIf(p.closedGroup, q).redirect = q.redirect
  BY <1>4, FailIfKeeps
<1>9. Keeps(p, FailIf(p.closedGroup, q))
  BY <1>7, <1>8, KeepsOn
<1> QED BY <1>1, <1>4, <1>8, <1>9

(* A group opens.                                                          *)
LEMMA OpenKeeps ==
  ASSUME NEW p \in Parsing
  PROVE  TakeOpen(p) \in Parsing /\ Keeps(p, TakeOpen(p)) /\ TakeOpen(p).redirect = p.redirect
<1> DEFINE q == [p EXCEPT !.depth = @ + 1]
           cond == p.cur.words # <<>>
<1>1. TakeOpen(p) = FailIf(cond, q)
  BY DEF TakeOpen
<1>2. /\ q.commands = p.commands /\ q.cur.redirects = p.cur.redirects
      /\ q.redirect = p.redirect /\ q.opaque = p.opaque /\ q \in Parsing
      /\ p.opaque \in BOOLEAN
  BY DEF Parsing
<1> HIDE DEF q, cond
<1>3. Keeps(p, q)
  BY <1>2, KeepsSame
<1>4. FailIf(cond, q) \in Parsing /\ Keeps(q, FailIf(cond, q)) /\ FailIf(cond, q).redirect = q.redirect
  BY <1>2, FailIfKeeps
<1>5. Keeps(p, FailIf(cond, q))
  BY <1>3, <1>4, KeepsOn
<1> QED BY <1>1, <1>2, <1>4, <1>5

(* A group closes.                                                         *)
LEMMA CloseKeeps ==
  ASSUME NEW p \in Parsing
  PROVE  TakeClose(p) \in Parsing /\ Keeps(p, TakeClose(p)) /\ TakeClose(p).redirect = p.redirect
<1> DEFINE done == Finish(p)
           group == Pushes(p) \/ done.closedGroup
           less == done.depth - 1
           q == [done EXCEPT !.closedGroup = group, !.depth = less]
           cond == q.depth < 0
<1>1. TakeClose(p) = FailIf(cond, q)
  BY DEF TakeClose
<1>2. done \in Parsing /\ Keeps(p, done) /\ done.redirect = p.redirect
  BY FinishKeeps
<1>3. group \in BOOLEAN /\ less \in Int
  BY <1>2 DEF Parsing
<1> HIDE DEF done, group, less
<1>4. /\ q.commands = done.commands /\ q.cur.redirects = done.cur.redirects
      /\ q.redirect = done.redirect /\ q.opaque = done.opaque /\ q \in Parsing
      /\ done.opaque \in BOOLEAN
  BY <1>2, <1>3 DEF Parsing
<1> HIDE DEF q, cond
<1>5. Keeps(done, q)
  BY <1>4, KeepsSame
<1>6. FailIf(cond, q) \in Parsing /\ Keeps(q, FailIf(cond, q)) /\ FailIf(cond, q).redirect = q.redirect
  BY <1>4, FailIfKeeps
<1>7. Keeps(p, FailIf(cond, q))
  BY <1>2, <1>5, <1>6, KeepsOn
<1> QED BY <1>1, <1>2, <1>4, <1>6, <1>7

(* A command ends.                                                         *)
LEMMA SeparatorKeeps ==
  ASSUME NEW p \in Parsing, NEW op
  PROVE  /\ TakeSeparator(p, op) \in Parsing /\ Keeps(p, TakeSeparator(p, op))
         /\ TakeSeparator(p, op).redirect = p.redirect
<1> DEFINE missing == ~Pushes(p) /\ p.cur.redirects = <<>> /\ ~p.closedGroup /\ (op # ";" \/ p.needCommand)
           done == Finish(p)
           f == FailIf(missing, done)
           q == [f EXCEPT !.closedGroup = FALSE, !.needCommand = op # ";"]
<1>1. TakeSeparator(p, op) = q
  BY DEF TakeSeparator
<1>2. done \in Parsing /\ Keeps(p, done) /\ done.redirect = p.redirect
  BY FinishKeeps
<1> HIDE DEF done, missing
<1>3. f \in Parsing /\ Keeps(done, f) /\ f.redirect = done.redirect
  BY <1>2, FailIfKeeps
<1> HIDE DEF f
<1>4. /\ q.commands = f.commands /\ q.cur.redirects = f.cur.redirects
      /\ q.redirect = f.redirect /\ q.opaque = f.opaque /\ q \in Parsing
      /\ f.opaque \in BOOLEAN
  BY <1>3 DEF Parsing
<1> HIDE DEF q
<1>5. Keeps(f, q)
  BY <1>4, KeepsSame
<1>6. Keeps(p, q)
  BY <1>2, <1>3, <1>5, KeepsOn
<1> QED BY <1>1, <1>2, <1>3, <1>4, <1>6

(* The file of a redirection.                                              *)
LEMMA TargetKeeps ==
  ASSUME NEW p \in Parsing, p.redirect # "none", NEW t \in Tokens
  PROVE  /\ TakeTarget(p, t) \in Parsing /\ Keeps(p, TakeTarget(p, t)) /\ TakeTarget(p, t).redirect = "none"
         /\ \/ TakeTarget(p, t).opaque
            \/ t \in Words /\ Has(TakeTarget(p, t), [op |-> p.redirect, target |-> t])
<1> DEFINE taken == [p EXCEPT !.redirect = "none"]
           r == [op |-> p.redirect, target |-> t]
           q == [taken EXCEPT !.cur.redirects = Append(@, r)]
<1>1. taken \in Parsing /\ taken.cur = p.cur /\ taken.commands = p.commands /\ taken.redirect = "none"
      /\ taken.opaque = p.opaque /\ p.opaque \in BOOLEAN
  BY DEF Parsing
<1>2. CASE t \notin Words
  <2>1. TakeTarget(p, t) = Fail(taken)
    BY <1>2 DEF TakeTarget
  <2> HIDE DEF taken
  <2>2. Fail(taken) \in Parsing /\ Fail(taken).opaque /\ Fail(taken).redirect = "none"
    BY <1>1, FailFails
  <2> QED BY <2>1, <2>2 DEF Keeps
<1>3. CASE t \in Words
  <2>1. TakeTarget(p, t) = q
    BY <1>3 DEF TakeTarget
  <2> HIDE DEF taken
  <2>2. r \in Redirecting
    BY <1>3 DEF Redirecting, Parsing
  <2> HIDE DEF r
  <2>3. Append(taken.cur.redirects, r) \in Seq(Redirecting)
    BY <1>1, <2>2, ParsingFields
  <2>4. [taken.cur EXCEPT !.redirects = Append(@, r)] \in Reading
    BY <1>1, <2>3, ParsingFields DEF Reading
  <2>5. /\ q.commands = taken.commands /\ q.cur = [taken.cur EXCEPT !.redirects = Append(@, r)]
        /\ q.redirect = "none" /\ q.opaque = taken.opaque /\ q \in Parsing
    BY <1>1, <2>4 DEF Parsing
  <2> HIDE DEF q
  <2>6. q.cur.redirects = Append(p.cur.redirects, r)
    BY <1>1, <2>5, ParsingFields DEF Reading
  <2>7. Range(q.cur.redirects) = Range(p.cur.redirects) \cup {r}
    BY <2>6, ParsingFields, RangeAppend
  <2>8. Has(q, r) /\ \A x : Has(p, x) => Has(q, x)
    BY <1>1, <2>5, <2>7 DEF Has
  <2>9. Keeps(p, q)
    BY <1>1, <2>5, <2>8 DEF Keeps
  <2> QED BY <1>3, <2>1, <2>5, <2>8, <2>9 DEF r
<1> QED BY <1>2, <1>3

(* One token.                                                              *)
LEMMA TokenKeeps ==
  ASSUME NEW p \in Parsing, NEW t \in Tokens, p.redirect = "none"
  PROVE  /\ Take(p, t) \in Parsing /\ Keeps(p, Take(p, t))
         /\ t \in Redirections => Take(p, t).redirect = t
         /\ t \notin Redirections => Take(p, t).redirect = "none"
<1>1. CASE t \in Words
  <2>1. t \notin Redirections
    BY <1>1, ShellAssumption DEF Operators, Redirections
  <2>2. Take(p, t) = TakeWord(p, t)
    <3>1. t \notin Operators
      BY <1>1, ShellAssumption
    <3> QED BY <1>1, <3>1 DEF Take, Operators
  <2> QED BY <1>1, <2>1, <2>2, WordKeeps
<1>2. CASE t \in Redirections
  <2>1. t \notin Words
    BY <1>2, ShellAssumption DEF Operators
  <2> DEFINE q == [p EXCEPT !.redirect = t]
  <2>2. Take(p, t) = q
    BY <1>2, <2>1 DEF Take, Redirections
  <2>3. /\ q \in Parsing /\ q.redirect = t /\ q.commands = p.commands /\ q.cur.redirects = p.cur.redirects
        /\ q.opaque = p.opaque /\ p.opaque \in BOOLEAN
    BY <1>2 DEF Parsing
  <2> HIDE DEF q
  <2>4. Keeps(p, q)
    BY <2>3, KeepsSame
  <2> QED BY <1>2, <2>2, <2>3, <2>4
<1>3. CASE t \notin Words /\ t \notin Redirections
  <2>1. t \in {";", "&&", "(", ")", "<<"}
    BY <1>3 DEF Tokens, Operators
  <2>2. CASE t = "("
    <3>1. Take(p, t) = TakeOpen(p)
      BY <1>3, <2>2 DEF Take
    <3> QED BY <1>3, <3>1, OpenKeeps
  <2>3. CASE t = ")"
    <3>1. Take(p, t) = TakeClose(p)
      BY <1>3, <2>3 DEF Take
    <3> QED BY <1>3, <3>1, CloseKeeps
  <2>4. CASE t \in {";", "&&"}
    <3>1. Take(p, t) = TakeSeparator(p, t)
      BY <1>3, <2>4 DEF Take
    <3> QED BY <1>3, <3>1, SeparatorKeeps
  <2>5. CASE t = "<<"
    <3>1. Take(p, t) = Fail(p)
      BY <1>3, <2>5 DEF Take
    <3>2. Fail(p) \in Parsing /\ Fail(p).opaque /\ Fail(p).redirect = p.redirect
      BY FailFails
    <3> QED BY <1>3, <3>1, <3>2 DEF Keeps
  <2> QED BY <2>1, <2>2, <2>3, <2>4, <2>5
<1> QED BY <1>1, <1>2, <1>3

(* Of the first k tokens every redirection that writes has been read, or   *)
(* is about to be, unless the line is not understood.                      *)
ReadSoFar(p, tokens, k) ==
    \/ p.opaque
    \/ \A j \in 1..k : tokens[j] = ">" =>
         \/ j = k /\ p.redirect = ">"
         \/ j < Len(tokens) /\ tokens[j + 1] \in Words /\ Has(p, [op |-> ">", target |-> tokens[j + 1]])

(* One token more has been read.                                           *)
LEMMA ReadOn ==
  ASSUME NEW tokens \in Seq(Tokens), NEW k \in 0..Len(tokens) - 1, NEW p \in Parsing, NEW q,
         q = Take(p, tokens[k + 1]), ReadSoFar(p, tokens, k)
  PROVE  q \in Parsing /\ ReadSoFar(q, tokens, k + 1)
<1> DEFINE t == tokens[k + 1]
<1>1. /\ t \in Tokens /\ k \in Nat /\ k + 1 <= Len(tokens) /\ Len(tokens) \in Nat
      /\ q = Take(p, t)
  OBVIOUS
<1> HIDE DEF t
<1>2. CASE p.redirect = "none"
  <2>1. /\ q \in Parsing /\ Keeps(p, q)
        /\ t \in Redirections => q.redirect = t
    BY <1>1, <1>2, TokenKeeps
  <2>2. CASE q.opaque
    BY <2>1, <2>2 DEF ReadSoFar
  <2>3. CASE ~q.opaque
    <3>1. ~p.opaque /\ \A r : Has(p, r) => Has(q, r)
      BY <2>1, <2>3 DEF Keeps
    <3>2. ASSUME NEW j \in 1..k + 1, tokens[j] = ">"
          PROVE  \/ j = k + 1 /\ q.redirect = ">"
                 \/ j < Len(tokens) /\ tokens[j + 1] \in Words /\ Has(q, [op |-> ">", target |-> tokens[j + 1]])
      <4>1. CASE j = k + 1
        BY <2>1, <3>2, <4>1 DEF t, Redirections
      <4>2. CASE j # k + 1
        <5>1. j \in 1..k
          BY <1>1, <4>2
        <5>2. p.redirect # ">"
          BY <1>2
        <5>3. j < Len(tokens) /\ tokens[j + 1] \in Words /\ Has(p, [op |-> ">", target |-> tokens[j + 1]])
          BY <3>1, <3>2, <5>1, <5>2 DEF ReadSoFar
        <5> QED BY <3>1, <5>3
      <4> QED BY <4>1, <4>2
    <3> QED BY <2>1, <3>2 DEF ReadSoFar
  <2> QED BY <2>2, <2>3
<1>3. CASE p.redirect # "none"
  <2>1. q = TakeTarget(p, t)
    BY <1>1, <1>3 DEF Take
  <2>2. /\ q \in Parsing /\ Keeps(p, q)
        /\ q.opaque \/ (t \in Words /\ Has(q, [op |-> p.redirect, target |-> t]))
    BY <1>1, <1>3, <2>1, TargetKeeps
  <2>3. CASE q.opaque
    BY <2>2, <2>3 DEF ReadSoFar
  <2>4. CASE ~q.opaque
    <3>1. ~p.opaque /\ \A r : Has(p, r) => Has(q, r)
      BY <2>2, <2>4 DEF Keeps
    <3>2. t \in Words /\ Has(q, [op |-> p.redirect, target |-> t])
      BY <2>2, <2>4
    <3>3. ASSUME NEW j \in 1..k + 1, tokens[j] = ">"
          PROVE  j < Len(tokens) /\ tokens[j + 1] \in Words /\ Has(q, [op |-> ">", target |-> tokens[j + 1]])
      <4>1. j # k + 1
        BY <3>2, <3>3, ShellAssumption DEF t, Operators, Redirections
      <4>2. j \in 1..k
        BY <1>1, <4>1
      <4>3. CASE j = k /\ p.redirect = ">"
        BY <1>1, <3>2, <4>3 DEF t
      <4>4. CASE j < Len(tokens) /\ tokens[j + 1] \in Words /\ Has(p, [op |-> ">", target |-> tokens[j + 1]])
        BY <3>1, <4>4
      <4> QED BY <3>1, <3>3, <4>2, <4>3, <4>4 DEF ReadSoFar
    <3> QED BY <2>2, <3>3 DEF ReadSoFar
  <2> QED BY <2>3, <2>4
<1> QED BY <1>2, <1>3

(* Of a line that is understood every redirection that writes is one of a  *)
(* command.                                                                *)
LEMMA ParsedAll ==
  ASSUME NEW tokens \in Seq(Tokens), ~Parse(tokens).opaque, NEW j \in DOMAIN tokens, tokens[j] = ">"
  PROVE  /\ j < Len(tokens) /\ tokens[j + 1] \in Words
         /\ \E c \in Range(Parse(tokens).commands) : [op |-> ">", target |-> tokens[j + 1]] \in Range(c.redirects)
         /\ Parse(tokens).commands \in Seq(Reading)
<1> DEFINE n == Len(tokens)
           read == FoldLeft(Take, Parsed, tokens)
           p == Finish(read)
           cond == \/ read.redirect # "none" \/ p.depth # 0 \/ p.needCommand
                   \/ p.commands = <<>> \/ \E c \in Range(p.commands) : Unreadable(c)
<1>1. PICK g : /\ g[0] = Parsed
               /\ \A k \in 0..n - 1 : g[k + 1] = Take(g[k], tokens[k + 1])
               /\ g[n] = read
  BY TakenAlong
<1>2. n \in Nat /\ DOMAIN tokens = 1..n
  OBVIOUS
<1>3. Parse(tokens) = FailIf(cond, p)
  BY DEF Parse
<1> HIDE DEF read
<1>4. read \in Parsing /\ ReadSoFar(read, tokens, n)
  <2> DEFINE S == {m \in Nat : m <= n => g[m] \in Parsing /\ ReadSoFar(g[m], tokens, m)}
  <2>1. 0 \in S
    <3>1. Parsed \in Parsing
      BY DEF Parsed, Parsing, NoCommand, Reading
    <3>2. ReadSoFar(Parsed, tokens, 0)
      BY DEF ReadSoFar
    <3> QED BY <1>1, <3>1, <3>2
  <2>2. ASSUME NEW m \in Nat, m \in S PROVE m + 1 \in S
    <3>1. SUFFICES ASSUME m + 1 <= n PROVE g[m + 1] \in Parsing /\ ReadSoFar(g[m + 1], tokens, m + 1)
      OBVIOUS
    <3>2. m \in 0..n - 1 /\ g[m] \in Parsing /\ ReadSoFar(g[m], tokens, m)
      BY <1>2, <2>2, <3>1
    <3>3. g[m + 1] = Take(g[m], tokens[m + 1])
      BY <1>1, <3>2
    <3> QED BY <3>2, <3>3, ReadOn
  <2> HIDE DEF S
  <2>3. Nat \subseteq S
    BY <2>1, <2>2, Upwards
  <2>4. n \in S
    BY <1>2, <2>3
  <2> QED BY <1>1, <1>2, <2>4 DEF S
<1>5. p \in Parsing /\ Keeps(read, p)
  BY <1>4, FinishKeeps
<1>6. ~cond /\ ~p.opaque /\ Parse(tokens) = p
  <2>1. ~cond
    BY <1>3, <1>5 DEF FailIf, Fail, Parsing
  <2> HIDE DEF cond, p
  <2>2. Parse(tokens) = p
    BY <1>3, <2>1 DEF FailIf
  <2> QED BY <2>1, <2>2
<1>7. read.redirect = "none"
  BY <1>6
<1>8. ~read.opaque /\ \A r : Has(read, r) => Has(p, r)
  BY <1>5, <1>6 DEF Keeps
<1>9. j < n /\ tokens[j + 1] \in Words /\ Has(p, [op |-> ">", target |-> tokens[j + 1]])
  <2>1. j \in 1..n /\ read.redirect # ">"
    BY <1>2, <1>7
  <2> HIDE DEF p
  <2>2. j < n /\ tokens[j + 1] \in Words /\ Has(read, [op |-> ">", target |-> tokens[j + 1]])
    BY <1>4, <1>8, <2>1 DEF ReadSoFar
  <2> QED BY <1>8, <2>2
<1>10. p.cur.redirects = <<>>
  <2>1. CASE read.cur.words = <<>>
    <3>1. p = FailIf(read.cur.redirects # <<>>, read)
      BY <2>1 DEF Finish
    <3>2. read.cur.redirects = <<>>
      BY <1>4, <1>6, <3>1, FailFails DEF FailIf
    <3> QED BY <3>1, <3>2 DEF FailIf
  <2>2. CASE read.cur.words # <<>>
    <3>1. p = [read EXCEPT !.commands = Append(@, read.cur), !.cur = NoCommand]
      BY <2>2 DEF Finish
    <3>2. p.cur = NoCommand
      BY <1>4, <3>1 DEF Parsing
    <3> QED BY <3>2 DEF NoCommand
  <2> QED BY <2>1, <2>2
<1>11. Range(p.cur.redirects) = {}
  BY <1>10 DEF Range
<1> HIDE DEF p
<1>12. \E c \in Range(p.commands) : [op |-> ">", target |-> tokens[j + 1]] \in Range(c.redirects)
  BY <1>9, <1>11 DEF Has
<1>13. p.commands \in Seq(Reading)
  BY <1>5, ParsingFields
<1> QED BY <1>6, <1>9, <1>12, <1>13

-----------------------------------------------------------------------------
(* Redirections taken into account one after the other.                    *)
AppliedBy(f, n, base, rs) ==
    f = [s \in SUBSET (1..n) |-> IF s = {} THEN base ELSE Redirect(f[s \ {Max(s)}], rs[Max(s)])]

(* There is such a function for every number of redirections.              *)
LEMMA AppliedExists ==
  ASSUME NEW base, NEW rs, NEW n \in Nat
  PROVE  \E f : AppliedBy(f, n, base, rs)
<1> DEFINE S == {m \in Nat : \E f : AppliedBy(f, m, base, rs)}
<1>1. 0 \in S
  <2> DEFINE f == [s \in SUBSET (1..0) |-> base]
  <2>1. \A s \in SUBSET (1..0) : s = {}
    OBVIOUS
  <2>2. AppliedBy(f, 0, base, rs)
    BY <2>1 DEF AppliedBy
  <2> QED BY <2>2
<1>2. ASSUME NEW m \in Nat, m \in S PROVE m + 1 \in S
  <2>1. PICK f : AppliedBy(f, m, base, rs)
    BY <1>2
  <2> DEFINE g == [s \in SUBSET (1..m + 1) |-> IF m + 1 \in s THEN Redirect(f[s \ {m + 1}], rs[m + 1]) ELSE f[s]]
             h == [s \in SUBSET (1..m + 1) |-> IF s = {} THEN base ELSE Redirect(g[s \ {Max(s)}], rs[Max(s)])]
  <2>2. ASSUME NEW s \in SUBSET (1..m + 1) PROVE g[s] = h[s]
    <3>1. CASE s = {}
      <4>1. s \in SUBSET (1..m)
        BY <3>1
      <4>2. f[s] = base
        BY <2>1, <3>1, <4>1 DEF AppliedBy
      <4> QED BY <3>1, <4>2
    <3>2. CASE m + 1 \in s
      <4>1. Max(s) = m + 1
        <5>1. m + 1 \in s /\ \A y \in s : y \in Nat /\ m + 1 >= y
          BY <3>2
        <5>2. \A x \in s : (\A y \in s : x >= y) => x = m + 1
          BY <5>1
        <5> QED BY <5>1, <5>2 DEF Max
      <4>2. s \ {m + 1} \in SUBSET (1..m + 1) /\ m + 1 \notin s \ {m + 1} /\ s # {}
        BY <3>2
      <4>3. g[s \ {m + 1}] = f[s \ {m + 1}]
        BY <4>2
      <4>4. g[s] = Redirect(f[s \ {m + 1}], rs[m + 1])
        BY <3>2
      <4>5. h[s] = Redirect(g[s \ {Max(s)}], rs[Max(s)])
        BY <4>2
      <4> HIDE DEF g, h
      <4> QED BY <4>1, <4>3, <4>4, <4>5
    <3>3. CASE s # {} /\ m + 1 \notin s
      <4>1. s \in SUBSET (1..m)
        BY <3>3
      <4>2. f[s] = Redirect(f[s \ {Max(s)}], rs[Max(s)])
        BY <2>1, <3>3, <4>1 DEF AppliedBy
      <4>3. g[s] = f[s]
        BY <3>3
      <4>4. s \ {Max(s)} \in SUBSET (1..m + 1) /\ m + 1 \notin s \ {Max(s)}
        BY <3>3
      <4>5. g[s \ {Max(s)}] = f[s \ {Max(s)}]
        BY <4>4
      <4>6. h[s] = Redirect(g[s \ {Max(s)}], rs[Max(s)])
        BY <3>3
      <4> HIDE DEF g, h
      <4> QED BY <4>2, <4>3, <4>5, <4>6
    <3> QED BY <3>1, <3>2, <3>3
  <2>3. g = h
    <3> g = [s \in SUBSET (1..m + 1) |-> g[s]] /\ h = [s \in SUBSET (1..m + 1) |-> h[s]]
      OBVIOUS
    <3> HIDE DEF g, h
    <3> QED BY <2>2
  <2>4. AppliedBy(g, m + 1, base, rs)
    <3>1. h = [s \in SUBSET (1..m + 1) |-> IF s = {} THEN base ELSE Redirect(g[s \ {Max(s)}], rs[Max(s)])]
      OBVIOUS
    <3> HIDE DEF g, h
    <3> QED BY <2>3, <3>1 DEF AppliedBy
  <2> QED BY <2>4
<1> HIDE DEF S
<1>3. Nat \subseteq S
  BY <1>1, <1>2, Upwards
<1> QED BY <1>3 DEF S

(* What is known along the redirections.                                   *)
LEMMA AppliedAlong ==
  ASSUME NEW T, NEW base, NEW rs \in Seq(T)
  PROVE  \E g : /\ g[0] = base
                /\ \A k \in 0..Len(rs) - 1 : g[k + 1] = Redirect(g[k], rs[k + 1])
                /\ g[Len(rs)] = FoldLeft(Redirect, base, rs)
<1> DEFINE n == Len(rs)
           f == CHOOSE x : AppliedBy(x, n, base, rs)
           g == [k \in 0..n |-> f[1..k]]
<1>1. DOMAIN rs = 1..n /\ n \in Nat
  OBVIOUS
<1>2. FoldLeft(Redirect, base, rs) = f[1..n]
  BY <1>1 DEF FoldLeft, MapThenFoldSet, AppliedBy
<1> HIDE DEF n
<1>3. AppliedBy(f, n, base, rs)
  BY <1>1, AppliedExists
<1> HIDE DEF f
<1>4. g[0] = base
  <2>1. 1..0 = {} /\ 1..0 \in SUBSET (1..n) /\ 0 \in 0..n
    BY <1>1
  <2>2. f[1..0] = base
    BY <1>3, <2>1 DEF AppliedBy
  <2> QED BY <2>1, <2>2
<1>5. ASSUME NEW k \in 0..n - 1 PROVE g[k + 1] = Redirect(g[k], rs[k + 1])
  <2>1. /\ 1..k + 1 \in SUBSET (1..n) /\ 1..k + 1 # {} /\ (1..k + 1) \ {k + 1} = 1..k
        /\ k \in 0..n /\ k + 1 \in 0..n /\ k + 1 \in 1..k + 1
    <3>1. k \in Nat /\ k + 1 <= n
      BY <1>1
    <3>2. k \in 0..n /\ k + 1 \in 0..n /\ k + 1 \in 1..k + 1
      BY <1>1, <3>1
    <3>3. 1..k + 1 \in SUBSET (1..n) /\ 1..k + 1 # {}
      BY <1>1, <3>1
    <3>4. (1..k + 1) \ {k + 1} = 1..k
      BY <3>1
    <3> QED BY <3>2, <3>3, <3>4
  <2>2. Max(1..k + 1) = k + 1
    <3>1. \A y \in 1..k + 1 : k + 1 >= y
      BY <1>1
    <3>2. \A x \in 1..k + 1 : (\A y \in 1..k + 1 : x >= y) => x = k + 1
      BY <1>1, <2>1
    <3> QED BY <2>1, <3>1, <3>2 DEF Max
  <2>3. f[1..k + 1] = Redirect(f[(1..k + 1) \ {Max(1..k + 1)}], rs[Max(1..k + 1)])
    BY <1>3, <2>1 DEF AppliedBy
  <2>4. f[1..k + 1] = Redirect(f[1..k], rs[k + 1])
    BY <2>1, <2>2, <2>3
  <2> QED BY <2>1, <2>4
<1>6. g[n] = f[1..n]
  BY <1>1
<1> QED BY <1>2, <1>4, <1>5, <1>6 DEF n

(* What is known of a command.                                             *)
IsAnalysis(a) ==
    /\ a = [class |-> a.class, access |-> a.access, opaque |-> a.opaque]
    /\ a.class \in Range(Classes) /\ a.opaque \in BOOLEAN

(* Every class has a rank.                                                 *)
LEMMA RankIs ==
  ASSUME NEW class \in Range(Classes)
  PROVE  Rank(class) \in 1..5 /\ Classes[Rank(class)] = class
<1>1. DOMAIN Classes = 1..5
  BY DEF Classes
<1>2. \E i \in DOMAIN Classes : Classes[i] = class
  BY DEF Range
<1> QED BY <1>1, <1>2 DEF Rank

(* Only what is pure has the lowest rank.                                  *)
LEMMA RankOf ==
  /\ Rank("pure") = 1 /\ Rank("local_write") = 2
  /\ "local_write" \in Range(Classes) /\ "opaque" \in Range(Classes)
  /\ \A i \in 1..5 : Classes[i] \in Range(Classes) /\ (Classes[i] = "pure" => i = 1)
<1>1. /\ DOMAIN Classes = 1..5 /\ Classes[1] = "pure" /\ Classes[2] = "local_write" /\ Classes[3] = "network"
      /\ Classes[4] = "irreversible" /\ Classes[5] = "opaque"
  BY DEF Classes
<1>2. \A i \in 1..5 : Classes[i] \in Range(Classes)
  BY <1>1 DEF Range
<1>3. \A i \in 1..5 : (Classes[i] = "pure" => i = 1) /\ (Classes[i] = "local_write" => i = 2)
  BY <1>1
<1>4. "pure" \in Range(Classes) /\ "local_write" \in Range(Classes) /\ "opaque" \in Range(Classes)
  <2>1. Classes[1] \in Range(Classes) /\ Classes[2] \in Range(Classes) /\ Classes[5] \in Range(Classes)
    BY <1>2
  <2> QED BY <1>1, <2>1
<1>5. Rank("pure") = 1 /\ Rank("local_write") = 2
  BY <1>3, <1>4, RankIs
<1> QED BY <1>2, <1>3, <1>4, <1>5

(* The highest of some ranks.                                              *)
LEMMA MaxOfFive ==
  ASSUME NEW s, s \subseteq 1..5, NEW i \in s
  PROVE  Max(s) \in s /\ Max(s) >= i
<1>1. \E x \in s : \A y \in s : x >= y
  <2>1. CASE 5 \in s BY <2>1
  <2>2. CASE 5 \notin s /\ 4 \in s BY <2>2
  <2>3. CASE 5 \notin s /\ 4 \notin s /\ 3 \in s BY <2>3
  <2>4. CASE 5 \notin s /\ 4 \notin s /\ 3 \notin s /\ 2 \in s BY <2>4
  <2>5. CASE 5 \notin s /\ 4 \notin s /\ 3 \notin s /\ 2 \notin s BY <2>5
  <2> QED BY <2>1, <2>2, <2>3, <2>4, <2>5
<1> QED BY <1>1 DEF Max

(* The effect of a known command.                                          *)
LEMMA EffectIs ==
  ASSUME NEW rule, NEW args
  PROVE  IsAnalysis(Effect(rule, args))
<1>1. \A class \in Range(Classes) : \A access : IsAnalysis(Does(class, access))
  BY DEF IsAnalysis, Does
<1>2. IsAnalysis(Opaque)
  BY RankOf DEF IsAnalysis, Opaque
<1>3. \A class \in {"pure", "local_write", "network", "irreversible"} : class \in Range(Classes)
  <2>1. DOMAIN Classes = 1..5 /\ Classes[1] = "pure" /\ Classes[2] = "local_write" /\ Classes[3] = "network"
        /\ Classes[4] = "irreversible"
    BY DEF Classes
  <2>2. \A i \in 1..4 : Classes[i] \in Range(Classes)
    BY RankOf
  <2> QED BY <2>1, <2>2
<1>4. \/ Effect(rule, args) = Opaque
      \/ \E class \in {"pure", "local_write", "network", "irreversible"} : \E access :
           Effect(rule, args) = Does(class, access)
  <2>1. CASE rule.effect = "read_only"
    BY <2>1 DEF Effect
  <2>2. CASE rule.effect = "repo_write"
    BY <2>2 DEF Effect
  <2>3. CASE rule.effect = "push"
    BY <2>3 DEF Effect
  <2>4. CASE rule.effect = "fetch" /\ args \cap Hosts # {}
    BY <2>4 DEF Effect
  <2>5. CASE rule.effect = "bound"
    BY <2>5 DEF Effect
  <2>6. CASE /\ rule.effect \notin {"read_only", "repo_write", "push", "bound"}
             /\ ~(rule.effect = "fetch" /\ args \cap Hosts # {})
    BY <2>6 DEF Effect
  <2> QED BY <2>1, <2>2, <2>3, <2>4, <2>5, <2>6
<1> QED BY <1>1, <1>2, <1>3, <1>4

(* The redirection r has been taken into account, if it writes.            *)
Counted(a, r) ==
    r.op # "<" =>
        /\ a.class # "pure" /\ Writes(Cmd) \in a.access
        /\ r.target \notin Outside /\ Writes(File(r.target)) \in a.access

(* A redirection is counted, and those before it still are.                *)
LEMMA RedirectCounts ==
  ASSUME NEW a, IsAnalysis(a), NEW r, NEW b, b = Redirect(a, r)
  PROVE  /\ IsAnalysis(b) /\ (b.opaque \/ Counted(b, r))
         /\ b.opaque \/ (~a.opaque /\ \A x : Counted(a, x) => Counted(b, x))
<1>1. CASE a.opaque
  <2>1. b = a
    BY <1>1 DEF Redirect
  <2> QED BY <1>1, <2>1
<1>2. CASE ~a.opaque /\ r.op = "<"
  <2>1. b = [a EXCEPT !.access = @ \cup {Reads(File(r.target))}]
    BY <1>2 DEF Redirect
  <2>2. b = [class |-> a.class, access |-> a.access \cup {Reads(File(r.target))}, opaque |-> a.opaque]
    BY <2>1 DEF IsAnalysis
  <2>3. b.class = a.class /\ b.access = a.access \cup {Reads(File(r.target))} /\ b.opaque = a.opaque
    BY <2>2
  <2>4. \A x : Counted(a, x) => Counted(b, x)
    BY <2>3 DEF Counted
  <2> QED BY <1>2, <2>2, <2>3, <2>4 DEF IsAnalysis, Counted
<1>3. CASE ~a.opaque /\ r.op # "<" /\ r.target \in Outside
  <2>1. b = Opaque
    BY <1>3 DEF Redirect
  <2>2. b.opaque
    BY <2>1 DEF Opaque
  <2> QED BY <2>1, <2>2, RankOf DEF IsAnalysis, Opaque
<1>4. CASE ~a.opaque /\ r.op # "<" /\ r.target \notin Outside
  <2> DEFINE class  == Stronger(a.class, "local_write")
             access == (a.access \ {Reads(Cmd)}) \cup {Writes(Cmd), Writes(File(r.target))}
  <2>1. b = [a EXCEPT !.class = Stronger(@, "local_write"),
                      !.access = (@ \ {Reads(Cmd)}) \cup {Writes(Cmd), Writes(File(r.target))}]
    BY <1>4 DEF Redirect
  <2>2. b = [class |-> class, access |-> access, opaque |-> a.opaque]
    BY <2>1 DEF IsAnalysis
  <2>3. class \in Range(Classes) /\ class # "pure"
    <3>1. Rank(a.class) \in 1..5 /\ a.class \in Range(Classes)
      BY RankIs DEF IsAnalysis
    <3>2. CASE Rank(a.class) >= 2
      BY <3>1, <3>2, RankOf DEF Stronger
    <3>3. CASE ~(Rank(a.class) >= 2)
      BY <3>1, <3>3, RankOf DEF Stronger
    <3> QED BY <3>2, <3>3
  <2>4. \A w : Writes(w) # Reads(Cmd)
    BY DEF Writes, Reads
  <2>5. /\ Writes(Cmd) \in access /\ Writes(File(r.target)) \in access
        /\ \A w : Writes(w) \in a.access => Writes(w) \in access
    BY <2>4
  <2> HIDE DEF class, access
  <2>6. b.class = class /\ b.access = access /\ b.opaque = a.opaque
    BY <2>2
  <2>7. \A x : Counted(a, x) => Counted(b, x)
    BY <2>3, <2>5, <2>6 DEF Counted
  <2>8. Counted(b, r)
    BY <1>4, <2>3, <2>5, <2>6 DEF Counted
  <2>9. IsAnalysis(b)
    BY <2>2, <2>3, <2>6 DEF IsAnalysis
  <2> QED BY <1>4, <2>6, <2>7, <2>8, <2>9
<1> QED BY <1>1, <1>2, <1>3, <1>4

(* What all redirections of a command make of it.                          *)
LEMMA AllCounted ==
  ASSUME NEW base, IsAnalysis(base), NEW rs \in Seq(Redirecting),
         NEW a, a = FoldLeft(Redirect, base, rs)
  PROVE  IsAnalysis(a) /\ (a.opaque \/ \A r \in Range(rs) : Counted(a, r))
<1> DEFINE n == Len(rs)
<1>1. PICK g : /\ g[0] = base
               /\ \A k \in 0..n - 1 : g[k + 1] = Redirect(g[k], rs[k + 1])
               /\ g[n] = a
  BY AppliedAlong
<1>2. n \in Nat /\ DOMAIN rs = 1..n
  OBVIOUS
<1> DEFINE Done(m) == IsAnalysis(g[m]) /\ (g[m].opaque \/ \A j \in 1..m : Counted(g[m], rs[j]))
           S == {m \in Nat : m <= n => Done(m)}
<1>3. 0 \in S
  <2>1. \A j \in 1..0 : Counted(g[0], rs[j])
    OBVIOUS
  <2> QED BY <1>1, <2>1
<1>4. ASSUME NEW m \in Nat, m \in S PROVE m + 1 \in S
  <2>1. SUFFICES ASSUME m + 1 <= n PROVE Done(m + 1)
    OBVIOUS
  <2>2. m \in 0..n - 1 /\ Done(m)
    BY <1>2, <1>4, <2>1
  <2>3. g[m + 1] = Redirect(g[m], rs[m + 1])
    BY <1>1, <2>2
  <2>4. /\ IsAnalysis(g[m + 1]) /\ (g[m + 1].opaque \/ Counted(g[m + 1], rs[m + 1]))
        /\ g[m + 1].opaque \/ (~g[m].opaque /\ \A x : Counted(g[m], x) => Counted(g[m + 1], x))
    BY <2>2, <2>3, RedirectCounts
  <2>5. ASSUME ~g[m + 1].opaque, NEW j \in 1..m + 1 PROVE Counted(g[m + 1], rs[j])
    <3>1. CASE j = m + 1
      BY <2>4, <2>5, <3>1
    <3>2. CASE j \in 1..m
      BY <2>2, <2>4, <2>5, <3>2
    <3> QED BY <2>5, <3>1, <3>2
  <2> QED BY <2>4, <2>5
<1> HIDE DEF S
<1>5. Nat \subseteq S
  BY <1>3, <1>4, Upwards
<1>6. Done(n)
  BY <1>2, <1>5 DEF S
<1> QED BY <1>1, <1>2, <1>6 DEF Range

(* A command that is understood.                                           *)
LEMMA SimpleCounts ==
  ASSUME NEW c \in Reading, NEW table, NEW a, a = AnalyzeSimple(c, table), ~a.opaque
  PROVE  IsAnalysis(a) /\ \A r \in Range(c.redirects) : Counted(a, r)
<1> DEFINE rule == Lookup(table, c.words)
           args == {c.words[i] : i \in Len(rule.prefix) + 1 .. Len(c.words)}
<1>1. Opaque.opaque
  BY DEF Opaque
<1>2. a = FoldLeft(Redirect, Effect(rule, args), c.redirects)
  BY <1>1 DEF AnalyzeSimple
<1>3. c.redirects \in Seq(Redirecting)
  BY DEF Reading
<1> HIDE DEF rule, args
<1>4. IsAnalysis(Effect(rule, args))
  BY EffectIs
<1> QED BY <1>2, <1>3, <1>4, AllCounted

(* The analysis of a whole line.                                           *)
LEMMA LineCounts ==
  ASSUME NEW tokens \in Seq(Tokens), NEW table, NEW sandboxed, NEW a,
         a = Analyze(tokens, table, sandboxed), NEW j \in DOMAIN tokens, tokens[j] = ">"
  PROVE  /\ a.class # "pure" /\ Writes(Cmd) \in a.access
         /\ \/ Writes(Workspace) \in a.access
            \/ /\ j < Len(tokens) /\ tokens[j + 1] \notin Outside
               /\ Writes(File(tokens[j + 1])) \in a.access
<1> DEFINE p     == Parse(tokens)
           parts == {AnalyzeSimple(c, table) : c \in Range(p.commands)}
           bad   == ~sandboxed \/ p.opaque \/ \E x \in parts : x.opaque
           ranks == {Rank(x.class) : x \in parts}
<1>1. a = IF bad THEN OpaqueLine ELSE Does(Classes[Max(ranks)], UNION {x.access : x \in parts})
  BY DEF Analyze
<1>2. CASE bad
  <2>1. a = OpaqueLine
    BY <1>1, <1>2
  <2> HIDE DEF bad
  <2> QED BY <2>1 DEF OpaqueLine, Opaque
<1>3. CASE ~bad
  <2>1. ~p.opaque /\ \A x \in parts : ~x.opaque
    BY <1>3
  <2>2. a.class = Classes[Max(ranks)] /\ a.access = UNION {x.access : x \in parts}
    BY <1>1, <1>3 DEF Does
  <2> HIDE DEF bad
  <2>3. /\ j < Len(tokens) /\ tokens[j + 1] \in Words /\ p.commands \in Seq(Reading)
        /\ \E c \in Range(p.commands) : [op |-> ">", target |-> tokens[j + 1]] \in Range(c.redirects)
    BY <2>1, ParsedAll
  <2> HIDE DEF p
  <2> DEFINE r == [op |-> ">", target |-> tokens[j + 1]]
  <2>4. PICK c \in Range(p.commands) : r \in Range(c.redirects)
    BY <2>3
  <2>5. \A x \in Range(p.commands) : x \in Reading
    BY <2>3 DEF Range
  <2>6. ASSUME NEW x \in parts PROVE IsAnalysis(x)
    BY <2>1, <2>5, <2>6, SimpleCounts
  <2> DEFINE part == AnalyzeSimple(c, table)
  <2>7. part \in parts /\ Counted(part, r)
    BY <2>1, <2>4, <2>5, SimpleCounts
  <2> HIDE DEF parts, part
  <2>8. part.class # "pure" /\ Writes(Cmd) \in part.access /\ tokens[j + 1] \notin Outside
        /\ Writes(File(tokens[j + 1])) \in part.access
    BY <2>7 DEF Counted
  <2>9. /\ Writes(Cmd) \in a.access /\ Writes(File(tokens[j + 1])) \in a.access
    BY <2>2, <2>7, <2>8
  <2>10. Classes[Max(ranks)] # "pure"
    <3>1. \A x \in parts : Rank(x.class) \in 1..5 /\ Classes[Rank(x.class)] = x.class
      BY <2>6, RankIs DEF IsAnalysis
    <3>2. ranks \subseteq 1..5 /\ Rank(part.class) \in ranks /\ Rank(part.class) # 1
      <4>1. Classes[1] = "pure"
        BY DEF Classes
      <4> QED BY <2>7, <2>8, <3>1, <4>1
    <3> HIDE DEF ranks
    <3>3. Max(ranks) \in ranks /\ Max(ranks) >= Rank(part.class)
      BY <3>2, MaxOfFive
    <3>4. Max(ranks) \in 1..5 /\ Max(ranks) # 1
      <4>1. Rank(part.class) \in 1..5 /\ Max(ranks) \in 1..5
        BY <3>2, <3>3
      <4> QED BY <3>2, <3>3, <4>1
    <3> QED BY <3>4, RankOf
  <2> QED BY <2>2, <2>3, <2>8, <2>9, <2>10
<1> QED BY <1>2, <1>3

-----------------------------------------------------------------------------
(* A line consists of tokens.                                              *)
LineTyped == line \in Seq(Tokens)

(* The line is empty at first.                                             *)
LEMMA LineInit == Init => LineTyped
BY DEF Init, LineTyped

(* Tokens are appended to it.                                              *)
LEMMA LineNext == LineTyped /\ [Next]_vars => LineTyped'
<1> SUFFICES ASSUME LineTyped, [Next]_vars PROVE LineTyped'
  OBVIOUS
<1>1. CASE Type
  BY <1>1 DEF Type, LineTyped
<1>2. CASE Write
  BY <1>2 DEF Write, LineTyped
<1>3. CASE Define
  BY <1>3 DEF Define, LineTyped
<1>4. CASE UNCHANGED vars
  BY <1>4 DEF vars, LineTyped
<1> QED BY <1>1, <1>2, <1>3, <1>4 DEF Next

(* What is declared of such a line.                                        *)
LEMMA LinesDeclared == LineTyped => RedirectsDeclared
<1> SUFFICES ASSUME LineTyped, NEW j \in DOMAIN line, line[j] = ">"
             PROVE  /\ WritesDeclared(line, Analyze(line, Defaults, TRUE))
                    /\ Evaluate(Plan, Tools, Start, ShellCall(line, Plan)) = "deny"
  BY DEF RedirectsDeclared, Range
<1>1. WritesDeclared(line, Analyze(line, Defaults, TRUE))
  <2> DEFINE a == Analyze(line, Defaults, TRUE)
  <2>1. \A k \in DOMAIN line : line[k] = ">" =>
          /\ a.class # "pure" /\ Writes(Cmd) \in a.access
          /\ \/ Writes(Workspace) \in a.access
             \/ k < Len(line) /\ line[k + 1] \notin Outside /\ Writes(File(line[k + 1])) \in a.access
    BY LineCounts DEF LineTyped
  <2> HIDE DEF a
  <2>2. WritesDeclared(line, a)
    BY <2>1 DEF WritesDeclared
  <2> QED BY <2>2 DEF a
<1>2. Evaluate(Plan, Tools, Start, ShellCall(line, Plan)) = "deny"
  <2> DEFINE kernel == Kernel(Compile({}), Host)
             table  == Defaults \o Plan.shell
             boxed  == Plan.sandbox
             read   == Analyze(line, table, boxed)
             call   == ShellCall(line, Plan)
  <2>1. call.class = read.class
    BY DEF ShellCall
  <2> HIDE DEF table, boxed
  <2>2. read.class # "pure"
    BY LineCounts DEF LineTyped
  <2> HIDE DEF read, call
  <2>3. SideEffecting(call)
    BY <2>1, <2>2 DEF SideEffecting
  <2>4. Plan = [kernel EXCEPT !.readOnly = TRUE]
    BY DEF Plan
  <2>5. IsConfig(kernel)
    BY KernelIsConfig
  <2> HIDE DEF kernel
  <2>6. Plan.readOnly
    BY <2>4, <2>5 DEF IsConfig, Fields
  <2>7. PolicyAction(Plan, Tools, call) = "deny"
    BY <2>3, <2>6 DEF PolicyAction
  <2>8. Evaluate(Plan, Tools, Start, call) = "deny"
    BY <2>7 DEF Evaluate
  <2> QED BY <2>8 DEF call
<1> QED BY <1>1, <1>2

(* Of a line of any words and of any length, every file that it writes by  *)
(* a redirection is declared, and the read-only mode denies it.            *)
THEOREM RedirectionsAreDeclared == Spec => []RedirectsDeclared
<1>1. Spec => []LineTyped
  BY LineInit, LineNext, PTL DEF Spec
<1> QED BY <1>1, LinesDeclared, PTL
=============================================================================
