------------------------------ MODULE Profile ------------------------------
(* How the configuration files of the five layers are compiled into one    *)
(* profile.  What a project's files may say is limited: they come with the *)
(* repository.  The files are the set of the settings they contain, each   *)
(* with its layer, its key and its value.                                  *)
EXTENDS Integers, Sequences, SequencesExt, FiniteSetsExt

Layers == <<"managed", "cli", "local", "shared", "user">>     \* by priority
Project == {"local", "shared"}
Sensitive == Range(Layers) \ Project

Setting(layer, key, value) == [layer |-> layer, key |-> key, value |-> value]
Priority(s) == CHOOSE i \in DOMAIN Layers : Layers[i] = s.layer

Of(files, key) == {s \in files : s.key = key}
In(settings, layers) == {s \in settings : s.layer \in layers}
Values(settings) == {s.value : s \in settings}

(* Keys that the managed layer locks do not count in the other layers.     *)
Locked(files) == Values(In(Of(files, "locked"), {"managed"})) \cup {"locked"}
Unlocked(files) == {s \in files : s.layer = "managed" \/ s.key \notin Locked(files)}

-----------------------------------------------------------------------------
(* The ways a value is chosen.                                             *)
Highest(settings) == CHOOSE s \in settings : \A t \in settings : Priority(s) <= Priority(t)
ValueOf(settings, default) == IF settings = {} THEN default ELSE Highest(settings).value

Pick(files, key, default) == ValueOf(Of(files, key), default)
Base(files, key, default) == ValueOf(In(Of(files, key), Sensitive), default)
OfProject(files, key) == Values(In(Of(files, key), Project))

PickSensitiveFlag(files, key) == Base(files, key, FALSE) /\ FALSE \notin OfProject(files, key)

PickSensitiveList(files, key) ==
    {x \in Base(files, key, {}) : \A list \in OfProject(files, key) : x \in list}

Additive(files, key) == UNION Values(Of(files, key))

OnAskOrder == <<"allow", "defer", "deny">>
OnAskStrictness(a) == CHOOSE i \in DOMAIN OnAskOrder : OnAskOrder[i] = a
Strictest(asks) == CHOOSE a \in asks : \A b \in asks : OnAskStrictness(b) <= OnAskStrictness(a)

(* With nobody to answer: what becomes of questions.                       *)
Unattended(files) ==
    LET base == Base(files, "on_ask", "none")
    IN IF base = "none" THEN base ELSE Strictest({base} \cup OfProject(files, "on_ask"))

-----------------------------------------------------------------------------
(* Lists of definitions.                                                   *)
Trusted(files) == PickSensitiveFlag(files, "trusted")
Believed(files, s) == s.layer \notin Project \/ Trusted(files)

(* Mutant of Permissions: rules that ask or allow count from everywhere.   *)
PermissionsOfAll(files) == Values(Of(files, "permission"))

Permissions(files) ==
    {s.value : s \in {p \in Of(files, "permission") : Believed(files, p) \/ p.value.action = "deny"}}

AutoAnswers(files) ==
    {s.value : s \in {a \in Of(files, "auto_answer") : a.layer \notin Project \/ a.value.answer = "deny"}}

(* Plugins bring hooks.  Any layer may disable one; a project's plugin     *)
(* stands in for the user's of that name.                                  *)
Plugins(files) ==
    LET enabled == {p \in Of(files, "plugin") : p.value.name \notin Values(Of(files, "disabled"))}
    IN {p \in enabled : p.layer = "shared" \/ \A q \in enabled : q.value.name = p.value.name => q.layer = "user"}

Hooks(files) ==
    LET brought == {Setting(p.layer, "hook", p.value.hook) : p \in Plugins(files)}
    IN {h \in Of(files, "hook") \cup brought : Believed(files, h)}

(* The servers, by name.                                                   *)
Servers(files) ==
    LET listed == {m \in Of(files, "mcp") : Believed(files, m)}
        server(name) == Highest({m \in listed : m.value.name = name})
    IN {[name |-> n, layer |-> server(n).layer,
         trusted |-> server(n).value.trusted /\ server(n).layer \notin Project] :
            n \in {m.value.name : m \in listed}}

(* A project cannot ask for no sandbox at all.                             *)
Prefer(files) ==
    ValueOf({s \in Of(files, "prefer") : s.layer \notin Project \/ s.value # "none"}, "any")
Require(files) == TRUE \in Values(Of(files, "require"))

(* What is known of shell commands: from the lowest layer to the highest.  *)
ShellTable(files) ==
    LET known == {s \in Of(files, "command") : s.layer \notin Project \/ s.value.effect = "opaque"}
        order == SetToSortSeq(known, LAMBDA s, t : Priority(s) >= Priority(t))
    IN [i \in DOMAIN order |-> order[i].value]

Compile(sources) ==
    LET files == Unlocked(sources)
    IN [trusted     |-> Trusted(files),
        disposable  |-> PickSensitiveFlag(files, "disposable_env"),
        egress      |-> PickSensitiveList(files, "egress_allow"),
        sources     |-> PickSensitiveList(files, "trusted_sources"),
        private     |-> Additive(files, "private"),
        untrusted   |-> Additive(files, "untrusted"),
        persistence |-> Additive(files, "persistence"),
        rules       |-> Permissions(files),
        unattended  |-> Unattended(files),
        auto        |-> AutoAnswers(files),
        hooks       |-> Hooks(files),
        servers     |-> Servers(files),
        prefer      |-> Prefer(files),
        require     |-> Require(files),
        shell       |-> ShellTable(files),
        readOnly    |-> Pick(files, "read_only", FALSE),
        tokens      |-> Pick(files, "max_tokens", 0),
        calls       |-> Pick(files, "max_calls_per_turn", 0)]
=============================================================================
