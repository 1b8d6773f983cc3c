------------------------------ MODULE MCPolicy ------------------------------
(* TLC instance of Configuration.                                          *)
EXTENDS Configuration

(* The configuration of the agent is a file of the workspace. *)
ConfigFile == File("conf")

Rule3(action, tool, resource, mode) == [action |-> action, tool |-> tool, resource |-> resource, mode |-> mode]
Commands == {Rule(<<"ls">>, "opaque", {}), Rule(<<"sort">>, "read_only", {})}

(* What the layers say, by key.                                            *)
Vocabulary ==
    [trusted |-> BOOLEAN, disposable_env |-> BOOLEAN, egress_allow |-> {{}, {Net("host")}},
     trusted_sources |-> {{}, {Workspace}}, private |-> {{Workspace}}, untrusted |-> {{Workspace}},
     persistence |-> {{File("out")}}, on_ask |-> Range(OnAskOrder),
     permission |-> {Rule3("allow", "any", "any", "any"), Rule3("allow", "bash", Cmd, "any"),
                     Rule3("ask", "any", Net("host"), "any"), Rule3("deny", "any", Workspace, "write")},
     auto_answer |-> {[tool |-> "bash", answer |-> a] : a \in {"allow", "deny"}},
     mcp |-> {[name |-> "db", trusted |-> t] : t \in BOOLEAN},
     prefer |-> {"none", "bubblewrap"}, command |-> Commands,
     read_only |-> BOOLEAN, max_tokens |-> {1, 2}, max_calls_per_turn |-> {1}]

Written ==
    UNION {{Setting(l, key, v) : l \in Range(Layers) \ {"cli"}, v \in Vocabulary[key]} : key \in DOMAIN Vocabulary}
        \cup {Setting("managed", "locked", key) : key \in {"trusted", "permission", "command"}}

(* Nothing, or a user who permits much.                                    *)
Nothing == {}
Permissive == {Setting("user", "trusted", TRUE), Setting("user", "permission", Rule3("allow", "any", "any", "any")),
               Setting("user", "egress_allow", {Net("host")}), Setting("user", "on_ask", "allow"),
               Setting("user", "auto_answer", [tool |-> "bash", answer |-> "allow"])}
Beginnings == {Nothing, Permissive}

FactsOf(t, p, d) == [tainted |-> t, private |-> p, destinations |-> d, tokens |-> 0, ordinal |-> 1]
SomeFacts == {FactsOf(FALSE, FALSE, {}), FactsOf(TRUE, FALSE, {}), FactsOf(TRUE, TRUE, {}),
              FactsOf(TRUE, TRUE, {Net("host")})}

CallOf(tool, class, access) == [tool |-> tool, class |-> class, access |-> access, isolated |-> FALSE]
Staged == ChangesOf([CallOf("bash", "opaque", {}) EXCEPT !.isolated = TRUE], {File("out")})
SomeCalls ==
    {CallOf("read", "pure", {Reads(File("out"))}), CallOf("write", "local_write", {Writes(SelfConfig)}),
     CallOf("agent", "opaque", {}),
     CallOf("bash", "network", {Writes(Cmd), Reads(Workspace), Writes(Net("host"))}),
     CallOf("bash", "opaque", {Writes(Cmd), Writes(Workspace)}), Staged,
     [CallOf("bash", "opaque", {Writes(Cmd), Writes(Workspace)}) EXCEPT !.isolated = TRUE]}
=============================================================================
