--------------------------- MODULE Configuration ---------------------------
(* What the files of the five layers, and those of a sub-agent, may be as  *)
(* they are written, one setting after the other, and what the lines of a  *)
(* shell may be as they are typed, token by token.                         *)
EXTENDS Policy

CONSTANTS Settings,     \* what may be written: a layer, a key, a value
          Given,        \* the files there may be to begin with
          Calls,        \* calls to be judged
          Facts,        \* facts of sessions they are judged by
          MaxTokens,    \* bound on the length of a line
          MaxEdits,     \* bound on the settings written, those of the child included
          MaxUsed       \* bound on what of a budget a session has used

(* Keys of which a file may have several settings, and those that every    *)
(* layer may set.                                                          *)
Lists == {"permission", "auto_answer", "hook", "mcp", "plugin", "command", "disabled", "locked"}
Plain == {"read_only", "max_tokens", "max_calls_per_turn"}

Single(files) ==
    \A s, t \in files : s.layer = t.layer /\ s.key = t.key /\ s.key \notin Lists => s = t

ASSUME ConfigurationAssumption ==
    /\ \A s \in Settings :
         /\ s = Setting(s.layer, s.key, s.value) /\ s.layer \in Range(Layers)
         /\ s.key \in {"max_tokens", "max_calls_per_turn"} => s.value \in Nat
         /\ s.key \in {"trusted", "disposable_env", "read_only"} => s.value \in BOOLEAN
         /\ s.key = "on_ask" => s.value \in Range(OnAskOrder)
    /\ \A files \in Given : files \subseteq Settings /\ Single(files)
    /\ Facts \subseteq [tainted : BOOLEAN, private : BOOLEAN, destinations : SUBSET {Net(h) : h \in Hosts},
                        tokens : Nat, ordinal : Nat]
    /\ MaxUsed \in Nat

VARIABLES line,         \* a command line
          files,        \* the settings of the five layers
          own,          \* those of a sub-agent
          edits         \* how many settings have been written

vars == <<line, files, own, edits>>

Type ==
    /\ files = {} /\ own = {} /\ Len(line) < MaxTokens
    /\ \E t \in Tokens : line' = Append(line, t)
    /\ UNCHANGED <<files, own, edits>>

Fits(set, s) == s \notin set /\ Single(set \cup {s})
Write ==
    /\ line = <<>> /\ edits < MaxEdits
    /\ \E s \in Settings : Fits(files, s) /\ files' = files \cup {s}
    /\ edits' = edits + 1 /\ UNCHANGED <<line, own>>
Define ==
    /\ line = <<>> /\ edits < MaxEdits
    /\ \E s \in Settings : s.layer = "user" /\ Fits(own, s) /\ own' = own \cup {s}
    /\ edits' = edits + 1 /\ UNCHANGED <<line, files>>

Init == line = <<>> /\ own = {} /\ files \in Given /\ edits = 0
Next == Type \/ Write \/ Define
Spec == Init /\ [][Next]_vars

-----------------------------------------------------------------------------
Host == [sandbox |-> TRUE, isolation |-> TRUE]

(* Everything that is analysed of a line is what the shell runs of it, and *)
(* to the files of a project that is not trusted a line means the same, or *)
(* nothing.                                                                *)
Others(set) == {s \in set : s.layer \notin Project}
LinesRead ==
    /\ line # <<>> => LineRead(line)
    /\ In(files, Project) # {} /\ ~Compile(files).trusted =>
         \A words \in {<<"ls">>, <<"sort", "-o">>} :
           LET Read(set) == Analyze(words, Defaults \o Compile(set).shell, TRUE)
           IN Read(files) \in {Read(Others(files)), OpaqueLine}

(* Every file that a line writes by a redirection is declared, whatever    *)
(* else the line does, so that rules about it apply and the sandbox does   *)
(* not run the line as one that only reads; the read-only mode denies it.  *)
Plan == [Kernel(Compile({}), Host) EXCEPT !.readOnly = TRUE]
Start == [tainted |-> FALSE, private |-> FALSE, destinations |-> {}, tokens |-> 0, ordinal |-> 1]
RedirectsDeclared ==
    ">" \in Range(line) =>
        /\ WritesDeclared(line, Analyze(line, Defaults, TRUE))
        /\ Evaluate(Plan, Tools, Start, ShellCall(line, Plan)) = "deny"

(* Whatever the files of a project that is not trusted say (with them):    *)
(* every call gets a verdict at least as strict as without them, its       *)
(* results are no more trusted, and its questions are no more easily       *)
(* answered; the sandbox and the servers that are trusted stay what they   *)
(* were.  Plain fields are excepted, there a project overrides the user,   *)
(* and so is isolation that only the project asks for.                     *)
ProjectTightens ==
    LET with    == Compile(files)
        without == Compile(Others(files))
        tighter == Kernel(with, Host)
        looser  == Kernel(without, Host)
    IN In(files, Project) # {} /\ (\A s \in In(files, Project) : s.key \notin Plain) =>
          /\ ~with.trusted =>
               \A call \in Calls :
                 /\ Distrusted(looser, call) => Distrusted(tighter, call)
                 /\ (tighter.isolation => looser.isolation) =>
                      \A facts \in Facts :
                        StrictnessOf(Evaluate(tighter, Tools, facts, call))
                          >= StrictnessOf(Evaluate(looser, Tools, facts, call))
                 /\ \A level \in {"policy", "invariant"} :
                      AnswerStrictness(Answer(with, level, call)) >= AnswerStrictness(Answer(without, level, call))
          /\ without.prefer # "none" => with.prefer # "none"
          /\ \A m \in with.servers : m.trusted => m.layer \notin Project

(* A sub-agent may never do what its parent may not: with the taint it     *)
(* inherits, and the destinations its parent was granted or fewer, each of *)
(* its calls gets a verdict at least as strict as the parent would, at any *)
(* point of what it has used of the budget that was carved out for it.     *)
(* Isolation is excepted, when only the sub-agent's host has it.           *)
ChildWithin ==
    LET parent == [Kernel(Compile(files), Host) EXCEPT !.tools = @ \ {"agent"}]
        child  == Kernel(Compile(own), Host)
    IN files \cup own # {} /\ (child.isolation => parent.isolation) =>
       \A facts \in Facts, used \in 0..MaxUsed :
         LET now    == [facts EXCEPT !.tokens = used]
             narrow == Narrow(child, parent, now)
         IN MayDelegate(parent, now) =>
              \A call \in Calls, spent \in 0..MaxUsed, nth \in 1..MaxUsed + 1 :
                StrictnessOf(Evaluate(narrow, narrow.tools,
                                      [facts EXCEPT !.tokens = spent, !.ordinal = nth, !.destinations = {}], call))
                  >= StrictnessOf(Evaluate(parent, parent.tools,
                                           [facts EXCEPT !.tokens = used + spent, !.ordinal = nth], call))
=============================================================================
