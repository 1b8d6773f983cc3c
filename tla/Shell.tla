------------------------------- MODULE Shell -------------------------------
(* What the shell tool reads from a command line: the simple commands it   *)
(* runs, and from a table of known commands what each of them may access.  *)
(* A line that is not understood is opaque: it is declared as a write of   *)
(* the whole workspace.                                                    *)
EXTENDS Integers, Sequences, SequencesExt, FiniteSetsExt

CONSTANTS Words,       \* words, as they read without their quotes
          Expanded,    \* those the shell would expand
          Reserved,    \* those that are no name of a command: keywords, assignments
          Outside,     \* those that are paths outside the workspace
          Hosts        \* those that are the address of a host

Redirections == {"<", ">"}
Operators == {";", "&&", "(", ")", "<<"} \cup Redirections
Tokens == Words \cup Operators

(* A word that reads like an operator, being quoted, is not one.           *)
ASSUME ShellAssumption ==
    /\ Expanded \cup Reserved \cup Outside \cup Hosts \subseteq Words
    /\ Words \cap Operators = {}

-----------------------------------------------------------------------------
(* Parsing.                                                                *)
NoCommand == [words |-> <<>>, redirects |-> <<>>]

(* The state of the parser: the commands so far, the one being read, how   *)
(* deep it is in groups, and what it expects.                              *)
Parsed == [commands |-> <<>>, cur |-> NoCommand, depth |-> 0, redirect |-> "none",
           needCommand |-> FALSE, closedGroup |-> FALSE, opaque |-> FALSE]

Fail(p) == [p EXCEPT !.opaque = TRUE]
FailIf(cond, p) == IF cond THEN Fail(p) ELSE p

(* Mutant of Finish: redirections of a command are lost with it.           *)
FinishBare(p) ==
    IF p.cur.words = <<>> THEN FailIf(p.cur.redirects # <<>>, p)
    ELSE [p EXCEPT !.commands = Append(@, [NoCommand EXCEPT !.words = p.cur.words]), !.cur = NoCommand]

(* The command being read is complete.                                     *)
Finish(p) ==
    IF p.cur.words = <<>> THEN FailIf(p.cur.redirects # <<>>, p)
    ELSE [p EXCEPT !.commands = Append(@, p.cur), !.cur = NoCommand]
Pushes(p) == p.cur.words # <<>>

TakeWord(p, w) ==
    FailIf(p.closedGroup, [p EXCEPT !.cur.words = Append(@, w), !.needCommand = FALSE])

TakeTarget(p, t) ==
    LET taken == [p EXCEPT !.redirect = "none"]
    IN IF t \in Words
       THEN [taken EXCEPT !.cur.redirects = Append(@, [op |-> p.redirect, target |-> t])]
       ELSE Fail(taken)

TakeOpen(p) == FailIf(p.cur.words # <<>>, [p EXCEPT !.depth = @ + 1])

TakeClose(p) ==
    LET done == Finish(p)
        out  == [done EXCEPT !.closedGroup = (Pushes(p) \/ @), !.depth = @ - 1]
    IN FailIf(out.depth < 0, out)

TakeSeparator(p, op) ==
    LET missing == ~Pushes(p) /\ p.cur.redirects = <<>> /\ ~p.closedGroup /\ (op # ";" \/ p.needCommand)
    IN [FailIf(missing, Finish(p)) EXCEPT !.closedGroup = FALSE, !.needCommand = op # ";"]

Take(p, t) ==
    IF p.redirect # "none" THEN TakeTarget(p, t)
    ELSE CASE t \in Words          -> TakeWord(p, t)
           [] t \in Redirections   -> [p EXCEPT !.redirect = t]
           [] t = "("              -> TakeOpen(p)
           [] t = ")"              -> TakeClose(p)
           [] t \in {";", "&&"}    -> TakeSeparator(p, t)
           [] OTHER                -> Fail(p)

WordsOf(c) == Range(c.words) \cup {r.target : r \in Range(c.redirects)}
Unreadable(c) == WordsOf(c) \cap Expanded # {} \/ Head(c.words) \in Reserved

Parse(line) ==
    LET read == FoldLeft(Take, Parsed, line)
        p    == Finish(read)
    IN FailIf(\/ read.redirect # "none" \/ p.depth # 0 \/ p.needCommand
              \/ p.commands = <<>> \/ \E c \in Range(p.commands) : Unreadable(c), p)

-----------------------------------------------------------------------------
(* What known commands do.                                                 *)
Classes == <<"pure", "local_write", "network", "irreversible", "opaque">>
Rank(class) == CHOOSE i \in DOMAIN Classes : Classes[i] = class
Stronger(a, b) == IF Rank(a) >= Rank(b) THEN a ELSE b

Reads(r) == [res |-> r, mode |-> "read"]
Writes(r) == [res |-> r, mode |-> "write"]
Cmd == <<"cmd">>                  \* the command line itself
Workspace == <<"fs", "ws">>       \* everything in the workspace
Refs == <<"git">>
File(w) == <<"fs", w>>
Net(w) == <<"net", w>>

(* The built-in table.  A rule has a prefix, an effect, and flags with     *)
(* which the command is not understood.                                    *)
Rule(prefix, effect, denied) == [prefix |-> prefix, effect |-> effect, denied |-> denied]
Defaults ==
    <<Rule(<<"ls">>, "read_only", {}), Rule(<<"sort">>, "read_only", {"-o"}),
      Rule(<<"git", "add">>, "repo_write", {}), Rule(<<"git", "push">>, "push", {}),
      Rule(<<"curl">>, "fetch", {}), Rule(<<"make">>, "bound", {"-f"})>>

Matches(rule, words) == IsPrefix(rule.prefix, words)

(* The longest prefix decides, of equals the last.                         *)
Found(table, words) == {i \in DOMAIN table : Matches(table[i], words)}
Lookup(table, words) ==
    LET found   == Found(table, words)
        longest == {i \in found : \A j \in found : Len(table[j].prefix) <= Len(table[i].prefix)}
    IN table[Max(longest)]

Opaque == [class |-> "opaque", access |-> {Writes(Cmd)}, opaque |-> TRUE]
Does(class, access) == [class |-> class, access |-> access, opaque |-> FALSE]

Effect(rule, args) ==
    LET hosts == args \cap Hosts
    IN CASE rule.effect = "read_only" ->
              Does("pure", {Reads(Cmd), Reads(Workspace)} \cup {Reads(File(w)) : w \in args \cap Outside})
         [] rule.effect = "repo_write" -> Does("local_write", {Writes(Cmd), Writes(Workspace), Writes(Refs)})
         [] rule.effect = "push" ->
              Does("irreversible", {Writes(Cmd), Reads(Workspace), Reads(Refs), Writes(Net("*"))})
         [] rule.effect = "fetch" /\ hosts # {} ->
              Does("network", {Writes(Cmd), Reads(Workspace)} \cup {Writes(Net(h)) : h \in hosts}
                                \cup (IF "-o" \in args THEN {Writes(Workspace)} ELSE {}))
         [] rule.effect = "bound" -> Does("local_write", {Writes(Cmd), Writes(Workspace)})
         [] OTHER -> Opaque

(* Mutant of Redirect: the class stays what it was.                        *)
RedirectAside(a, r) ==
    IF r.op = "<" THEN [a EXCEPT !.access = @ \cup {Reads(File(r.target))}]
    ELSE IF r.target \in Outside THEN Opaque
    ELSE [a EXCEPT !.access = @ \cup {Writes(File(r.target))}]

(* A redirection adds its file; one that writes makes the command a write. *)
Redirect(a, r) ==
    IF a.opaque THEN a
    ELSE IF r.op = "<" THEN [a EXCEPT !.access = @ \cup {Reads(File(r.target))}]
    ELSE IF r.target \in Outside THEN Opaque
    ELSE [a EXCEPT !.class = Stronger(@, "local_write"),
                   !.access = (@ \ {Reads(Cmd)}) \cup {Writes(Cmd), Writes(File(r.target))}]

AnalyzeSimple(c, table) ==
    IF Found(table, c.words) = {} THEN Opaque
    ELSE LET rule == Lookup(table, c.words)
             args == {c.words[i] : i \in Len(rule.prefix) + 1 .. Len(c.words)}
         IN IF args \cap rule.denied # {} THEN Opaque
            ELSE FoldLeft(Redirect, Effect(rule, args), c.redirects)

OpaqueLine == [Opaque EXCEPT !.access = {Writes(Cmd), Writes(Workspace)}]

(* A whole line: one opaque part makes it opaque, and so does running      *)
(* without a sandbox.                                                      *)
Analyze(line, table, sandboxed) ==
    LET p     == Parse(line)
        parts == {AnalyzeSimple(c, table) : c \in Range(p.commands)}
    IN IF ~sandboxed \/ p.opaque \/ \E a \in parts : a.opaque THEN OpaqueLine
       ELSE Does(Classes[Max({Rank(a.class) : a \in parts})], UNION {a.access : a \in parts})

-----------------------------------------------------------------------------
(* What a shell would run, by the places in the line, as a reference.      *)
Breaks == {";", "&&", "(", ")"}
IsTarget(line, k) == k > 1 /\ line[k] \in Words /\ line[k - 1] \in Redirections

(* From i to j there are words and redirections with their targets.        *)
IsSimple(line, i, j) ==
    /\ \A k \in i..j : /\ line[k] \in Words \cup Redirections
                       /\ line[k] \in Redirections => k < j /\ line[k + 1] \in Words
    /\ \E k \in i..j : line[k] \in Words /\ ~IsTarget(line, k)

(* A list is made of and-lists between separators, these of commands and   *)
(* groups.  A separator may stand alone, as an empty line does.            *)
IsList(line) ==
    LET n == Len(line)
        is[kind \in {"list", "andor", "element"}, i \in 1..n + 1, j \in 0..n] ==
            CASE kind = "element" ->
                    \/ IsSimple(line, i, j)
                    \/ i + 1 < j /\ line[i] = "(" /\ line[j] = ")" /\ is["list", i + 1, j - 1]
              [] kind = "andor" ->
                    \/ is["element", i, j]
                    \/ \E k \in i + 1..j - 1 : line[k] = "&&" /\ is["element", i, k - 1] /\ is["andor", k + 1, j]
              [] kind = "list" ->
                    \/ i <= j /\ is["andor", i, j]
                    \/ \E k \in i..j : /\ line[k] = ";"
                                        /\ (k = i \/ is["andor", i, k - 1])
                                        /\ (k = j \/ is["list", k + 1, j])
    IN is["list", 1, n]

(* The commands of a line stand between the breaks.                        *)
Stretches(line) ==
    {s \in (DOMAIN line) \X (DOMAIN line) :
        /\ s[1] <= s[2] /\ \A k \in s[1]..s[2] : line[k] \notin Breaks
        /\ (s[1] = 1 \/ line[s[1] - 1] \in Breaks)
        /\ (s[2] = Len(line) \/ line[s[2] + 1] \in Breaks)}
At(line, ks) == LET order == SetToSortSeq(ks, <) IN [i \in DOMAIN order |-> line[order[i]]]
CommandIn(line, s) ==
    LET places   == s[1]..s[2]
        targets  == {k \in places : IsTarget(line, k)}
        files    == SetToSortSeq(targets, <)
    IN [words |-> At(line, {k \in places : line[k] \in Words} \ targets),
        redirects |-> [i \in DOMAIN files |-> [op |-> line[files[i] - 1], target |-> line[files[i]]]]]
CommandsOf(line) ==
    LET order == SetToSortSeq(Stretches(line), LAMBDA s, t : s[1] < t[1])
    IN [i \in DOMAIN order |-> CommandIn(line, order[i])]

(* What is analysed of a line that is not opaque are all the commands that *)
(* the shell runs, with all of their redirections.                         *)
LineRead(line) ==
    LET p == Parse(line)
    IN ~p.opaque /\ IsList(line) => p.commands = CommandsOf(line)

(* Every file a redirection writes is declared, and where nothing but      *)
(* reading is declared (the sandbox then lets nothing be written) there is *)
(* no such redirection.                                                    *)
WritesDeclared(line, analysis) ==
    \A k \in DOMAIN line :
        line[k] = ">" =>
            /\ analysis.class # "pure" /\ Writes(Cmd) \in analysis.access
            /\ \/ Writes(Workspace) \in analysis.access
               \/ k < Len(line) /\ line[k + 1] \notin Outside /\ Writes(File(line[k + 1])) \in analysis.access
=============================================================================
