------------------------------ MODULE MCCalls ------------------------------
(* What the tool calls of the instances of Session are.                    *)
EXTENDS Integers

Call(class, reads, writes, rings, sandboxed) ==
  [class |-> class, reads |-> reads, writes |-> writes, rings |-> rings, sandboxed |-> sandboxed]

Read     == Call("pure", {"a"}, {}, "allow", TRUE)
Edit     == Call("local_write", {"a"}, {"a"}, "policy", TRUE)
Write    == Call("local_write", {}, {"a"}, "allow", TRUE)
Shell    == Call("opaque", {}, {}, "allow", TRUE)
Post     == Call("network", {}, {"b"}, "invariant", FALSE)
Purchase == Call("irreversible", {}, {"b"}, "policy", FALSE)
Banned   == Call("local_write", {}, {"a"}, "deny", TRUE)

ReadBuy        == <<Read, Purchase>>
ReadShellWrite == <<Read, Shell, Write>>
EditPostBanned == [c \in 4..6 |-> <<Edit, Post, Banned>>[c - 3]]
OfBoth         == [c \in 1..6 |-> IF c <= 3 THEN ReadShellWrite[c] ELSE EditPostBanned[c]]
=============================================================================
