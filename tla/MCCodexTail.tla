----------------------------- MODULE MCCodexTail -----------------------------
(* Rollouts of four to eight records for model checking CodexTail.          *)
EXTENDS CodexTail

K(kind)     == [kind |-> kind]
Meta        == [kind |-> "meta", sub |-> FALSE, cwd |-> TRUE]
Delegated   == [kind |-> "meta", sub |-> TRUE, cwd |-> TRUE]
Headless    == [kind |-> "meta", sub |-> FALSE, cwd |-> FALSE]
Turn(m)     == [kind |-> "turn", model |-> m]
Human(t)    == [kind |-> "human", text |-> t]
Tokens(n)   == [kind |-> "tokens", total |-> n]
Tier(t)     == [kind |-> "tier", tier |-> t]
Call(c, n)  == [kind |-> "call", call |-> c, name |-> n, cell |-> NoCell]
Stdin(c, k) == [kind |-> "call", call |-> c, name |-> "stdin", cell |-> k]
Output(c)   == [kind |-> "output", call |-> c, cell |-> NoCell]
Handover(c, k) == [kind |-> "output", call |-> c, cell |-> k]
PatchEnd(c) == [kind |-> "patch", call |-> c]
BigCall(c)  == [kind |-> "call", call |-> c, name |-> "shell", cell |-> NoCell, big |-> TRUE]

\* A host that writes every turn twice, one that writes only the copies, and a
\* delegated thread.
Turns3 ==
  { <<Meta, Turn("a"), Human("t"), K("user"), K("answer"), K("final"), K("complete")>>,
    <<Meta, Human("synthetic"), Human("t"), Human("t"), Turn("a"), K("final"), K("complete")>>,
    <<Delegated, Human("t"), K("user"), Tokens(1), K("final"), K("complete")>> }

\* Turns nobody ends: the agent is interrupted, or nothing follows.
Interrupted ==
  { <<Meta, K("user"), K("final"), K("started"), Human("t")>>,
    <<Meta, Human("t"), Human("u"), K("final")>> }

\* A command that is handed over twice; a patch of either kind; a call without
\* output.
Calls ==
  { <<Meta, Call("c1", "shell"), Handover("c1", "k1"), Stdin("c2", "k1"), Handover("c2", "k2"),
      Stdin("c3", "k2"), Output("c3")>>,
    <<Meta, Call("c1", "apply_patch"), PatchEnd("c1"), Call("c2", "wrapped"), Output("c2"),
      Call("c3", "tool"), Output("c3")>>,
    <<Meta, Call("c1", "shell"), Turn("a"), K("answer"), Output("c1"), K("compact")>> }

\* The fast tier, with a call open around two counters; and the model and the tier
\* of a later turn, with a call open around a counter and them.
Counters ==
  { <<Meta, Turn("a"), Call("c1", "shell"), Tokens(1), Turn("b"), Tier("fast"), Output("c1"), Tokens(2)>>,
    <<Meta, Tier("fast"), Call("c1", "shell"), Tokens(1), Tokens(3), Output("c1"), Tier("default"), Tokens(4)>> }

\* The header comes late, or too late; records too large to read.
Headers ==
  { <<K("other"), Meta, K("user"), K("answer")>>,
    <<K("other"), Headless, K("other"), Meta>>,
    <<BigCall("c0"), Meta, BigCall("c1"), Output("c1"), K("user")>> }

AllRollouts == Turns3 \cup Interrupted \cup Calls \cup Counters \cup Headers

\* What happens to the lanes, to the process, to the file and to the scope, and
\* some of it together.
MCEnvironments ==
  { {"full"}, {"full", "stale"}, {"full", "crash"}, {"crash", "aging"},
    {"save", "stale"}, {"upgrade"}, {"window", "stat"}, {"roots"} }

FullWindow == {{"full", "window"}}
=============================================================================
