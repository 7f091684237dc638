---------------------------- MODULE MCCursorRails ----------------------------
(***************************************************************************)
(* Conversations of up to seven steps: one with a subagent, one that       *)
(* starts outside the roots, one that moves, with a subagent of its own,   *)
(* two turns that are routed and whose tokens come with the stop, and one  *)
(* turn more than the cache of turns holds.                                *)
(***************************************************************************)
EXTENDS CursorRails

CONSTANTS m1, m2

R(kind, path, gen) == [kind |-> kind, sub |-> FALSE, path |-> path, gen |-> gen, model |-> NoModel, tokens |-> TRUE]
BySub(kind, path)  == [R(kind, path, 1) EXCEPT !.sub = TRUE]
Thought(gen, m)    == [R("thought", "none", gen) EXCEPT !.model = m]
Stop(gen, tokens)  == [R("stop", "none", gen) EXCEPT !.tokens = tokens]

Delegates == << R("prompt", "none", 1), R("edit", "inside", 1), R("task", "none", 1), BySub("edit", "inside"), Stop(1, FALSE) >>
Strays    == << R("prompt", "none", 1), R("task", "outside", 1), R("edit", "inside", 1), R("delete", "inside", 1) >>
Moves     == << R("prompt", "none", 1), R("edit", "inside", 1), R("move", "none", 1), BySub("edit", "inside"),
                R("edit", "inside", 1), R("prompt", "none", 2) >>
Routed    == << R("prompt", "inside", 1), Thought(1, m1), Stop(1, TRUE), Thought(2, m2), Stop(2, TRUE) >>

Crowded   == << Thought(1, m1), Thought(1, m2), Thought(2, m1), Thought(3, m2), Stop(1, FALSE), Stop(2, TRUE) >>

In(conditions, scripts) == {[conditions |-> conditions, script |-> s] : s \in scripts}

MCEnvironments ==
  UNION { In({"reexec"}, {Delegates, Strays, Moves}), In({"reverse", "stat"}, {Moves}),
          In({"quiet", "reexec"}, {Moves}), In({"restart", "full"}, {Delegates, Strays}),
          In({"hooks", "parallel"}, {Delegates, Routed}), In({"hooks", "full", "expiry"}, {Strays, Routed}),
          In({"hooks", "overrun"}, {Delegates, Crowded}), In({"hooks", "reexec"}, {Strays}), In({"hooks"}, {Moves}),
          In({"hooks", "full"}, {Routed}) }

HookedDeletion == In({"hooks"}, {Strays})
=============================================================================
