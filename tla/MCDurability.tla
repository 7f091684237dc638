---------------------------- MODULE MCDurability ----------------------------
(* Two paths; an agent in the polled checkout, one in a sibling worktree.     *)
EXTENDS Durability

CONSTANTS daemon, foreground, p1, p2, here, there

MCPoller  == {daemon, foreground}
MCPath    == {p1, p2}
MCAgent   == {here, there}
MCSibling == {there}

E(m, c, l, n, w, d) ==
  [may |-> m, commits |-> c, lines |-> l, new |-> n, writes |-> w, days |-> d]

\* Three commits on small files (one more than a poll folds: a path can be seeded,
\* churned and offered again), or two on larger ones.
MCEnvironments ==
  { E({}, 3, 2, 1, 2, 1),
    E({"rename"}, 3, 2, 1, 1, 1),
    E({"rename", "crash"}, 2, 3, 2, 1, 1),
    E({"twoHunks", "ioFails"}, 2, 3, 2, 1, 1),
    E({"squash"}, 2, 2, 2, 1, 1),
    E({"sibling"}, 3, 2, 1, 1, 1),
    E({"resume"}, 2, 2, 1, 2, 2),
    E({"gitFails"}, 3, 2, 1, 1, 1),
    E({"writeFails"}, 3, 2, 1, 1, 1),
    E({"rewrite"}, 2, 2, 1, 1, 1),
    E({"twoPollers"}, 2, 2, 1, 1, 1) }

ShowMayFail == {E({"gitFails"}, 3, 2, 1, 1, 1)}
=============================================================================
