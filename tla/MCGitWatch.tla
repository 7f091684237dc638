----------------------------- MODULE MCGitWatch -----------------------------
(* A clone and a worktree of it; one path, or two where files are renamed.    *)
EXTENDS GitWatch

CONSTANTS clone, worktree, added, p1, p2

MCRoots == <<clone, worktree>>
MCPath  == {p1, p2}

E(m, ps, c, mv, w, f, n) ==
  [may |-> m, paths |-> ps, commits |-> c, moves |-> mv, writes |-> w, faults |-> f,
   cap |-> n, total |-> n]

\* Three commits against a cap of two (a burst is clamped, a second checkout deferred),
\* or against a larger cap where merges must not be clamped; two writes where a path
\* must be seeded, churned and offered again.
MCEnvironments ==
  { E({"switch"}, {p1}, 3, 2, 2, 0, 2),
    E({"rename", "switch"}, {p1, p2}, 2, 1, 2, 0, 2),
    E({"rename", "delete"}, {p1, p2}, 3, 0, 1, 0, 2),
    E({"detach", "switch"}, {p1}, 2, 2, 1, 0, 3),
    E({"worktree"}, {p1}, 3, 1, 1, 0, 2),
    E({"worktree", "switch"}, {p1}, 2, 2, 1, 0, 1),
    E({"foreign", "switch"}, {p1}, 2, 1, 1, 0, 2),
    [E({"worktree", "merge"}, {p1}, 3, 2, 1, 0, 4) EXCEPT !.total = 8],
    E({"worktree", "fastForward"}, {p1}, 2, 2, 1, 0, 2),
    E({"amend", "detach", "gc"}, {p1}, 2, 2, 1, 0, 2),
    E({"midpoll", "switch"}, {p1}, 2, 2, 1, 0, 2),
    E({"worktree", "worker", "untraceable"}, {p1}, 2, 1, 0, 0, 2),
    E({"gitFails", "ioFails"}, {p1}, 3, 0, 1, 2, 2),
    E({"refused", "switch"}, {p1}, 2, 2, 1, 1, 2),
    E({"showFails", "switch"}, {p1}, 2, 2, 1, 1, 2),
    E({"crash", "switch"}, {p1}, 2, 2, 1, 1, 2),
    E({"rangeFails", "switch"}, {p1}, 2, 1, 1, 0, 2),
    E({"rangeFails", "worktree"}, {p1}, 2, 1, 0, 0, 1),
    E({"authorFails", "foreign", "switch"}, {p1}, 2, 1, 1, 0, 2),
    E({"authorFails", "worktree"}, {p1}, 2, 1, 1, 0, 2),
    E({"ledgerFails", "switch", "worktree"}, {p1}, 2, 1, 1, 0, 2) }

MayRefuse == {E({"refused"}, {p1}, 2, 0, 1, 1, 2)}
MaySlide  == {E({"merge", "switch"}, {p1}, 3, 4, 1, 0, 2), E({"detach", "switch"}, {p1}, 2, 3, 1, 0, 3),
              E({"worktree", "fastForward"}, {p1}, 3, 2, 1, 0, 3)}

-----------------------------------------------------------------------------
(* A clone and two worktrees of it.  The behaviours begin where the first poll *)
(* of the clone and one worktree has ended; then that worktree has made a      *)
(* commit, another worktree has been added at it, and an agent has written the *)
(* path of the commit in the clone, then in the worktree that was added.       *)

ThreeRoots == <<clone, worktree, added>>
OneMoveLeft == {E({"worktree", "detach"}, {p1}, 3, 3, 2, 0, 3)}

Initial ==
  [first |-> 0, own |-> TRUE, change |-> [kind |-> "add", path |-> AnyPath, to |-> AnyPath],
   reach |-> {1}, chain |-> {1}, files |-> [p \in Path |-> IF p = AnyPath THEN 1 ELSE 0]]
Second ==
  [first |-> 1, own |-> TRUE, change |-> [kind |-> "add", path |-> p1, to |-> p1],
   reach |-> {1, 2}, chain |-> {1, 2}, files |-> [Initial.files EXCEPT ![p1] = 2]]

ThreeInit ==
  /\ env \in Environments /\ moves = 2 /\ faults = 0
  /\ log = <<Initial, Second>> /\ gone = {}
  /\ tip = [b \in Branch |-> IF b = Default THEN 1 ELSE 2]
  /\ on = [r \in Root |-> IF r = clone THEN Default ELSE IF r = worktree THEN "a" ELSE "b"]
  /\ head = [r \in Root |-> IF r = clone THEN 1 ELSE 2]
  /\ wrote = [r \in Root |-> [p \in Path |-> IF p # p1 \/ r = worktree THEN 0 ELSE IF r = clone THEN 1 ELSE 2]]
  /\ cursor = [r \in Root |-> IF r = added THEN 0 ELSE 1] /\ replay = [r \in Root |-> 0]
  /\ recorded = {} /\ tips = {1} /\ deferred = {}
  /\ rework = [r \in Root |-> IF r = worktree THEN [Ledger EXCEPT !.branch = "a"] ELSE Ledger]
  /\ jobs = <<>> /\ traced = {}
  /\ pc = "idle" /\ todo = {} /\ found = [r \in Root |-> Nothing] /\ budget = 0
  /\ batch = {} /\ mode = "skip" /\ ours = {} /\ held = {} /\ seen = {} /\ emitted = {}
  /\ sent = {} /\ forgotten = {} /\ resent = {} /\ passed = {} /\ baseline = {1} /\ skipped = {} /\ declined = {}

ThreeSpec == ThreeInit /\ [][Next]_vars
=============================================================================
