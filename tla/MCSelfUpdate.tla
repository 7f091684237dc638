---------------------------- MODULE MCSelfUpdate ----------------------------
(* Two or three releases, and the conditions in groups that bear on one     *)
(* another.                                                                 *)
EXTENDS SelfUpdate

On(layouts, may, n) == {[may |-> may, layout |-> l, events |-> n] : l \in layouts}

\* The org's answers, and what becomes of the two files that keep them.
Policies ==
  On({"same"}, {"org", "silent", "cacheLost", "crash"}, 3)
  \cup On({"same"}, {"org", "mirrorFails", "cacheFails", "crash"}, 2)

\* Files that come from elsewhere, and execs that do not take.
Disks ==
  On({"same", "apart"}, {"installer", "execFails", "crash", "network"}, 3)
  \cup On({"apart"}, {"installer", "misreport", "crash"}, 3)
  \cup On(Layouts, {"installer", "readonly", "optOut", "execFails"}, 2)

\* The engineer's answers, and the command beside the daemon.
Answering ==
  On({"same"}, {"decide", "crash"}, 3)
  \cup On({"same"}, {"yank", "crash"}, 2)
  \cup On(Layouts, {"update", "decide", "network"}, 2)
  \cup On({"apart"}, {"update", "org"}, 2)

Faults == Policies \cup Disks \cup Answering

\* A daemon that starts while the org has stated something.
Started == On({"same"}, {"org"}, 1)
=============================================================================
