------------------------------ MODULE MCUsage ------------------------------
(***************************************************************************)
(* Two commands, two sessions that tick at the same time, two transcripts  *)
(* and two limits.                                                         *)
(***************************************************************************)
EXTENDS Usage

CONSTANTS c, d, s, t

Many(all, n) == [e \in all |-> IF e \in DOMAIN n THEN n[e] ELSE 0]
None == [x \in {} |-> 0]
Holding(m, n) == [l \in Queues |-> IF l = "live" THEN m ELSE n]
Case(n, m) == [line |-> Many(LineEvents, n), plan |-> Many(PlanEvents, m), slot |-> c, account |-> s, codex |-> FALSE,
               lane |-> Many(LaneEvents, None), queued |-> Holding(0, 0)]
Slot(n) == Case(n, None)
Plan(m) == Case(None, m)
Lanes(n, m) == [Case(None, None) EXCEPT !.lane = Many(LaneEvents, n), !.queued = m]
Killed(e) == [e EXCEPT !.line["kill"] = 1]
OfCodex(e) == [e EXCEPT !.codex = TRUE]

MCEnvironments ==
  { Slot([evict |-> 1, enable |-> 1, tick |-> 2, broken |-> 1]),
    Slot([enable |-> 1, tick |-> 2, broken |-> 1, prune |-> 1]),
    Slot([enable |-> 1, tick |-> 2, bare |-> 1, refuse |-> 1, hour |-> 1]),
    Slot([enable |-> 1, tick |-> 2, kill |-> 1]),
    Slot([evict |-> 2, enable |-> 2, disable |-> 1, remove |-> 1, manage |-> 1]),
    Slot([evict |-> 2, enable |-> 1, disable |-> 1, kill |-> 1, killcli |-> 1]),
    Slot([evict |-> 2, enable |-> 1, disable |-> 1, fail |-> 1]),
    Slot([evict |-> 1, enable |-> 2, disable |-> 1, unread |-> 1]),
    Slot([enable |-> 1, disable |-> 1, tick |-> 1, broken |-> 1, unread |-> 1]),
    Slot([enable |-> 1, tick |-> 1, kill |-> 1, fail |-> 1]),
    Slot([evict |-> 3, enable |-> 1, kill |-> 1]),
    Plan([refused |-> 2, pass |-> 2, full |-> 1]),
    Plan([refused |-> 2, full |-> 1, unsaved |-> 1, signin |-> 1]),
    Plan([signin |-> 2, midnight |-> 1, full |-> 1]),
    Plan([refused |-> 2, pass |-> 1, old |-> 1]),
    Plan([refused |-> 1, pass |-> 1, unread |-> 1]),
    Case([kill |-> 1], [refused |-> 2, pass |-> 1, signin |-> 1]),
    OfCodex(Case([kill |-> 1], [refused |-> 1, count |-> 1, signin |-> 1, full |-> 1, week |-> 1])),
    OfCodex(Case([kill |-> 1], [count |-> 3, age |-> 1, full |-> 1])),
    Lanes([append |-> 3, norename |-> 1, killhook |-> 1], Holding(4, 0)),
    Killed(Lanes([append |-> 2, norename |-> 1], Holding(4, 0))),
    Lanes([refuse |-> 3, partly |-> 1, unwritable |-> 1], Holding(1, 2)),
    Lanes([append |-> 1, refuse |-> 1, beat |-> 1], Holding(1, 1)),
    Killed(Lanes([append |-> 1, beat |-> 1, late |-> 1], Holding(0, 1))),
    Killed(Lanes([append |-> 1, minutes |-> 2], Holding(1, 1))),
    Lanes([minutes |-> 2, refuse |-> 1], Holding(3, 2)) }
=============================================================================
