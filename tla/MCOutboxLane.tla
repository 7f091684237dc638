---------------------------- MODULE MCOutboxLane ----------------------------
(* Four events of two and three cells, a cap two lines fill, a compaction  *)
(* threshold one line passes, batches of two; a behaviour has one of three  *)
(* settings; "own" is that of the constants as the configuration sets them.*)
EXTENDS OutboxLane

CONSTANTS e1, e2, e3, e4

MCEvent == {e1, e2, e3, e4}
MCSize == [e \in MCEvent |-> IF e = e1 THEN 3 ELSE 2]

VARIABLE setting
Settings == {"own", "faults", "pages"}

\* Batches cut by the byte cap, local writes that fail, and kills.
Faulty == INSTANCE OutboxLane WITH Conditions <- {"crash", "cursorIO", "byteCap"}
\* Delivery of one event at a time to a reader that may meet half an append.
Paged == INSTANCE OutboxLane WITH Batch <- FALSE, Conditions <- {"crash", "cursorIO", "splitWrite"}

MCInit == Init /\ setting \in Settings
MCNext == /\ UNCHANGED setting
          /\ \/ setting = "own" /\ Next
             \/ setting = "faults" /\ Faulty!Next
             \/ setting = "pages" /\ Paged!Next
MCSpec == MCInit /\ [][MCNext]_<<vars, setting>> /\ Fairness

\* Left alone, the lane delivers: every event that it accepted is answered for, once,
\* and the lane is compacted to nothing; and what is refused meanwhile is refused
\* because undelivered lines fill the lane, never for lines that wait for compaction.
Undisturbed == setting = "own"

Served ==
  /\ [](Undisturbed => NoRedelivery /\ BacklogBounded)
  /\ [][Undisturbed /\ refused' # refused => Backlog >= Cap]_vars
  /\ \A e \in Event : (Undisturbed /\ e \in acked) ~> (e \in answered)
  /\ Undisturbed => <>[](file = <<>> /\ cursor = 0)
=============================================================================
