------------------------------ MODULE CodexTail ------------------------------
(***************************************************************************)
(* One Codex rollout as pollCodexRollouts follows it                       *)
(* (internal/capture/cmd_codex_watch.go): the bounded classification of    *)
(* the file by its session_meta header, the tail with its saved offset,    *)
(* the processor that correlates lines                                     *)
(* (internal/normalize/normalize_codex.go), the replay of the consumed     *)
(* prefix after a restart, the rewind after a refused event, and the       *)
(* migration of an older progress file.                                    *)
(*                                                                         *)
(* A rollout is a sequence of records.  A record has a kind and what the   *)
(* processor reads of it:                                                  *)
(*   "meta" [sub, cwd]   session_meta      "turn" [model]   turn_context   *)
(*   "user"              user_message      "human" [text]   its copy       *)
(*   "answer"            agent_message     "final"          its copy       *)
(*   "started", "complete"   the task      "tier" [tier]    its settings   *)
(*   "tokens" [total]    token_count       "compact"        compaction     *)
(*   "call" [call, name, cell]             "output" [call, cell]           *)
(*   "patch" [call]      patch_apply_end   "other"          anything else  *)
(* and the field big where it is too large to be read.  An event is        *)
(* [id, body]: the stable id, which names the record or the call the event *)
(* comes of, and for a token_count also the model and whether a tier was   *)
(* seen; and what else of the rollout went into it.                        *)
(***************************************************************************)
EXTENDS Integers, Sequences, FiniteSets, SequencesExt

CONSTANTS
  Rollouts,     \* the rollouts that may be written
  NoCell,       \* an output that hands over to no exec cell
  NoModel, NoProc,
  MaxSkips,     \* codexClassifyMaxSkips
  MaxFast,      \* bound on the count of the fast tier
  Environments  \* the sets of conditions a behaviour may have

ConditionKinds ==
  { "full",     \* a lane may reach OutboxMaxBytes
    "stale",    \* the session may pause for two polls anywhere but between a
                \* record and its copy
    "crash",    \* the watcher may be killed and started again
    "upgrade",  \* the progress file is of schema 3 and gets migrated
    "save",     \* the progress file may fail to be written
    "stat",     \* the rollout may fail to be looked at
    "roots",    \* the capture roots may change
    "window",   \* the session may leave the history window
    "aging" }   \* its events may grow older than diffDedupTTL and LiveHorizon

ASSUME CodexAssumption ==
  /\ Environments \subseteq SUBSET ConditionKinds
  /\ MaxSkips \in Nat /\ MaxFast \in Nat

Lanes == {"live", "backfill"}

VARIABLES
  allowed,   \* what may happen in this behaviour
  script,    \* the rollout that is being written
  avail,     \* its records that are on disk
  age,       \* how old its events are: "live", "replay" or "backfill"
  inside,    \* is its cwd within the capture roots
  old,       \* is its session_meta older than the history window
  full,      \* the lanes at their cap
  queued,    \* events in the outbox or already delivered
  claimed,   \* file_diffs claimed in diff-hashes.json
  disk,      \* its entries in the progress file
  \* Memory of the watcher.
  pc,        \* where the poll stands
  pg,        \* its entries in the progress of this poll
  proc,      \* the CodexRolloutProcessor, if there is one
  out        \* events of the current record that are still to be queued

env  == <<allowed, script, avail, age, inside, old, full>>
vars == <<env, queued, claimed, disk, pc, pg, proc, out>>

Big(r) == "big" \in DOMAIN r

-----------------------------------------------------------------------------
(* The processor.  human and final are the positions of the turn and of the *)
(* answer it holds back, 0 for none; pending the positions of the calls     *)
(* without output, running those handed over to an exec cell.               *)

EmptyProc ==
  [ seen |-> FALSE, sub |-> FALSE, model |-> NoModel,
    tier |-> "none", prev |-> 0, fast |-> 0,
    human |-> 0, humanAged |-> FALSE, final |-> 0, finalAged |-> FALSE, done |-> FALSE,
    pending |-> {}, running |-> {}, rewind |-> 0 ]

HasFlushableState(p) == p.human # 0 \/ p.final # 0

\* Mutant: a call that waits for its output is not buffered.
HasTurn(p) == p.human # 0 \/ p.final # 0

HasBufferedState(p)  == HasFlushableState(p) \/ p.pending # {} \/ p.running # {}

\* The counters and the latest model are no buffered work and stay.
DiscardBufferedState(p) ==
  [p EXCEPT !.human = 0, !.humanAged = FALSE, !.final = 0, !.finalAged = FALSE,
            !.done = FALSE, !.pending = {}, !.running = {}]

Event(kind, key, body) == [id |-> <<kind, key>>, body |-> body]
Prompt(i) == Event("prompt", i, <<>>)

\* The final answer recorded at i; a delegated thread has only its spend.
Answer(p, i) == Event(IF p.sub THEN "subagent_usage" ELSE "ai_response", i, <<p.model, p.prev>>)

Answered(p) == [p EXCEPT !.final = 0, !.finalAged = FALSE, !.done = TRUE]

\* flushPendingFinal
FinalOut(p)     == IF p.final = 0 \/ p.done THEN <<>> ELSE <<Answer(p, p.final)>>
FinalFlushed(p) == IF FinalOut(p) = <<>> THEN [p EXCEPT !.final = 0, !.finalAged = FALSE]
                   ELSE Answered(p)

\* codexLineClaimsPendingTurn
Claims(p, r) ==
  \/ r.kind = "user"
  \/ r.kind = "human" /\ r.text = script[p.human].text

\* A line that belongs to another turn releases the one that is held.
TurnOut(p, r)  == IF p.human # 0 /\ ~Claims(p, r) THEN <<Prompt(p.human)>> ELSE <<>>
TurnDone(p, r) == IF p.human # 0 /\ ~Claims(p, r)
                  THEN [p EXCEPT !.human = 0, !.humanAged = FALSE] ELSE p

\* recoverUserPrompt: copies of the same text keep the staleness they have.
Recovered(p, i, r) ==
  IF p.sub \/ r.text = "synthetic" THEN p
  ELSE [p EXCEPT !.human = i, !.humanAged = p.human # 0 /\ @]

Spent(p, n) == IF p.fast + n > MaxFast THEN MaxFast ELSE p.fast + n

\* codexSessionUsage: growth goes to the tier in force; a total that went back
\* starts the baseline again.
Counted(p, n) ==
  [p EXCEPT !.prev = n,
            !.fast = IF p.tier = "fast" /\ n >= p.prev THEN Spent(p, n - p.prev) ELSE @]

\* The id of a counter takes in the main model and that a tier was seen: both are of
\* what the processor has read, which a rewind does not take back.
UsageKey(p, i) == <<i, IF p.sub THEN NoModel ELSE p.model, p.tier # "none">>
Usage(p, i)    == Event("usage", UsageKey(p, i), <<p.model, p.tier, p.fast>>)

CallAt(p, c)    == {i \in p.pending : script[i].call = c}
RunningAt(p, k) == {x \in p.running : x.cell = k}

SessionStart == Event("session_start", "conversation", <<>>)
Compaction(i) == Event("context_compact", i, <<>>)
Patch(c)      == Event("file_diff", c, <<>>)

\* A patch may also come wrapped in the script of an exec call.
Tool(i) ==
  LET r == script[i]
  IN  CASE r.name = "shell"   -> Event("command", r.call, <<>>)
        [] r.name = "wrapped" -> Patch(r.call)
        [] OTHER              -> Event("tool_use", r.call, <<>>)

\* The output of the call at position i: a shell call, or the write_stdin that
\* feeds it, may hand over to an exec cell; the event comes when that is over.
Handed(p, i, r) == script[i].name = "shell" /\ r.cell # NoCell
Feeding(p, i)   == IF script[i].name = "stdin" THEN RunningAt(p, script[i].cell) ELSE {}

OutputOut(p, i, r) ==
  IF Handed(p, i, r) \/ (Feeding(p, i) # {} /\ r.cell # NoCell) THEN <<>>
  ELSE IF Feeding(p, i) # {} THEN <<Tool((CHOOSE x \in Feeding(p, i) : TRUE).at)>>
  ELSE <<Tool(i)>>

OutputDone(p, i, r) ==
  LET rest  == p.running \ Feeding(p, i)
      moved == IF r.cell = NoCell THEN {}
               ELSE IF Handed(p, i, r) THEN {[cell |-> r.cell, at |-> i]}
               ELSE {[cell |-> r.cell, at |-> x.at] : x \in Feeding(p, i)}
  IN  [p EXCEPT !.pending = @ \ {i},
                !.running = {x \in rest : moved = {} \/ x.cell # r.cell} \cup moved]

\* Process: the processor after record i, and the events it returns.
Processed(p, i) ==
  LET r == script[i]  q == TurnDone(p, r)
  IN  CASE r.kind = "meta"     -> [q EXCEPT !.seen = TRUE, !.sub = r.sub]
        [] r.kind = "turn"     -> [q EXCEPT !.model = r.model, !.done = FALSE]
        [] r.kind = "user"     -> IF q.sub THEN q ELSE [q EXCEPT !.human = 0, !.humanAged = FALSE]
        [] r.kind = "human"    -> Recovered(q, i, r)
        [] r.kind = "answer"   -> Answered(q)
        [] r.kind = "final"    -> IF q.done THEN q ELSE [q EXCEPT !.final = i, !.finalAged = FALSE]
        [] r.kind = "complete" -> FinalFlushed(q)
        [] r.kind = "started"  -> [FinalFlushed(q) EXCEPT !.done = FALSE]
        [] r.kind = "tier"     -> [q EXCEPT !.tier = r.tier]
        [] r.kind = "tokens"   -> Counted(q, r.total)
        [] r.kind = "call" /\ r.name # "apply_patch" -> [q EXCEPT !.pending = @ \cup {i}]
        [] r.kind = "output" /\ CallAt(q, r.call) # {} ->
             OutputDone(q, CHOOSE j \in CallAt(q, r.call) : TRUE, r)
        [] OTHER               -> q

Produced(p, i) ==
  LET r == script[i]  q == TurnDone(p, r)
      own == CASE r.kind = "meta"    -> <<SessionStart>>
               [] r.kind = "user"    -> IF q.sub THEN <<>> ELSE <<Prompt(i)>>
               [] r.kind = "answer"  -> <<Answer(q, i)>>
               [] r.kind \in {"complete", "started"} -> FinalOut(q)
               [] r.kind = "tokens"  -> IF q.seen THEN <<Usage(Counted(q, r.total), i)>> ELSE <<>>
               [] r.kind = "compact" -> IF q.sub THEN <<>> ELSE <<Compaction(i)>>
               [] r.kind = "patch"   -> <<Patch(r.call)>>
               [] r.kind = "output" /\ CallAt(q, r.call) # {} ->
                    OutputOut(q, CHOOSE j \in CallAt(q, r.call) : TRUE, r)
               [] OTHER              -> <<>>
  IN  TurnOut(p, r) \o own

\* replayCodexRolloutPrefix: the events are thrown away.
Replayed(n) == FoldLeft(Processed, EmptyProc, [k \in 1..n |-> k])

-----------------------------------------------------------------------------
(* The progress of one rollout: the offset, if there is an entry at all, and *)
(* whether it lies inside a record that is being discarded; whether the      *)
(* processor held no turn there; the decision, the roots it was made for,    *)
(* the cursor and the count of the classification; the replay a migration    *)
(* asks for, and the schema.  base is where its capture began: no part of    *)
(* the file, but the properties refer to it.                                 *)

FirstProgress(v) ==
  [ off |-> 0, entry |-> FALSE, discarding |-> FALSE, settled |-> FALSE,
    match |-> "undecided", roots |-> TRUE, cursor |-> 0, scanned |-> 0,
    replay |-> FALSE, v |-> v, base |-> 0 ]

Init ==
  /\ allowed \in Environments
  /\ script \in Rollouts /\ avail = 0
  /\ age = "live" /\ full = {} /\ inside = TRUE /\ old = FALSE
  /\ queued = {} /\ claimed = {}
  /\ disk = FirstProgress(IF "upgrade" \in allowed THEN 3 ELSE 4)
  /\ pc = "idle" /\ pg = disk /\ proc = NoProc /\ out = <<>>

\* The environment: the session writes, time passes, the roots change, and
\* producers and the drain fill and empty the lanes.
Grow ==
  /\ avail < Len(script) /\ avail' = avail + 1
  /\ UNCHANGED <<allowed, script, age, inside, old, full>>

Age ==
  /\ "aging" \in allowed
  /\ \/ age = "live" /\ age' = "replay"
     \/ age = "replay" /\ age' = "backfill"
  /\ UNCHANGED <<allowed, script, avail, inside, old, full>>

LeaveWindow ==
  /\ "window" \in allowed /\ ~old /\ avail > 0
  /\ old' = TRUE
  /\ UNCHANGED <<allowed, script, avail, age, inside, full>>

MoveRoots ==
  /\ "roots" \in allowed
  /\ inside' = ~inside
  /\ UNCHANGED <<allowed, script, avail, age, old, full>>

FillLane(l) ==
  /\ "full" \in allowed /\ l \notin full
  /\ full' = full \cup {l}
  /\ UNCHANGED <<allowed, script, avail, age, inside, old>>

FreeLane(l) ==
  /\ l \in full
  /\ full' = full \ {l}
  /\ UNCHANGED <<allowed, script, avail, age, inside, old>>

World ==
  /\ Grow \/ Age \/ LeaveWindow \/ MoveRoots \/ \E l \in Lanes : FillLane(l) \/ FreeLane(l)
  /\ UNCHANGED <<queued, claimed, disk, pc, pg, proc, out>>

-----------------------------------------------------------------------------
(* emitCodexEvent.                                                          *)

LaneFor == IF age = "backfill" THEN "backfill" ELSE "live"
BothLanesFull == full = Lanes

Claimable(e) == age = "live" /\ e.id[1] = "file_diff"
Skipped(e)   == Claimable(e) /\ e.id[2] \in claimed
Refused(e)   == ~Skipped(e) /\ LaneFor \in full

Emit(e) ==
  /\ claimed' = IF Claimable(e) THEN claimed \cup {e.id[2]} ELSE claimed
  /\ queued' = IF Skipped(e) \/ Refused(e) THEN queued ELSE queued \cup {e}

-----------------------------------------------------------------------------
(* pollCodexRollouts.                                                       *)

\* What the poll starts from: decisions made for other roots are dropped, and
\* that is saved at once.
Synced == IF disk.roots = inside THEN disk
          ELSE [disk EXCEPT !.match = "undecided", !.roots = inside]

PollStart ==
  /\ pc = "idle" /\ avail > 0
  /\ disk' = Synced /\ pg' = Synced
  /\ pc' = CASE Synced.match = "no" -> "save" [] Synced.match = "yes" -> "tail"
             [] OTHER -> "classify"
  /\ UNCHANGED <<env, queued, claimed, proc, out>>

\* clearCodexClassifyState
Cleared(p) == [p EXCEPT !.cursor = 0, !.scanned = 0]

Header(r) == r.kind = "meta" /\ r.cwd

\* The record the search stands at, and whether it has gone on for too long.
At == script[pg.cursor + 1]
Searching == pc = "classify" /\ pg.cursor < avail

\* Mutant: one record too many.
GivenUpLate == pg.scanned > MaxSkips + 1

\* Mutant: one record too few.
GivenUpEarly == pg.scanned >= MaxSkips

GivenUp == pg.scanned > MaxSkips

\* The cursor passes the record that is looked at.
Passed == [pg EXCEPT !.cursor = @ + 1, !.scanned = IF Big(At) THEN @ ELSE @ + 1]

\* A record that says nothing of the cwd is stepped over, so many times.
ClassifySkip ==
  /\ Searching /\ (Big(At) \/ ~(Header(At) \/ GivenUp))
  /\ pg' = Passed
  /\ UNCHANGED <<env, queued, claimed, disk, pc, proc, out>>

\* The header names a directory outside the roots, or the search is over.
ClassifyNo ==
  /\ Searching /\ ~Big(At)
  /\ GivenUp \/ (Header(At) /\ ~pg.roots)
  /\ pg' = [Cleared(Passed) EXCEPT !.match = "no"]
  /\ pc' = "save"
  /\ UNCHANGED <<env, queued, claimed, disk, proc, out>>

Matching == Searching /\ ~Big(At) /\ ~GivenUp /\ Header(At) /\ pg.roots

\* In the window: all of it, again if a migration asks for it.
ClassifyYes ==
  /\ Matching /\ ~old
  /\ LET p == IF pg.replay THEN [Passed EXCEPT !.off = 0, !.entry = FALSE, !.discarding = FALSE,
                                           !.settled = FALSE, !.replay = FALSE, !.base = 0]
              ELSE Passed
     IN  pg' = [Cleared(p) EXCEPT !.match = "yes"]
  /\ pc' = "tail"
  /\ UNCHANGED <<env, queued, claimed, disk, proc, out>>

\* Older: from here on, unless it is being followed already.
ClassifyPreexisting ==
  /\ Matching /\ old
  /\ LET p == IF pg.entry THEN Passed
              ELSE [Passed EXCEPT !.off = avail, !.entry = TRUE, !.settled = TRUE, !.base = avail]
     IN  pg' = [Cleared(p) EXCEPT !.match = "yes", !.replay = FALSE]
  /\ pc' = "tail"
  /\ UNCHANGED <<env, queued, claimed, disk, proc, out>>

\* The size of the file cannot be had: the classification starts over.
ClassifyFails ==
  /\ "stat" \in allowed
  /\ Matching /\ old /\ ~pg.entry
  /\ pg' = [Cleared(Passed) EXCEPT !.replay = FALSE]
  /\ pc' = "save"
  /\ UNCHANGED <<env, queued, claimed, disk, proc, out>>

\* No more records, or the read budget of this poll is spent.
ClassifyStop ==
  /\ pc = "classify"
  /\ pc' = "save"
  /\ UNCHANGED <<env, queued, claimed, disk, pg, proc, out>>

\* A processor is made, of the consumed prefix, where there is something to
\* read or to release.
TailStart ==
  /\ pc = "tail"
  /\ IF proc = NoProc /\ pg.settled /\ avail <= pg.off
     THEN pc' = "save" /\ UNCHANGED proc
     ELSE /\ proc' = IF proc = NoProc THEN Replayed(pg.off) ELSE proc
          /\ pc' = IF BothLanesFull THEN "settle" ELSE "read"
  /\ UNCHANGED <<env, queued, claimed, disk, pg, out>>

\* The budget was spent on other rollouts, or the outbox is under pressure.
TailDeferred ==
  /\ pc = "tail"
  /\ pc' = "save"
  /\ UNCHANGED <<env, queued, claimed, disk, pg, proc, out>>

\* readTranscriptRecords: a record over the supported size is given up in two
\* steps, and the offset lies inside it in between.
DiscardBegin ==
  /\ pc = "read" /\ pg.off < avail /\ Big(script[pg.off + 1]) /\ ~pg.discarding
  /\ pg' = [pg EXCEPT !.discarding = TRUE, !.entry = TRUE]
  /\ pc' = "settle"
  /\ UNCHANGED <<env, queued, claimed, disk, proc, out>>

DiscardEnd ==
  /\ pc = "read" /\ pg.off < avail /\ pg.discarding
  /\ pg' = [pg EXCEPT !.off = @ + 1, !.discarding = FALSE]
  /\ UNCHANGED <<env, queued, claimed, disk, pc, proc, out>>

\* One record goes through the processor; where it held nothing before, the
\* offset can be rewound to.
ReadRecord ==
  /\ pc = "read" /\ pg.off < avail /\ ~Big(script[pg.off + 1])
  /\ LET p == IF HasBufferedState(proc) THEN proc ELSE [proc EXCEPT !.rewind = pg.off]
     IN  /\ out' = Produced(p, pg.off + 1)
         /\ proc' = Processed(p, pg.off + 1)
  /\ pc' = "queue"
  /\ UNCHANGED <<env, queued, claimed, disk, pg>>

QueueEvent ==
  /\ pc = "queue" /\ out # <<>> /\ ~Refused(Head(out))
  /\ Emit(Head(out))
  /\ out' = Tail(out)
  /\ UNCHANGED <<env, disk, pc, pg, proc>>

\* ErrQueueFull: the offset goes back to this record, or further to where the
\* processor last held nothing, and the processor forgets what it holds.
QueueRefused ==
  /\ pc = "queue" /\ out # <<>> /\ Refused(Head(out))
  /\ Emit(Head(out))
  /\ pg' = [pg EXCEPT !.off = IF proc.rewind < @ THEN proc.rewind ELSE @]
  /\ proc' = DiscardBufferedState(proc)
  /\ out' = <<>> /\ pc' = "settle"
  /\ UNCHANGED <<env, disk>>

RecordDone ==
  /\ pc = "queue" /\ out = <<>>
  /\ pg' = [pg EXCEPT !.off = @ + 1, !.entry = TRUE]
  /\ pc' = "read"
  /\ UNCHANGED <<env, queued, claimed, disk, proc, out>>

\* The record after position n belongs to the same turn's end, or is another copy
\* of it, and is written at once.
Copied(n) ==
  /\ n \in 1..(Len(script) - 1)
  /\ \/ script[n].kind = "human" /\ Claims([human |-> n], script[n + 1])
     \/ /\ script[n].kind \in {"final", "tokens"}
        /\ script[n + 1].kind \in {"answer", "tokens", "complete"}

\* FlushStaleUserPrompt and FlushStaleFinal: what was there at the end of the
\* last poll already goes to the queue.
StaleOut(p) == (IF p.humanAged THEN <<Prompt(p.human)>> ELSE <<>>)
               \o (IF p.finalAged THEN FinalOut(p) ELSE <<>>)

AgedAfter(p) ==
  LET q == IF p.finalAged THEN FinalFlushed(p) ELSE [p EXCEPT !.finalAged = p.final # 0]
  IN  IF q.humanAged THEN [q EXCEPT !.human = 0, !.humanAged = FALSE]
      ELSE [q EXCEPT !.humanAged = q.human # 0]

\* The end of the file, which a second poll in a row finds only if the session
\* pauses there.
EndOfFile ==
  /\ pc = "read" /\ pg.off = avail
  /\ StaleOut(proc) = <<>> \/ ("stale" \in allowed /\ ~Copied(avail))
  /\ pc' = "flush"
  /\ UNCHANGED <<env, queued, claimed, disk, pg, proc, out>>

\* The end of the budget, which releases nothing.
StopReading ==
  /\ pc = "read"
  /\ pc' = "settle"
  /\ UNCHANGED <<env, queued, claimed, disk, pg, proc, out>>

\* An event the lane refuses here is gone.
FlushStale ==
  /\ pc = "flush"
  /\ queued' = IF LaneFor \in full THEN queued ELSE queued \cup Range(StaleOut(proc))
  /\ proc' = AgedAfter(proc)
  /\ pc' = "settle"
  /\ UNCHANGED <<env, claimed, disk, pg, out>>

Settle ==
  /\ pc = "settle"
  /\ pg' = [pg EXCEPT !.settled = ~HasFlushableState(proc)]
  /\ pc' = "save"
  /\ UNCHANGED <<env, queued, claimed, disk, proc, out>>

SaveProgress ==
  /\ pc = "save"
  /\ disk' = pg
  /\ pc' = "idle"
  /\ UNCHANGED <<env, queued, claimed, pg, proc, out>>

\* The next poll reads the file that could not be replaced.
SaveFails ==
  /\ "save" \in allowed
  /\ pc = "save" /\ pg # disk
  /\ pg' = disk
  /\ pc' = "idle"
  /\ UNCHANGED <<env, queued, claimed, disk, proc, out>>

Restarted(p) ==
  /\ disk' = p /\ pg' = p
  /\ pc' = "idle" /\ proc' = NoProc /\ out' = <<>>
  /\ UNCHANGED <<env, queued, claimed>>

Crash ==
  /\ "crash" \in allowed
  /\ pc # "idle" \/ proc # NoProc
  /\ Restarted(disk)

\* loadCodexWatchProgress of a binary that knows schema 4: what was matched is
\* to be decided again, and to be read again.
Upgrade ==
  /\ disk.v = 3 /\ pc = "idle"
  /\ Restarted([Cleared(disk) EXCEPT !.v = 4, !.replay = disk.entry,
                                     !.match = IF disk.entry /\ @ = "yes" THEN "undecided" ELSE @])

Poll == \/ PollStart \/ ClassifySkip \/ ClassifyNo \/ ClassifyYes \/ ClassifyPreexisting
        \/ ClassifyFails \/ ClassifyStop \/ TailStart \/ TailDeferred
        \/ DiscardBegin \/ DiscardEnd \/ ReadRecord \/ QueueEvent \/ QueueRefused \/ RecordDone
        \/ EndOfFile \/ StopReading \/ FlushStale \/ Settle \/ SaveProgress \/ SaveFails

Next == World \/ Poll \/ Crash \/ Upgrade

Spec == Init /\ [][Next]_vars

\* The session writes what it writes and the watcher polls forever.  A poll may
\* find its budget spent before any record, but not every time.
Fairness ==
  /\ WF_vars(Grow /\ UNCHANGED <<queued, claimed, disk, pc, pg, proc, out>>)
  /\ WF_vars(PollStart) /\ WF_vars(ClassifyStop) /\ WF_vars(QueueEvent \/ QueueRefused \/ RecordDone)
  /\ WF_vars(StopReading \/ Settle \/ SaveProgress \/ FlushStale)
  /\ SF_vars(ClassifySkip \/ ClassifyYes) /\ SF_vars(TailStart)
  /\ SF_vars(ReadRecord \/ DiscardBegin \/ DiscardEnd)

FairSpec == Spec /\ Fairness

-----------------------------------------------------------------------------
(* Properties.                                                              *)

Progress ==
  [ off : 0..avail, entry : BOOLEAN, discarding : BOOLEAN, settled : BOOLEAN,
    match : {"undecided", "yes", "no"}, roots : BOOLEAN, cursor : 0..avail,
    scanned : 0..(MaxSkips + 1), replay : BOOLEAN, v : {3, 4}, base : 0..avail ]

\* The offsets and the search stay within the file, and what the processor holds
\* are records that were read and are of the right kind.
TypeOK ==
  /\ disk \in Progress /\ pg \in Progress
  /\ pc \in {"idle", "classify", "tail", "read", "queue", "flush", "settle", "save"}
  /\ proc # NoProc =>
       /\ proc.rewind \in 0..avail
       /\ proc.human # 0 => script[proc.human].kind = "human"
       /\ proc.final # 0 => script[proc.final].kind = "final"
       /\ \A i \in proc.pending \cup {x.at : x \in proc.running} : script[i].kind = "call"
       /\ Cardinality({x.cell : x \in proc.running}) = Cardinality(proc.running)

\* What processor p makes of the records after position n, if nothing goes wrong,
\* with what it holds in the end.
Pass(p, n) ==
  FoldLeft(LAMBDA s, i : IF Big(script[i]) THEN s
                         ELSE [proc |-> Processed(s.proc, i), events |-> s.events \o Produced(s.proc, i)],
           [proc |-> p, events |-> <<>>],
           [k \in 1..(Len(script) - n) |-> n + k])

Held(p) == (IF p.human = 0 THEN <<>> ELSE <<Prompt(p.human)>>) \o FinalOut(p)

Future(p, n) == Range(Pass(p, n).events \o Held(Pass(p, n).proc))

Ids(events) == {e.id : e \in events}

\* What the events tell of: a token_count by its record alone.
Sources(events) == {IF e.id[1] = "usage" THEN <<"usage", e.id[2][1]>> ELSE e.id : e \in events}
Lasting(events) == {e \in events : e.id[1] # "file_diff"}
Turns(events)   == {e \in events : e.id[1] \in {"prompt", "ai_response", "subagent_usage"}}

Only(conditions) == allowed \subseteq conditions

\* A record that is too large to read is read all the same by the replay of a
\* prefix that holds it, so nothing is claimed of a restart behind one.
Readable ==
  Only({"full", "stale", "aging", "save"}) \/ \A i \in 1..Len(script) : ~Big(script[i])

Owed == Lasting(Future(Replayed(disk.base), disk.base))
Kept(events) ==
  Sources(events) \subseteq
    Sources(queued \cup Future(IF proc = NoProc THEN Replayed(disk.off) ELSE proc, disk.off))

\* Two faults at once that are not provided for: a rewind in a poll that starts
\* behind the processor, because its predecessor could not be saved; and a rollout
\* that is admitted twice, the second time from its end, with the processor of the
\* first time.
Separately(one, other) == ~({one, other} \subseteq allowed)

\* Full lanes, kills at any step, migrations, progress that cannot be saved,
\* changing roots and a moving window only delay: between polls every event that
\* needs no claim is queued, or will come of the processor, or of the one that a
\* restart rebuilds, and of the records after the saved offset.  A pause may cost
\* a turn, but only where a lane is full.
OnlyDelays ==
  pc = "idle" /\ Readable /\ Separately("save", "full") /\ Separately("roots", "window") =>
    /\ Only(ConditionKinds \ {"stale"}) \/ Only(ConditionKinds \ {"full"}) => Kept(Owed)
    /\ Kept(Owed \ Turns(Owed))

\* One turn is one prompt and one answer, and a command that is handed over is
\* reported by its first call only; and nothing is made up: whatever is killed,
\* replayed and read again, the events are those of one uninterrupted reading, as
\* long as progress is saved; but a token_count that a rewind leads back over may be
\* told again, under the model of a later turn_context or after the tier was seen.
\* Where no lane fills up nothing is, and the events also carry the model, the tier
\* and the counters of that reading.
OneReading ==
  LET whole == Future(EmptyProc, 0)
      Twice(e) == \/ /\ e.id[1] = "prompt" /\ e.id[2] < Len(script)
                     /\ script[e.id[2]].kind = "human"
                     /\ \/ script[e.id[2] + 1].kind = "user"
                        \/ script[e.id[2] + 1] = script[e.id[2]]
                  \/ /\ e.id[1] = "ai_response" /\ script[e.id[2]].kind = "final"
                     /\ e.id[2] < Len(script) /\ script[e.id[2] + 1].kind = "answer"
                  \/ /\ e.id[1] = "tool_use"
                     /\ \E i \in 1..Len(script) : /\ script[i].kind = "call" /\ script[i].call = e.id[2]
                                                  /\ script[i].name = "stdin"
      Later(i)  == {UsageKey(Replayed(j), i) : j \in i..Len(script)}
      Retold(e) == /\ e.id[1] = "usage"
                   /\ \E one, other \in Later(e.id[2][1]) : e.id[2] = [one EXCEPT ![3] = other[3]]
  IN  Readable /\ Only(ConditionKinds \ {"save"}) /\ Separately("roots", "window") =>
        /\ ~\E e \in queued : Twice(e)
        /\ Sources(queued) \subseteq Sources(whole)
        /\ \A e \in queued : e.id \in Ids(whole) \/ Retold(e)
        /\ "full" \notin allowed => queued \subseteq whole

\* The search for the header survives polls and restarts: a rollout is turned
\* down only if its header names a directory outside the roots, or is not among
\* the first records that can be read, and it is followed only while the header
\* says so.
HeaderDecides ==
  LET readable == SelectSeq(SubSeq(script, 1, avail), LAMBDA r : ~Big(r))
      found    == \E i \in 1..Len(readable) : i <= MaxSkips + 1 /\ Header(readable[i])
  IN  \A p \in {disk, pg} : /\ p.match = "no"  => ~p.roots \/ ~found
                            /\ p.match = "yes" => p.roots /\ found

\* Once the lanes stay free, every event that needs neither a claim nor the stale
\* flush gets queued.
CaughtUp ==
  Only({"full"}) /\ <>[](full = {}) /\ (\E i \in 1..(MaxSkips + 1) : Header(script[i])) =>
    <>(Sources(Lasting(Range(Pass(EmptyProc, 0).events))) \subseteq Sources(queued))

\* "Go-forward: capture ongoing activity but not out-of-window history": nothing
\* before the offset the capture began at is ever read.
GoForward == pg.off >= pg.base

\* "A repeated line adds nothing": no usage event counts more for the fast tier
\* than the thread spent on it.
FastCounted ==
  \A e \in queued : e.id[1] = "usage" => e.body[3] <= Pass(EmptyProc, 0).proc.fast

\* No event of a rollout that is to be followed is missed, none is made up or told twice, and
\* whether it is to be followed its header decides (pollCodexRollouts).
Faithful == OnlyDelays /\ OneReading /\ HeaderDecides
=============================================================================
