--------------------------- MODULE TranscriptTail ---------------------------
(***************************************************************************)
(* One Claude transcript as pollClaudeTranscripts follows it               *)
(* (internal/capture/cmd_claude_watch.go): the migration of its progress,  *)
(* the bounded classification by its first cwd, the poll loop, the         *)
(* processor that accumulates assistant messages and pending tool calls    *)
(* (internal/normalize/normalize_claude_jsonl.go), the file_diff claim of  *)
(* diff_dedup.go, the two outbox lanes as the watcher sees them, the       *)
(* rewind after a refused event, and the degraded mode of a watcher that   *)
(* parses nothing.                                                         *)
(*                                                                         *)
(* The transcript is a sequence of records, each of one of the kinds       *)
(*   [kind |-> "assistant", msg |-> m, call |-> c]   a line of message m   *)
(*   [kind |-> "result", call |-> c]                 a tool result         *)
(*   [kind |-> "prompt"] and [kind |-> "other"], which alone has no cwd    *)
(* An event is [id, body]: the stable id the backend deduplicates by, and  *)
(* the records its text was built from.                                    *)
(***************************************************************************)
EXTENDS Integers, Sequences, FiniteSets, SequencesExt

CONSTANTS
  Messages, NoMsg,
  Calls, NoCall,
  FileDiffs,      \* the calls whose event is a file_diff
  MaxScans,       \* claudeClassifyMaxScanLines
  DegradedAfter,  \* claudeDegradedByteThreshold, in records
  Environments    \* the pairs of a transcript and the conditions of a behaviour

ConditionKinds ==
  { "full",        \* a lane may reach OutboxMaxBytes
    "staleFlush",  \* a message may see no new line for claudeAccumFlushAge
    "evict",       \* the transcript may leave the history window and return
    "exit",        \* SIGTERM: the shutdown path of RunClaudeWatcher
    "crash",       \* SIGKILL
    "aging",       \* the events may grow older than the claim TTL and LiveHorizon
    "admit",       \* the transcript is still to be classified
    "roots",       \* the capture roots may change
    "window",      \* its first records may be older than the history window
    "stat",        \* looking at its size may fail
    "upgrade",     \* the progress file is of an older schema
    "nosave",      \* the progress file may not be written
    "degrade" }    \* more than the threshold may be read without an event

Record == [kind : {"assistant"}, msg : Messages, call : Calls \cup {NoCall}]
          \cup [kind : {"result"}, call : Calls] \cup [kind : {"prompt", "other"}]

ASSUME TailAssumption ==
  /\ \A e \in Environments : e.script \in Seq(Record) /\ e.allowed \subseteq ConditionKinds
  /\ NoMsg \notin Messages /\ NoCall \notin Calls /\ FileDiffs \subseteq Calls
  /\ MaxScans \in Nat /\ DegradedAfter \in Nat

Lanes == {"live", "backfill"}

VARIABLES
  allowed,   \* what may happen in this behaviour
  script,    \* the transcript that is being written
  avail,     \* its records that are on disk
  age,       \* how old its events are: "live" (within diffDedupTTL),
             \* "replay" (older), "backfill" (older than LiveHorizon)
  full,      \* the lanes at their cap
  inside,    \* is its cwd within the capture roots
  old,       \* how many of its records are older than the history window
  queued,    \* events in the outbox or already delivered
  repeated,  \* has some event been queued twice
  claimed,   \* file_diffs claimed in diff-hashes.json
  disk,      \* its entries in the progress file
  \* Memory of the watcher.
  pc,        \* where the poll stands
  pg,        \* its entries in the progress of this poll; off is where it reads
  proc,      \* the ClaudeTranscriptProcessor
  out,       \* events of the current record that are still to be queued
  health,    \* degraded, what this poll has read and parsed, and since when nothing
  \* History.
  base       \* its end when it was last found to be older than the window

env   == <<allowed, script, avail, age, full, inside, old>>
queue == <<queued, repeated, claimed>>
vars  == <<env, queue, disk, pc, pg, proc, out, health, base>>

Unseen == -1
Schema == 2

HasCwd(r) == r.kind # "other"

-----------------------------------------------------------------------------
(* The processor.                                                           *)

NoAccum == [msg |-> NoMsg, lines |-> <<>>]

EmptyProc == [accum |-> NoAccum, pending |-> {}, emitted |-> {}, rewind |-> 0]

HasBufferedState(p) == p.accum # NoAccum \/ p.pending # {}

DiscardBufferedState(p) == [p EXCEPT !.accum = NoAccum, !.pending = {}, !.emitted = {}]

Response(a) == [id |-> <<"ai_response", a.msg>>, body |-> a.lines]
ToolEvent(c) == [id |-> <<IF c \in FileDiffs THEN "file_diff" ELSE "tool", c>>, body |-> <<>>]
Prompt(i) == [id |-> <<"prompt", i>>, body |-> <<i>>]

\* flushAccum: the processor without its accumulator, and the event it held.
Flushed(p) == [p EXCEPT !.accum = NoAccum, !.emitted = @ \cup ({p.accum.msg} \ {NoMsg})]
FlushOut(p) == IF p.accum.msg \in p.emitted \cup {NoMsg} THEN <<>> ELSE <<Response(p.accum)>>

\* handleAssistant for record i, whose message is r.msg.
Assistant(p, i, r) ==
  LET q == IF p.accum.msg \notin {NoMsg, r.msg} THEN Flushed(p) ELSE p
      a == IF q.accum.msg = r.msg THEN [q.accum EXCEPT !.lines = Append(@, i)]
           ELSE IF r.msg \notin q.emitted THEN [msg |-> r.msg, lines |-> <<i>>]
           ELSE q.accum
  IN  [q EXCEPT !.accum = a, !.pending = @ \cup ({r.call} \ {NoCall})]

\* processLine: the processor after record i, and the events it returns.
Processed(p, i) ==
  LET r == script[i]
  IN  CASE r.kind = "assistant" -> Assistant(p, i, r)
        [] r.kind = "result"    -> [Flushed(p) EXCEPT !.pending = @ \ {r.call}]
        [] OTHER                -> Flushed(p)

Produced(p, i) ==
  LET r == script[i]
  IN  CASE r.kind = "assistant" -> IF p.accum.msg = r.msg THEN <<>> ELSE FlushOut(p)
        [] r.kind = "result"    -> FlushOut(p) \o (IF r.call \in p.pending
                                                   THEN <<ToolEvent(r.call)>> ELSE <<>>)
        [] r.kind = "prompt"    -> Append(FlushOut(p), Prompt(i))
        [] OTHER                -> FlushOut(p)

-----------------------------------------------------------------------------
\* migrateClaudeProgressKeys: the entries an older build has under two absolute paths
\* of one transcript become one, with the larger offset, and matched if either is.
Folded(p, q) ==
  [p EXCEPT !.off   = IF q.off > @ THEN q.off ELSE @,
            !.match = IF @ = "yes" \/ q.match = "none" THEN @ ELSE q.match]

\* What an older build left: it has matched the transcript and read some of it, or
\* has refused it.
OldProgress ==
  LET entries == [v : 0..(Schema - 1), match : {"none", "yes", "no"}, off : Unseen..avail, cls : {0}, fp : {inside}]
  IN  {Folded(e[1], e[2]) : e \in {d \in entries \X entries : d[1].v = d[2].v}}

Healthy == [degraded |-> FALSE, barren |-> 0, read |-> 0, parsed |-> FALSE]

Init ==
  /\ \E e \in Environments : allowed = e.allowed /\ script = e.script
  /\ avail \in IF "upgrade" \in allowed THEN 0..Len(script) ELSE {0}
  /\ age = "live" /\ full = {} /\ inside = TRUE /\ old = 0
  /\ queued = {} /\ repeated = FALSE /\ claimed = {}
  /\ disk \in IF "upgrade" \in allowed THEN OldProgress
              ELSE {[v |-> Schema, match |-> IF "admit" \in allowed THEN "none" ELSE "yes",
                     off |-> Unseen, cls |-> 0, fp |-> TRUE]}
  /\ pc = "idle" /\ pg = disk /\ proc = EmptyProc /\ out = <<>> /\ health = Healthy
  /\ base = 0

\* The environment: the session writes, time passes, producers and the drain
\* fill and empty the lanes, a root is registered or removed.
Grow ==
  /\ avail < Len(script) /\ avail' = avail + 1
  /\ UNCHANGED <<allowed, script, age, full, inside, old, queue, disk, pc, pg, proc, out, health, base>>

Age ==
  /\ "aging" \in allowed
  /\ \/ age = "live" /\ age' = "replay"
     \/ age = "replay" /\ age' = "backfill"
  /\ UNCHANGED <<allowed, script, avail, full, inside, old, queue, disk, pc, pg, proc, out, health, base>>

\* The cutoff is taken as a poll begins.
LeaveWindow ==
  /\ "window" \in allowed /\ old < avail
  /\ pc = "idle"
  /\ old' = old + 1
  /\ UNCHANGED <<allowed, script, avail, age, full, inside, queue, disk, pc, pg, proc, out, health, base>>

MoveRoots ==
  /\ "roots" \in allowed
  /\ inside' = ~inside
  /\ UNCHANGED <<allowed, script, avail, age, full, old, queue, disk, pc, pg, proc, out, health, base>>

FillLane(l) ==
  /\ "full" \in allowed /\ l \notin full
  /\ full' = full \cup {l}
  /\ UNCHANGED <<allowed, script, avail, age, inside, old, queue, disk, pc, pg, proc, out, health, base>>

FreeLane(l) ==
  /\ l \in full
  /\ full' = full \ {l}
  /\ UNCHANGED <<allowed, script, avail, age, inside, old, queue, disk, pc, pg, proc, out, health, base>>

-----------------------------------------------------------------------------
(* queueClaudeWatchEvent.                                                   *)

LaneFor == IF age = "backfill" THEN "backfill" ELSE "live"
BothLanesFull == full = Lanes

\* A degraded watcher only counts what it parses.
DryRun == health.degraded

\* dedupeFileDiff: a live file_diff somebody has claimed is not queued.
Claimable(e) == age = "live" /\ e.id[1] = "file_diff"
Skipped(e)   == Claimable(e) /\ e.id[2] \in claimed
Refused(e)   == ~DryRun /\ ~Skipped(e) /\ LaneFor \in full

\* The claim is made before the append is attempted, and stays.
Funnel(e) ==
  IF DryRun THEN UNCHANGED queue
  ELSE
  /\ claimed' = IF Claimable(e) THEN claimed \cup {e.id[2]} ELSE claimed
  /\ IF Skipped(e) \/ Refused(e)
     THEN UNCHANGED <<queued, repeated>>
     ELSE /\ queued' = queued \cup {e}
          /\ repeated' = (repeated \/ \E q \in queued : q.id = e.id)

-----------------------------------------------------------------------------
(* The health of the parser.                                                *)

Watched == "degrade" \in allowed

Reading == IF Watched THEN [health EXCEPT !.read = 0, !.parsed = FALSE] ELSE health
Parsing(events) == IF Watched /\ events # <<>> THEN [health EXCEPT !.parsed = TRUE] ELSE health
Consumed == IF Watched THEN [health EXCEPT !.read = @ + 1] ELSE health

Least(m, n) == IF m < n THEN m ELSE n

\* claudeDegradationStep
Judged ==
  IF ~Watched THEN health
  ELSE IF health.parsed THEN [health EXCEPT !.degraded = FALSE, !.barren = 0]
  ELSE LET n == Least(health.barren + health.read, DegradedAfter + 1)
       IN  [health EXCEPT !.degraded = @ \/ n > DegradedAfter, !.barren = n]

-----------------------------------------------------------------------------
(* pollClaudeTranscripts: the progress and the classification.              *)

\* loadClaudeWatchProgress: v1 forgets the refusals, v2 reopens what was matched.
Migrated(p) ==
  LET one == IF p.v < 1 /\ p.match = "no" THEN [p EXCEPT !.match = "none"] ELSE p
      two == IF p.v < 2 THEN [one EXCEPT !.off = Unseen, !.cls = 0,
                                         !.match = IF @ = "yes" THEN "none" ELSE @] ELSE one
  IN  [two EXCEPT !.v = Schema]

\* Mutant: the cached decisions survive a change of the roots.
KeptDecision(p) == [p EXCEPT !.fp = inside]

\* syncMatchCacheToRoots
Synced(p) == IF p.fp = inside THEN p ELSE [p EXCEPT !.match = "none", !.fp = inside]

PollStart ==
  /\ pc = "idle"
  /\ pg' = Synced(Migrated(disk))
  /\ disk' = IF disk.fp = inside THEN disk ELSE pg'
  /\ pc' = IF BothLanesFull \/ pg'.match = "no" THEN "flush"
           ELSE IF pg'.match = "yes" THEN "read" ELSE "classify"
  /\ health' = Reading
  /\ UNCHANGED <<env, queue, proc, out, base>>

\* The record that decides: the first with a cwd, or one too many without.
Decides(i) ==
  /\ i \in (pg.cls + 1)..avail
  /\ HasCwd(script[i]) \/ i > MaxScans
  /\ \A j \in (pg.cls + 1)..(i - 1) : ~HasCwd(script[j]) /\ j <= MaxScans

\* The roots are those the poll began with.
Ours(i) == i <= MaxScans /\ pg.fp

\* The decision and its cursor are one: it is cleared with it.
Decided(match) == [pg EXCEPT !.match = match, !.cls = 0]

\* No more records, or the read budget is spent; the cursor keeps what was scanned.
ClassifyStops ==
  /\ pc = "classify"
  /\ \E n \in pg.cls..avail : /\ \A i \in (pg.cls + 1)..n : ~HasCwd(script[i]) /\ i <= MaxScans
                             /\ pg' = [pg EXCEPT !.cls = n]
  /\ pc' = "flush"
  /\ UNCHANGED <<env, queue, disk, proc, out, health, base>>

ClassifyNo ==
  /\ pc = "classify"
  /\ \E i \in 1..avail : Decides(i) /\ ~Ours(i)
  /\ pg' = Decided("no") /\ pc' = "flush"
  /\ UNCHANGED <<env, queue, disk, proc, out, health, base>>

ClassifyYes ==
  /\ pc = "classify"
  /\ \E i \in 1..avail : Decides(i) /\ Ours(i) /\ i > old
  /\ pg' = Decided("yes") /\ pc' = "tail"
  /\ UNCHANGED <<env, queue, disk, proc, out, health, base>>

\* Out of the window: captured from its present end on, unless it has been read.
ClassifyOld ==
  /\ pc = "classify"
  /\ \E i \in 1..avail : Decides(i) /\ Ours(i) /\ i <= old
  /\ pg' = [Decided("yes") EXCEPT !.off = IF @ = Unseen THEN avail ELSE @]
  /\ base' = IF pg.off = Unseen THEN avail ELSE base
  /\ pc' = "tail"
  /\ UNCHANGED <<env, queue, disk, proc, out, health>>

\* Its end cannot be found: the next poll starts classification over.
EndUnknown ==
  /\ "stat" \in allowed
  /\ pc = "classify"
  /\ \E i \in 1..avail : Decides(i) /\ Ours(i) /\ i <= old /\ pg.off = Unseen
  /\ pg' = [pg EXCEPT !.cls = 0] /\ pc' = "flush"
  /\ base' = avail
  /\ UNCHANGED <<env, queue, disk, proc, out, health>>

TailStart ==
  /\ pc = "tail"
  /\ pc' = IF BothLanesFull THEN "flush" ELSE "read"
  /\ UNCHANGED <<env, queue, disk, pg, proc, out, health, base>>

-----------------------------------------------------------------------------
(* tailClaudeTranscript and the end of the poll.                            *)

Offset == IF pg.off = Unseen THEN 0 ELSE pg.off

Read(limit) ==
  /\ pc = "read" /\ Offset < limit
  /\ LET p == IF HasBufferedState(proc) THEN proc ELSE [proc EXCEPT !.rewind = Offset]
     IN  /\ out' = Produced(p, Offset + 1)
         /\ proc' = Processed(p, Offset + 1)
  /\ pc' = "queue" /\ health' = Parsing(out')
  /\ UNCHANGED <<env, queue, disk, pg, base>>

\* Mutant: the partial record at the end of the file is consumed.
ReadPartialRecord == Read(Len(script))

\* One record goes through the processor; where it held nothing before, the
\* offset can be rewound to.
ReadRecord == Read(avail)

QueueEvent ==
  /\ pc = "queue" /\ out # <<>> /\ ~Refused(Head(out))
  /\ Funnel(Head(out))
  /\ out' = Tail(out)
  /\ UNCHANGED <<env, disk, pc, pg, proc, health, base>>

\* Mutant: the offset goes back to the record only.
RefusedAtRecord ==
  /\ pc = "queue" /\ out # <<>> /\ Refused(Head(out))
  /\ Funnel(Head(out))
  /\ proc' = DiscardBufferedState(proc)
  /\ out' = <<>> /\ pc' = "flush"
  /\ UNCHANGED <<env, disk, pg, health, base>>

\* ErrQueueFull: the offset goes back to this record, or further to where the
\* processor last held nothing, and the processor forgets what it holds.
QueueRefused ==
  /\ pc = "queue" /\ out # <<>> /\ Refused(Head(out))
  /\ Funnel(Head(out))
  /\ pg' = IF proc.rewind < Offset THEN [pg EXCEPT !.off = proc.rewind] ELSE pg
  /\ proc' = DiscardBufferedState(proc)
  /\ out' = <<>> /\ pc' = "flush"
  /\ UNCHANGED <<env, disk, health, base>>

RecordDone ==
  /\ pc = "queue" /\ out = <<>>
  /\ pg' = [pg EXCEPT !.off = Offset + 1]
  /\ pc' = "read" /\ health' = Consumed
  /\ UNCHANGED <<env, queue, disk, proc, out, base>>

\* No more records, or the read budget of this poll is spent.
StopReading ==
  /\ pc = "read"
  /\ pc' = "flush"
  /\ UNCHANGED <<env, queue, disk, pg, proc, out, health, base>>

\* The mid-poll save of the progress file.
Checkpoint ==
  /\ pc \in {"tail", "flush"} /\ disk # pg
  /\ disk' = pg
  /\ UNCHANGED <<env, queue, pc, pg, proc, out, health, base>>

\* What the processor accumulated goes to the queue; an event the lane refuses
\* here is gone.
Release == IF FlushOut(proc) = <<>> THEN UNCHANGED queue
           ELSE Funnel(FlushOut(proc)[1])

FlushStale ==
  /\ "staleFlush" \in allowed
  /\ pc = "flush" /\ ~BothLanesFull /\ proc.accum # NoAccum
  /\ Release
  /\ proc' = Flushed(proc)
  /\ pc' = "save" /\ health' = Parsing(FlushOut(proc))
  /\ UNCHANGED <<env, disk, pg, out, base>>

NoFlush ==
  /\ pc = "flush"
  /\ pc' = "save"
  /\ UNCHANGED <<env, queue, disk, pg, proc, out, health, base>>

\* The transcript has been out of the history window for two polls; should it
\* return, it gets a new processor.
Evict ==
  /\ "evict" \in allowed
  /\ pc = "flush" /\ ~BothLanesFull /\ proc # EmptyProc
  /\ Release
  /\ proc' = EmptyProc
  /\ pc' = "save" /\ health' = Parsing(FlushOut(proc))
  /\ UNCHANGED <<env, disk, pg, out, base>>

SaveProgress ==
  /\ pc = "save"
  /\ disk' = pg
  /\ pc' = "idle" /\ health' = Judged
  /\ UNCHANGED <<env, queue, pg, proc, out, base>>

\* The bound: no message has been given one of its records twice.
NoneDoubled == /\ IsInjective(proc.accum.lines)
               /\ \A e \in queued : IsInjective(e.body)

\* The file stays as it was; the processor knows what it has read, and the next poll
\* reads it again.
SaveFails ==
  /\ "nosave" \in allowed /\ NoneDoubled
  /\ pc = "save" /\ disk # pg
  /\ pc' = "idle" /\ health' = Judged
  /\ UNCHANGED <<env, queue, disk, pg, proc, out, base>>

\* The shutdown flushes the accumulators whatever the lanes say.
Exit ==
  /\ "exit" \in allowed
  /\ pc = "idle" /\ proc # EmptyProc
  /\ Release
  /\ proc' = EmptyProc /\ health' = Healthy
  /\ UNCHANGED <<env, disk, pc, pg, out, base>>

Crash ==
  /\ "crash" \in allowed
  /\ pc # "idle" \/ proc # EmptyProc
  /\ pc' = "idle" /\ proc' = EmptyProc /\ out' = <<>> /\ pg' = disk /\ health' = Healthy
  /\ UNCHANGED <<env, queue, disk, base>>

Classify == ClassifyStops \/ ClassifyNo \/ ClassifyYes \/ ClassifyOld \/ EndUnknown

Poll == \/ PollStart \/ Classify \/ TailStart
        \/ ReadRecord \/ QueueEvent \/ QueueRefused \/ RecordDone
        \/ StopReading \/ Checkpoint \/ FlushStale \/ NoFlush \/ Evict \/ SaveProgress \/ SaveFails

Next == \/ Grow \/ Age \/ LeaveWindow \/ MoveRoots \/ \E l \in Lanes : FillLane(l) \/ FreeLane(l)
        \/ Poll \/ Exit \/ Crash

Spec == Init /\ [][Next]_vars

\* The session writes what it writes and the watcher polls forever.  A poll may
\* find its budget spent before any record, or the file unreadable, but not every
\* time.
Fairness ==
  /\ WF_vars(Grow)
  /\ WF_vars(PollStart) /\ WF_vars(TailStart) /\ WF_vars(QueueEvent \/ QueueRefused \/ RecordDone)
  /\ WF_vars(ClassifyStops) /\ WF_vars(StopReading) /\ WF_vars(NoFlush) /\ WF_vars(SaveProgress)
  /\ SF_vars(ReadRecord) /\ SF_vars(ClassifyYes) /\ SF_vars(ClassifyOld)

FairSpec == Spec /\ Fairness

-----------------------------------------------------------------------------
(* Properties.                                                              *)

Event ==
  [id : {"ai_response"} \X Messages, body : Seq(1..Len(script))]
  \cup [id : ({"tool"} \X (Calls \ FileDiffs)) \cup ({"file_diff"} \X FileDiffs), body : {<<>>}]
  \cup {Prompt(i) : i \in 1..Len(script)}

Processor ==
  [accum : [msg : Messages \cup {NoMsg}, lines : Seq(1..avail)],
   pending : SUBSET Calls, emitted : SUBSET Messages, rewind : 0..avail]

TypeOK ==
  /\ avail \in 0..Len(script) /\ old \in 0..avail /\ base \in 0..avail /\ inside \in BOOLEAN
  /\ age \in {"live", "replay", "backfill"} /\ full \subseteq Lanes
  /\ repeated \in BOOLEAN /\ claimed \subseteq FileDiffs
  /\ pc \in {"idle", "classify", "tail", "read", "queue", "flush", "save"}
  /\ \A p \in {disk, pg} :
        p \in [v : 0..Schema, match : {"none", "yes", "no"}, off : Unseen..avail, cls : 0..avail, fp : BOOLEAN]
  /\ proc \in Processor
  /\ queued \subseteq Event /\ out \in Seq(Event)
  /\ health \in [degraded : BOOLEAN, barren : 0..(DegradedAfter + 1), read : 0..avail, parsed : BOOLEAN]
  /\ \A e \in queued \cup Range(out) : Range(e.body) \subseteq 1..avail

\* What processor p makes of the records after position n, if nothing goes wrong.
Pass(p, n) ==
  LET upTo[k \in n..Len(script)] ==
        IF k = n THEN [proc |-> p, events |-> <<>>]
        ELSE LET s == upTo[k - 1]
             IN  [proc |-> Processed(s.proc, k), events |-> s.events \o Produced(s.proc, k)]
  IN  upTo[Len(script)]

Future(p, n) == Range(Pass(p, n).events \o FlushOut(Pass(p, n).proc))

\* The transcript read once, from its start or from where it was admitted, in one go.
Reference == Future(EmptyProc, base)

IdsOf(events, kinds) == {e.id : e \in {x \in events : x.id[1] \in kinds}}

Saved == IF disk.off = Unseen \/ disk.v < Schema THEN 0 ELSE disk.off

\* Events of these kinds are queued or will be: nothing the watcher has to
\* forget was needed to produce them.
Kept(kinds) ==
  pc = "idle" => IdsOf(Reference, kinds)
                   \subseteq IdsOf(queued \cup Future(proc, Saved), kinds)

Only(conditions) == allowed \subseteq conditions

\* How a transcript comes to be read, apart from what happens while it is.
Admission == {"admit", "roots", "window", "stat", "upgrade"}

\* "Neither is one this queue DROPS": between polls every event of the transcript
\* is in the queue, or will come of the processor's memory and of the records
\* after the saved offset.
NoLoss == Kept({"ai_response", "tool", "file_diff", "prompt"})

\* A full lane only delays: the rewind after ErrQueueFull goes back far enough
\* for every event that needs no claim, whatever becomes of the roots and of the
\* window meanwhile; where no lane fills up neither the stale flush nor a save that
\* fails, after which the processor is given again what it holds, loses anything;
\* tool events are not lost even where a stale flush into a full lane may lose an
\* ai_response; and a prompt, which comes of a record of its own, survives full
\* lanes, evictions, shutdowns and SIGKILL, wherever the offset was last saved.
FullLaneDelays ==
  /\ Only({"full", "aging"} \cup Admission) => Kept({"ai_response", "tool", "prompt"})
  /\ Only({"staleFlush", "nosave", "aging"}) => NoLoss
  /\ Only({"full", "staleFlush", "aging"}) => Kept({"tool", "prompt"})
  /\ "degrade" \notin allowed => Kept({"prompt"})

\* No tool result stands between two lines of one message.
Contiguous ==
  \A i, j, k \in 1..Len(script) :
     /\ i < j /\ j < k
     /\ script[i].kind = "assistant" /\ script[k].kind = "assistant"
     /\ script[i].msg = script[k].msg
     => script[j].kind = "assistant" /\ script[j].msg = script[i].msg

\* Each call is made by one record.
CallsOnce ==
  \A i, j \in 1..Len(script) :
     /\ script[i].kind = "assistant" /\ script[j].kind = "assistant"
     /\ script[i].call = script[j].call /\ script[i].call # NoCall
     => i = j

\* A rewind makes up nothing: what is queued is what one uninterrupted reading
\* gives, and no message is queued with some of its lines missing or doubled.
\* A message whose lines enclose a result is queued by the first flush and its
\* later lines are not read again only as long as nothing is rewound.  Where no
\* lane fills up and the watcher keeps running, each event is queued once,
\* whatever the stale flush does in the middle of a message.
MakesUpNothing ==
  /\ Contiguous /\ Only({"full", "aging"}) => queued \subseteq Reference
  /\ CallsOnce /\ Only({"staleFlush", "aging", "degrade"} \cup Admission) => ~repeated

\* Of a session that was older than the history window when it was admitted,
\* nothing is sent that was there before, whatever the rewind, a restart or a
\* failing look at its end do ("Go-forward: capture ongoing activity but not
\* out-of-window history"): an event that gets queued comes of records after that
\* end.  Only a processor that outlives an admission which could not be saved
\* still holds what it read after the one before.
GoForward ==
  [][ "nosave" \notin allowed =>
        \A e \in queued' \ queued : \A i \in Range(e.body) : i > base' ]_vars

\* The lanes carry what the transcript says, neither less nor more than the conditions
\* explain, and nothing that the history window had let go of (pollClaudeTranscripts).
Faithful == [](FullLaneDelays /\ MakesUpNothing) /\ GoForward

\* A session has a cwd among its first records (claudeClassifyMaxScanLines).
IsSession == \E i \in 1..Least(MaxScans, Len(script)) : HasCwd(script[i])

\* Once the lanes stay free and the roots are back, every event that needs neither a
\* claim nor the stale flush gets queued.
CaughtUp ==
  /\ Only({"full"} \cup Admission) /\ IsSession
  /\ <>[](full = {} /\ inside) /\ [](pg.v = 1 => pg.match # "no")
  => <>(/\ disk.match = "yes"
        /\ IdsOf(Range(Pass(EmptyProc, base).events), {"ai_response", "tool", "prompt"})
             \subseteq IdsOf(queued, {"ai_response", "tool", "prompt"}))

\* "This handoff means neither a real mid-session format break nor a false-positive
\* degradation can double-emit or lose events."
HandoffKeeps == Only({"degrade"}) => NoLoss
=============================================================================
