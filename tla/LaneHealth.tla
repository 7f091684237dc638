----------------------------- MODULE LaneHealth -----------------------------
(***************************************************************************)
(* What the two outbox lanes say of themselves: the counter of the events  *)
(* that a full lane refused (internal/outbox/drops.go), the health that    *)
(* each drain records (delivery_health.go, outbox.go), the heartbeat that  *)
(* reports both (internal/capture/presence.go), and the verdict of doctor  *)
(* (internal/cli/queue_health.go).                                         *)
(*                                                                         *)
(* A lane is a file of size events with a cursor; OutboxLane follows its   *)
(* bytes.  Each lane has a drain in the daemon.  The daemon and the hooks  *)
(* append.  The heartbeat and doctor read without a lock.                  *)
(***************************************************************************)
EXTENDS Integers, Sequences, FiniteSets

CONSTANT Cap    \* OutboxMaxBytes, in events

LaneEvents == { "append", "refuse", "partly", "unwritable", "norename", "killhook", "beat", "late",
                "minutes" }

ASSUME CapAssumption == Cap \in Nat \ {0}

Queues    == {"live", "backfill"}
Appenders == {"daemon", "hook"}
Other(l)  == CHOOSE k \in Queues : k # l

VARIABLES
  luck,      \* how often each event may still happen
  \* Files.
  size, cursor,  \* of each lane
  moved,     \* the age of its cursor file: none, or whether it changed in the last queueStuckAfter
  drops,     \* outbox-drops.json
  \* The daemon.
  step,      \* where the drain of each lane stands
  health,    \* deliveryHealthByLane: the failure that is reported, by when it began
  answered,  \* the lanes with an outcome in this life of the daemon
  beat,      \* the heartbeat: waiting, reading, or the last one sent
  up,        \* has the daemon been up for queueStuckAfter: "stale", or is it "fresh"
  \* Processes that count a drop.
  counting,
  \* For the properties.
  lost,      \* events refused
  uncounted, \*   and those whose counting was cut short
  trouble,   \* the lanes whose head fails to advance, the longest first
  untried,   \* the lanes that held something when the daemon came up and have not been tried since
  still      \* the lanes that held something for queueStuckAfter without an advance

fileVars   == <<size, cursor, moved>>
dropVars   == <<drops, counting, lost, uncounted>>
drainVars  == <<step, health, answered, trouble, untried, still>>
laneVars   == <<luck, fileVars, dropVars, drainVars, beat, up>>

May(e) == luck[e] > 0 /\ luck' = [luck EXCEPT ![e] = @ - 1]

Unknown == [state |-> "unknown", since |-> 0]
Fine    == [state |-> "ok", since |-> 0]
NoDrop  == [at |-> "idle", lane |-> "live", read |-> 0]
NoBeat  == [at |-> "await", read |-> 0, count |-> 0, state |-> "unknown", dropped |-> 0, late |-> FALSE, hid |-> FALSE]

Pending(l) == size[l] - cursor[l]

LaneInit(n, queued) ==
  /\ luck = n
  /\ size = queued /\ cursor = [l \in Queues |-> 0] /\ moved = [l \in Queues |-> "none"]
  /\ drops = [l \in Queues |-> 0]
  /\ step = [l \in Queues |-> "idle"] /\ health = [l \in Queues |-> Unknown] /\ answered = {}
  /\ beat = NoBeat /\ up = "fresh"
  /\ counting = [p \in Appenders |-> NoDrop] /\ lost = [l \in Queues |-> 0] /\ uncounted = 0
  /\ trouble = <<>> /\ untried = {l \in Queues : queued[l] > 0} /\ still = {}

-----------------------------------------------------------------------------
(* AppendTo and recordDrop.                                                 *)

AppendEvent(p, l) ==
  /\ May("append") /\ counting[p].at = "idle"
  /\ IF Pending(l) >= Cap
     THEN /\ lost' = [lost EXCEPT ![l] = @ + 1]
          /\ counting' = [counting EXCEPT ![p] = [NoDrop EXCEPT !.at = "lock", !.lane = l]]
          /\ UNCHANGED size
     ELSE /\ size' = [size EXCEPT ![l] = @ + 1]
          /\ UNCHANGED <<lost, counting>>
  /\ UNCHANGED <<cursor, moved, drops, uncounted, drainVars, beat, up>>

\* Mutant: the counter is read and written without its lock.
DropsUnlocked == TRUE
DropsLockFree == \A p \in Appenders : counting[p].at # "write"

\* Counted outside the lock of the lane, under a lock of its own.
DropRead(p) ==
  /\ counting[p].at = "lock" /\ DropsLockFree
  /\ counting' = [counting EXCEPT ![p].at = "write", ![p].read = drops[counting[p].lane]]
  /\ UNCHANGED <<luck, fileVars, drops, lost, uncounted, drainVars, beat, up>>

DropWrite(p) ==
  /\ counting[p].at = "write"
  /\ counting' = [counting EXCEPT ![p] = NoDrop]
  /\ \/ /\ drops' = [drops EXCEPT ![counting[p].lane] = counting[p].read + 1]
        /\ UNCHANGED <<luck, uncounted>>
     \/ /\ May("norename") /\ uncounted' = uncounted + 1
        /\ UNCHANGED drops
  /\ UNCHANGED <<fileVars, lost, drainVars, beat, up>>

KillHook ==
  /\ counting["hook"].at # "idle" /\ May("killhook")
  /\ counting' = [counting EXCEPT !["hook"] = NoDrop] /\ uncounted' = uncounted + 1
  /\ UNCHANGED <<fileVars, drops, lost, drainVars, beat, up>>

-----------------------------------------------------------------------------
(* The drain of a lane, and what it records.                                *)

Later(l) == health[Other(l)].since + 1

\* recordRetrying: a failure that goes on keeps its date.
Retrying(l) == [health EXCEPT ![l] = IF @.state = "retrying" THEN @
                                     ELSE [state |-> "retrying", since |-> Later(l)]]

InTrouble(l) == \E i \in 1..Len(trouble) : trouble[i] = l
Without(l) == IF ~InTrouble(l) THEN trouble ELSE IF trouble[1] = l THEN Tail(trouble) ELSE <<trouble[1]>>
Fails(l)  == trouble' = IF InTrouble(l) THEN trouble ELSE Append(trouble, l)
Answers(l) == answered' = answered \cup {l} /\ untried' = untried \ {l}

Draining(l, at) == step[l] = at

\* The request or its first member is refused, or cannot be sent: deliver and deliverChunk retry in place.
PostFails(l) ==
  /\ Draining(l, "idle") /\ Pending(l) > 0 /\ May("refuse")
  /\ health' = Retrying(l) /\ Fails(l) /\ Answers(l)
  /\ UNCHANGED <<fileVars, dropVars, step, still, beat, up>>

PostAnswered(l) ==
  /\ Draining(l, "idle") /\ Pending(l) > 0
  /\ step' = [step EXCEPT ![l] = "save"]
  /\ UNCHANGED <<luck, fileVars, dropVars, health, answered, trouble, untried, still, beat, up>>

\* Some members of a batch are answered for, and the next is not.
PostPartly(l) ==
  /\ Draining(l, "idle") /\ Pending(l) > 1 /\ May("partly")
  /\ step' = [step EXCEPT ![l] = "part"]
  /\ health' = Retrying(l) /\ Fails(l) /\ Answers(l)
  /\ UNCHANGED <<fileVars, dropVars, still, beat, up>>

Advanced(l) ==
  /\ cursor' = [cursor EXCEPT ![l] = @ + 1] /\ moved' = [moved EXCEPT ![l] = "fresh"]
  /\ still' = still \ {l}
  /\ UNCHANGED size

SaveCursor(l) ==
  /\ \/ /\ Draining(l, "save") /\ step' = [step EXCEPT ![l] = "landed"]
        /\ trouble' = Without(l)
     \/ Draining(l, "part") /\ step' = [step EXCEPT ![l] = "idle"] /\ UNCHANGED trouble
  /\ Advanced(l) /\ untried' = untried \ {l}
  /\ UNCHANGED <<luck, dropVars, health, answered, beat, up>>

\* drainLane: the cursor cannot be written, and the next pass sends the same head again.
CursorUnwritable(l) ==
  /\ Draining(l, "save") \/ Draining(l, "part")
  /\ May("unwritable")
  /\ step' = [step EXCEPT ![l] = "idle"]
  /\ health' = Retrying(l) /\ Fails(l) /\ Answers(l)
  /\ UNCHANGED <<fileVars, dropVars, still, beat, up>>

\* recordDeliverySuccess: the head advanced.
RecordSuccess(l) ==
  /\ Draining(l, "landed")
  /\ step' = [step EXCEPT ![l] = "idle"]
  /\ health' = [health EXCEPT ![l] = Fine] /\ Answers(l)
  /\ UNCHANGED <<luck, fileVars, dropVars, trouble, still, beat, up>>

\* compact, which writes the cursor too.
Compacted(l) ==
  /\ Draining(l, "idle") /\ size[l] > 0 /\ Pending(l) = 0
  /\ size' = [size EXCEPT ![l] = 0] /\ cursor' = [cursor EXCEPT ![l] = 0]
  /\ moved' = [moved EXCEPT ![l] = "fresh"]
  /\ UNCHANGED <<luck, dropVars, drainVars, beat, up>>

-----------------------------------------------------------------------------
(* The heartbeat.                                                           *)

\* AwaitDeliveryOutcome: this lane has answered, or provably holds nothing.
Settled(l) == l \in answered \/ Pending(l) = 0

\* pendingStateIn, with a cursor that was read earlier: past the end, the lane was compacted meanwhile.
Count(l, c) == IF c > size[l] THEN size[l] ELSE size[l] - c

\* DeliveryHealthNow: the oldest failure speaks for both lanes.
Failing == {l \in Queues : health[l].state = "retrying"}
HealthNow ==
  IF Failing # {} THEN [state |-> "retrying",
                        lane |-> CHOOSE l \in Failing : \A k \in Failing : health[l].since <= health[k].since]
  ELSE [state |-> IF \E l \in Queues : health[l] = Fine THEN "ok" ELSE "unknown", lane |-> "live"]

Beats(at, next) == beat.at = at /\ beat' = next /\ UNCHANGED <<fileVars, dropVars, drainVars, up>>
BeatGoes(at) == [beat EXCEPT !.at = at]

AwaitLive     == luck["beat"] > 0 /\ Settled("live") /\ Beats("await", BeatGoes("await2")) /\ UNCHANGED luck
AwaitBackfill == Beats("await2", BeatGoes(IF Settled("backfill") THEN "start" ELSE "await")) /\ UNCHANGED luck
AwaitTimesOut == luck["beat"] > 0 /\ May("late") /\ Beats("await", [beat EXCEPT !.at = "start", !.late = TRUE])

BeatCursor(l) ==
  /\ Beats(IF l = "live" THEN "start" ELSE "counted", [beat EXCEPT !.at = l, !.read = cursor[l]])
  /\ UNCHANGED luck

BeatCount(l) ==
  /\ LET n == Count(l, beat.read)
         hides == n = 0 /\ Pending(l) > 0 /\ size[l] # beat.read
     IN  Beats(l, [beat EXCEPT !.at = IF l = "live" THEN "counted" ELSE "health", !.read = 0,
                               !.count = IF l = "live" THEN n ELSE @ + n, !.hid = @ \/ hides])
  /\ UNCHANGED luck

BeatHealth == Beats("health", [beat EXCEPT !.at = "drops", !.state = HealthNow.state]) /\ UNCHANGED luck

BeatDrops ==
  /\ Beats("drops", [beat EXCEPT !.at = "sent", !.dropped = drops["live"] + drops["backfill"]])
  /\ UNCHANGED luck

\* The ticker.
BeatAgain == May("beat") /\ Beats("sent", BeatGoes("start"))

\* Time, and the next life of the daemon.
Minutes ==
  /\ May("minutes")
  /\ moved' = [l \in Queues |-> IF moved[l] = "fresh" THEN "stale" ELSE moved[l]]
  /\ up' = "stale" /\ still' = {l \in Queues : Pending(l) > 0}
  /\ UNCHANGED <<size, cursor, dropVars, step, health, answered, trouble, untried, beat>>

LaneRestarts ==
  /\ step' = [l \in Queues |-> "idle"] /\ health' = [l \in Queues |-> Unknown] /\ answered' = {}
  /\ trouble' = <<>> /\ untried' = {l \in Queues : Pending(l) > 0}
  /\ beat' = NoBeat /\ up' = "fresh"
  /\ counting' = [counting EXCEPT !["daemon"] = NoDrop]
  /\ uncounted' = uncounted + (IF counting["daemon"].at = "idle" THEN 0 ELSE 1)
  /\ UNCHANGED <<luck, fileVars, drops, lost, still>>

-----------------------------------------------------------------------------
(* Doctor, while a watcher runs.                                            *)

\* gatherQueueInputs: of the lanes that hold work and were ever drained, the one that moved longest ago; of
\* neither, the start of the watcher.
Probed == {l \in Queues : Pending(l) > 0 /\ moved[l] # "none"}
Progress ==
  IF Probed = {} THEN up
  ELSE IF \E l \in Probed : moved[l] = "stale" THEN "stale" ELSE "fresh"

\* checkQueueHealth; the cap is compared with the size of the files.
Diagnosis ==
  (IF \E l \in Queues : drops[l] > 0 THEN {"dropped"} ELSE {}) \cup
  (IF \E l \in Queues : size[l] >= Cap THEN {"full"}
   ELSE IF \A l \in Queues : Pending(l) = 0 THEN {"empty"}
   ELSE IF Progress = "stale" THEN {"stuck"} ELSE {"draining"})

Lane(l) == \/ PostFails(l) \/ PostAnswered(l) \/ PostPartly(l) \/ SaveCursor(l) \/ CursorUnwritable(l)
           \/ RecordSuccess(l) \/ Compacted(l)
Counter(p) == DropRead(p) \/ DropWrite(p) \/ \E l \in Queues : AppendEvent(p, l)
Heartbeat == \/ AwaitLive \/ AwaitBackfill \/ AwaitTimesOut \/ BeatHealth \/ BeatDrops \/ BeatAgain
             \/ \E l \in Queues : BeatCursor(l) \/ BeatCount(l)

LaneNext == \/ \E l \in Queues : Lane(l)
            \/ \E p \in Appenders : Counter(p)
            \/ Heartbeat \/ KillHook \/ Minutes

-----------------------------------------------------------------------------
(* Properties.                                                              *)

Both(f) == f["live"] + f["backfill"]

\* The counter of drops outlives every process and misses no event that was refused, but for those whose process
\* was killed, or whose rename failed, while it counted; two processes that are refused at once both count
\* (recordDrop), and doctor says so.
DropsCounted ==
  /\ Both(drops) + uncounted + Cardinality({p \in Appenders : counting[p].at # "idle"}) = Both(lost)
  /\ beat.dropped <= Both(lost)

\* The health that a heartbeat would report is true at every moment: "ok" while no lane fails to advance, and
\* otherwise the lane that has failed longest, unless it just advanced ("The oldest retrying lane wins so a
\* healthy sibling cannot hide a stalled queue").
HealthTrue ==
  trouble # <<>> => /\ HealthNow.state = "retrying"
                    /\ HealthNow.lane = Head(trouble) \/ step[HealthNow.lane] = "landed"

\* The first heartbeat waits until every lane that held something when the daemon came up has been tried, unless
\* it waited too long, and no heartbeat hides what a compaction moved below the cursor that it read
\* ("That is the exact lie this whole field exists to prevent").
BeatMeasured ==
  /\ beat.at \notin {"await", "await2"} /\ ~beat.late => untried = {}
  /\ ~beat.hid

\* Doctor does not call a lane fine that has held events for two minutes of a running watcher without an
\* advance, unless it never advanced at all while the other one moves.
Masked(l) == moved[l] = "none" /\ moved[Other(l)] = "fresh" /\ Pending(Other(l)) > 0
DoctorWarns ==
  \A l \in still : up = "stale" /\ ~Masked(l) => Diagnosis \cap {"stuck", "full"} # {}
=============================================================================
