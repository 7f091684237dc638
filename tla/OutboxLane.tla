----------------------------- MODULE OutboxLane -----------------------------
(***************************************************************************)
(* One lane of the durable send queue of internal/outbox/outbox.go: the    *)
(* queue file, its cursor file, the lane lock, the processes that append,  *)
(* and the one goroutine (drainLane) that delivers and compacts.           *)
(*                                                                         *)
(* The two lanes (live, backfill) share no file, cursor or lock, so one    *)
(* lane is modelled.  The file is a sequence of cells.  An event e is the  *)
(* line <<e,1>>, ..., <<e,Size[e]>>, and its last cell is the newline: a   *)
(* position may fall inside a line, an append may be half written, and a   *)
(* line that does not consist of exactly one event does not parse.         *)
(***************************************************************************)
EXTENDS Integers, Sequences, FiniteSets

CONSTANTS
  Event,             \* one element per append call
  NoEvent,           \* not an event
  Size,              \* Size[e]: the cells of e's line, the newline included
  Cap,               \* OutboxMaxBytes
  CompactTailAfter,  \* delivered cells under a tail that make compact rewrite it
  MaxBatch,          \* maxSize of the batch capability
  Batch,             \* is there a batch capability at all (caps # nil)
  Conditions         \* what the environment may do, see ConditionKinds

ConditionKinds ==
  { "splitWrite",      \* a reader sees an append between two page writes
    "tornWrite",       \* an appender dies (or hits ENOSPC) in mid-line
    "cursorIO",        \* writeCursor, or the rename of the tail, fails
    "crash",           \* the daemon is killed outside compact's truncation
    "truncateCrash",   \* the daemon is killed, or writeCursor fails, between
                       \* the truncation and the cursor write of compact
    "byteCap",         \* lines so long that batchMaxBodyBytes ends a chunk
    "fallback" }       \* the backend has no batch route or refuses an envelope

ASSUME SizeAssumption ==
  /\ NoEvent \notin Event
  /\ Size \in [Event -> Nat \ {0}]
ASSUME LimitAssumption ==
  /\ Cap \in Nat \ {0}
  /\ CompactTailAfter \in Nat
  /\ MaxBatch \in Nat \ {0}
  /\ Batch \in BOOLEAN
  /\ Conditions \subseteq ConditionKinds

VARIABLES
  \* On disk.
  file,      \* the queue file, a sequence of cells
  cursor,    \* the offset in the cursor file; missing or unreadable reads 0
  \* The lane lock and the append that holds it.
  lock,      \* "free", "append" or "drain"
  app,       \* the event whose append holds the lock
  part,      \* cells of its line already in the file
  \* The drain goroutine: program counter and locals of drainOnce.
  dpc,
  cur,       \* its copy of the cursor
  rpos,      \* where its buffered reader stands
  from, to,  \* the lines in hand are file[from+1 .. to]
  adv,       \* what deliverChunk returned as advance
  desynced,  \* readChunk consumed a line it did not hand over
  shrunk,    \* deliverChunk has cut its bodies down to the head member
  back,      \* where the per-event delivery of the lines in hand returns to
  \* History.
  acked,     \* appends that returned nil
  failed,    \* appends that died or returned a write error
  refused,   \* appends that returned ErrQueueFull
  answered,  \* events for which the drain has read a 2xx or a 400/422
  settled    \* events some landed cursor write has passed

diskVars  == <<file, cursor>>
lockVars  == <<lock, app, part>>
lineVars  == <<from, to, adv, desynced, shrunk, back>>
drainVars == <<dpc, cur, rpos, lineVars>>
histVars  == <<acked, failed, refused, answered, settled>>
vars      == <<diskVars, lockVars, drainVars, histVars>>

-----------------------------------------------------------------------------
(* Lines.  All positions are offsets: position p lies before cell p + 1.    *)

Cell == Event \X Nat

Line(e) == [k \in 1..Size[e] |-> <<e, k>>]

IsNewline(n) == n \in 1..Len(file) /\ file[n][2] = Size[file[n][1]]

\* Mutant: the last line of the file is not seen.
HasLineBeforeEnd(r) == \E n \in (r+1)..(Len(file)-1) : IsNewline(n)

\* ReadBytes('\n') at r finds a whole line, which ends at LineEnd(r).
HasLine(r) == \E n \in (r+1)..Len(file) : IsNewline(n)

LineEnd(r) == CHOOSE n \in (r+1)..Len(file) :
                 IsNewline(n) /\ \A m \in (r+1)..(n-1) : ~IsNewline(m)

\* The line that starts at r is one event, so it parses.
Sendable(r) == /\ r < Len(file)
               /\ LET e == file[r+1][1]
                  IN  /\ r + Size[e] <= Len(file)
                      /\ \A k \in 1..Size[e] : file[r+k] = <<e, k>>

EventAt(r) == file[r+1][1]

\* The lines a reader placed at a meets before b, and those that are sent.
LineStarts(a, b) == {p \in a..(b-1) : p = a \/ IsNewline(p)}
Members(a, b)    == {p \in LineStarts(a, b) : Sendable(p)}
EventsIn(a, b)   == {EventAt(p) : p \in Members(a, b)}

\* Where the next pass starts: drainOnce rewinds a cursor past the end.
Start == IF cursor > Len(file) THEN 0 ELSE cursor

\* What the lane still holds for delivery.
Readable == EventsIn(Start, Len(file))

-----------------------------------------------------------------------------
Init ==
  /\ file = <<>> /\ cursor = 0
  /\ lock = "free" /\ app = NoEvent /\ part = 0
  /\ dpc = "idle" /\ cur = 0 /\ rpos = 0
  /\ from = 0 /\ to = 0 /\ adv = 0
  /\ desynced = FALSE /\ shrunk = FALSE /\ back = "readLine"
  /\ acked = {} /\ failed = {} /\ refused = {} /\ answered = {} /\ settled = {}

-----------------------------------------------------------------------------
(* AppendTo.  The lane lock serialises appenders, so which process appends  *)
(* is immaterial; the cursor is read under the lock but written without it. *)

\* A producer with a durable source appends a refused event again.
Fresh(e) == e \notin acked \cup failed

AppendRefused(e) ==
  /\ lock = "free" /\ Fresh(e)
  /\ Len(file) - cursor >= Cap
  /\ refused' = refused \cup {e}
  /\ UNCHANGED <<diskVars, lockVars, drainVars, acked, failed, answered, settled>>

AppendBegin(e) ==
  /\ lock = "free" /\ Fresh(e)
  /\ Len(file) - cursor < Cap
  /\ lock' = "append" /\ app' = e /\ part' = 0
  /\ UNCHANGED <<diskVars, drainVars, histVars>>

\* A prefix of the line is in the file, the rest of the write is not yet.
AppendPart ==
  /\ "splitWrite" \in Conditions
  /\ lock = "append" /\ part = 0
  /\ \E k \in 1..(Size[app] - 1) :
       /\ file' = file \o SubSeq(Line(app), 1, k)
       /\ part' = k
  /\ UNCHANGED <<cursor, lock, app, drainVars, histVars>>

\* Mutant: the lock is released, the append is not forgotten.
ReleaseLockOnly == lock' = "free" /\ UNCHANGED app /\ part' = 0

ReleaseAppend == lock' = "free" /\ app' = NoEvent /\ part' = 0

AppendDone ==
  /\ lock = "append"
  /\ file' = file \o SubSeq(Line(app), part + 1, Size[app])
  /\ acked' = acked \cup {app}
  /\ ReleaseAppend
  /\ UNCHANGED <<cursor, drainVars, failed, refused, answered, settled>>

AppendFails ==
  /\ lock = "append"
  /\ part = 0 \/ "tornWrite" \in Conditions
  /\ failed' = failed \cup {app}
  /\ ReleaseAppend
  /\ UNCHANGED <<diskVars, drainVars, acked, refused, answered, settled>>

Append1 == \/ \E e \in Event : AppendRefused(e) \/ AppendBegin(e)
           \/ AppendPart \/ AppendDone \/ AppendFails

-----------------------------------------------------------------------------
(* drainOnce.  A pass that ends forgets its locals.                         *)

DropLines ==
  /\ from' = 0 /\ to' = 0 /\ adv' = 0
  /\ desynced' = FALSE /\ shrunk' = FALSE /\ back' = "readLine"

EndPass == dpc' = "idle" /\ cur' = 0 /\ rpos' = 0 /\ DropLines

\* resolveBatch may change its answer at every call: the policy refreshes in
\* the background and suppressBatch latches batching off for a while.
LoopTops == IF Batch THEN {"readBatch", "readLine"} ELSE {"readLine"}

\* The rewind of a cursor past the end; the pass goes on from 0 as if it had
\* just started.
Rewind ==
  /\ dpc = "idle"
  /\ cursor > Len(file)
  /\ cursor' = 0
  /\ UNCHANGED <<file, lockVars, drainVars, histVars>>

StartPass ==
  /\ dpc = "idle"
  /\ file # <<>> /\ cursor <= Len(file)
  /\ cur' = cursor
  /\ IF cursor = Len(file)
     THEN dpc' = "compact" /\ UNCHANGED rpos
     ELSE dpc' \in LoopTops /\ rpos' = cursor
  /\ UNCHANGED <<diskVars, lockVars, lineVars, histVars>>

\* readChunk ends at the end of a line: the one that fills the batch, the last
\* whole line, or one before a line that would exceed the byte cap and has
\* already been consumed.  A partial line at the end is consumed as well.
ReadChunk ==
  /\ dpc = "readBatch"
  /\ \E t \in {n \in (rpos+1)..Len(file) : IsNewline(n)} :
       LET members == Members(rpos, t)
           size    == Cardinality(members)
           lastIn  == \E p \in members : LineEnd(p) = t
       IN  /\ \/ /\ size = MaxBatch /\ lastIn
                 /\ rpos' = t /\ desynced' = FALSE
              \/ /\ size < MaxBatch /\ ~HasLine(t)
                 /\ rpos' = Len(file) /\ desynced' = FALSE
              \/ /\ "byteCap" \in Conditions
                 /\ size \in 1..(MaxBatch - 1) /\ Sendable(t)
                 /\ rpos' = LineEnd(t) /\ desynced' = TRUE
           /\ from' = rpos /\ to' = t
  /\ shrunk' = FALSE /\ adv' = 0
  /\ dpc' = "sendChunk"
  /\ UNCHANGED <<diskVars, lockVars, cur, back, histVars>>

\* No whole line: whatever is left of the file is consumed, and the pass goes
\* on with the per-event loop and the same reader.
ReadNoChunk ==
  /\ dpc = "readBatch" /\ ~HasLine(rpos)
  /\ rpos' = Len(file)
  /\ dpc' = "readLine"
  /\ UNCHANGED <<diskVars, lockVars, cur, lineVars, histVars>>

Heads == {p \in Members(from, to) : \A q \in Members(from, to) : p <= q}

\* The members the request in flight carries.
Asked == IF shrunk THEN Heads ELSE Members(from, to)

\* Mutants: the chunk counts as delivered when one member is; the cursor moves
\* behind the last answered member.
AdvanceWhole(proven) == IF proven = {} THEN from ELSE to
AdvanceLast(proven) ==
  IF proven = {} THEN from ELSE LineEnd(CHOOSE p \in proven : \A q \in proven : q <= p)

\* advanceOver stops at the first member the backend has not answered for.
AdvanceEnd(proven) ==
  LET open == Members(from, to) \ proven
  IN  IF open = {} THEN to
      ELSE CHOOSE p \in open : \A q \in open : p <= q

\* A 207 that proves some members.  Without any progress only the head is
\* asked for again.  A lost reply, a 429, a 5xx or a network error leaves the
\* drain where it is and needs no action.  A chunk with no sendable line is not
\* sent, and the cursor may pass all of it.
ChunkAnswered(proven) ==
  /\ dpc = "sendChunk"
  /\ proven \subseteq Asked
  /\ answered' = answered \cup {EventAt(p) : p \in proven}
  /\ adv' = AdvanceEnd(proven) - from
  /\ IF adv' > 0
     THEN dpc' = "commitChunk" /\ UNCHANGED shrunk
     ELSE UNCHANGED dpc /\ shrunk' = TRUE
  /\ UNCHANGED <<diskVars, lockVars, cur, rpos, from, to, desynced, back,
                 acked, failed, refused, settled>>

\* No such route, or the envelope was refused: the chunk is delivered one
\* event at a time.  This branch does not look at desynced.
ChunkFellBack ==
  /\ "fallback" \in Conditions
  /\ dpc = "sendChunk" /\ Members(from, to) # {}
  /\ dpc' = "sendLine" /\ back' = "readBatch"
  /\ UNCHANGED <<diskVars, lockVars, cur, rpos, from, to, adv, desynced, shrunk, histVars>>

\* writeCursor lands: the cursor passes the lines up to n.
MoveCursor(n) ==
  /\ cursor' = n
  /\ settled' = settled \cup EventsIn(cursor, n)

CommitChunk ==
  /\ dpc = "commitChunk"
  /\ MoveCursor(cur + adv)
  /\ IF from + adv < to \/ desynced
     THEN EndPass
     ELSE /\ cur' = cur + adv
          /\ dpc' \in LoopTops
          /\ DropLines
          /\ UNCHANGED rpos
  /\ UNCHANGED <<file, lockVars, acked, failed, refused, answered>>

ReadLine ==
  /\ dpc = "readLine" /\ HasLine(rpos)
  /\ from' = rpos /\ to' = LineEnd(rpos) /\ rpos' = LineEnd(rpos)
  /\ back' = "readLine" /\ dpc' = "sendLine"
  /\ UNCHANGED <<diskVars, lockVars, cur, adv, desynced, shrunk, histVars>>

ReadNoLine ==
  /\ dpc = "readLine" /\ ~HasLine(rpos)
  /\ dpc' = "compact"
  /\ UNCHANGED <<diskVars, lockVars, cur, rpos, lineVars, histVars>>

\* deliver returns true: the line cannot be sent, or the backend answered.
LineUnsendable ==
  /\ dpc = "sendLine" /\ ~Sendable(from)
  /\ dpc' = "commitLine"
  /\ UNCHANGED <<diskVars, lockVars, cur, rpos, lineVars, histVars>>

LineAnswered ==
  /\ dpc = "sendLine" /\ Sendable(from)
  /\ answered' = answered \cup {EventAt(from)}
  /\ dpc' = "commitLine"
  /\ UNCHANGED <<diskVars, lockVars, cur, rpos, lineVars, acked, failed, refused, settled>>

CommitLine ==
  /\ dpc = "commitLine"
  /\ LET end == LineEnd(from)
     IN  /\ MoveCursor(cur + end - from)
         /\ cur' = cur + end - from
         /\ IF end < to
            THEN from' = end /\ dpc' = "sendLine" /\ UNCHANGED <<to, adv, desynced, shrunk, back>>
            ELSE dpc' \in (IF back = "readBatch" THEN LoopTops ELSE {"readLine"}) /\ DropLines
  /\ UNCHANGED <<file, lockVars, rpos, acked, failed, refused, answered>>

\* writeCursor fails: drainOnce returns the error and drainLane backs off.
CommitFails ==
  /\ "cursorIO" \in Conditions
  /\ dpc \in {"commitChunk", "commitLine"}
  /\ EndPass
  /\ UNCHANGED <<diskVars, lockVars, histVars>>

-----------------------------------------------------------------------------
(* compact, under the lane lock.                                            *)

CompactNothing ==
  /\ dpc = "compact"
  /\ \/ cur = 0
     \/ lock = "free" /\ Len(file) # cur /\ cur < CompactTailAfter
  /\ EndPass
  /\ UNCHANGED <<diskVars, lockVars, histVars>>

CompactTruncate ==
  /\ dpc = "compact" /\ cur > 0
  /\ lock = "free" /\ Len(file) = cur
  /\ lock' = "drain"
  /\ file' = <<>>
  /\ dpc' = "truncated"
  /\ UNCHANGED <<cursor, app, part, cur, rpos, lineVars, histVars>>

TruncateZero ==
  /\ dpc = "truncated"
  /\ cursor' = 0
  /\ lock' = "free"
  /\ EndPass
  /\ UNCHANGED <<file, app, part, histVars>>

\* rewriteTail: the copy of the tail is complete and synced.
TailCopy ==
  /\ dpc = "compact" /\ cur > 0
  /\ lock = "free" /\ Len(file) # cur /\ cur >= CompactTailAfter
  /\ lock' = "drain"
  /\ dpc' = "tailCopied"
  /\ UNCHANGED <<diskVars, app, part, cur, rpos, lineVars, histVars>>

\* Mutant: the cursor stays where it was when the tail takes the file's place.
TailKeepsCursor ==
  /\ dpc = "tailCopied"
  /\ dpc' = "renaming"
  /\ UNCHANGED <<diskVars, lockVars, cur, rpos, lineVars, histVars>>

TailZero ==
  /\ dpc = "tailCopied"
  /\ cursor' = 0
  /\ dpc' = "renaming"
  /\ UNCHANGED <<file, lockVars, cur, rpos, lineVars, histVars>>

TailRename ==
  /\ dpc = "renaming"
  /\ file' = SubSeq(file, cur + 1, Len(file))
  /\ lock' = "free"
  /\ EndPass
  /\ UNCHANGED <<cursor, app, part, histVars>>

TailFails ==
  /\ "cursorIO" \in Conditions
  /\ dpc \in {"tailCopied", "renaming"}
  /\ lock' = "free"
  /\ EndPass
  /\ UNCHANGED <<diskVars, app, part, histVars>>

\* The daemon dies (or, after the truncation, its cursor write fails); the
\* kernel drops its lock and the next process starts over.
Crash ==
  /\ dpc # "idle"
  /\ IF dpc = "truncated" THEN "truncateCrash" \in Conditions ELSE "crash" \in Conditions
  /\ lock' = IF lock = "drain" THEN "free" ELSE lock
  /\ EndPass
  /\ UNCHANGED <<diskVars, app, part, histVars>>

-----------------------------------------------------------------------------
DrainRead   == Rewind \/ StartPass \/ ReadChunk \/ ReadNoChunk \/ ReadLine \/ ReadNoLine
DrainSend   == \/ ChunkFellBack \/ LineUnsendable \/ LineAnswered
               \/ \E proven \in SUBSET Members(from, to) : ChunkAnswered(proven)
DrainCommit == CommitChunk \/ CommitLine \/ CommitFails
Compact     == \/ CompactNothing \/ CompactTruncate \/ TruncateZero
               \/ TailCopy \/ TailZero \/ TailRename \/ TailFails

Next == Append1 \/ DrainRead \/ DrainSend \/ DrainCommit \/ Compact \/ Crash

Spec == Init /\ [][Next]_vars

\* The append that holds the lock finishes, the drain goroutine keeps running,
\* local writes eventually succeed and a backend that is asked again and again
\* eventually answers for everything it is asked about.
FullAnswer == dpc = "sendChunk" /\ ChunkAnswered(Asked)

Fairness ==
  /\ WF_vars(AppendDone \/ AppendFails)
  /\ WF_vars(DrainRead)
  /\ WF_vars(FullAnswer \/ LineUnsendable \/ LineAnswered)
  /\ WF_vars(CommitChunk \/ CommitLine)
  /\ WF_vars(Compact)

FairSpec == Spec /\ Fairness

-----------------------------------------------------------------------------
(* Properties.                                                              *)

TypeOK ==
  /\ file \in Seq(Cell) /\ cursor \in Nat
  /\ lock \in {"free", "append", "drain"} /\ part \in Nat
  /\ app \in IF lock = "append" THEN Event ELSE {NoEvent}
  /\ dpc \in {"idle", "readBatch", "sendChunk", "commitChunk", "readLine", "sendLine",
              "commitLine", "compact", "truncated", "tailCopied", "renaming"}
  /\ cur \in Nat /\ rpos \in Nat /\ from \in Nat /\ to \in Nat /\ adv \in Nat
  /\ desynced \in BOOLEAN /\ shrunk \in BOOLEAN /\ back \in {"readBatch", "readLine"}
  /\ acked \subseteq Event /\ failed \subseteq Event /\ refused \subseteq Event
  /\ answered \subseteq Event /\ settled \subseteq Event

\* An event whose append succeeded either has its answer from the backend or
\* can still be read, as a whole line, by a drain that starts from what is on
\* disk now: whatever happens next, the queue remembers it.
NoLoss == acked \subseteq answered \cup Readable

\* "Only 2xx and 400/422 advance": no cursor write passes an event the backend
\* has not answered for.
OnlyAnsweredSettled == settled \subseteq answered

\* The lane is an at-least-once queue: what a drain that starts now would read is
\* what is pending, and every step of the file, the cursor and the drain accepts an
\* event, answers for pending ones, or forgets or recalls answered ones.
Queue == INSTANCE DeliveryQueue WITH pending <- Readable, accepted <- acked
QueueSpec == Queue!Spec

\* An event the cursor has passed is not delivered a second time: without
\* crashes and failed renames, compaction never brings delivered lines back.
NoRedelivery == dpc # "renaming" => settled \cap Readable = {}

\* The backlog, which the cap is compared with: undelivered lines alone, without
\* the delivered bytes that wait for compaction.
Backlog == Cardinality({n \in 1..Len(file) : file[n][1] \notin settled})

\* What is queued past the cursor exceeds the cap by less than one line.
BacklogBounded ==
  dpc # "renaming" => \A e \in Event :
     (\A d \in Event : Size[d] <= Size[e]) => Len(file) - cursor < Cap + Size[e]

=============================================================================
