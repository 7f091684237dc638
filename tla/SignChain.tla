------------------------------ MODULE SignChain ------------------------------
(***************************************************************************)
(* The signed ledger of internal/sign: AppendEventToLocalBuffer with the   *)
(* rotation of the live segment, the per-session chain index and its       *)
(* rebuild from the retained segments.                                     *)
(*                                                                         *)
(* One sentinel lock covers an append from rotation to index commit, so    *)
(* the emitters (watchers, presence, census, hook processes) are one       *)
(* actor; what interleaves with an append is its own death and the         *)
(* failures of single file operations.  The n-th event signed has the      *)
(* signature n, and 0 stands for prevSig = "".                             *)
(***************************************************************************)
EXTENDS Integers, Sequences, FiniteSets

CONSTANTS
  Session,
  Segments,     \* LedgerRetainedSegments, the segments kept beside the live one
  SegmentMax,   \* bufferSegmentMaxBytes, in lines
  MaxEntries,   \* chainStateMaxEntries
  MaxEvents,    \* bound on the events signed
  Environments  \* the sets of conditions a behaviour may have

ConditionKinds ==
  { "crash",      \* the emitting process dies between two file operations
    "tornWrite",  \* it dies, or the disk fills up, in the middle of a line
    "renameIO",   \* a rename of the rotation cascade, or dropping the oldest, fails
    "indexIO",    \* writeChainState fails
    "dropIO",     \* and the stale index cannot be removed either
    "indexLost",  \* the index file is removed or corrupted
    "scanIO",     \* a rebuild cannot read a segment to its end
    "quiet" }     \* sessions stay quiet for longer than chainStateTTL

ASSUME ChainAssumption ==
  /\ Segments \in Nat \ {0} /\ SegmentMax \in Nat \ {0}
  /\ MaxEntries \in Nat \ {0} /\ MaxEvents \in Nat
  /\ Environments \subseteq SUBSET ConditionKinds

VARIABLES
  allowed,  \* what may happen in this behaviour
  seg,      \* seg[n]: the lines of segment n, 0 the live one; <<>> when missing.
            \* A line is a signature, or Garbage when it does not parse
  frag,     \* the live segment ends in a partial line, without a newline
  index,    \* the index file: each session's tip, or NoIndex
  pc,       \* where the append that holds the lock stands
  shift,    \* loop variable n of the rotation cascade
  sid,      \* the session of the event being appended
  tips,     \* the chain state the append works on
  partial,  \* it comes of an incomplete rebuild and must not be written back
  \* History.
  log,      \* log[n]: session and prevSig of event n, and is its line whole
  unindexed \* the events behind whose ledger line an older index was left: the append died
            \* before its commit, or the index could be neither written nor removed

vars == <<allowed, seg, frag, index, pc, shift, sid, tips, partial, log, unindexed>>

Garbage == 0
NoIndex == <<>>
NoTips  == [s \in Session |-> 0]

Init ==
  /\ allowed \in Environments
  /\ seg = [n \in 0..Segments |-> <<>>] /\ frag = FALSE
  /\ index = NoIndex
  /\ pc = "free" /\ shift = 0 /\ sid \in Session /\ tips = NoTips /\ partial = FALSE
  /\ log = <<>> /\ unindexed = {}

-----------------------------------------------------------------------------
(* rotateLedgerIfLarge.                                                     *)

Lock(s) ==
  /\ pc = "free" /\ Len(log) < MaxEvents
  /\ sid' = s
  /\ pc' = IF Len(seg[0]) < SegmentMax THEN "load" ELSE "dropOldest"
  /\ UNCHANGED <<allowed, seg, frag, index, shift, tips, partial, log, unindexed>>

\* Mutant: the shift starts one segment too far.
ShiftFromOldest ==
  /\ pc = "dropOldest"
  /\ seg' = [seg EXCEPT ![Segments] = <<>>]
  /\ shift' = Segments /\ pc' = "shift"
  /\ UNCHANGED <<allowed, frag, index, sid, tips, partial, log, unindexed>>

\* A failure to remove the oldest segment is ignored.
DropOldest ==
  /\ pc = "dropOldest"
  /\ \/ seg' = [seg EXCEPT ![Segments] = <<>>]
     \/ "renameIO" \in allowed /\ UNCHANGED seg
  /\ shift' = Segments - 1
  /\ pc' = "shift"
  /\ UNCHANGED <<allowed, frag, index, sid, tips, partial, log, unindexed>>

\* os.Rename of segment n to n + 1; a missing source is not an error.
Renamed(n) == IF seg[n] = <<>> THEN seg
              ELSE [seg EXCEPT ![n + 1] = seg[n], ![n] = <<>>]

ShiftSegment ==
  /\ pc = "shift" /\ shift >= 1
  /\ seg' = Renamed(shift)
  /\ shift' = shift - 1
  /\ UNCHANGED <<allowed, frag, index, pc, sid, tips, partial, log, unindexed>>

RotateLive ==
  /\ pc = "shift" /\ shift = 0
  /\ seg' = Renamed(0) /\ frag' = FALSE
  /\ pc' = "load"
  /\ UNCHANGED <<allowed, index, shift, sid, tips, partial, log, unindexed>>

\* The cascade is abandoned and the append goes on with the unrotated ledger.
RotationFails ==
  /\ "renameIO" \in allowed
  /\ pc = "shift" /\ seg[shift] # <<>>
  /\ shift' = 0 /\ pc' = "load"
  /\ UNCHANGED <<allowed, seg, frag, index, sid, tips, partial, log, unindexed>>

-----------------------------------------------------------------------------
(* The chain state, the ledger line and the index commit.                   *)

\* The lines that parse, each by its segment and its number there.
Readable(segs) ==
  {p \in UNION {{n} \X DOMAIN segs[n] : n \in 0..Segments} : segs[p[1]][p[2]] # Garbage}
LineAt(segs, p) == segs[p[1]][p[2]]

\* Of two lines, is p read first: the segments are read oldest first.
ReadBefore(p, q) == p[1] > q[1] \/ (p[1] = q[1] /\ p[2] < q[2])

\* The last line of each session that parses.
LinesOf(segs, s) == {p \in Readable(segs) : log[LineAt(segs, p)].sid = s}
LastOf(lines)    == CHOOSE p \in lines : \A q \in lines : ~ReadBefore(p, q)
TipsIn(segs) ==
  [s \in Session |-> IF LinesOf(segs, s) = {} THEN 0 ELSE LineAt(segs, LastOf(LinesOf(segs, s)))]

\* Mutant: the tip is committed before the event is in the ledger.
LoadAndCommit ==
  /\ pc = "load"
  /\ tips' = IF index = NoIndex THEN TipsIn(seg) ELSE index
  /\ index' = [tips' EXCEPT ![sid] = Len(log) + 1]
  /\ partial' = FALSE /\ pc' = "write"
  /\ UNCHANGED <<allowed, seg, frag, shift, sid, log, unindexed>>

LoadTips ==
  /\ pc = "load"
  /\ tips' = IF index = NoIndex THEN TipsIn(seg) ELSE index
  /\ partial' = FALSE
  /\ pc' = "write"
  /\ UNCHANGED <<allowed, seg, frag, index, shift, sid, log, unindexed>>

\* The scan of some segment stops early, the others are still read.
LoadSome ==
  /\ "scanIO" \in allowed
  /\ pc = "load" /\ index = NoIndex
  /\ \E n \in 0..Segments : \E k \in 0..(Len(seg[n]) - 1) :
       tips' = TipsIn([seg EXCEPT ![n] = SubSeq(@, 1, k)])
  /\ partial' = TRUE
  /\ pc' = "write"
  /\ UNCHANGED <<allowed, seg, frag, index, shift, sid, log, unindexed>>

Signed(whole) == Append(log, [sid |-> sid, prev |-> tips[sid], whole |-> whole])

\* Behind a partial line the new line becomes the rest of that one.
WriteLine ==
  /\ pc = "write"
  /\ log' = Signed(~frag)
  /\ seg' = [seg EXCEPT ![0] = IF frag THEN [@ EXCEPT ![Len(@)] = Garbage]
                               ELSE Append(@, Len(log'))]
  /\ frag' = FALSE
  /\ pc' = "commit"
  /\ UNCHANGED <<allowed, index, shift, sid, tips, partial, unindexed>>

\* The partial line stands at the end of the live segment.
WriteTorn ==
  /\ "tornWrite" \in allowed /\ pc = "write"
  /\ log' = Signed(FALSE)
  /\ seg' = [seg EXCEPT ![0] = IF frag THEN @ ELSE Append(@, Garbage)]
  /\ frag' = TRUE
  /\ pc' = "free"
  /\ UNCHANGED <<allowed, index, shift, sid, tips, partial, unindexed>>

\* prune: entries older than the TTL go first, then the oldest above the limit.
\* An entry is as old as the event it names.
Pruned(t, cutoff) ==
  LET fresh == {s \in Session : t[s] > cutoff}
      newer(s) == {u \in fresh : t[u] > t[s]}
  IN  [s \in Session |-> IF s \in fresh /\ Cardinality(newer(s)) < MaxEntries
                         THEN t[s] ELSE 0]

CommitTip ==
  /\ pc = "commit" /\ ~partial
  /\ \E cutoff \in (IF "quiet" \in allowed THEN 0..(Len(log) - 1) ELSE {0}) :
       index' = Pruned([tips EXCEPT ![sid] = Len(log)], cutoff)
  /\ pc' = "free"
  /\ UNCHANGED <<allowed, seg, frag, shift, sid, tips, partial, log, unindexed>>

\* Mutant: the index that cannot be written is left as it is.
CommitKeepsStale ==
  /\ "indexIO" \in allowed /\ pc = "commit" /\ ~partial
  /\ pc' = "free"
  /\ UNCHANGED <<allowed, seg, frag, index, shift, sid, tips, partial, log, unindexed>>

\* The index cannot be written, so it is dropped; when that fails too it stays, stale.
CommitFails ==
  /\ "indexIO" \in allowed /\ pc = "commit" /\ ~partial
  /\ \/ index' = NoIndex /\ UNCHANGED unindexed
     \/ /\ "dropIO" \in allowed /\ index # NoIndex
        /\ unindexed' = unindexed \cup {Len(log)} /\ UNCHANGED index
  /\ pc' = "free"
  /\ UNCHANGED <<allowed, seg, frag, shift, sid, tips, partial, log>>

\* Tips of an incomplete rebuild are not written: the index stays missing.
CommitPartial ==
  /\ pc = "commit" /\ partial
  /\ pc' = "free"
  /\ UNCHANGED <<allowed, seg, frag, index, shift, sid, tips, partial, log, unindexed>>

IndexLost ==
  /\ "indexLost" \in allowed /\ pc = "free" /\ index # NoIndex
  /\ index' = NoIndex
  /\ UNCHANGED <<allowed, seg, frag, pc, shift, sid, tips, partial, log, unindexed>>

Crash ==
  /\ "crash" \in allowed /\ pc # "free"
  /\ unindexed' = IF pc = "commit" THEN unindexed \cup {Len(log)} ELSE unindexed
  /\ pc' = "free" /\ shift' = 0
  /\ UNCHANGED <<allowed, seg, frag, index, sid, tips, partial, log>>

Rotate == DropOldest \/ ShiftSegment \/ RotateLive \/ RotationFails

Next ==
  \/ \E s \in Session : Lock(s)
  \/ Rotate \/ LoadTips \/ LoadSome \/ WriteLine \/ WriteTorn
  \/ CommitTip \/ CommitFails \/ CommitPartial \/ IndexLost \/ Crash

Spec == Init /\ [][Next]_vars

-----------------------------------------------------------------------------
(* Properties.                                                              *)

TypeOK ==
  /\ allowed \in Environments
  /\ seg \in [0..Segments -> Seq(0..MaxEvents)] /\ frag \in BOOLEAN
  /\ index = NoIndex \/ index \in [Session -> 0..MaxEvents]
  /\ pc \in {"free", "dropOldest", "shift", "load", "write", "commit"}
  /\ shift \in 0..(Segments - 1) /\ sid \in Session /\ tips \in [Session -> 0..MaxEvents]
  /\ partial \in BOOLEAN
  /\ log \in Seq([sid : Session, prev : 0..MaxEvents, whole : BOOLEAN])
  /\ unindexed \subseteq 1..MaxEvents

Whole(n) == n \in 1..Len(log) /\ log[n].whole
Without(conditions) == allowed \cap conditions = {}

\* "A crash must never manufacture the evidence of the exact attack this chain
\* exists to detect": a readable event links to an earlier event of its session,
\* and to one that has a line of its own unless writes are torn.
NoDanglingLink ==
  \A n \in 1..Len(log) :
     Whole(n) /\ log[n].prev # 0 =>
       /\ log[n].prev < n /\ log[log[n].prev].sid = log[n].sid
       /\ Without({"tornWrite"}) => Whole(log[n].prev)

\* Each session is one chain: of two readable events of a session that link to the same
\* event, the index was never told of the earlier one.  Nothing else forks a session, not
\* an index that is lost, dropped or pruned, a torn line or a rotation.
NoFork ==
  Without({"scanIO"}) =>
    \A m, n \in 1..Len(log) :
       m < n /\ Whole(m) /\ Whole(n) /\ log[m].sid = log[n].sid /\ log[m].prev # 0
         /\ log[m].prev = log[n].prev
       => m \in unindexed

\* Events of a session, other than its last, that nothing links to although
\* the session went on from an older one.
Orphans == {n \in 1..Len(log) :
              \E m \in (n+1)..Len(log) :
                 log[m].sid = log[n].sid /\ log[m].prev # 0 /\ log[m].prev < n
                 /\ \A k \in (n+1)..(m-1) : log[k].sid # log[n].sid}

\* A session leaves an event behind only when the append of that event left an older
\* index in place ("a crash costs one benign fork").
OrphansUnindexed ==
  Without({"tornWrite", "scanIO"}) => Orphans \subseteq unindexed

\* Between appends an index tip is the session's last readable event, but for those it was
\* never told of: neither a failed index write whose stale index is dropped nor a
\* rebuild from half a ledger leaves a tip "every later event of this session re-links to".
IndexCurrent ==
  pc = "free" /\ index # NoIndex =>
    \A s \in Session : index[s] # 0 =>
       \A n \in 1..Len(log) : Whole(n) /\ log[n].sid = s => n <= index[s] \/ n \in unindexed

\* "ledgerSegmentsOldestFirst returns the retained segment paths in
\* chronological order": failed and interrupted rotations included.
Chronological ==
  \A p, q \in Readable(seg) : ReadBefore(p, q) => LineAt(seg, p) < LineAt(seg, q)

\* The ledger is one chain for each session: each fork and each event left behind is one
\* that the index was never told of, the index is up to date between appends but for those, and
\* segments are read in the order they were written in, through failed rotations, failed
\* index writes, crashes and rebuilds (AppendEventToLocalBuffer).
OneChain == NoFork /\ OrphansUnindexed /\ IndexCurrent /\ Chronological
=============================================================================
