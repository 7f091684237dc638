----------------------------- MODULE CursorRails -----------------------------
(***************************************************************************)
(* One Cursor conversation seen by two rails: the transcripts that         *)
(* pollCursorTranscripts tails (internal/capture/cmd_cursor_watch.go), and *)
(* the hook processes that Cursor starts at every step                     *)
(* (internal/capture/cmd_cursor_hook.go).  A hook that has queued an event *)
(* claims the transcript (cursor_hooks.go), and the tail then leaves it    *)
(* all but the kinds no hook reports.  A move of the agent writes the      *)
(* whole conversation again under another id (cursor_continuation.go);     *)
(* a subagent has a transcript of its own.  The model of a turn comes with *)
(* one hook and its tokens with another (cursor_generations.go).           *)
(*                                                                         *)
(* A conversation is a sequence of steps [kind, sub, path, gen, model,     *)
(* tokens].                                                                *)
(* Steps of the kinds Recorded are written to a transcript, those of the   *)
(* kinds Hooked start a hook process:                                      *)
(*   "prompt"   a human turn          "edit"    the agent edits a file     *)
(*   "delete"   it deletes one        "task"    it calls a subagent        *)
(*   "move"     it moves to another root                                   *)
(*   "thought"  carries the model     "stop"    carries the tokens         *)
(* sub tells that the subagent does it; path where a file it names lies;   *)
(* gen the turn; model what the payload names (the stop of a routed turn   *)
(* names none); tokens whether the stop of an aborted turn counts any.     *)
(***************************************************************************)
EXTENDS Integers, Sequences, FiniteSets, SequencesExt

CONSTANTS
  MaxGens,      \* cursorGenerationsMax
  NoId, NoModel,
  Environments  \* the conditions a behaviour may have, with the conversation that is held

ConditionKinds ==
  { "hooks",     \* the hooks are enrolled
    "parallel",  \* a step may be taken before the hooks of earlier ones are over
    "overrun",   \* a hook may exceed its budget and be abandoned
    "full",      \* the outbox may be full
    "expiry",    \* claims and turns may grow older than their TTL
    "reexec",    \* the daemon may replace itself
    "restart",   \* it may be killed and started again
    "quiet",     \* it may be started minutes after the last write
    "stat",      \* a transcript may fail to be looked at
    "reverse" }  \* the directory of the move sorts before the first one

ASSUME CursorAssumption ==
  /\ \A e \in Environments : e.conditions \subseteq ConditionKinds
  /\ MaxGens \in Nat \ {0}

\* The first transcript, the one that a move writes, and the subagent's.
Files == {"A", "B", "S"}
Mains == {"A", "B"}
Recorded == {"prompt", "edit", "delete", "task", "move"}
Hooked   == {"prompt", "edit", "thought", "stop"}

VARIABLES
  allowed,   \* what may happen in this behaviour
  script,    \* the conversation
  step,      \* the steps taken
  written,   \* the steps that have reached the transcripts
  copied,    \* how much of the conversation the move has written so far
  full,      \* is the outbox full
  queued,    \* events in the outbox or already delivered
  \* Files the two rails share.
  claims,    \* cursor-hook-claims.json: the state of each claim
  gens,      \* cursor-generations.json: the models of turns, oldest first
  counts,    \* its counters, and the one of the overruns
  disk,      \* cursor-watcher-progress.json
  \* The hook processes.
  hook,      \* where the hook of each step stands
  \* Memory of the watcher.
  first,     \* is this its first poll
  quiet,     \* did it start minutes after the last write
  base,      \* how long the transcripts were when it started
  procs,     \* the session each processor emits under
  pg,        \* the progress of this poll
  snap,      \* the claims this poll goes by
  polling,   \* is it in a poll
  todo       \* the transcripts it has still to visit

env     == <<allowed, script>>
shared  == <<claims, gens, counts>>
watcher == <<disk, first, quiet, base, procs, pg, snap, polling, todo>>
vars == <<env, step, written, copied, full, queued, shared, hook, watcher>>

-----------------------------------------------------------------------------
(* The transcripts.                                                         *)

IsRecord(i) == script[i].kind \in Recorded
Ascending(S) == SetToSortSeq(S, <)

MoveAt == LET M == {i \in 1..written : script[i].kind = "move"} IN IF M = {} THEN 0 ELSE Min(M)
Moved  == MoveAt # 0

Conversation == Ascending({i \in 1..written : IsRecord(i) /\ ~script[i].sub})

Records(f) ==
  CASE f = "A" -> SelectSeq(Conversation, LAMBDA i : ~Moved \/ i <= MoveAt)
    [] f = "B" -> SubSeq(Conversation, 1, copied)
    [] f = "S" -> Ascending({i \in 1..written : IsRecord(i) /\ script[i].sub})

\* The transcript of the main chain when step i is taken, whose id the hooks carry.
MainOf(i) == IF \E j \in 1..(i - 1) : script[j].kind = "move" THEN "B" ELSE "A"
FileOf(i) == IF script[i].sub THEN "S" ELSE MainOf(i)

\* The directory a subagent's transcript lies under.
ParentOfS == LET S == {i \in 1..Len(script) : script[i].sub} IN IF S = {} THEN "A" ELSE MainOf(Min(S))

\* cursorSessionIDFromPath
PathId(f) == IF f = "S" THEN ParentOfS ELSE f

-----------------------------------------------------------------------------
NoProgress ==
  [offs |-> [f \in Files |-> -1], match |-> [f \in Files |-> "undecided"], sess |-> [f \in Files |-> NoId]]

NoHook == [at |-> "none", ok |-> FALSE, sess |-> NoId, claim |-> FALSE, model |-> NoModel]

Init ==
  /\ \E e \in Environments : allowed = e.conditions /\ script = e.script
  /\ step = 0 /\ written = 0 /\ copied = 0 /\ full = FALSE /\ queued = {}
  /\ claims = [f \in Files |-> "none"]
  /\ gens = <<>>
  /\ counts = [seen |-> 0, empty |-> 0, rows |-> 0, overruns |-> 0]
  /\ disk = NoProgress /\ pg = NoProgress
  /\ hook = [i \in 1..Len(script) |-> NoHook]
  /\ first = TRUE /\ quiet = FALSE
  /\ base = [f \in Files |-> 0] /\ procs = [f \in Files |-> NoId]
  /\ snap = {} /\ todo = <<>> /\ polling = FALSE

\* The agent.
Over(i) == hook[i].at \in {"done", "dead"}
Starts(i) == "hooks" \in allowed /\ script[i].kind \in Hooked

Step ==
  /\ step < Len(script)
  /\ "parallel" \in allowed \/ \A i \in 1..step : Starts(i) => Over(i)
  /\ step' = step + 1
  /\ hook' = IF Starts(step + 1) THEN [hook EXCEPT ![step + 1].at = "started"] ELSE hook
  /\ UNCHANGED <<env, written, copied, full, queued, shared, watcher>>

Write ==
  /\ written < step
  /\ written' = written + 1
  /\ UNCHANGED <<env, step, copied, full, queued, shared, hook, watcher>>

Copy ==
  /\ Moved /\ copied < Len(Conversation)
  /\ copied' = copied + 1
  /\ UNCHANGED <<env, step, written, full, queued, shared, hook, watcher>>

FillOrDrain ==
  /\ "full" \in allowed
  /\ full' = ~full
  /\ UNCHANGED <<env, step, written, copied, queued, shared, hook, watcher>>

Expire ==
  /\ "expiry" \in allowed
  /\ claims' = [f \in Files |-> IF claims[f] = "none" THEN "none" ELSE "expired"]
  /\ gens' = <<>>
  /\ UNCHANGED <<env, step, written, copied, full, queued, counts, hook, watcher>>

-----------------------------------------------------------------------------
(* RunCursorHook.  The process of step i reads and normalizes its payload,  *)
(* queues its event, books the turn, and claims the transcript.             *)

HookEvent(i)     == [rail |-> "hook", sess |-> hook[i].sess, step |-> i, model |-> hook[i].model]
TailEvent(id, i) == [rail |-> "tail", sess |-> id, step |-> i, model |-> NoModel]

\* A turn goes by its bare id in one hook and with a suffix in the other.
GenId(i) == IF script[i].kind = "thought" THEN <<script[i].gen, "suffix">> ELSE <<script[i].gen>>

\* Mutant: the ids are compared as they come.
AsItComes(id) == id

\* cursorGenerationBaseID
BaseId(id) == <<id[1]>>

Known(id) == {k \in DOMAIN gens : gens[k].gen = BaseId(id)}

\* Mutant: nothing is evicted.
RememberedAll(i) ==
  LET turn == [gen |-> BaseId(GenId(i)), model |-> script[i].model]
  IN  IF turn.model = NoModel \/ turn \in ToSet(gens) THEN gens
      ELSE Append(SelectSeq(gens, LAMBDA g : g.gen # turn.gen), turn)

\* recordCursorGenerationModel and pruneCursorGenerations: a turn whose model is
\* news becomes the newest, and the oldest is evicted.
Remembered(i) ==
  LET turn == [gen |-> BaseId(GenId(i)), model |-> script[i].model]
      all  == Append(SelectSeq(gens, LAMBDA g : g.gen # turn.gen), turn)
  IN  IF turn.model = NoModel \/ turn \in ToSet(gens) THEN gens
      ELSE IF Len(all) > MaxGens THEN Tail(all) ELSE all

\* The model a stop reports, or the one its turn is known by.
ModelOf(i) ==
  IF script[i].kind # "stop" THEN NoModel
  ELSE IF script[i].model # NoModel THEN script[i].model
  ELSE IF Known(GenId(i)) # {} THEN gens[CHOOSE k \in Known(GenId(i)) : TRUE].model
  ELSE NoModel

Empty(i) == script[i].kind = "stop" /\ ~script[i].tokens /\ ModelOf(i) = NoModel

HookStands(i, at) == i \in 1..Len(script) /\ hook[i].at = at

\* A thought is remembered, and has no event.
HookThought(i) ==
  /\ HookStands(i, "started") /\ script[i].kind = "thought"
  /\ gens' = Remembered(i)
  /\ hook' = [hook EXCEPT ![i].at = "done"]
  /\ UNCHANGED <<env, step, written, copied, full, queued, claims, counts, watcher>>

\* A turn of which nothing is known is booked as such.
HookDrop(i) ==
  /\ HookStands(i, "started") /\ Empty(i)
  /\ counts' = [counts EXCEPT !.seen = @ + 1, !.empty = @ + 1]
  /\ hook' = [hook EXCEPT ![i].at = "done"]
  /\ UNCHANGED <<env, step, written, copied, full, queued, claims, gens, watcher>>

\* A subagent's hook names no transcript: it is looked for under the claimed ones.
HookNormalize(i) ==
  /\ HookStands(i, "started") /\ script[i].kind # "thought" /\ ~Empty(i)
  /\ LET found == claims[ParentOfS] = "fresh" /\ Records("S") # <<>>
         s     == script[i].sub
     IN  hook' = [hook EXCEPT ![i] =
                    [at |-> "queue", ok |-> FALSE, model |-> ModelOf(i), claim |-> ~s \/ found,
                     sess |-> IF ~s THEN MainOf(i) ELSE IF found THEN ParentOfS ELSE "S"]]
  /\ UNCHANGED <<env, step, written, copied, full, queued, shared, watcher>>

HookQueue(i) ==
  /\ HookStands(i, "queue")
  /\ queued' = IF full THEN queued ELSE queued \cup {HookEvent(i)}
  /\ hook' = [hook EXCEPT ![i].ok = ~full,
                          ![i].at = IF script[i].kind = "stop" THEN "count" ELSE "claim"]
  /\ UNCHANGED <<env, step, written, copied, full, shared, watcher>>

\* recordCursorStopOutcome
HookCount(i) ==
  /\ HookStands(i, "count")
  /\ counts' = [counts EXCEPT !.seen = @ + 1, !.rows = IF hook[i].ok THEN @ + 1 ELSE @]
  /\ hook' = [hook EXCEPT ![i].at = "claim"]
  /\ UNCHANGED <<env, step, written, copied, full, queued, claims, gens, watcher>>

\* Mutant: claimed whatever became of the event.
Claimable(i) == hook[i].claim

\* Only what was queued gives a claim.
Claims(i) == hook[i].ok /\ hook[i].claim

HookClaim(i) ==
  /\ HookStands(i, "claim")
  /\ claims' = IF Claims(i)
               THEN [f \in Files |-> IF f = FileOf(i) THEN "fresh"
                                     ELSE IF claims[f] = "expired" THEN "none" ELSE claims[f]]
               ELSE claims
  /\ hook' = [hook EXCEPT ![i].at = "done"]
  /\ UNCHANGED <<env, step, written, copied, full, queued, gens, counts, watcher>>

\* The budget is spent, and what is left undone is never done.
HookOverrun(i) ==
  /\ "overrun" \in allowed
  /\ i \in 1..Len(script) /\ hook[i].at \in {"started", "queue", "count", "claim"}
  /\ counts' = [counts EXCEPT !.overruns = @ + 1]
  /\ hook' = [hook EXCEPT ![i].at = "dead"]
  /\ UNCHANGED <<env, step, written, copied, full, queued, claims, gens, watcher>>

-----------------------------------------------------------------------------
(* pollCursorTranscripts.                                                   *)

VisitOrder == IF "reverse" \in allowed THEN <<"B", "A", "S">> ELSE <<"A", "B", "S">>

\* Transcripts last written well before the watcher started are left out.
Candidate(f) == Records(f) # <<>> /\ (~quiet \/ Len(Records(f)) > base[f])

PollStart ==
  /\ ~polling /\ (first \/ \E f \in Files : Candidate(f))
  /\ polling' = TRUE
  /\ todo' = SelectSeq(VisitOrder, Candidate)
  /\ pg' = disk
  /\ snap' = {f \in Files : claims[f] = "fresh"}
  /\ UNCHANGED <<env, step, written, copied, full, queued, shared, hook, disk, first, quiet, base, procs>>

\* cursorClassify: one path within the roots is enough; "no" where there are only
\* others.
Paths(f) == {script[i].path : i \in ToSet(Records(f))}
Match(f) ==
  IF pg.match[f] # "undecided" THEN pg.match[f]
  ELSE IF "inside" \in Paths(f) THEN "yes"
  ELSE IF "outside" \in Paths(f) THEN "no" ELSE "undecided"

\* Where a transcript that is seen for the first time is read from: what was there
\* before the watcher, and has not been written since, is history.
Seeded(f) == IF first /\ Len(Records(f)) = base[f] THEN Len(Records(f)) ELSE 0

\* cursorContinuationSessionID: a transcript that is tracked, lies in another
\* directory, starts with the same two records and shows the move.
SameHead(f, g) == Len(Records(f)) >= 2 /\ Len(Records(g)) >= 2
ShowsMove(g)   == \E i \in ToSet(Records(g)) : script[i].kind = "move"
IdOf(f)        == IF pg.sess[f] = NoId THEN PathId(f) ELSE pg.sess[f]

Continued(f) ==
  {IdOf(g) : g \in {h \in Mains \ {f} : pg.offs[h] >= 0 /\ SameHead(f, h) /\ ShowsMove(h)}} \ {PathId(f)}

\* cursorResolveSessionID: the session, and whether that is settled.
Resolved(f) ==
  CASE pg.sess[f] # NoId -> [id |-> pg.sess[f], final |-> TRUE]
    [] pg.sess[f] = NoId /\ f \in snap -> [id |-> PathId(f), final |-> FALSE]
    [] pg.sess[f] = NoId /\ f \notin snap /\ f = "S" -> [id |-> IdOf(ParentOfS), final |-> pg.sess[ParentOfS] # NoId]
    [] OTHER -> [id |-> IF Continued(f) = {} THEN PathId(f) ELSE CHOOSE x \in Continued(f) : TRUE, final |-> TRUE]

SessionOf(f) == Resolved(f)

\* cursorHookBlindKinds
Blind(i)   == script[i].kind = "task"
Emitted(i) == script[i].kind \in {"edit", "delete", "task"} \/ (script[i].kind = "prompt" /\ ~script[i].sub)

\* What the tail makes of the records after the offset.
TailOut(f, id, off) ==
  {TailEvent(id, Records(f)[k]) :
     k \in {n \in (off + 1)..Len(Records(f)) : Emitted(Records(f)[n]) /\ (f \in snap => Blind(Records(f)[n]))}}

VisitStarts(f) == todo # <<>> /\ f = Head(todo) /\ todo' = Tail(todo)

\* Not ours, or not known yet.
VisitSkips(f) ==
  /\ VisitStarts(f) /\ Match(f) # "yes"
  /\ pg' = [pg EXCEPT !.match[f] = Match(f)]
  /\ UNCHANGED <<env, step, written, copied, full, queued, shared, hook, disk, first, quiet, base, procs, snap, polling>>

Visit(f) ==
  /\ VisitStarts(f) /\ Match(f) = "yes"
  /\ LET r   == SessionOf(f)
         off == IF pg.offs[f] >= 0 THEN pg.offs[f] ELSE Seeded(f)
     IN  /\ pg' = [pg EXCEPT !.match[f] = "yes", !.offs[f] = Len(Records(f)),
                             !.sess[f] = IF r.final THEN r.id ELSE @]
         /\ procs' = [procs EXCEPT ![f] = r.id]
         /\ queued' = IF full THEN queued ELSE queued \cup TailOut(f, r.id, off)
  /\ UNCHANGED <<env, step, written, copied, full, shared, hook, disk, first, quiet, base, snap, polling>>

\* The size of a transcript that is seen for the first time cannot be had.
VisitFails(f) ==
  /\ "stat" \in allowed
  /\ VisitStarts(f) /\ Match(f) = "yes" /\ pg.match[f] # "yes" /\ pg.offs[f] < 0 /\ first
  /\ UNCHANGED <<env, step, written, copied, full, queued, shared, hook, disk, first, quiet, base, procs, pg, snap, polling>>

\* saveCursorWatchProgress
PollEnd ==
  /\ polling /\ todo = <<>>
  /\ disk' = pg /\ first' = FALSE /\ polling' = FALSE
  /\ UNCHANGED <<env, step, written, copied, full, queued, shared, hook, quiet, base, procs, pg, snap, todo>>

\* Memory of a watcher that starts from p.
Started(p) ==
  /\ disk' = p /\ pg' = p
  /\ first' = TRUE /\ polling' = FALSE /\ todo' = <<>> /\ snap' = {}
  /\ base' = [f \in Files |-> Len(Records(f))]
  /\ procs' = [f \in Files |-> NoId]
  /\ quiet' \in IF "quiet" \in allowed THEN BOOLEAN ELSE {FALSE}
  /\ UNCHANGED <<env, step, written, copied, full, queued, shared, hook>>

\* The process of an update is the same process, and its progress stays.
Reexec ==
  /\ "reexec" \in allowed /\ procs # [f \in Files |-> NoId]
  /\ Started(disk)

\* clearCursorWatcherState, at the end of the one process or the start of the next.
Restart ==
  /\ "restart" \in allowed
  /\ procs # [f \in Files |-> NoId] \/ written > 0
  /\ Started(NoProgress)

Hook(i) == \/ HookThought(i) \/ HookDrop(i) \/ HookNormalize(i) \/ HookQueue(i) \/ HookCount(i)
           \/ HookClaim(i) \/ HookOverrun(i)

Poll == PollStart \/ (\E f \in Files : VisitSkips(f) \/ Visit(f) \/ VisitFails(f)) \/ PollEnd

Next == \/ Step \/ Write \/ Copy \/ FillOrDrain \/ Expire \/ Poll \/ Reexec \/ Restart
        \/ \E i \in 1..Len(script) : Hook(i)

Spec == Init /\ [][Next]_vars

-----------------------------------------------------------------------------
(* Properties.                                                              *)

Steps == 1..Len(script)

TypeOK ==
  /\ step \in 0..Len(script) /\ written \in 0..step /\ copied \in 0..Len(script)
  /\ full \in BOOLEAN /\ first \in BOOLEAN /\ quiet \in BOOLEAN
  /\ \A e \in queued : e.rail \in {"hook", "tail"} /\ e.sess \in Files /\ e.step \in 1..step
  /\ claims \in [Files -> {"none", "fresh", "expired"}]
  /\ Len(gens) <= MaxGens /\ Cardinality({gens[k].gen : k \in DOMAIN gens}) = Len(gens)
  /\ counts.seen \in 0..Len(script) /\ counts.empty + counts.rows <= counts.seen
  /\ \A p \in {disk, pg} : \A f \in Files :
       /\ p.offs[f] \in -1..Len(Records(f))
       /\ p.match[f] \in {"undecided", "yes", "no"} /\ (p.offs[f] >= 0 => p.match[f] = "yes")
       /\ p.sess[f] \in Mains \cup {NoId}
  /\ procs \in [Files -> Mains \cup {NoId}] /\ snap \subseteq Files /\ Len(todo) <= 3

Captured(i) == \E e \in queued : e.step = i

\* The tail has left step i of a transcript behind, which was written after the
\* watcher started.
LeftBehind(i) ==
  \E f \in Files : \E k \in (base[f] + 1)..Len(Records(f)) : k <= pg.offs[f] /\ Records(f)[k] = i

\* Between the two rails no step is lost: what the tail has left behind is queued,
\* or its own hook is yet to queue it; and a transcript is claimed from the tail
\* only for a hook that has queued an event of it.  (A hook that is abandoned, a
\* full outbox and a record deleted by a hooked agent are other questions.)
Handoff ==
  /\ \A f \in Files : claims[f] # "none" => \E e \in queued : e.rail = "hook" /\ FileOf(e.step) = f
  /\ allowed \cap {"overrun", "full"} = {} =>
       \A i \in Steps :
         IsRecord(i) /\ Emitted(i) /\ script[i].kind # "delete" /\ LeftBehind(i)
           => Captured(i) \/ hook[i].at \in {"started", "queue"}

\* The kinds that no hook reports the tail keeps covering on a claimed transcript
\* too: no hook reports that a file is deleted.
DeletesKept ==
  \A i \in Steps : script[i].kind = "delete" /\ LeftBehind(i) => Captured(i)

\* A conversation that the tail alone sees is one session, however often it is
\* written, if the transcript that is continued is visited first; and a subagent
\* follows the session of its parent as soon as that is settled, under whichever
\* session it was emitted before.
OneConversation ==
  /\ allowed \cap {"hooks", "restart", "quiet", "stat", "reverse"} = {} =>
       \A e, d \in queued : ~script[e.step].sub /\ ~script[d.step].sub => e.sess = d.sess
  /\ "hooks" \notin allowed /\ ~polling /\ pg.sess[ParentOfS] # NoId =>
       pg.sess["S"] \in {NoId, pg.sess[ParentOfS]} /\ procs["S"] \in {NoId, pg.sess[ParentOfS]}

\* The arithmetic that doctor shows is true: the stops that are neither empty nor
\* rows are those whose event was refused.  A row has the model of its own turn or
\* none, and it has one when the turn's thought was over in time and has been kept.
IsStop(i)     == script[i].kind = "stop"
TurnModels(i) == {script[j].model : j \in {k \in Steps : script[k].gen = script[i].gen}} \ {NoModel}
Turns         == {script[j].gen : j \in {k \in Steps : script[k].kind = "thought"}}

SpendAccounted ==
  /\ "overrun" \notin allowed =>
       counts.seen - counts.empty - counts.rows
         = Cardinality({i \in Steps : /\ IsStop(i) /\ hook[i].at \in {"claim", "done"}
                                      /\ hook[i].sess # NoId /\ HookEvent(i) \notin queued})
  /\ \A e \in queued : e.rail = "hook" /\ IsStop(e.step) =>
       /\ e.model \in TurnModels(e.step) \cup {NoModel}
       /\ allowed \cap {"parallel", "expiry", "overrun"} = {} /\ Cardinality(Turns) <= MaxGens
            => (TurnModels(e.step) # {} => e.model # NoModel)

\* The two rails tell one story: no step falls between them, and the steps of a
\* conversation are those of one session (runCursorHook, pollCursorTranscripts).
OneStory == Handoff /\ OneConversation
=============================================================================
