----------------------------- MODULE Durability -----------------------------
(***************************************************************************)
(* The durability ledger of internal/capture: pollDurability follows the   *)
(* default branch of one root, folds each new commit into the tracked AI   *)
(* lines (durability.json), harvests the lines that outlive the window,    *)
(* and keeps a tombstone of the AI-write evidence each path has spent.     *)
(*                                                                         *)
(* A file is a sequence of lines, and a line knows which commit brought it *)
(* in; a commit changes one path, which it may rename, by hunks in git's   *)
(* --unified=0 geometry.  Time is counted in units far longer than a poll, *)
(* write stamps are counted apart from it: an agent's n-th write bears the *)
(* stamp n (diff_dedup.go keeps stamps strictly increasing).               *)
(***************************************************************************)
EXTENDS Integers, Sequences, FiniteSetsExt

CONSTANTS
  Poller,        \* processes that poll the root: the daemon, a foreground git-watch
  Main,          \* the one of them that always runs
  Path,
  Agent,         \* AI sessions
  InSibling,     \* those that edit in another worktree of the repository
  AiTTL,         \* aiPathsTTL
  FpTTL,         \* durabilityFingerprintTTLms
  Window,        \* durabilityWindowMs
  MinRun,        \* durabilityMinTransferRun
  Burst,         \* gitWatchMaxCommitsPerPoll
  Environments   \* what a behaviour may meet, and its bounds

ConditionKinds ==
  { "rename",      \* commits rename files
    "twoHunks",    \* commits change a file in two places
    "squash",      \* commits land lines whose fingerprints were captured
    "sibling",     \* the sibling worktree holds, or no longer holds, the commits
    "resume",      \* a session writes again after longer than aiPathsTTL
    "gitFails",    \* git show fails
    "ioFails",     \* publishing a line-origin request fails
    "writeFails",  \* writing durability.json fails
    "crash",       \* a poller dies between two steps
    "rewrite",     \* the default branch moves to a commit that is no descendant
    "twoPollers" } \* every poller runs, not only Main

\* may: the conditions that may occur.  The bounds: commits, the lines of a file,
\* the lines a hunk brings in, AI writes, days.
EnvironmentType ==
  [may : SUBSET ConditionKinds, commits : Nat, lines : Nat \ {0}, new : Nat, writes : Nat, days : Nat]

ASSUME DurabilityAssumption ==
  /\ Main \in Poller /\ InSibling \subseteq Agent
  /\ \A n \in {AiTTL, FpTTL, Window} : n \in Nat
  /\ MinRun \in Nat \ {0} /\ Burst \in Nat \ {0}
  /\ \A e \in Environments : e \in EnvironmentType

VARIABLES
  env,       \* one of Environments
  day,
  \* The repository.
  log,       \* log[c], for commit c > 0: its parent, path, former path, hunks
  tree,      \* tree[c][p]: the lines of file p at commit c, <<>> when there is none
  tip,       \* the default branch
  sibHolds,  \* the HEAD of the sibling worktree reaches the commits
  \* The other ledgers.
  writes,    \* AI writes so far
  ai,        \* ai-paths.json: per session its last activity and its paths' stamps
  fp,        \* durability-fingerprints.json: when the lines of a path were captured
  \* durability.json.
  cursor, spans, seeded,
  \* The pollers.
  pc, queue, \* program counter, commits still to fold
  held,      \* newSiblingLineage: sibHolds as the poll began
  view,      \* the evidence read before the ledger lock
  out,       \* verdicts not emitted yet
  \* History.
  spent,     \* path-level seeds: path, stamp, commit
  seen,      \* lines that have been tracked
  decided    \* verdicts emitted: line, kind, and when

repoVars   == <<day, log, tree, tip, sibHolds>>
otherVars  == <<writes, ai, fp>>
ledger     == <<cursor, spans, seeded>>
pollerVars == <<pc, queue, held, view, out>>
histVars   == <<spent, seen, decided>>
vars       == <<env, repoVars, otherVars, ledger, pollerVars, histVars>>

None == -1           \* no cursor, no tombstone, no write evidence, no fingerprint

Branch == 0          \* the lineage of a transferred line; a seeded one has its commit

Untracked == [l \in {} |-> 0]

-----------------------------------------------------------------------------
(* Hunks: [os, ol, nl], the old side's start and length, the new one's      *)
(* length.                                                                  *)

Before(h) == IF h.ol = 0 THEN h.os ELSE h.os - 1     \* old lines above the change
Bottom(h) == IF h.ol = 0 THEN h.os ELSE h.os + h.ol - 1

Delta(hs) == MapThenSumSet(LAMBDA h : h.nl - h.ol, hs)

NewSide(h, hs) ==
  LET start == Before(h) + 1 + Delta({g \in hs : Bottom(g) <= Before(h) /\ g # h})
  IN  start .. (start + h.nl - 1)

NewSides(hs) == UNION {NewSide(h, hs) : h \in hs}

\* A line that falls into a hunk's old side is rewritten.
Churned(l, hs) == \E h \in hs : h.ol > 0 /\ l \in h.os..(h.os + h.ol - 1)

\* Mutant: a shift that counts what is added and not what is removed.
ShiftByAdded(l, hs) ==
  MapThenSumSet(LAMBDA h : h.nl, {h \in hs : l >= h.os + Max({h.ol, 1})})

\* Any other line moves by what the hunks above it add.
ShiftFor(l, hs) == Delta({h \in hs : l >= h.os + Max({h.ol, 1})})

Remapped(f, hs) ==
  LET kept == {l \in DOMAIN f : ~Churned(l, hs)}
  IN  [n \in {l + ShiftFor(l, hs) : l \in kept} |->
         f[CHOOSE l \in kept : l + ShiftFor(l, hs) = n]]

Replaced(file, h, lines) ==
  SubSeq(file, 1, Before(h)) \o lines \o SubSeq(file, Bottom(h) + 1, Len(file))

\* The lines that commit c brings in by h; typed says which of them an AI wrote.
Incoming(c, h, typed) == [k \in 1..h.nl |-> [by |-> c, at |-> Before(h), k |-> k, ai |-> typed[k]]]

\* The file after the hunks of commit c, which count in lines of the old file: the
\* lowest is applied first.
Patched(file, hs, c, typed) ==
  LET apply[s \in SUBSET hs] ==
        IF s = {} THEN file
        ELSE LET h == CHOOSE h \in s : \A g \in s : Before(h) <= Before(g)
             IN  Replaced(apply[s \ {h}], h, Incoming(c, h, typed))
  IN  apply[hs]

\* No two hunks touch.
Apart(hs) == \A g, h \in hs : g # h => Before(h) > Bottom(g) \/ Before(g) > Bottom(h)

HunksOf(n) ==
  {h \in [os : 0..n, ol : 0..n, nl : 0..env.new] :
     IF h.ol = 0 THEN h.nl > 0 ELSE h.os > 0 /\ Bottom(h) <= n}

HunkSets(n) ==
  {{h} : h \in HunksOf(n)} \cup
  (IF "twoHunks" \notin env.may THEN {} ELSE
   {{g, h} : g \in HunksOf(n), h \in HunksOf(n)})

-----------------------------------------------------------------------------
(* Evidence.                                                                *)

Live(a) == day - ai[a].day <= AiTTL

Marked(who, p) == \E a \in who : Live(a) /\ p \in ai[a].paths
Stamp(who, p)  == Max({0} \cup {ai[a].stamp[p] : a \in {b \in who : Live(b) /\ p \in ai[b].paths}})

Own == Agent \ InSibling

\* ledgerLookup: the polled checkout first, then the sibling when it counts.
Lookup(p, wide) == IF Marked(Own, p) THEN Own ELSE IF wide THEN InSibling ELSE {}

Known(p, wide)   == Marked(Lookup(p, wide), p)
StampOf(p, wide) == Stamp(Lookup(p, wide), p)

Printed(p) == fp[p] # None /\ day - fp[p] < FpTTL

NoView == <<>>

\* The narrow view, of the checkouts that hold the commit, authorizes a seed; the
\* wide one, of every checkout, records what is spent.
Evidence(holds) ==
  [p \in Path |->
     [seedable |-> Known(p, holds), stamp    |-> StampOf(p, holds),
      known    |-> Known(p, TRUE),  recorded |-> Max({StampOf(p, TRUE), StampOf(p, holds)}),
      printed  |-> Printed(p)]]

-----------------------------------------------------------------------------
Init ==
  /\ env \in Environments
  /\ day = 0
  /\ log = <<>> /\ tip = 0
  /\ tree = [c \in {0} |-> [p \in Path |->
               IF p = CHOOSE q \in Path : TRUE
               THEN <<[by |-> 0, at |-> 0, k |-> 1, ai |-> FALSE]>> ELSE <<>>]]
  /\ sibHolds = TRUE
  /\ writes = 0
  /\ ai = [a \in Agent |-> [day |-> 0, paths |-> {}, stamp |-> [p \in Path |-> 0]]]
  /\ fp = [p \in Path |-> None]
  /\ cursor = None /\ spans = [p \in Path |-> Untracked] /\ seeded = [p \in Path |-> None]
  /\ pc = [w \in Poller |-> "idle"] /\ queue = [w \in Poller |-> <<>>]
  /\ held = [w \in Poller |-> FALSE]
  /\ view = [w \in Poller |-> NoView] /\ out = [w \in Poller |-> {}]
  /\ spent = {} /\ seen = {} /\ decided = {}

-----------------------------------------------------------------------------
(* The surroundings: commits, agents, time.                                 *)

Commit ==
  LET c == Len(log) + 1
  IN  /\ Len(log) < env.commits
      /\ \E p, from \in Path :
           /\ from # p => "rename" \in env.may /\ tree[tip][p] = <<>>
           /\ from # p => tree[tip][from] # <<>>
           /\ \E hs \in HunkSets(Len(tree[tip][from])) \cup (IF from # p THEN {{}} ELSE {}),
                 typed \in IF "squash" \in env.may THEN [1..env.new -> BOOLEAN]
                                                   ELSE {[k \in 1..env.new |-> FALSE]} :
                LET file == Patched(tree[tip][from], hs, c, typed)
                IN  /\ Apart(hs)
                    /\ Len(file) <= env.lines
                    /\ log' = Append(log, [parent |-> tip, path |-> p, from |-> from, hunks |-> hs])
                    /\ tree' = [n \in 0..c |->
                         IF n < c THEN tree[n]
                         ELSE [q \in Path |-> IF q = p THEN file
                                              ELSE IF q = from THEN <<>> ELSE tree[tip][q]]]
      /\ tip' = c
      /\ UNCHANGED <<env, day, sibHolds, otherVars, ledger, pollerVars, histVars>>

\* A reset, or a force push, away from the newest commit (bound: not back to it).
RewriteBranch ==
  /\ "rewrite" \in env.may
  /\ tip = Len(log)
  /\ \E c \in 0..(Len(log) - 1) : tip' = c
  /\ UNCHANGED <<env, day, log, tree, sibHolds, otherVars, ledger, pollerVars, histVars>>

SiblingMoves ==
  /\ "sibling" \in env.may
  /\ sibHolds' = ~sibHolds
  /\ UNCHANGED <<env, day, log, tree, tip, otherVars, ledger, pollerVars, histVars>>

\* recordAiTouchedPathAt.  pruneAiPaths runs after the session's entry has been
\* stamped, so a session that comes back keeps the paths it had.
AgentWrites(a, p) ==
  /\ writes < env.writes
  /\ ~Live(a) /\ ai[a].paths # {} => "resume" \in env.may
  /\ a \in InSibling => "sibling" \in env.may
  /\ writes' = writes + 1
  /\ ai' = [b \in Agent |->
       IF b = a THEN [day   |-> day,
                      paths |-> ai[a].paths \cup {p},
                      stamp |-> [ai[a].stamp EXCEPT ![p] = writes + 1]]
       ELSE IF Live(b) THEN ai[b]
       ELSE [day |-> 0, paths |-> {}, stamp |-> [q \in Path |-> 0]]]
  /\ UNCHANGED <<env, repoVars, fp, ledger, pollerVars, histVars>>

\* recordAiFingerprints: a commit on some other branch has AI lines in p.
Capture(p) ==
  /\ "squash" \in env.may
  /\ fp' = [fp EXCEPT ![p] = day]
  /\ UNCHANGED <<env, repoVars, writes, ai, ledger, pollerVars, histVars>>

NextDay ==
  /\ day < env.days
  /\ \A w \in Poller : pc[w] = "idle"
  /\ day' = day + 1
  /\ UNCHANGED <<env, log, tree, tip, sibHolds, otherVars, ledger, pollerVars, histVars>>

Surroundings == \/ Commit \/ RewriteBranch \/ SiblingMoves \/ NextDay
                \/ \E a \in Agent, p \in Path : AgentWrites(a, p)
                \/ \E p \in Path : Capture(p)

-----------------------------------------------------------------------------
(* pollDurability.                                                          *)

Goto(w, l) == pc' = [pc EXCEPT ![w] = l]

\* The commits that the cursor's commit reaches.
Chain[c \in 0..Len(log)] == IF c = 0 THEN {0} ELSE {c} \cup Chain[log[c].parent]

\* The first-parent commits of cursor..c, oldest first.
Unfolded[c \in 0..Len(log)] ==
  IF c = 0 \/ c \in Chain[cursor] THEN <<>> ELSE Append(Unfolded[log[c].parent], c)

\* Mutant: at most Burst of those up to the tip, from the wrong end of the list.
NewestToFold ==
  SubSeq(Unfolded[tip], Len(Unfolded[tip]) - Min({Burst, Len(Unfolded[tip])}) + 1, Len(Unfolded[tip]))

\* At most Burst of those up to the tip.
ToFold == SubSeq(Unfolded[tip], 1, Min({Burst, Len(Unfolded[tip])}))

\* rev-parse or rev-list fails: the root is left alone until the next poll, and
\* nothing changes.
PollRoot(w) ==
  /\ w = Main \/ "twoPollers" \in env.may
  /\ pc[w] = "idle"
  /\ IF cursor = None \/ (cursor # tip /\ ToFold = <<>>)
     THEN \* A baseline, or a backward move.
          /\ cursor' \in {tip} \cup (IF "writeFails" \in env.may THEN {cursor} ELSE {})
          /\ Goto(w, "harvest")
          /\ UNCHANGED <<queue, held>>
     ELSE /\ queue' = [queue EXCEPT ![w] = IF cursor = tip THEN <<>> ELSE ToFold]
          /\ held' = [held EXCEPT ![w] = sibHolds]
          /\ Goto(w, "fold")
          /\ UNCHANGED cursor
  /\ UNCHANGED <<env, repoVars, otherVars, spans, seeded, view, out, histVars>>

\* No commit is left, or its line-origin request cannot be published.
FoldLoopEnds(w) ==
  /\ pc[w] = "fold"
  /\ queue[w] = <<>> \/ "ioFails" \in env.may
  /\ queue' = [queue EXCEPT ![w] = <<>>]
  /\ held' = [held EXCEPT ![w] = FALSE]
  /\ Goto(w, "harvest")
  /\ UNCHANGED <<env, repoVars, otherVars, ledger, view, out, histVars>>

\* git show fails: pollDurabilityCommit returns, and the loop takes the next one.
ShowFails(w) ==
  /\ "gitFails" \in env.may
  /\ pc[w] = "fold" /\ queue[w] # <<>>
  /\ queue' = [queue EXCEPT ![w] = Tail(@)]
  /\ UNCHANGED <<env, repoVars, otherVars, ledger, pc, held, view, out, histVars>>

ReadEvidence(w) ==
  /\ \/ pc[w] = "fold" /\ queue[w] # <<>> /\ Goto(w, "apply")
     \/ pc[w] = "harvest" /\ Goto(w, "reap")
  /\ view' = [view EXCEPT ![w] = Evidence(held[w])]
  /\ UNCHANGED <<env, repoVars, otherVars, ledger, queue, held, out, histVars>>

-----------------------------------------------------------------------------
(* Tombstones.                                                              *)

\* A mark only rises.
Tombstoned(marks, p, stamp) == [marks EXCEPT ![p] = Max({@, stamp})]

Pruned(marks, v) == [p \in Path |-> IF v[p].known THEN marks[p] ELSE None]

Authorized(marks, p, stamp) == marks[p] = None \/ stamp > marks[p]

\* applyDurabilityRenames: the tombstone and the spans follow the file, and what
\* backs the old name now is spent.
CarriedMarks(marks, from, to, v) ==
  LET follow == IF marks[from] = None THEN marks
                ELSE Tombstoned(marks, to, Max({marks[from], v[to].recorded}))
  IN  IF spans[from] = Untracked THEN follow
      ELSE Tombstoned(follow, from, v[from].recorded)

CarriedSpans(from, to) ==
  IF from = to \/ spans[from] = Untracked THEN spans
  ELSE [spans EXCEPT ![from] = Untracked,
                     ![to] = [l \in DOMAIN spans[from] \cup DOMAIN spans[to] |->
                                IF l \in DOMAIN spans[to] THEN spans[to][l] ELSE spans[from][l]]]

-----------------------------------------------------------------------------
(* pollDurabilityCommit, under the ledger lock.                             *)

Verdict(line, kind) == [line |-> line, kind |-> kind, day |-> day]

\* The line a tracked offset stands for.
LineAt(c, p, l) == IF l \in 1..Len(tree[c][p]) THEN tree[c][p][l] ELSE [by |-> None]

\* Runs of new lines whose fingerprints match.
Transferred(c, p, hs) ==
  LET matched == {n \in NewSides(hs) : tree[c][p][n].ai}
  IN  {n \in matched : \E a \in (n - MinRun + 1)..n : a..(a + MinRun - 1) \subseteq matched}

Fold(w, saved) ==
  LET c     == Head(queue[w])
      p     == log[c].path
      from  == log[c].from
      hs    == log[c].hunks
      v     == view[w]
      files == CarriedSpans(from, p)
      swept == Pruned(seeded, v)
      marks == IF from = p THEN swept ELSE CarriedMarks(swept, from, p, v)
      Start(n, lin) == [n1 \in n |-> [lin |-> lin, born |-> day]]
      Continue(f, m) == IF saved THEN spans' = [files EXCEPT ![p] = f] /\ seeded' = m /\ cursor' = c
                                 ELSE UNCHANGED ledger
      Track(f) == seen' = seen \cup {tree[c][p][n] : n \in {m \in DOMAIN f : saved}}
  IN
  /\ pc[w] = "apply"
  /\ saved \/ "writeFails" \in env.may
  /\ queue' = [queue EXCEPT ![w] = Tail(@)]
  /\ view' = [view EXCEPT ![w] = NoView]
  /\ \/ /\ hs = {}
        /\ Continue(files[p], marks)
        /\ Goto(w, "fold") /\ UNCHANGED <<out, spent, seen>>
     \/ /\ hs # {} /\ files[p] # Untracked
        /\ LET lost == {l \in DOMAIN files[p] : Churned(l, hs)}
               left == Remapped(files[p], hs)
           IN  /\ Continue(left, IF left = Untracked THEN Tombstoned(marks, p, v[p].recorded)
                                                     ELSE marks)
               /\ out' = [out EXCEPT ![w] =
                            {Verdict(LineAt(log[c].parent, from, l), "churn") : l \in lost}]
               /\ Goto(w, IF lost = {} THEN "fold" ELSE "emitChurn")
        /\ UNCHANGED <<spent, seen>>
     \/ /\ hs # {} /\ files[p] = Untracked /\ v[p].printed
        /\ LET f == Start(Transferred(c, p, hs), Branch)
           IN  Continue(f, marks) /\ Track(f)
        /\ Goto(w, "fold") /\ UNCHANGED <<out, spent>>
     \/ /\ hs # {} /\ files[p] = Untracked /\ ~v[p].printed
        /\ LET seeds == v[p].seedable /\ Authorized(marks, p, v[p].stamp)
               f     == Start(IF seeds THEN NewSides(hs) ELSE {}, c)
           IN  /\ Continue(f, IF f # Untracked /\ marks[p] # None
                              THEN Tombstoned(marks, p, v[p].recorded) ELSE marks)
               /\ Track(f)
               /\ spent' = spent \cup {[path |-> p, stamp |-> v[p].stamp, by |-> c] : n \in {m \in DOMAIN f : saved}}
        /\ Goto(w, "fold") /\ UNCHANGED out
  /\ UNCHANGED <<env, repoVars, otherVars, held, decided>>

-----------------------------------------------------------------------------
(* harvestDurable.                                                          *)

Matured(p) == {l \in DOMAIN spans[p] : day - spans[p][l].born >= Window}

Remaining(p) == [l \in DOMAIN spans[p] \ Matured(p) |-> spans[p][l]]

Harvest(w, saved) ==
  LET swept == Pruned(seeded, view[w])
      lost  == UNION {{Verdict(LineAt(cursor, p, l), "durable") : l \in Matured(p)} : p \in Path}
  IN
  /\ pc[w] = "reap"
  /\ saved \/ "writeFails" \in env.may
  /\ view' = [view EXCEPT ![w] = NoView]
  /\ IF saved
     THEN /\ spans' = [p \in Path |-> Remaining(p)]
          /\ seeded' = [p \in Path |->
               IF Matured(p) # {} /\ Remaining(p) = Untracked
               THEN Tombstoned(swept, p, view[w][p].recorded)[p] ELSE swept[p]]
     ELSE UNCHANGED <<spans, seeded>>
  /\ out' = [out EXCEPT ![w] = lost]
  /\ Goto(w, IF lost = {} THEN "idle" ELSE "emitDurable")
  /\ UNCHANGED <<env, repoVars, otherVars, cursor, queue, held, histVars>>

EmitVerdicts(w) ==
  /\ \/ pc[w] = "emitChurn" /\ Goto(w, "fold")
     \/ pc[w] = "emitDurable" /\ Goto(w, "idle")
  /\ decided' = decided \cup out[w]
  /\ out' = [out EXCEPT ![w] = {}]
  /\ UNCHANGED <<env, repoVars, otherVars, ledger, queue, held, view, spent, seen>>

\* A poller dies; what it has not written or emitted is gone.
Crash(w) ==
  /\ "crash" \in env.may
  /\ pc[w] # "idle"
  /\ Goto(w, "idle")
  /\ queue' = [queue EXCEPT ![w] = <<>>] /\ view' = [view EXCEPT ![w] = NoView]
  /\ out' = [out EXCEPT ![w] = {}] /\ held' = [held EXCEPT ![w] = FALSE]
  /\ UNCHANGED <<env, repoVars, otherVars, ledger, histVars>>

Poll(w) == \/ PollRoot(w) \/ FoldLoopEnds(w) \/ ShowFails(w) \/ ReadEvidence(w)
           \/ (\E saved \in BOOLEAN : Fold(w, saved) \/ Harvest(w, saved)) \/ EmitVerdicts(w) \/ Crash(w)

Next == Surroundings \/ \E w \in Poller : Poll(w)

Spec == Init /\ [][Next]_vars
-----------------------------------------------------------------------------
Undisturbed(faults) == env.may \cap faults = {}

\* Where the commits and the ledger are what the fold takes them for.
Regular == Undisturbed({"gitFails", "rewrite", "twoPollers", "writeFails"})

\* The types, and: a tombstone or a tracked line names something that exists, and
\* only a poller in its fold loop has commits queued.
TypeOK ==
  /\ env \in Environments /\ day \in 0..env.days /\ writes \in 0..env.writes
  /\ tip \in 0..Len(log) /\ cursor \in {None} \cup 0..Len(log)
  /\ \A p \in Path : /\ DOMAIN spans[p] \subseteq IF Regular THEN 1..env.lines ELSE Int
                     /\ \A l \in DOMAIN spans[p] : spans[p][l].born \in 0..day
                     /\ seeded[p] \in {None} \cup 0..writes
  /\ \A w \in Poller : queue[w] # <<>> => pc[w] \in {"fold", "apply", "emitChurn"}

\* Once set, the cursor moves to a child of the commit it is at: no commit of the
\* default branch is skipped (pollDurabilityCommit: "this commit is retried next
\* poll rather than silently skipped") or folded twice.
NoCommitSkipped ==
  [][cursor # None /\ cursor' # cursor => log[cursor'].parent = cursor]_vars

\* The same, where git show, the ledger's file and the branch behave and one
\* process polls.
CursorFollows ==
  [][Regular /\ cursor # None /\ cursor' # cursor => log[cursor'].parent = cursor]_vars

\* Every tracked line is, in the file at the cursor, a line that its lineage brought
\* in: the arithmetic on hunks, through edits above, inside and below a span, two
\* hunks of one commit and renames, never slides a span onto somebody else's line.
LinesTrue ==
  Regular =>
    \A p \in Path : \A l \in DOMAIN spans[p] :
      LET line == LineAt(cursor, p, l)
      IN  /\ line.by # None
          /\ IF spans[p][l].lin = Branch THEN line.ai ELSE line.by = spans[p][l].lin

\* A line gets one terminal verdict: it is not both churned and durable, nor
\* either of them twice, also when pollers die between the ledger and the outbox.
DecidedOnce ==
  Regular => \A d, e \in decided : d.line = e.line => d = e

\* A line that was once tracked is still tracked, or about to be reported, or
\* reported: no span is dropped without a verdict, when no poller dies.
Accounted ==
  Regular /\ Undisturbed({"crash"}) =>
    \A line \in seen :
      \/ \E p \in Path : \E l \in DOMAIN spans[p] : LineAt(cursor, p, l) = line
      \/ \E w \in Poller : \E d \in out[w] : d.line = line
      \/ \E d \in decided : d.line = line

\* One AI write seeds a path at most once, whatever churns it, harvests it, renames
\* it or moves the sibling worktree in between (durabilitySeedAuthorized).  A
\* session that comes back after aiPathsTTL, and two pollers, do break this.
EvidenceSpentOnce ==
  Undisturbed({"resume", "twoPollers"}) =>
    \A x, y \in spent : x.path = y.path /\ x.stamp = y.stamp => x = y

\* What the verdicts say is true: they are about lines of the AI, each line gets one, no
\* line is dropped without one, no write is counted twice, and no commit is passed over
\* (pollDurabilityCommit, harvestDurable).
LedgerTrue == LinesTrue /\ DecidedOnce /\ Accounted /\ EvidenceSpentOnce
VerdictsTrue == []LedgerTrue /\ CursorFollows
=============================================================================
