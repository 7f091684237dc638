------------------------------ MODULE GitWatch ------------------------------
(***************************************************************************)
(* The git watcher of internal/capture: pollGitWatchWorkspace looks at the *)
(* HEAD of every checkout of a repository, asks for the line origin of the *)
(* new commits, moves the cursors, attributes each commit once, folds it   *)
(* into the rework ledger of its checkout, and then looks for commits that *)
(* no HEAD reaches.  With it: the rework ledger (rework.go), the ledger of *)
(* attributed commits, the ref tips, and the pending line-origin requests  *)
(* with their worker.                                                      *)
(*                                                                         *)
(* Commits are numbered in the order they are made, which is their date    *)
(* order.  What a file holds is named by the commit that changed it last,  *)
(* so two line spaces of a path differ exactly when these names do.  The   *)
(* default branch has no remote.                                           *)
(***************************************************************************)
EXTENDS Integers, Sequences, FiniteSets, FiniteSetsExt, SequencesExt

CONSTANTS
  RootOrder,    \* the checkouts of the repository, in the order a poll visits them
  Path,
  Environments  \* what a behaviour may meet, and its bounds

Root == ToSet(RootOrder)

ConditionKinds ==
  { "rename",     \* commits rename files
    "delete",     \* commits delete files
    "switch",     \* HEAD moves between branches
    "detach",     \* HEAD leaves its branch
    "worktree",   \* another checkout appears
    "merge",      \* branches are merged
    "fastForward",\* a branch is moved on to another one
    "amend",      \* the tip of a branch is replaced
    "gc",         \* commits no ref reaches are pruned
    "foreign",    \* commits of other authors arrive
    "worker",     \* the line-origin worker runs
    "untraceable",\* the line origin of some commits can never be found
    "midpoll",    \* git commands run in the middle of a poll
    "gitFails",   \* the probe that guards a cursor fails
    "rangeFails", \* git cannot list a range
    "authorFails",\* git cannot tell whose a commit is
    "ledgerFails",\* attributed-commits.json cannot be read, or written, or forgets
    "showFails",  \* git show fails
    "ioFails",    \* publishing a line-origin request, or writing the cursors, fails
    "refused",    \* the outbox refuses an event
    "crash" }     \* the daemon dies in the middle of a poll

\* may: what may occur.  The bounds: the paths that change, commits beside the first,
\* moves of HEAD and of branches, AI writes, failures.  cap and total:
\* gitWatchMaxCommitsPerPoll, gitWatchMaxCommitsPerPollTotal.
EnvironmentType ==
  [may : SUBSET ConditionKinds, paths : SUBSET Path, commits : Nat, moves : Nat, writes : Nat,
   faults : Nat, cap : Nat \ {0}, total : Nat \ {0}]

ASSUME GitWatchAssumption ==
  /\ RootOrder \in Seq(Root) \ {<<>>} /\ IsFiniteSet(Path) /\ Path # {}
  /\ \A e \in Environments : e \in EnvironmentType

Default  == "main"
Branch   == {Default, "a", "b"}
NoBranch == ""        \* a detached HEAD
Absent   == "absent"  \* a checkout that does not exist yet
None     == -1        \* no tombstone

VARIABLES
  env,        \* one of Environments
  moves, faults,
  \* The repository.
  log,        \* log[c]: first parent, what c reaches, its chain, author, change, files
  gone,       \* commits that are pruned
  tip,        \* tip[b], 0 when there is no such branch
  on, head,   \* the branch and the HEAD of each checkout
  wrote,      \* wrote[r][p]: the stamp of the last AI write to p in checkout r, 0 for none
  \* git-watch-cursors.json: the last seen HEAD and the replay owed, 0 for none.
  cursor, replay,
  recorded,       \* attributed-commits.json
  tips, deferred, \* git-watch-ref-tips.json
  rework,         \* rework.json, per checkout
  jobs, traced,   \* line-origin-pending-v1 by age, line-origin-commits-v1.json
  \* The poll.
  pc, todo,       \* program counter, checkouts still to visit
  found,          \* what pollGitWatch returns per checkout, and the cursor and replay to save
  budget,
  batch, mode,    \* commits of the checkout at hand still to attribute; how they are folded
  ours,           \* gitOwnCommits: those of them that are this device's
  held,           \* newSiblingLineage: the checkouts that hold each of them
  seen, emitted,  \* the attributed set in memory, what this poll added to it
  \* History.
  sent,           \* commits a commit_attribution went out for
  forgotten,      \* those that the ledger of attributed commits has lost since
  resent,         \* those it went out for again although it had not
  passed,         \* <<checkout, commit>> that a cursor has moved over
  baseline,       \* what a checkout held when it was first seen, and is not replayed
  skipped,        \* commits passed over in silence as git failed or the daemon died
  declined        \* commits the outbox refused once they were passed

gitVars    == <<log, gone, tip, on, head, wrote>>
fileVars   == <<cursor, replay, recorded, tips, deferred, rework>>
originVars == <<jobs, traced>>
pollVars   == <<pc, todo, found, budget, batch, mode, ours, held, seen, emitted>>
histVars   == <<sent, forgotten, resent, passed, baseline, skipped, declined>>
vars == <<env, moves, faults, gitVars, fileVars, originVars, pollVars, histVars>>

May(k) == k \in env.may

\* An operation succeeds, or fails at the price of one of the failures allowed.
Outcome(k, ok) ==
  /\ ok \/ (May(k) /\ faults < env.faults)
  /\ faults' = IF ok THEN faults ELSE faults + 1

\* The same of one that may fail as often as it is tried.
Works(k, ok) == ok \/ May(k)

-----------------------------------------------------------------------------
(* The repository.                                                          *)

Commit  == DOMAIN log
Present == {r \in Root : on[r] # Absent}
Newest(S, n) == {c \in S : Cardinality({d \in S : d > c}) < n}
Oldest(S, n) == {c \in S : Cardinality({d \in S : d < c}) < n}

Between(old, new) == log[new].reach \ log[old].reach       \* git rev-list old..new
Chain(old, new)   == log[new].chain \ log[old].reach       \* ... --first-parent

TipsOf(t)  == {t[b] : b \in Branch} \ {0}
Reachable  == UNION {log[c].reach : c \in TipsOf(tip) \cup {head[r] : r \in Present}}

\* A change: its kind, the path, and the path it is renamed to.
Shapes ==
  {[kind |-> k, path |-> p, to |-> p] : k \in {"add", "rewrite"}, p \in env.paths}
  \cup (IF May("delete") THEN {[kind |-> "delete", path |-> p, to |-> p] : p \in env.paths} ELSE {})
  \cup (IF May("rename") THEN {[kind |-> "rename", path |-> p, to |-> q] : p \in env.paths, q \in env.paths} ELSE {})

Fits(s, files) ==
  CASE s.kind = "add"    -> TRUE
    [] s.kind = "rename" -> s.path # s.to /\ files[s.path] # 0 /\ files[s.to] = 0
    [] OTHER             -> files[s.path] # 0

FilesAfter(s, files, c) ==
  CASE s.kind = "delete" -> [files EXCEPT ![s.path] = 0]
    [] s.kind = "rename" -> [files EXCEPT ![s.path] = 0, ![s.to] = files[s.path]]
    [] OTHER             -> [files EXCEPT ![s.path] = c]

NewCommit == Len(log) + 1

Entry(first, own, s) ==
  [first |-> first, own |-> own, change |-> s,
   reach |-> log[first].reach \cup {NewCommit}, chain |-> log[first].chain \cup {NewCommit},
   files |-> FilesAfter(s, log[first].files, NewCommit)]

AnyPath == CHOOSE p \in Path : TRUE
MergeChange == [kind |-> "merge", path |-> AnyPath, to |-> AnyPath]

\* The paths a commit changes against its first parent: those with hunks ...
Hunked(c) ==
  LET s == log[c].change
  IN  CASE s.kind = "rename" -> {}
        [] s.kind = "merge"  -> {p \in Path : log[c].files[p] # log[log[c].first].files[p]}
        [] OTHER             -> {s.path}
\* ... and those with new-side lines (parseUnifiedDiffNewRanges).
Added(c) == IF log[c].change.kind = "delete" THEN {} ELSE Hunked(c)

-----------------------------------------------------------------------------
Ledger == [branch |-> NoBranch, adopting |-> FALSE,
           at   |-> [p \in Path |-> 0],     \* the content the spans of p stand in, 0 for no spans
           tomb |-> [p \in Path |-> None],  \* seed tombstones
           \* History: the stamp of the last seed of p; a seed was made on a stamp no
           \* later; spans were moved by the hunks of a diff against other content; a
           \* commit was left out while spans stood.
           last |-> [p \in Path |-> None], respent |-> FALSE,
           slid |-> FALSE, missed |-> FALSE]

\* unseen is history: what the cursor will pass unlisted.
Nothing == [commits |-> {}, fold |-> {}, drained |-> FALSE, cold |-> 0, to |-> 0, owed |-> 0, unseen |-> {}]

Init ==
  /\ env \in Environments /\ moves = 0 /\ faults = 0
  /\ log = <<[first |-> 0, own |-> TRUE, change |-> [kind |-> "add", path |-> AnyPath, to |-> AnyPath],
              reach |-> {1}, chain |-> {1},
              files |-> [p \in Path |-> IF p = AnyPath THEN 1 ELSE 0]]>>
  /\ gone = {}
  /\ tip = [b \in Branch |-> IF b = Default THEN 1 ELSE 0]
  /\ on = [r \in Root |-> IF r = Head(RootOrder) THEN Default ELSE Absent]
  /\ head = [r \in Root |-> IF r = Head(RootOrder) THEN 1 ELSE 0]
  /\ wrote = [r \in Root |-> [p \in Path |-> 0]]
  /\ cursor = [r \in Root |-> 0] /\ replay = [r \in Root |-> 0]
  /\ recorded = {} /\ tips = {} /\ deferred = {}
  /\ rework = [r \in Root |-> Ledger]
  /\ jobs = <<>> /\ traced = {}
  /\ pc = "idle" /\ todo = {} /\ found = [r \in Root |-> Nothing] /\ budget = 0
  /\ batch = {} /\ mode = "skip" /\ ours = {} /\ held = {} /\ seen = {} /\ emitted = {}
  /\ sent = {} /\ forgotten = {} /\ resent = {} /\ passed = {} /\ baseline = {} /\ skipped = {} /\ declined = {}

-----------------------------------------------------------------------------
(* git, and the agents.                                                     *)

BetweenSteps == pc = "idle" \/ May("midpoll")
Move == moves < env.moves /\ BetweenSteps /\ moves' = moves + 1

GitMoved(r, b, c) ==
  /\ on' = [on EXCEPT ![r] = b] /\ head' = [head EXCEPT ![r] = c]
  /\ UNCHANGED <<env, faults, gone, wrote, fileVars, originVars, pollVars, histVars>>

\* The tip of a branch is only moved by the checkout that is on it.
Free == Branch \ {on[r] : r \in Root}

\* A commit on top of HEAD; a foreign one arrives by a fast-forward.
MakeCommit(r) ==
  /\ r \in Present /\ Len(log) <= env.commits /\ BetweenSteps
  /\ \E s \in Shapes, own \in {TRUE} \cup (IF May("foreign") THEN {FALSE} ELSE {}) :
       /\ Fits(s, log[head[r]].files)
       /\ log' = Append(log, Entry(head[r], own, s))
  /\ tip' = IF on[r] = NoBranch THEN tip ELSE [tip EXCEPT ![on[r]] = NewCommit]
  /\ GitMoved(r, on[r], NewCommit)
  /\ UNCHANGED moves

Switch(r) ==
  /\ May("switch") /\ Move /\ r \in Present
  /\ \E b \in Free :
       LET c == IF tip[b] = 0 THEN head[r] ELSE tip[b]
       IN  tip' = [tip EXCEPT ![b] = c] /\ GitMoved(r, b, c)
  /\ UNCHANGED log

Detach(r) ==
  /\ May("detach") /\ Move /\ on[r] \in Branch
  /\ \E c \in Reachable : GitMoved(r, NoBranch, c)
  /\ UNCHANGED <<log, tip>>

Reattach(r) ==
  /\ May("detach") /\ Move /\ on[r] = NoBranch
  /\ \E b \in Free : tip[b] # 0 /\ GitMoved(r, b, tip[b])
  /\ UNCHANGED <<log, tip>>

AddWorktree(r) ==
  /\ May("worktree") /\ Move /\ on[r] = Absent
  /\ \E b \in Free :
       \E c \in IF tip[b] = 0 THEN TipsOf(tip) ELSE {tip[b]} :
         tip' = [tip EXCEPT ![b] = c] /\ GitMoved(r, b, c)
  /\ UNCHANGED log

Merge(r) ==
  /\ May("merge") /\ Move /\ Len(log) <= env.commits /\ on[r] \in Branch
  /\ \E o \in TipsOf(tip) :
       LET h == head[r]
       IN  /\ o \notin log[h].reach /\ h \notin log[o].reach
           /\ log' = Append(log,
                [first |-> h, own |-> TRUE, change |-> MergeChange,
                 reach |-> log[h].reach \cup log[o].reach \cup {NewCommit},
                 chain |-> log[h].chain \cup {NewCommit},
                 files |-> [p \in Path |-> IF \E c \in Between(h, o) : p \in Hunked(c)
                                           THEN NewCommit ELSE log[h].files[p]]])
  /\ tip' = [tip EXCEPT ![on[r]] = NewCommit]
  /\ GitMoved(r, on[r], NewCommit)

FastForward(r) ==
  /\ May("fastForward") /\ Move /\ on[r] \in Branch
  /\ \E o \in TipsOf(tip) :
       /\ head[r] \in log[o].reach \ {o}
       /\ tip' = [tip EXCEPT ![on[r]] = o] /\ GitMoved(r, on[r], o)
  /\ UNCHANGED log

Amend(r) ==
  /\ May("amend") /\ Move /\ Len(log) <= env.commits /\ on[r] \in Branch
  /\ log[head[r]].first # 0
  /\ \E s \in Shapes :
       /\ Fits(s, log[log[head[r]].first].files)
       /\ log' = Append(log, Entry(log[head[r]].first, TRUE, s))
  /\ tip' = [tip EXCEPT ![on[r]] = NewCommit]
  /\ GitMoved(r, on[r], NewCommit)

Prune ==
  /\ May("gc") /\ BetweenSteps
  /\ gone' = Commit \ Reachable /\ gone' # gone
  /\ UNCHANGED <<env, moves, faults, log, tip, on, head, wrote, fileVars, originVars, pollVars, histVars>>

LastStamp == Max({0} \cup UNION {{wrote[r][p] : p \in Path} : r \in Root})

AgentWrites(r, p) ==
  /\ r \in Present /\ BetweenSteps
  /\ LastStamp < env.writes
  /\ wrote' = [wrote EXCEPT ![r][p] = LastStamp + 1]
  /\ UNCHANGED <<env, moves, faults, log, gone, tip, on, head, fileVars, originVars, pollVars, histVars>>

-----------------------------------------------------------------------------
(* pollGitWatch: the HEADs, the line-origin requests, the cursors.          *)

\* The checkout of S that a poll visits first.
First(S) == RootOrder[Min({i \in DOMAIN RootOrder : RootOrder[i] \in S})]

Rest(r) == todo \ {r}
At(step, r) == pc = step /\ todo # {} /\ r = First(todo)
Go(step, next) == pc' = step /\ todo' = next

StartPoll ==
  /\ pc = "idle"
  /\ Go("heads", Present)
  /\ found' = [r \in Root |-> [Nothing EXCEPT !.to = cursor[r], !.owed = replay[r]]]
  /\ budget' = env.total
  /\ UNCHANGED <<env, moves, faults, gitVars, fileVars, originVars, batch, mode, ours, held, seen, emitted, histVars>>

\* requestLineOrigins, oldest first: it stops at the first request it cannot publish.
\* A request that is already pending is left as it is.
Published(r, S, n) ==
  LET new == {c \in Oldest(S, n) : <<r, c>> \notin ToSet(jobs)}
  IN  jobs \o [i \in 1..Cardinality(new) |-> <<r, Max(Oldest(new, i))>>]

\* recentBranchBase, 0 when there is none.
RecentBase(h) ==
  LET own == Chain(tip[Default], h)
  IN  IF own = {} THEN 0 ELSE log[Min(own)].first

\* gitNewCommits: what git lists of the range, or else the newest commits of HEAD ...
NewCommits(old, h, listed) ==
  IF listed THEN Oldest(Between(old, h), env.cap) ELSE Newest(log[h].reach, env.cap)

\* Mutant: the fold takes all of the range.
FoldableAll(old, h, listed) == NewCommits(old, h, listed)

\* ... and the subset the rework fold may apply.
Foldable(old, h, listed) == IF listed THEN Chain(old, h) ELSE log[h].chain

\* A checkout is baselined, starts late (its recent commits are owed as a replay),
\* goes on with a replay, or compares its HEAD with the cursor.  based: git finds where
\* the recent commits start; lists: git lists the range.
Visit(r, based, lists) ==
  LET h       == head[r]
      cold    == cursor[r] = 0
      recent  == IF cold /\ \E x \in Root : cursor[x] # 0 THEN RecentBase(h) ELSE 0
      base    == IF based THEN recent ELSE 0
      old     == IF cold THEN base ELSE cursor[r]
      target  == IF cold THEN h ELSE replay[r]
      replays == target # 0
      listed  == lists /\ {old, target} \cap gone = {}
      range   == IF replays THEN Oldest(Chain(old, target), env.cap)
                 ELSE IF old = h THEN {} ELSE NewCommits(old, h, listed)
      take    == Oldest(range, budget)
      f       == [found[r] EXCEPT !.cold = IF cold THEN h ELSE 0]
      Found(g)   == found' = [found EXCEPT ![r] = g]
      Skip(g)    == Found(g) /\ UNCHANGED <<faults, jobs, budget>>
      Take(g) ==
        \E n \in 0..Cardinality(take) :
          LET ok == n = Cardinality(take)
          IN  /\ Outcome("ioFails", ok)
              /\ jobs' = Published(r, take, n)
              /\ IF ok THEN Found([g EXCEPT !.commits = take]) /\ budget' = budget - n
                 ELSE Found(IF cold THEN [f EXCEPT !.to = old, !.owed = target] ELSE f)
                      /\ UNCHANGED budget
  IN
  /\ \/ /\ cold /\ base = 0
        /\ Skip([f EXCEPT !.to = h, !.drained = TRUE, !.unseen = IF recent = 0 THEN {} ELSE Chain(recent, h)])
     \/ /\ old # 0 /\ replays
        /\ \/ /\ ~listed     \* the replay is given up
              /\ Skip([f EXCEPT !.to = h, !.owed = 0,
                                !.unseen = Between(old, h) \cup Chain(old, target) \cup Between(target, h)])
           \/ /\ listed
              /\ \/ /\ range # {} /\ take = {}
                    /\ Skip([f EXCEPT !.to = old, !.owed = target])
                 \/ /\ (range = {} \/ take # {})
                    /\ LET last == range = {} \/ target \in take
                       IN  Take([f EXCEPT !.to = IF last THEN target ELSE Max(take),
                                          !.owed = IF last THEN 0 ELSE target,
                                          !.drained = last /\ target = h])
     \/ /\ old # 0 /\ ~replays
        /\ \/ range = {} /\ Skip([f EXCEPT !.to = h, !.drained = TRUE])
           \/ range # {} /\ take = {} /\ Skip(f)
           \/ /\ take # {}
              /\ Take([f EXCEPT !.to = Max(take), !.fold = Foldable(old, h, listed), !.drained = Max(take) = h,
                                !.unseen = IF listed THEN {} ELSE Between(old, Max(take)) \ take])
           \/ /\ range # {} /\ Outcome("gitFails", FALSE)     \* the first-parent probe fails
              /\ Found(f) /\ UNCHANGED <<jobs, budget>>
  /\ baseline' = baseline \cup
       (IF ~cold THEN {} ELSE IF recent = 0 THEN log[h].reach ELSE log[h].reach \ Chain(recent, h))

PollHead(r) ==
  /\ At("heads", r)
  /\ Go("heads", Rest(r))
  /\ \E based, lists \in BOOLEAN : Works("rangeFails", based /\ lists) /\ Visit(r, based, lists)
  /\ UNCHANGED <<env, moves, gitVars, fileVars, traced, batch, mode, ours, held, seen, emitted,
                 sent, forgotten, resent, passed, skipped, declined>>

\* History: what the cursor of r moves over.  A replay, and a checkout that starts
\* late, go along the first parents.
Over(r) ==
  LET to == found[r].to
  IN  (IF to = 0 THEN {}
       ELSE IF cursor[r] = 0 THEN log[to].chain \ baseline
       ELSE IF replay[r] # 0 THEN Chain(cursor[r], to)
       ELSE Between(cursor[r], to)) \ found[r].unseen

\* saveGitWatchCursors: cursors and replays in one file.  Then the attributed set is
\* read, once for the whole poll (loadAttributedCommits).
SaveCursors(saved) ==
  /\ pc = "heads" /\ todo = {}
  /\ Outcome("ioFails", saved)
  /\ IF saved
     THEN /\ cursor' = [r \in Root |-> found[r].to]
          /\ replay' = [r \in Root |-> found[r].owed]
          /\ passed' = passed \cup UNION {{r} \X Over(r) : r \in Root}
          /\ skipped' = skipped \cup UNION {found[r].unseen : r \in Root}
     ELSE UNCHANGED <<cursor, replay, passed, skipped>>
  /\ \E known \in SUBSET recorded :
       /\ Works("ledgerFails", known = recorded)
       /\ seen' = known /\ forgotten' = forgotten \cup (recorded \ known)
  /\ Go("bind", Present)
  /\ UNCHANGED <<env, moves, gitVars, recorded, tips, deferred, rework, originVars,
                 found, budget, batch, mode, ours, held, emitted, sent, resent, baseline, declined>>

-----------------------------------------------------------------------------
(* rework.go.                                                               *)

\* The stamp of the mark for p of the checkout itself, or else of the first of these
\* others that has one (ledgerLookup).
Stamp(r, others, p) ==
  LET marked == {i \in DOMAIN RootOrder : RootOrder[i] \in others /\ wrote[RootOrder[i]][p] # 0}
  IN  IF wrote[r][p] # 0 \/ marked = {} THEN wrote[r][p] ELSE wrote[RootOrder[Min(marked)]][p]

\* newSiblingLineage: <<sibling, commit>> such that the sibling holds the commit.
Lineage(r, S) == {m \in (Present \ {r}) \X S : m[2] \in log[head[m[1]]].reach}
Holding(lin, c) == {x \in Root : <<x, c>> \in lin}

SeedStamp(r, lin, c, p) == Stamp(r, Holding(lin, c), p)
WriteStamp(r, lin, c, p) == Max({Stamp(r, Root, p), SeedStamp(r, lin, c, p)})

\* A mark only rises.
Tombstoned(L, p, stamp) == [L EXCEPT !.tomb[p] = Max({@, stamp})]

\* Mutant: the write that was spent is as good as a later one.
AuthorizedAgain(L, p, stamp) == L.tomb[p] = None \/ (stamp # 0 /\ stamp >= L.tomb[p])

Authorized(L, p, stamp) == L.tomb[p] = None \/ (stamp # 0 /\ stamp > L.tomb[p])

\* applyReworkRenames.
Carried(L, from, to, w) ==
  LET follow == IF L.tomb[from] = None THEN L
                ELSE Tombstoned(L, to, Max({L.tomb[from], w[to]}))
  IN  IF L.at[from] = 0 THEN follow
      ELSE [Tombstoned(follow, from, w[from]) EXCEPT !.at[from] = 0, !.at[to] = L.at[from]]

\* Remap: the hunks move the spans of p, or rewrite them.
Remapped(L, c, p, w) ==
  LET slid == [L EXCEPT !.slid = @ \/ L.at[p] # log[log[c].first].files[p]]
  IN  IF log[c].change.kind \in {"rewrite", "delete"}
      THEN [Tombstoned(slid, p, w[p]) EXCEPT !.at[p] = 0]
      ELSE [slid EXCEPT !.at[p] = log[c].files[p]]

Seeded(L, c, p, stamp, w) ==
  [(IF L.tomb[p] = None THEN L ELSE Tombstoned(L, p, w[p])) EXCEPT
     !.at[p] = c, !.last[p] = stamp, !.respent = @ \/ stamp <= L.last[p]]

\* foldReworkCommit: renames, then hunks, then seeds on the likely_ai paths.
Fold(L, r, c, lin, seeds) ==
  LET s     == log[c].change
      w     == [p \in Path |-> WriteStamp(r, lin, c, p)]
      moved == IF s.kind = "rename" THEN Carried(L, s.path, s.to, w) ELSE L
      hit   == {p \in Hunked(c) : moved.at[p] # 0}
      after == FoldSet(LAMBDA p, M : Remapped(M, c, p, w), moved, hit)
      fresh == {p \in Added(c) \ hit : /\ seeds /\ SeedStamp(r, lin, c, p) # 0
                                       /\ Authorized(after, p, SeedStamp(r, lin, c, p))}
  IN  FoldSet(LAMBDA p, M : Seeded(M, c, p, SeedStamp(r, lin, c, p), w), after, fresh)

\* releaseReworkSpans.
Released(L, r) ==
  FoldSet(LAMBDA p, M : [Tombstoned(M, p, Stamp(r, Root, p)) EXCEPT !.at[p] = 0],
          L, {p \in Path : L.at[p] # 0})

\* adoptReworkBranch.
Adopted(b) == [Ledger EXCEPT !.branch = b, !.adopting = TRUE]

\* replayReworkForColdStartBranch: all of the branch's commits, in silence, when the
\* device has attributed one of them; nothing when they are too many.
ColdReplay(L, r, h, own) ==
  LET range == Chain(tip[Default], h)
  IN  IF Cardinality(range) > env.cap \/ range \cap seen = {} THEN L
      ELSE MapThenFoldSet(LAMBDA c, M : Fold(M, r, c, Lineage(r, range), c \in own), L,
                           LAMBDA c : c, Max, range)

\* finishReworkAdoption, once the root has reached its head.
Finished(L, drained) == IF drained THEN [L EXCEPT !.adopting = FALSE] ELSE L

-----------------------------------------------------------------------------
(* The attribution loop.                                                    *)

\* gitOwnCommits: a probe that fails proves fewer of them this device's, or none; and
\* where no email can be read, there is no gate and all of them are.
OwnCommits(S, probed) ==
  LET own == {c \in S : log[c].own}
  IN  IF probed THEN {own} ELSE {S} \cup SUBSET own

\* reworkScope, once per checkout: its ledger, and what a cold start replays into it,
\* given whose the commits are.  A branch that git cannot list is not replayed.
Bound(r, probed) ==
  LET f     == found[r]
      adopt == on[r] # rework[r].branch
      L     == IF adopt THEN Adopted(on[r]) ELSE rework[r]
  IN  IF ~adopt \/ f.cold = 0 THEN {L}
      ELSE {ColdReplay(L, r, f.cold, own) : own \in OwnCommits(Chain(tip[Default], f.cold), probed)}
           \cup (IF probed THEN {} ELSE {L})

BindRoot(r) ==
  LET f       == found[r]
      b       == on[r]
      Bind(M) == rework' = [rework EXCEPT ![r] = IF f.commits = {} THEN Finished(M, f.drained) ELSE M]
  IN
  /\ At("bind", r)
  /\ \/ /\ b = Default
        /\ rework' = [rework EXCEPT ![r] = Ledger] /\ mode' = "skip"
     \/ /\ b = NoBranch
        /\ rework' = [rework EXCEPT ![r] = IF f.commits = {} THEN @ ELSE Released(@, r)]
        /\ mode' = "skip"
     \/ /\ b \notin {Default, NoBranch}
        /\ \E probed \in BOOLEAN : \E M \in Bound(r, probed) :
             /\ Works("authorFails", probed) /\ Bind(M)
             /\ mode' = IF M.adopting THEN "adopt" ELSE "fold"
  /\ \E probed \in BOOLEAN : Works("authorFails", probed) /\ ours' \in OwnCommits(f.commits, probed)
  /\ batch' = f.commits
  /\ held' = Lineage(r, f.commits)
  /\ IF f.commits = {} THEN Go("bind", Rest(r)) ELSE Go("commits", todo)
  /\ UNCHANGED <<env, moves, faults, gitVars, cursor, replay, recorded, tips, deferred, originVars,
                 found, budget, seen, emitted, histVars>>

\* Mutant: forgotten when the poll ends.
RememberForNow(c) == seen' = seen \cup {c} /\ UNCHANGED emitted

Remember(c) == seen' = seen \cup {c} /\ emitted' = emitted \cup {c}

Tracks(L) == \E p \in Path : L.at[p] # 0

\* History: a commit that was reported before is not folded.
LeftOut(L) == [L EXCEPT !.missed = @ \/ Tracks(L)]

\* History: commit_attributions go out; a commit whose report the ledger had lost is
\* reported anew.
Send(S) ==
  /\ sent' = sent \cup S /\ forgotten' = forgotten \ S
  /\ resent' = resent \cup (S \cap (sent \ forgotten))

\* The next commit, oldest first: one that was attributed is at most replayed in
\* silence; a foreign one, and one without new lines, is recorded unsent; any other
\* is sent, and folded and recorded only if it could be queued.
AttributeCommit(r) ==
  LET c      == Min(batch)
      folds  == mode # "skip" /\ c \in found[r].fold
      left   == batch \ {c}
      Ends(L)   == IF left = {} /\ mode = "adopt" THEN Finished(L, found[r].drained) ELSE L
      Update(L) == rework' = [rework EXCEPT ![r] = Ends(L)]
      Folded(seeds) == Fold(rework[r], r, c, held, seeds)
      seeds  == c \in ours /\ Added(c) # {}
  IN
  /\ At("commits", r)
  /\ batch' = left
  /\ IF left = {} THEN Go("bind", Rest(r)) ELSE Go("commits", todo)
  /\ \/ /\ c \in seen
        /\ Update(IF ~folds THEN rework[r]
                  ELSE IF mode = "adopt" THEN Folded(seeds) ELSE LeftOut(rework[r]))
        /\ UNCHANGED <<seen, emitted, faults, sent, forgotten, resent, skipped, declined>>
     \/ /\ c \notin seen /\ ~seeds
        /\ Update(IF folds THEN Folded(FALSE) ELSE rework[r])
        /\ Remember(c)
        /\ skipped' = IF log[c].own /\ c \notin ours THEN skipped \cup {c} ELSE skipped
        /\ UNCHANGED <<faults, sent, forgotten, resent, declined>>
     \/ /\ c \notin seen /\ Outcome("showFails", FALSE)       \* no diff: nothing to attribute
        /\ Update(rework[r])
        /\ Remember(c) /\ skipped' = skipped \cup {c}
        /\ UNCHANGED <<sent, forgotten, resent, declined>>
     \/ /\ c \notin seen /\ seeds
        /\ \E queued \in BOOLEAN :
             /\ Outcome("refused", queued)
             /\ IF queued
                THEN /\ Update(IF folds THEN Folded(TRUE) ELSE rework[r])
                     /\ Remember(c) /\ Send({c}) /\ UNCHANGED declined
                ELSE /\ Update(rework[r]) /\ declined' = declined \cup {c}
                     /\ UNCHANGED <<seen, emitted, sent, forgotten, resent>>
        /\ UNCHANGED skipped
  /\ ours' = IF left = {} THEN {} ELSE ours
  /\ held' = IF left = {} THEN {} ELSE held
  /\ mode' = IF left = {} THEN "skip" ELSE mode
  /\ UNCHANGED <<env, moves, gitVars, cursor, replay, recorded, tips, deferred, originVars,
                 found, budget, passed, baseline>>

-----------------------------------------------------------------------------
(* pollOffHeadCommits, and the end of the poll.                             *)

OffHead ==
  LET r      == First(Present)
      now    == TipsOf(tip)
      heads  == {head[x] : x \in Present}
      hidden == UNION {log[c].reach : c \in heads \cup (tips \ gone)}
      fresh  == {c \in (UNION {log[t].reach : t \in now}) \ hidden :
                   log[c].own /\ c \notin seen \cup deferred}
      few    == Oldest(fresh, Min({env.total, env.cap}))
      lin    == Lineage(r, few)
      known  == {c \in few : \E p \in Added(c) : SeedStamp(r, lin, c, p) # 0}
      silent == {c \in few : Added(c) = {}}
      Settle(done, left, lost) ==
        /\ tips' = IF left THEN tips ELSE now
        /\ deferred' = IF left THEN deferred \cup (few \ (known \cup silent \cup lost)) ELSE {}
        /\ seen' = seen \cup done /\ emitted' = emitted \cup done
  IN
  /\ pc = "bind" /\ todo = {}
  /\ Go("record", {})
  /\ \/ /\ tips \in {{}, now} \/ May("authorFails")    \* no email: nothing here is ours
        /\ tips' = now
        /\ UNCHANGED <<deferred, seen, emitted, faults, sent, forgotten, resent, jobs, passed, skipped>>
     \/ /\ tips \notin {{}, now} /\ May("rangeFails")
        /\ UNCHANGED <<tips, deferred, seen, emitted, faults, sent, forgotten, resent, jobs, passed, skipped>>
     \/ /\ tips \notin {{}, now}
        /\ \E n \in 0..Cardinality(few) :
             /\ jobs' = Published(r, few, n)
             /\ \/ /\ n < Cardinality(few) /\ Outcome("ioFails", FALSE)
                   /\ UNCHANGED <<tips, deferred, seen, emitted, sent, forgotten, resent, passed, skipped>>
                \/ /\ n = Cardinality(few)
                   /\ \E bad \in {{}} \cup {{c} : c \in few}, why \in {"refused", "showFails"} :
                        LET out  == known \ bad
                            lost == IF why = "showFails" THEN bad ELSE {}
                        IN  /\ Outcome(why, bad = {}) /\ (why = "refused" => bad \subseteq known)
                            /\ Settle(out \cup silent \cup lost, bad # lost \/ few # fresh, lost)
                            /\ Send(out) /\ skipped' = skipped \cup lost
                   /\ passed' = passed \cup ({r} \X few)
  /\ UNCHANGED <<env, moves, gitVars, cursor, replay, recorded, rework, traced,
                 found, budget, batch, mode, ours, held, baseline, declined>>

\* Mutant: the lineage and the batch of the last checkout stay.
EndPollKeeping ==
  /\ found' = [r \in Root |-> Nothing]
  /\ budget' = 0 /\ mode' = "skip" /\ seen' = {} /\ emitted' = {}
  /\ Go("idle", {})
  /\ UNCHANGED <<batch, ours, held>>

EndPoll ==
  /\ found' = [r \in Root |-> Nothing]
  /\ budget' = 0 /\ batch' = {} /\ mode' = "skip" /\ ours' = {} /\ held' = {} /\ seen' = {} /\ emitted' = {}
  /\ Go("idle", {})

\* recordAttributedCommits, one write at the end of the poll: it may fail, and it keeps
\* only what it could read of the ledger and what is not too old, or too much, to keep.
Record ==
  /\ pc = "record"
  /\ \E kept \in SUBSET recorded, written \in BOOLEAN :
       /\ Works("ledgerFails", kept = recorded /\ written)
       /\ IF written /\ emitted # {}
          THEN recorded' = kept \cup emitted /\ forgotten' = forgotten \cup (recorded \ recorded')
          ELSE recorded' = recorded /\ forgotten' = forgotten \cup emitted
  /\ EndPoll
  /\ UNCHANGED <<env, moves, faults, gitVars, cursor, replay, tips, deferred, rework, originVars,
                 sent, resent, passed, baseline, skipped, declined>>

\* What the poll has still to attribute for r.
Pending(r) ==
  IF pc \in {"bind", "commits"} /\ r \in todo
  THEN IF pc = "commits" /\ r = First(todo) THEN batch ELSE found[r].commits
  ELSE {}

\* The daemon dies; what it has not written is gone.
Crash ==
  /\ pc # "idle" /\ Outcome("crash", FALSE)
  /\ forgotten' = forgotten \cup emitted /\ skipped' = skipped \cup UNION {Pending(r) : r \in Root}
  /\ EndPoll
  /\ UNCHANGED <<env, moves, gitVars, fileVars, originVars, sent, resent, passed, baseline, declined>>

-----------------------------------------------------------------------------
(* drainLineOriginPending: the oldest request, one at a time.               *)

Traceable(c) == c \notin gone /\ ~(May("untraceable") /\ c = 2)

\* Mutant: a request that failed stays where it is.
Retried(q) == q

\* A request that failed moves behind the others.
Requeued(q) == Append(Tail(q), Head(q))

Trace ==
  /\ May("worker") /\ jobs # <<>>
  /\ LET c == Head(jobs)[2]
     IN  IF Traceable(c)
         THEN traced' = traced \cup {Head(jobs)} /\ jobs' = Tail(jobs)
         ELSE jobs' = Requeued(jobs) /\ UNCHANGED traced
  /\ UNCHANGED <<env, moves, faults, gitVars, fileVars, pollVars, histVars>>

-----------------------------------------------------------------------------
Git(r) == \/ MakeCommit(r) \/ Switch(r) \/ Detach(r) \/ Reattach(r) \/ AddWorktree(r)
          \/ Merge(r) \/ FastForward(r) \/ Amend(r) \/ \E p \in env.paths : AgentWrites(r, p)

Poll == \/ StartPoll \/ OffHead \/ Record
        \/ \E r \in Root : PollHead(r) \/ BindRoot(r) \/ AttributeCommit(r)
        \/ \E saved \in BOOLEAN : SaveCursors(saved)

Next == Poll \/ Crash \/ Trace \/ Prune \/ \E r \in Root : Git(r)

\* runGitWatch and runLineOriginWorker run off their tickers.
Spec == Init /\ [][Next]_vars /\ WF_vars(Poll) /\ WF_vars(Trace)
-----------------------------------------------------------------------------
Undisturbed(faulty) == env.may \cap faulty = {}

\* No range was clamped.
Whole == Len(log) <= env.cap /\ Cardinality(Root) * Len(log) <= env.total

\* The types, and what belongs to which step of a poll.
TypeOK ==
  /\ env \in Environments /\ pc \in {"idle", "heads", "bind", "commits", "record"}
  /\ todo # {} => pc \in {"heads", "bind", "commits"}
  /\ \A r \in Root : /\ cursor[r] \in {0} \cup Commit /\ replay[r] \in {0} \cup Commit
                     /\ rework[r].at \in [Path -> {0} \cup Commit]
                     /\ rework[r].tomb \in [Path -> {None} \cup 0..env.writes]
  /\ recorded \cup tips \cup deferred \subseteq Commit
  /\ (batch # {}) <=> (pc = "commits")

\* Spans are only moved by the hunks of a diff against the content they stand in
\* ("the first-parent chain is the one sequence of diffs that composes to head's
\* tree"), through clamped and deferred batches, adoption and its silent replays in
\* several polls, cold starts, renames and merges: unless a commit was left out as it
\* had been reported before, which a lone checkout only meets by a fast-forward.
\* What else breaks it are lost commits, ranges that git cannot
\* list, and heads that go back or aside; and a rework.json that cannot be written,
\* which no step is.
SpansInPlace ==
  /\ Undisturbed({"amend", "detach", "midpoll", "refused", "showFails", "crash", "ioFails", "rangeFails"})
  /\ "merge" \in env.may => Whole /\ "fastForward" \notin env.may
  => \A r \in Root :
       /\ rework[r].slid => rework[r].missed
       /\ rework[r].missed => Present # {r} \/ "fastForward" \in env.may

\* What the comment on replayReworkForAdoptedCommit says of every adoption: the range
\* "runs forward from that empty ledger to the root's head, so nothing is applied
\* twice"; and pollGitWatchWorkspace of HEADs that walk back over a branch: they "are
\* covered BECAUSE their range is empty".
NothingAppliedTwice == \A r \in Root : rework[r].slid => rework[r].missed

\* What pollGitWatchWorkspace says of the attributed commits it skips: folding one that
\* was "already accounted for would double-count its churn", though the ledger that
\* accounted for it may be another checkout's.
NothingLeftOut == \A r \in Root : rework[r].slid => ~rework[r].missed

\* While a checkout stays bound to its branch, each seed of a path is made on a later
\* AI write than the one before: the tombstones of churned, renamed and released
\* spans let no write be spent twice, whichever of two checkouts it is recorded under
\* ("writeStampFor is the stamp a TOMBSTONE is written with: the latest write either
\* view can see").  A third checkout breaks it: each view sees one mark, its first.
EvidenceFresh == \A r \in Root : ~rework[r].respent

\* A commit is reported once, from however many checkouts and refs it is seen; and once
\* more for each time that its report was lost to the ledger: the daemon died before the
\* end of the poll, or attributed-commits.json could not be written or read.
AttributedOnce == resent = {}

\* Whatever fails, dies or is pruned: a commit that a cursor has passed has its
\* line-origin receipt, or its request is still on disk; but for those of a range that
\* git could not list.
OriginsOwed == passed \subseteq traced \cup ToSet(jobs)

\* A commit that several checkouts, refs and polls come upon counts once: it is
\* reported at most once, and its line origin is not forgotten where it is passed.
ReportedOnce == AttributedOnce /\ OriginsOwed

Settled == pc = "idle" /\ \A r \in Present : cursor[r] = head[r] /\ replay[r] = 0

Unsent(r) == {c \in log[head[r]].reach : log[c].own /\ Added(c) # {}} \ (sent \cup baseline)

\* When every cursor is at its HEAD, every commit of this device that a HEAD reaches
\* has been reported, but for those that were passed over while git show, the author
\* probe or the listing of their range failed, the daemon died or the outbox refused
\* them: none is skipped by the caps, the shared budget, failed requests, pruning, a
\* late worktree's replay, other authors' commits or other checkouts' records.
OwnReported == Settled => \A r \in Present : Unsent(r) \subseteq skipped \cup declined

\* The same where the outbox refuses an event ("leave the SHA out of the ledger so the
\* next poll retries it", pollGitWatchWorkspace).
FailedRetried == Settled /\ tips = TipsOf(tip) => \A r \in Present : Unsent(r) \subseteq skipped

\* Nothing is left behind: once git rests and failures end, the cursors reach the HEADs,
\* no replay is owed, every line origin that can be traced is, behind requests that
\* never can; and what a cursor at its HEAD has skipped was skipped by a failure.
CaughtUp ==
  /\ []OwnReported
  /\ <>[](/\ \A r \in Present : cursor[r] = head[r] /\ replay[r] = 0
          /\ May("worker") => \A i \in DOMAIN jobs : ~Traceable(jobs[i][2]))
=============================================================================
