# TLA+ models of promptster-teams-cli

`promptster-teams` runs beside a developer's AI tools. Watchers tail the tools'
transcripts, normalizers turn records into events, each event is redacted,
signed into a local ledger, appended to a durable send queue and delivered to a
backend; other pollers follow the git repository and judge what becomes of the
lines an AI wrote, collect what a vendor says was spent, and keep the program
itself running and up to date. Everything lives in files under
`~/.promptster-teams`, shared by a daemon, hook processes and foreground
commands, and every part promises something about crashes: nothing lost, nothing
skipped, nothing counted twice. Those promises are what these modules are about.

Paths below are relative to `src/internal/` unless they begin with `src/`.

## 1. Inventory

| component | state | operations | talks to |
|---|---|---|---|
| **outbox** (`outbox/outbox.go`) | per lane: queue file, cursor file, lane lock; in memory the drain's offset and reader | `AppendTo`, `drainOnce`, `deliverChunk`, `compact`, `rewriteTail`; the caps probe and its suppression | every producer appends; one goroutine per lane drains to the ingest transport |
| **outbox accounting** (`outbox/drops.go`, `delivery_health.go`, `cli/queue_health.go`) | drop counters, delivery health | count, read, mark, diagnose | heartbeat and doctor read it |
| **signed ledger** (`sign/`) | live segment, rotated segments, chain index | `AppendEventToLocalBuffer`: rotate, load the tip, sign, write, commit the tip; rebuild; pruning | every emitter, under one sentinel lock |
| **Claude transcript watcher** (`capture/cmd_claude_watch.go`, `transcript_read.go`) | progress file of offsets and decisions; a processor per transcript | classify, poll, rewind, checkpoint, stale flush, evict, shut down | normalizer, dedup, outbox, capture roots |
| **Claude normalizer** (`normalize/normalize_claude_jsonl.go`) | open message, pending tool calls, memo of emitted messages, rewind offset | `processLine`, `flushAccum`, `DiscardBufferedState` | the watcher |
| **Codex watcher and normalizer** (`capture/cmd_codex_watch.go`, `normalize/normalize_codex.go`) | the same kind of progress file; correlation maps in memory | classify, tail, replay the consumed prefix, rewind, flush | outbox |
| **Cursor watcher and hooks** (`capture/cmd_cursor_watch.go`, `cmd_cursor_hook.go`, `cursor_generations.go`, …) | progress, claims of the hooks, models of turns, usage counters | poll, resolve a session, claim, join model and tokens | hook processes started by Cursor, outbox |
| **Cursor vendor usage** (`capture/cmd_cursor_usage.go`, `cursor_vendor_*.go`, `cursor_credential*.go`) | logins, profiles, pool of rows sent, checkpoints, cost claims | poll each account, snapshot, delta, repair, claim | vendor API, backend, hooks |
| **diff dedup, AI-write ledgers** (`capture/diff_dedup.go`) | claims on diff hashes; AI paths per session with stamps | claim, record, prune | watchers write, durability and rework read |
| **durability** (`capture/durability*.go`) | cursor per repository, tracked spans per path, tombstones, line fingerprints | poll: baseline or fold each new commit; harvest; emit verdicts | git, AI-write ledgers, sibling worktrees, line origin, outbox |
| **git watch, attribution, rework, line origin** (`capture/git_watch*.go`, `commit_attribution.go`, `attributed_commits.go`, `rework.go`, `line_origin*.go`) | HEAD cursors and owed replays, attributed commits, ref tips, spans per checkout and branch, pending requests | enumerate, cold start, adopt and replay a branch, fold, attribute, publish, trace | git, AI-write ledgers, outbox |
| **usage windows, tiers, limits, status line** (`capture/statusline*.go`, `window_usage.go`, `plan_tier.go`, `limit_hits.go`) | the slot in Claude Code's settings and the record of what it displaced, spools, caches, what was sent | enable, disable, heal, tick, drain, scan | Claude Code starts the shim; outbox |
| **presence, census** | last beat, last census | timed beats | outbox accounting |
| **daemon, instance lock, handoff** (`capture/daemon.go`, `teams.go`, `instancelock*.go`, `handoff.go`, `watch_runtime.go`) | lock, three pidfiles, build on record, capture roots | start, watch, stop, replace, hand over | service manager, self-update |
| **service registration** (`service/`, `cli/autostart.go`) | unit file, loaded job | enable, repair, disable, stop, start | launchd, systemd, Task Scheduler |
| **policy, update intent** (`policy/`) | the answer in memory, its cache, the mirror of the update intent | refresh, resolve at a start | self-update; collectors |
| **self-update** (`selfupdate/`) | asked and consent records, last check, catch-up guard, files known not to be newer | check, ask, swap, re-exec, catch up; the update command | policy, GitHub releases, installers |
| **redaction**, **discovery**, **command line**, **npm wrapper** | little or none | text, directory walks, I/O | — |

Which parts are modelled, partly modelled or left out, and why, stands in
`PROJECT.json` under `components`; the places where the code is exposed to a
hazard, each with its line and the properties about it, under `hazards`.

What makes these parts hard:

* *Concurrency.* Appenders in several processes against one drain goroutine;
  the reader holds no lock while it reads, so it can meet half a line, a file
  that has shrunk, or a file that is another file. Hooks run beside the tail of
  the same transcript. Two processes may poll one repository. Evidence is read
  before the ledger's lock and used under it. Commands in two terminals and a
  supervisor decide at once which process captures.
* *Crashes.* Each component keeps a file and a cursor, or a ledger and an
  index, and writes them one after the other. Which goes first decides whether
  a death repeats or skips.
* *Back-pressure.* A full lane refuses. A watcher has read past the record by
  then and must go back, but not further than what its memory still holds, and
  not past claims it has already made.
* *Replays.* The backend deduplicates by stable ids, so repeating is allowed;
  repeating with another body, or skipping, is not.
* *Line arithmetic.* Spans of tracked lines move through hunks, renames and
  squashes; a shift by one attributes a human's line to the AI.
* *Files others own.* The status line slot is one key in a file that the
  engineer and other tools write; the vendor rewrites its rows while they are
  read; git's history changes between two polls.

What makes the components correct:

* outbox: an accepted event is answered for by the backend or still readable; a
  cursor passes only what was answered; the cap counts backlog only; in the end
  everything is delivered and compacted; what is reported of a lane is true.
* ledger: links never dangle; a session forks only where an append died before
  the index, or the index could be neither written nor removed; rotation keeps
  the order.
* tails: refusals delay and do not lose; what is repeated is the same as before;
  a message is queued whole; a header decides once; the tail catches up; between
  two rails no step is lost and none told twice.
* git watch: every commit reported once, and again only if the record of it was
  lost; its line origin owed until it is sent, no diff applied twice or to another
  content, no commit passed over but by a failing git or a refusal.
* durability: no commit skipped or folded twice, tracked lines are the AI's, a
  line gets one verdict, one write seeds a path once.
* vendor usage: the backend comes to show what the vendor says; no cost is left
  to rows nobody sent, no login forgotten below the cap.
* status line: what was in the slot can be had back, a fight for it ends; limits
  and readings are told once for each time they were written down.
* daemon: what is stopped stays stopped, what is owed comes back, a replacement
  that is announced has happened.
* self-update: no build without consent, none offered twice, no restart loop,
  never an older build, and in the end the newest build on the disk runs; what
  the org said last survives the loss of a file.

## 2. Modules

| module | models | source |
|---|---|---|
| `DeliveryQueue` | what a lane promises: an at-least-once queue | abstract |
| `OutboxLane` | one lane: file, cursor, lock, appenders, drain, compaction, crashes | `outbox/outbox.go` |
| `OutboxLaneProofs` | proofs: types, *only answered events are passed*, *nothing accepted is lost*, the lane implements `DeliveryQueue` | |
| `SignChain` | the append to the signed ledger: rotation, index, rebuild | `sign/*.go` |
| `SignChainProofs` | proofs: types, links, one chain per session | |
| `TranscriptTail` | one Claude transcript: watcher, normalizer, diff claim, two lanes | `capture/cmd_claude_watch.go`, `normalize/normalize_claude_jsonl.go`, `capture/diff_dedup.go` |
| `TranscriptTailProofs` | proofs: types, *a full lane only delays*, *nothing is made up*, *nothing from before the window* | |
| `CodexTail` | one Codex rollout: watcher and normalizer | `capture/cmd_codex_watch.go`, `normalize/normalize_codex.go` |
| `CursorRails` | one Cursor conversation between its hooks and the tail | `capture/cmd_cursor_watch.go`, `cmd_cursor_hook.go`, `cursor_continuation.go`, `cursor_generations.go`, `normalize/normalize_cursor*.go` |
| `CursorVendor` | the collector of vendor usage, with vendor, hooks and backend | `capture/cmd_cursor_usage.go`, `cursor_vendor_*.go`, `cursor_credential*.go` |
| `CursorVendorProofs` | proofs: types, *what a poll leaves behind is true* | |
| `Durability` | the durability ledger of one root, with git and the evidence it reads | `capture/durability*.go`, parts of `git_watch*.go`, `diff_dedup.go` |
| `DurabilityProofs` | proofs: types, *tracked lines are true*, *one verdict each*, *no write is spent twice*, *no commit is skipped* | |
| `GitWatch` | the polls of several checkouts, with rework, attribution, ref tips and line origin | `capture/git_watch*.go`, `rework.go`, `commit_attribution.go`, `line_origin*.go` |
| `GitWatchProofs` | proofs: types, *a commit is reported once*, *its origin is owed*, *no write is spent twice*, *spans stay in place*, *what cursors are over is reported* | |
| `StatusLine`, `PlanLimits`, `LaneHealth` | the slot and its shim; tiers, limits and windows; what lanes say of themselves | `capture/statusline*.go`, `window_usage.go`, `plan_tier.go`, `limit_hits.go`, `outbox/drops.go`, `delivery_health.go`, `capture/presence.go`, `cli/queue_health.go` |
| `Usage` | composes those three as the goroutines of one daemon do | `capture/cmd_claude_watch.go` |
| `UsageProofs` | proofs: types, the slot, the lanes, *nothing is told twice* | |
| `Daemon` | which process captures: start, watch, stop, autostart, uninstall, the supervisor | `capture/daemon.go`, `teams.go`, `instancelock*.go`, `handoff.go`, `service/*.go` |
| `SelfUpdate` | the update goroutine, the policy it obeys, the update command beside it | `selfupdate/*.go`, `policy/*.go`, `cli/cmd_update.go` |
| `SelfUpdateProofs` | proofs: types, *nothing is repeated*, *the intent survives*, *builds go forward* | |
| `MC*` | small instances of these for TLC | |

`PROJECT.json`'s `map` names the lines behind each definition.

The modules describe the environment's misbehaviour by named *conditions* (a
set such as `{"crash", "tornWrite"}`) or by how often each event may still happen
(`[crash |-> 1, refuse |-> 2]`). Either is chosen in the initial state from a
constant set, `Environments`, and is constant or only shrinks; in `OutboxLane` it
is a constant. A property that the code keeps only without some condition says so
in its definition, so a reader sees which faults each promise survives.
Definitions marked *Mutant* are variants with a plausible bug; nothing refers to
them. They show that each property can fail: with the mutant in the original's
place TLC finds a violation.

### OutboxLane

The queue file is a sequence of cells; the line of event `e` has `Size[e]`
cells and its last cell is the newline. So a cursor can fall inside a line, a
write can stop in the middle, and a line glued together from two parses as
neither. `cursor` is the cursor file, `lock` the lane lock, `app` and `part` the
append in progress. `dpc`, `cur`, `rpos`, `from`, `to`, `adv`, `desynced`,
`shrunk` are the program counter and locals of `drainOnce`, `readChunk` and
`deliverChunk`. `acked`, `failed`, `refused`, `answered`, `settled` are history.

* `Append*`: `AppendTo` – the cap, the size and the cursor are read under the
  lock; the line becomes visible in two steps under condition `splitWrite`.
* `Read*`, `Chunk*`, `Line*`, `Commit*`: a pass in batch or per-event mode –
  `readChunk` with its byte and member limits, the answers the drain
  distinguishes (a proven prefix, a refused envelope, no batch route, an event
  that never will be accepted, no answer), the cursor write.
* `Compact*`, `Tail*`: the truncation of a drained file, and the copy of a tail
  whose delivered prefix exceeds `CompactTailAfter`, step by step, with the append
  lock held where the code holds it.
* `Crash`: at any step; interrupting the truncation is a condition of its own.

Backoff lengths, the choice of the lane and the migration of the old single-file
queue are left out. The two lanes share no file, cursor or lock, so one lane
stands for both.

`DeliveryQueue` has three variables: what is pending, what is accepted and what
is answered for. `MCOutboxLane` maps `pending` to what a drain started from the
disk could read (`Readable`) and `accepted` to the appends that returned nil, and
lets a behaviour have one of three settings, each an instance of `OutboxLane`:
`own` (the constants of the configuration), `faults`, `pages`.

### SignChain

The sentinel lock covers an append from rotation to index commit, so emitters are
one actor whose append runs in steps: `Lock`, `Rotate` (drop the oldest, shift
one segment at a time), `LoadTips` (the index, or a rebuild from the retained
segments; `LoadSome` when a segment cannot be read to its end), `WriteLine` or
`WriteTorn`, `CommitTip` (with pruning), `CommitFails`, `CommitPartial`. An index that
cannot be written is removed, and under `dropIO` that fails as well and the old one
stays. Between steps the process may die; at any time the index may be lost. A
signature is the event's number. `log` and `unindexed` are history: what every event
was linked to, and behind whose line an older index was left. `OneChain` allows a fork
at those events and at no other. The contents of events, the keys and the
cryptography are left out.

### TranscriptTail

A transcript is a sequence of records: an assistant line of a message, with a
tool call or without, a tool result, a prompt, something else. The processor
`proc` holds the open message, the pending calls, the memo of messages already
emitted and the rewind offset. One poll runs `PollStart`, a classification that
is bounded per poll (`ClassifyYes`, `ClassifyNo`, `ClassifyOld` outside the
history window, `ClassifyStops` where the budget ends; `EndUnknown` when the size
cannot be read), then `TailStart`, `ReadRecord` / `QueueEvent` / `QueueRefused` /
`RecordDone` until the file or the budget ends (`StopReading`), the stale flush
(or `NoFlush`), `SaveProgress` or `SaveFails`; `Exit` is the shutdown path, `Crash`
a SIGKILL. `Judged` and `DryRun` are the degradation step and the poll that
discards. Around it the session writes (`Grow`), time passes (`Age`;
`LeaveWindow` between polls, since the cutoff is taken as one begins), roots change (`MoveRoots`), an older progress file is migrated
(`Migrated`, with `Folded` for entries under two spellings of one path) and lanes
fill and drain. An event is its stable id and the records its body was made of,
which is what the properties compare.

Not modelled: records too large to read (`CodexTail` has them; the reader is the
same), the takeover marker, which nothing outside the tests writes, the order in
which several transcripts share a poll.

### CodexTail

A rollout is a sequence of records of the fourteen kinds the processor tells
apart. The same poll, with what this watcher does otherwise: the classification
continues from a saved cursor and may skip records too large to read
(`ClassifySkip`, `DiscardBegin`, `DiscardEnd`), and a restart does not keep the
processor but rebuilds it from the consumed prefix (`Replayed`). The processor
holds back the copy of a turn until the line that claims it (`Claims`, `TurnOut`),
a final answer until its twin, calls until their outputs, cells that a command is
handed over to (`Handed`, `Feeding`), the counters of the fast tier. `StaleOut`,
`FinalFlushed` are the two flushes, `Upgrade` is the migration of schema 3.

Not modelled: the modification time that filters candidates, the share of the
byte budget other rollouts take, a rollout that cannot be opened for the replay
(it gets an empty processor). Events that come again after a rewind carry the
latest model and usage; the properties compare their ids there. The id of a usage
event is made of its record, the model and whether a tier was seen (`UsageKey`), and
a rewind keeps the last two: a `token_count` that is read again behind a later
`turn_context` is queued a second time under another id. `OneReading` says that this
is the only kind of event told twice (`Retold`), and under which ids.

### CursorRails

The conversation is a script of steps. A step is written to a transcript
(`Write`, `Copy` after a move), or starts a hook process, or both. A hook runs
`HookDrop` or `HookNormalize`, `HookQueue`, `HookCount`, `HookClaim`; `HookOverrun`
abandons it anywhere. The tail polls: `PollStart` takes a snapshot of the claims,
`Visit` classifies, resolves the session (`SessionOf`, `Continued` by comparing
heads of transcripts), and tails one transcript to its end, leaving out on a
claimed one all but `Blind` kinds. `gens` is the small cache that joins the model
of a turn with its tokens (`BaseId`, `Remembered`).

Not modelled: installation and repair of the hooks in Cursor's own files; that a
shutdown deletes the watcher's state with its progress
(`clearCursorWatcherState`); ids of prompts by hash of their text; pids used again.

### CursorVendor

The vendor's feed of each account and cycle is a sequence of rows that it edits
at any time. A poll reads the sources of credentials (`Read`), notes the logins it
learns of in a map of the `keep` seen last (`Noted`, `MapAfter`: each write may fail, or
find a file it cannot read), and lists each account once, from a usable source if there is one (`Earlier`, `ToCollect`). For
each it goes through `Team`, `Expired`, `Period`, `Page` by page, `Reading`; `Queue` or
`QueueRefused` sends the rows that are not in the pool and a completion, with a
manifest where one is due (`ToSend`, `SendsManifest`, `RepairDue`); then the cycle
before (`History*`, `Checkpoint`). An account of which nothing is collected is told
of by an absence, which the outbox may refuse as it may refuse rows and completions.
A reading is sorted by line and keeps the order of rows with equal lines, which the
manifest's hash depends on (`Sorted`, `Rank`). The backend rebuilds a reading from
manifest and rows; it may lose rows once. Hooks read `logins` (`Stamp`) and `claims`
(`Stripped`). `unheard` (accounts of which the outbox refused what there was to say)
and `dropped` (logins that the cap or a failing file put out of the map) are history.
The event `file` is a file of the collector's own that cannot be read, written or
removed: the logins, the profile, the pool at a start, the checkpoint's write.

Not modelled: the contents of rows, the byte and page caps, retention (40 days),
TTLs, the two lanes. `RepairAfter` is two ticks of the clock. Some failures are left
out because they only withhold or repeat what is safe to: a claims file that cannot
be read or written, or whose claims expire, strips fewer costs; a history checkpoint
that cannot be read queues the cycle once more; a hook that cannot read the logins
stamps no account; the profile's cap and an install key that fails behave as a failed
`Noted`.

### Durability

A file is a sequence of lines that know the commit that brought them in and
whether an AI wrote them; a commit changes one path, which it may rename, by
hunks in the geometry of `git diff --unified=0`. `cursor`, `spans`, `seeded` are
the ledger `durability.json`; `ai` and `fp` the two ledgers it takes evidence
from; per poller, `pc`, `queue`, `held` (the siblings' reach, read once per
poll), `view` (the evidence, read before the lock) and `out` (verdicts not yet
emitted).

A poll is `PollRoot` (a baseline, a backward move, or the commits to fold), then
for each commit `ReadEvidence` and `Fold`, or `ShowFails`; `FoldLoopEnds`; then
`ReadEvidence` and `Harvest`; `EmitVerdicts` after each. `Fold` prunes and moves
tombstones, carries spans through a rename, remaps them by the hunks, or seeds a
path touched for the first time: by fingerprints (a run of at least `MinRun`) or
by the whole path's evidence if no tombstone has spent it. Around it: `Commit`,
`RewriteBranch`, `SiblingMoves`, `AgentWrites`, `Capture`, `NextDay`.

Not modelled: the daily inventory of living lines, the cap on fingerprint
entries, the recovery of a cursor whose commit has become unreachable.

### GitWatch

Commits are numbers in date order; what a file holds is named by the commit that
changed it last. `log`, `tip`, `on`, `head`, `wrote` are the repository and the
checkouts; git commands (`MakeCommit`, `Switch`, `Merge`, `Amend`, `Prune`, …) come
between polls, and under `midpoll` inside them. A poll is `StartPoll`, `PollHead`
per checkout (which commits are new, under the cap and the budget shared by all
checkouts; which of them a fold may be composed of: `Foldable`), `SaveCursors`,
`BindRoot` (adoption of a branch, cold replay), `AttributeCommit` for each commit
with its `Fold` (renames, hunks, seeds, tombstones), `OffHead` for commits that no
HEAD reaches, `EndPoll`, `Record`. `Published` writes the line-origin request before
the cursor is saved; `Trace` is its worker.

What git or a file refuses is a condition. `rangeFails`: a range cannot be listed, so
a replay is given up and a list of new commits falls back to the newest of HEAD
(`Visit`, `OffHead`). `authorFails`: the probe of the author proves fewer commits this
device's or none; without an email there is no gate and all of them are
(`OwnCommits`, read once per checkout into `ours`). `ledgerFails`: the ledger of attributed
commits is not read at the start of a poll, not written at its end (`Record`), or
forgets, as its TTL and its maximum make it do. `gitFails`, `showFails`, `ioFails` are
the probe that guards a cursor, `git show` and the files written before a cursor
moves.

The model keeps what the code does, and `SpansInPlace` names where spans are known
to slide: commits that a failure has passed without a fold, amended commits, a HEAD
that was detached further back, a merge that a cap or the budget ends in its middle,
and commits left out because they were reported before (from another checkout, or
off every HEAD before a fast-forward); a range that git cannot list has no property of
spans. `sent`, `forgotten`, `resent`, `passed`, `baseline`, `skipped`, `declined` and four
fields of a ledger (`last`, `respent`, `slid`, `missed`) are history. A report is lost to the
ledger (`forgotten`) when the daemon dies before `Record` or the file fails, and
`AttributedOnce`, a part of `ReportedOnce`, says that a commit is reported again for no
other reason. `skipped` are commits passed over in silence – the author probe, `git
show` or the listing of their range failed, or the daemon died – and `declined` those
the outbox refused; `OwnReported`, a part of `CaughtUp`, says that no other commit of
this device is left behind. `Over` is what a save of the cursors moves them over, by
what git then says of the old and the new cursor.

Not modelled: a default branch with a remote, recovery of commits from bash windows.
A HEAD that cannot be read is a checkout that is not visited, and a sibling or a scope
that cannot be probed counts for nothing. Three files are best effort besides
`attributed-commits.json`, and their failures are no steps: cursors that cannot be read
are a first poll, which baselines every checkout (what was not reported yet is then in
`baseline`, and `OwnReported` does not ask for it); ref tips that cannot be read are
taken anew, and what is off every HEAD by then is not reported; and `rework.json`
(section 4).

### StatusLine, PlanLimits, LaneHealth, Usage

`StatusLine`: `slot` is the key in the user's settings, `managed` the layer above
it, `record` what our shim displaced. `enable`, `disable` and the healer take the
lock and write file after file (`SavePrior`, `WriteShim`, `CountHeal`,
`RestorePrior`, `ClearRecord`), each step of which may fail or be the last; the
engineer and other tools write the slot without the lock. A removal of the record
that fails is passed over, and disable returns as if it had worked (`Clears`); a record
that cannot be read is taken for one without a prior (`EnableAgain`, `RestorePrior`,
`Lookup`). A tick is `TickBegin`, `TickSpool`, `TickDraw`; the drain `DrainRead`,
`DrainEmit`, which goes on when the spool file cannot be removed. `off` is history, and true
only once a record was removed; `clears` counts those removals, `sent.stayed` the readings
whose file stayed, `clobbered` says that the prior was lost to another writer or to
an unread record.

`PlanLimits`: `PollBegin` reads the state – an empty one if it cannot be read – and the
tier, and scans for hits, `PollHit` sends each, `PollSave` writes the position and forgets
the hits of `expired` windows (`Kept`); `CodexScan` is the Codex watcher's window reading.
A hit is what `CodexHit` and `IsHit` say, the limit named by `rate_limit_reached_type`
included.

`LaneHealth`: the lanes as counts of events. `PostAnswered`, `SaveCursor`,
`RecordSuccess` are the drain's steps; `DropRead`, `DropWrite` a counted drop;
`Await*`, `Beat*` the heartbeat; `Diagnosis` the verdict of doctor.

`Usage` composes them: the parts of the watcher's loop exclude each other, the
drains, the heartbeat, the shims and the commands run beside it, and a kill takes
the watcher, its throttles, the drains and the health in memory together.

Not modelled: the context-window spools beyond their pruning, the project layers
of the settings and a managed layer that is misread, Codex absences, doctor's other
lines. Settings that were read a moment ago are assumed to be readable at the next
line of the same command; a cache of drawn lines that cannot be read or saved is as
one that was pruned.

### Daemon

A process is a pid in a stage `at`; `holder` has the lock; `stamp`, `supervisor`,
`pidfile`, `runtime` are the pids in the four files, `service` the platform's
supervisor. `TakeLock`, `AwaitLock` (a replacement waits), `BowOut`, `Record`,
`Boot`, `Heartbeat`, `Leave`, `Reexec`, `Spawn` and `HandOver` are the life of
a process; `Respawn` is the supervisor, by its platform's rule. A command walks
through `Check`, `Collect`, `Disarm`, `Signal`, `Await`, `Clear`, `Report`,
`StartChild`, `SaveState`, `Rearm`, `Bootout`, `Bootstrap`, `Disable`: every call that
another process can come between is a step.

Not modelled: a start without credentials, the cap on roots as an error, services
of other installations. flock and the write of its stamp are one step.

### SelfUpdate

A version is a number; a file says one when it is asked (`--version`) and runs as
one, and a condition lets the two differ. `disk` holds the file the daemon was
started from and the managed path; three layouts say whether they are one path,
two, or whether a lockfile pins the first. `mem`, `cache`, `mirror` are the policy
resolver, `teams-policy.json` and `update-intent.json`; `consent`, `asked`,
`guard`, `cooling`, `due` the files of the state directory, times reduced to
"within the cooldown" and "a check is due".

`pc` walks through `runAutoUpdate`: `catch` is `catchUpToDisk` (`CatchNothing`,
`CatchUp`, `CatchUpFails`), the other values are places in `checkAndApply` –
`check` (the switch and the pin are read), `fetch` (the release tag), `gate`
(newer, replaceable, and who consents), `dialog`, `download`, `exec`. They are
steps of their own because `Refresh` runs in another goroutine and may come
between any two. A process starts in `Begin`: by `Launch`, `CatchUp` or `Reexec`,
with a policy resolved from the two files. `CheckManual` and `ApplyManual` are the
two halves of the update command with the engineer's answer between them.

Not modelled: unstamped builds, the capture flags of the policy, two processes
that refresh at once and write their files in the other order, a state directory
that cannot be written. Signatures and checksums are part of a download that
fails or yields the release. The Windows handoff is in `Daemon`.

## 3. Runs

`tlc -config <run>.cfg <module>`; `PROJECT.json` lists the module of each. A
configuration turns deadlock checking off where the system really stops: the
bounded events, records or commits run out and what is left to do is waiting.
`GitWatchPolls`, `CursorVendor` and `Usage` go on polling, and check it.

Each passing run has a type invariant and one to four properties; a property that names
several parts is the conjunction of the definitions before it in its module.

| run | properties | what they say |
|---|---|---|
| `OutboxLanes` | `NoLoss`, `OnlyAnsweredSettled`, `QueueSpec`, `Served` | accepted events are answered for or readable; cursors pass only what was answered; the lane implements `DeliveryQueue`; undisturbed it delivers each event once, refuses only for undelivered lines, and shrinks to nothing |
| `ChainFaults` | `NoDanglingLink`, `OneChain` | a link names a signature the ledger shows; a session forks only where an append died before the index or the index could be neither written nor removed; else the index names the last event; segments read in order |
| `TailFaults` | `Faithful`, `CaughtUp` | which fault may lose which events; what is queued is what a pass over the whole transcript gives, nothing is repeated without a reason, nothing from before the end at which it was admitted; it catches up |
| `TailDegraded` | `HandoffKeeps` (violated) | section 4 |
| `CodexRollouts` | `Faithful`, `CaughtUp` | every event is queued or will come, also from a rebuilt processor; no event that a pass over the whole rollout does not have, but a counter told again under a later model; it catches up |
| `CursorRails` | `OneStory`, `SpendAccounted` | no step between the rails, one session per conversation; the counters of turns balance, tokens go to the model of their turn |
| `CursorVendor` | `PollsTrue`, `Shown` | nothing sent twice without a cause, an account passed silently only when the budget ends or the outbox refuses, costs left only to rows that were sent, a login forgotten only by the cap, a failing file or the organisation; readings can be rebuilt, and come to be what the vendor says |
| `DurabilityFolds` | `VerdictsTrue` | tracked lines are the AI's own, decided once, accounted for, no evidence spent twice; the cursor goes from a commit to its child |
| `GitWatchPolls` | `SpansInPlace`, `EvidenceFresh`, `ReportedOnce`, `CaughtUp` | hunks are applied to the content they are of; no AI write is spent twice; a commit is reported once, and again only if the record of it was lost; what a cursor has passed has its origin or is owed it; behind cursors at their heads nothing is unsent but what a failure or a refusal skipped; cursors reach their heads and the queue empties |
| `Usage` | `SlotKept`, `LanesTrue`, `ToldOnce`, `AllTold` | drawn lines are the session's own, and ours only for an empty slot, a record removed since or one that could not be read; the slot can be restored, what is turned off stays off, fights end; drops, health, beats and diagnoses are true; readings go forward and a limit is told once for each time that was written down; hits, tier and readings are told in the end |
| `DaemonCommands` | `ReportsTrue`, `Returns` | a stop lasts; a replacement that is announced happened, and only of an older build; capture that is owed returns |
| `UpdateFaults` | `NoRepeats`, `RestartKeepsIntent`, `RunsForward`, `CatchesUp` | one question per release, no restart loop; the org's switch survives a restart, builds go forward, the newest on disk runs in the end |

Further configurations are kept beside the runs, one question each; TLC finds
every one of them violated, as section 4 explains: `OutboxTruncateCrash`,
`OutboxDesyncFallback` (`MCOutboxLane`), `TailClaim` (`MCTranscriptTail`),
`CodexRefused` (`MCCodexTail`; it has two questions, and `-workers 1 -continue` shows both), `CursorDeletes` (`MCCursorRails`),
`DurabilitySkip` (`MCDurability`), `GitWatchThree`, `GitWatchRefused`, `GitWatchSlides`
(`MCGitWatch`; the last has two questions),
`DaemonRecycled`, `DaemonProbe` (`MCDaemon`), `UpdateRace` (`MCSelfUpdate`).

Bounds, and why they are enough to be interesting:

* *Outbox*: four events of two or three cells, `Cap` 4 (two lines fill a lane, a
  third is refused), `MaxBatch` 2 (a chunk is cut by the member limit, by the byte
  cap, or by the end), `CompactTailAfter` 2 (a tail is rewritten after one line).
  The two further configurations use 5 and 4.
* *Ledger*: two sessions, segments of one line, two retained segments, an index
  of one entry, five events: the cascade shifts every segment, the oldest is
  dropped, a session's tip is pruned while the session goes on, and both
  sessions outlive a rebuild. `MCSignChain!Faults` has two environments, both with crashes
  and an index that can be neither written nor removed: torn lines and failing
  renames in one, incomplete rebuilds in the other, for the size of the run.
* *Claude tail*: seven transcripts of three to six records – plain text, parallel
  calls, calls without a result, a result between two lines of one message, a
  message nothing follows, a cwd that comes late or too late – with one
  file_diff. A refusal can hit any event, also one made of records from earlier
  polls. `MaxScans` 3 ends the search for a cwd, `DegradedAfter` 1 stands for the
  256 KiB without an event.
* *Codex tail*: rollouts of four to eight records: turns written twice and once,
  a delegated thread, interrupted turns, commands handed over twice, patches,
  counters with a call open around them, late headers, records too large. One or
  two conditions at a time.
* *Cursor*: five conversations of up to seven steps with a subagent, a step
  outside the roots, a move, routed turns, and one turn more than the cache holds
  (`MaxGens`). *Vendor*: two logins, feeds of two rows, two cycles, fifteen
  environments with two to four events; one keeps a single login (`keep` 1), so that
  the second evicts the first.
* *Durability*: two paths, two agents of which one works in a sibling worktree,
  two pollers; three commits on files of two lines (one commit more than a poll
  folds, so a path is seeded, churned and offered again) or two commits on files
  of three lines (edits above, inside and below a span, and two hunks at once).
* *Git watch*: a clone and a worktree, one or two paths, two or three commits
  after the first against a cap of one to four, up to two moves of HEAD and two
  AI writes: bursts are clamped, a second checkout is deferred, a path is seeded,
  churned and offered again. Each failure of git, the ledger or a file has an
  environment, the range and the author probe one with a branch and one with a
  worktree that starts late. `GitWatchThree` adds a third checkout and starts in
  a state that a behaviour of `Spec` reaches, since from `Init` the search is long.
* *Usage*: two commands and two sessions with two ticks at once, `MaxHeals` 2 (a
  third eviction is contested), two transcripts, two limits, `Cap` 4; 26
  environments, each with the few events of one question.
* *Daemon*: up to five processes, two terminals with up to three commands, two
  trees; fourteen cases over the three platforms.
* *Self-update*: three versions, up to three events around the daemon (a release
  withdrawn, an installation, a change of policy or of consent, a crash, an exec
  that returns, a lost file), any number of refreshes, failing requests and
  elapsed intervals. Three versions are what a target between the running build
  and the newest needs.

In every module an environment allows a few conditions at a time: all together
are out of reach, and the properties name the ones they exclude.

Fairness:

* `OutboxLane!Fairness`: an append that holds the lock finishes; the drain
  goroutine keeps running (`RunOutboxDrain` loops until its context ends); local
  writes eventually succeed; a backend asked again and again eventually answers
  for everything it is asked. The drain retries with a capped backoff, which is
  what makes "again and again" true. `Served` speaks of the setting without
  crashes: a crash at every pass would keep any queue from emptying.
* `TranscriptTail`, `CodexTail`: weak fairness on the steps of a poll – the watcher
  polls on a ticker until shutdown – and strong fairness on reading a record and
  on the decision about a transcript, since the budget may end a poll before
  either, but is fresh in each. `CaughtUp` assumes, inside the property, that lanes
  eventually stay free and the roots come back.
* `GitWatch`: weak fairness on the steps of a poll and on the worker, both tickers.
* `CursorVendor`: weak fairness on the collector and on the clock. Requests, stores
  and files fail a bounded number of times.
* `Usage`: every pass of the loop comes to each of its parts (strong fairness on
  the healer, the drain and a poll whose intervals have passed, which exclude one
  another), what is under way goes on, and a command that holds the lock ends.
* `Daemon`: weak fairness on each process, each command, the supervisor's restart
  and the end of a probe. `CursorRails` has no liveness property.
* `SelfUpdate`: weak fairness on the steps of the update goroutine, whose ticker
  runs until the daemon ends, whose dialog has a timeout of five minutes and whose
  requests have timeouts; and on the end of the cooldown. Nothing is assumed of
  GitHub, the backend or the engineer. `CatchesUp` assumes that the daemon is not
  killed again and again, and execs return with an error finitely often.

## 4. What the code does that its comments deny

One run shows a finding of the project.

`TailDegraded`: a transcript that has grown by more
than a bound without one event makes the watcher count as degraded
(`claudeDegradationStep`); while it is, `pollClaudeTranscripts` advances over what it
parses and discards the events, because hooks "were live for that window and
already emitted them" (`capture/cmd_claude_watch.go:649-651`). The program
installs no such hooks: `touchClaudeHookTakeover` and
`suppressForTranscriptCapture` have no caller outside the tests and the capture
mode is always "transcript" (`capture/session.go:36`). The events of the poll that
recovers are captured by nobody, although the comment ends: "neither a real
mid-session format break nor a false-positive degradation can double-emit or lose
events".

The further configurations show the same kind of disagreement, each violated:

1. `OutboxTruncateCrash`: `compact` truncates and then resets the cursor
   (`outbox/outbox.go:1289`, `1292`). In between, a death or a failing write leaves
   the old cursor over an empty file; later appends that reach that length are
   skipped. `rewriteTail` orders the two the other way and explains why
   (`1343-1344`).
2. `OutboxDesyncFallback`: `readChunk` says that a caller seeing `desynced` *must*
   end the pass (`927-928`). The fallback branch (`804`) does not, and the rest of
   the pass writes cursors one line too far.
3. `TailClaim`: `dedupeFileDiff` claims a hash before the append
   (`capture/diff_dedup.go:798`). If the lane refuses, the tail rewinds, the
   re-read finds the claim and returns without queueing, against "since the tail
   now rewinds its offset on ErrQueueFull, neither is one this queue DROPS"
   (`capture/cmd_claude_watch.go:1708-1710`).
4. `DurabilitySkip`: after a failing `git show` the fold loop takes the next commit
   (`capture/durability_watch.go:194`), which moves the cursor past the failed
   one that was to be "retried next poll" (`capture/durability.go:640-641`).
5. `UpdateRace`: `checkAndApply` reads the org's switch before the release tag is
   fetched and decides after it who consents (`selfupdate/selfupdate.go:468`,
   `531`). The first policy answer usually arrives in between on a machine without
   a cache: with `autoUpdate:false` the machine then counts as managed, nobody is
   asked, and the build is installed although "reaching here means it said yes"
   (`518-519`).
6. `GitWatchRefused`: "Enqueue failed — leave the SHA out of the ledger so the next
   poll retries it" (`capture/git_watch.go:1703-1704`); but the cursor was saved
   before the loop, no later poll enumerates the commit, and the test of the
   retry (`capture/attributed_commits_test.go:309`) passes because it puts the
   cursor back itself.
7. `GitWatchSlides`, `NothingAppliedTwice`: "the range being replayed runs forward
   from that empty ledger to the root's head, so nothing is applied twice"
   (`capture/rework.go:657-659`); a replay that the cap ends in the middle of a merge
   folds a commit of the first-parent chain again in the next poll. And a "bare
   `git checkout --detach` and a bisect walking ancestors of the cursor are covered
   BECAUSE their range is empty" (`capture/git_watch.go:1608-1610`): the empty range
   takes the cursor back with it (`1422`), and when HEAD is on the branch again, the
   commits in between are new once more and are folded onto the spans that stand
   behind them.
   `NothingLeftOut`: commits reported before are skipped, as "re-running rework over a
   commit already accounted for would double-count its churn"
   (`capture/git_watch.go:1677-1679`); but the record is one for all checkouts, and
   where another checkout, or the search off every HEAD, came first, the ledger that
   tracks the branch has not folded the commit: the hunks of the next one are applied
   to spans that do not stand in its parent.
8. `CodexRefused`, `FastCounted`: a rewind keeps `prevUsage` and the count of the fast tier while it
   reads two counters again, and the lower one "restarts the baseline"
   (`normalize/normalize_codex.go:238`): growth already counted is added again,
   although "a repeated line adds nothing".
9. `CodexRefused`, `GoForward`: a fresh processor's rewind offset is 0; a refusal while it holds a
   turn of the replayed prefix rewinds a rollout that was admitted at its end to
   its first byte, against "not out-of-window history"
   (`capture/cmd_codex_watch.go:577-578`).
10. `CursorDeletes`: `cursorHookBlindKinds` are "the event kinds the HOOK rail cannot
    emit, so the transcript rail must keep covering them"
    (`capture/cmd_cursor_watch.go:721-722`); a deletion is such a kind and is not
    among them.
11. `DaemonRecycled`: the lock "is immune to PID reuse" (`capture/instancelock.go:33-37`),
    and `RunClaudeWatcher` then refuses to start because its pidfile names a pid that
    lives (`capture/cmd_claude_watch.go:564`): the supervisor revives the job for
    ever and nothing captures.
12. `DaemonProbe`: a probe "non-destructively" takes the lock for an instant
    (`capture/instancelock_unix.go:53-71`); a watcher that starts then registers its
    directory with a holder that does not exist, and exits.
13. `GitWatchThree`: a tombstone of the rework ledger is written with "the latest write
    either view can see" (`capture/rework.go:216-218`), but a view is read by
    `ledgerLookup`, which returns the first checkout that has a mark
    (`capture/git_watch.go:315-326`). A clone has an older mark of a path, a second
    worktree a later one. The first worktree seeds the path on the later mark, from a
    commit the second one holds; a commit the second one does not hold rewrites the
    lines, and the clone's older mark becomes the tombstone's stamp; when the second
    worktree holds the next commit, the write already spent is "strictly newer" and
    seeds again. This is how the comment on `reworkSeedEvidence` says a narrow view
    fails ("letting that same spent write clear the strictly-newer gate later",
    `capture/rework.go:184-188`). Proving `EvidenceFresh` led to it: with two checkouts
    the argument goes through.

Other behaviours met while modelling, excluded by the properties that would fail:

* *Outbox and ledger*: a rotation that keeps failing drops one retained segment
  per retry; an index that could not be committed and whose removal fails too makes
  the next event link to a stale tip, and its session forks
  (`sign/buffer.go:121-123`); in batch mode a reader that meets half a line starts the next one in
  its middle; a torn append swallows the line after it. A beat understates a lane
  that is compacted and refilled between its reads; a lane emptied after a local
  fault stays "retrying"; drop counts restart when their file cannot be read; a
  lane that was never delivered hides behind one that was; doctor compares the cap
  with the file's size, which "Append drops on FILE SIZE, not on backlog depth"
  says and `outbox.go:298` does not.
* *Claude tail*: the stale flush is withheld only while *both* lanes are full
  (`capture/cmd_claude_watch.go:954`) but appends to one, and with that lane full
  the message is lost; a tool call that waits for its result dies with the
  process; a message whose lines enclose a result can be queued twice with
  different bodies after a rewind; a save that fails makes the processor read
  lines twice; a transcript seeded at its end may begin inside a record; the
  migration of a transcript older than the window skips what was unread.
* *Codex tail*: a save that fails while a lane is full can lose a turn, or repeat
  a prompt; a stale flush into a full lane loses a turn; the final answer of a turn
  can come again after a rewind. The id of a usage event has the model and the tier
  seen so far in it, which a rewind keeps (`normalize/normalize_codex.go:252-262`,
  `537-543`): a counter that is read again after a later turn's context is queued a
  second time under another id.
* *Cursor*: a shutdown deletes progress (`cmd_cursor_watch.go:199-202`); a hook that
  overruns on a claimed transcript loses its step; a "no" on a growing transcript
  and the head of one still being copied are cached as final; an old transcript
  resumed after the start is read from its first byte. Costs stay claimed for up
  to seven days after a sign-out (`cursor_vendor_claims.go:78`); a slow first
  account can starve a second; a login that the cap of sixteen or a failing file put
  out of the map is no longer recognised (`cursor_account_attribution.go:56-60`,
  `85-127`); an account whose absence or every event the outbox refused counts as
  told of (`cmd_cursor_usage.go:119`, `259-268`); a store that cannot be read is passed
  silently;
  rows rewritten while pages are read are torn until the next poll.
* *Git*: two pollers fold one commit twice; a session resumed after `aiPathsTTL`
  brings back spent evidence; verdicts are emitted although the ledger write
  failed; a refused or unreadable commit is passed without a fold, an amended one
  folds over the old lines, and spans slide; a failing `git show`, a failing probe of
  the author (`git_watch.go:1213-1216`, `1709`) or a range that git could not list (`856`,
  `1376-1382`) passes commits of this device that are then never sent; a crash, or a
  write of `attributed-commits.json` that fails (`attributed_commits.go:97-98`), may send
  one twice.
* *Status line and limits*: the healer reads the slot twice, and a key removed in
  between is "installed fresh"; a slot changed between read and write is
  overwritten; a disable that is killed, or whose removal of the record fails and is
  passed over (`statusline.go:215-218`), lets the healer wrap again; a record that
  cannot be read loses the prior at the next enable, and a tick then draws our line
  in place of the wrapped command's (`statusline_shim.go:414-417`), as does one whose
  record a disable removes while it runs; a spool written between read and remove
  is lost, one that cannot be removed is sent again after a restart
  (`window_usage.go:609`, `612`), and an absence overwrites an undrained
  reading; a refused window reading is not retried; hits carry the account of the
  scan, not of the row, and the key they are told apart by has no account; a hit older than
  sixty days in a file that still grows is forgotten by the scan that sends it, and
  sent by the next (`limit_hits.go:326-330`); a state that cannot be read sends
  everything again (`246-256`).
* *Daemon*: a failed `recordWatchRuntime` leaves the old build on record, also
  across a re-exec that keeps the pid; `restartConfirmed` compares the pid in
  `supervisor.json`; a Windows child without a pidfile escapes `stop`; an uninstall
  on Windows leaves a job that was just launched; a stop that races a start
  clears the new records.
* *Self-update*: a cache that could not be written beats the newer mirror, and an
  answer with a pin and no switch overwrites the mirrored switch; the update
  command, answered late, installs a build older than the one the daemon has
  moved to; after a withdrawn release an older one already declined is offered
  again; the comment of `applySwapAndReexec` says that the daemon exits when exec
  fails, and it goes on.

Files that are written or read as best effort, and whose failure is *not* a step of
any module. The claims of section 3 hold while these work; next to each is what
fails when they do not:

* a hook's claim of a transcript that is not written (`capture/cursor_hooks.go:706-715`):
  hook and tail both tell the step, against `OneStory`; the cache of turns that is
  not written (`capture/cursor_generations.go:180-193`): a response has no model, against
  `TokensJoined`;
* the ledger of file_diff hashes that cannot be read or written
  (`capture/diff_dedup.go:798-832`): an edit that both the tail and another channel see is
  told by both; `Faithful` of the two tails knows no other channel;
* `durability.json` that cannot be read (`capture/durability.go:258-270`): tombstones,
  spans and cursors begin anew, so spent evidence can seed again, against
  `EvidenceSpentOnce`, and a baseline skips what was committed since, against
  `CursorFollows`; that it cannot be *written* is part of the module;
* `rework.json` that cannot be written (`capture/rework.go:246-257`): a fold is lost while
  the cursor goes on, and the next hunks slide the spans, against `SpansInPlace`; that
  cannot be read (`231-242`): the checkout binds anew, without its tombstones, and a
  write that was spent can seed again – `EvidenceFresh` speaks of one binding;
* progress files of the tails that cannot be read: the transcript is admitted as a new
  one, and what lies before its base is skipped or told again;
* the state directory of the updater as a whole (a declined version or a cooldown that
  is not written is part of the module).

## 5. Proofs

TLAPS checks the following for every value of the constants that the modules'
assumptions allow – any sets of events, sessions or accounts, any limits, every
environment – and not only for those of the runs.

| theorem | states | assumes |
|---|---|---|
| `OutboxLaneProofs!TypeCorrect` | `Spec => []TypeOK` | – |
| `OutboxLaneProofs!SettledAnswered` | `Spec => []OnlyAnsweredSettled` | `ReaderSafe` |
| `OutboxLaneProofs!NothingLost` | `Spec => []NoLoss` | `Durable` |
| `OutboxLaneProofs!LaneIsQueue` | `Spec => QueueSpec` | `Durable` |
| `SignChainProofs!TypeCorrect` | `Spec => []TypeOK` | – |
| `SignChainProofs!LinksSound` | `Spec => []NoDanglingLink` | – |
| `SignChainProofs!LedgerIsOneChain` | `Spec => []OneChain` | – |
| `SelfUpdateProofs!TypeCorrect` | `Spec => []TypeOK` | – |
| `SelfUpdateProofs!NothingRepeated` | `Spec => []NoRepeats` | – |
| `SelfUpdateProofs!IntentSurvives` | `Spec => RestartKeepsIntent` | – |
| `SelfUpdateProofs!NeverBackward` | `Spec => RunsForward` | – |
| `UsageProofs!TypeCorrect` | `Spec => []TypeOK` | – |
| `UsageProofs!SlotIsKept` | `Spec => []SlotKept` | – |
| `UsageProofs!LanesAreTrue` | `Spec => []LanesTrue` | – |
| `UsageProofs!NothingToldTwice` | `Spec => ToldOnce` | – |
| `CursorVendorProofs!TypeCorrect` | `Spec => []TypeOK` | – |
| `CursorVendorProofs!PollsAreTrue` | `Spec => PollsTrue` | – |
| `DurabilityProofs!TypesHold` | `Spec => []TypeOK` | – |
| `DurabilityProofs!WriteSpentOnce` | `Spec => []EvidenceSpentOnce` | – |
| `DurabilityProofs!LedgerHolds` | `Spec => []LedgerTrue` | – |
| `DurabilityProofs!NoneSkipped` | `Spec => CursorFollows` | – |
| `DurabilityProofs!Verdicts` | `Spec => VerdictsTrue` | – |
| `TranscriptTailProofs!TypesHold` | `Spec => []TypeOK` | – |
| `TranscriptTailProofs!NothingIsLost` | `Spec => []FullLaneDelays` | – |
| `TranscriptTailProofs!NothingIsMadeUp` | `Spec => []MakesUpNothing` | – |
| `TranscriptTailProofs!OnlyForward` | `Spec => GoForward` | – |
| `TranscriptTailProofs!LanesAreFaithful` | `Spec => Faithful` | – |
| `GitWatchProofs!TypeCorrect` | `Spec => []TypeOK` | – |
| `GitWatchProofs!EvidenceIsFresh` | `Spec => []EvidenceFresh` | `TwoCheckouts` |
| `GitWatchProofs!CommitsCountOnce` | `Spec => []ReportedOnce` | – |
| `GitWatchProofs!SpansStayInPlace` | `Spec => []SpansInPlace` | – |
| `GitWatchProofs!OwnAreReported` | `Spec => []OwnReported`, the safety part of `CaughtUp` | – |

A dash means: nothing but the modules' assumptions on their constants
(`LineAssumption`, `PlanAssumption`, `UpdateAssumption` and so on), which TLC
evaluates in the runs. What a property itself excludes (`OneFileKept`, `OnePath`,
`Regular`, the events in `unindexed` for a fork) is part of its definition.

The preservation proofs have one step per action. None of the properties is
inductive; what has to be added to each is the following.

### The outbox

`ReaderSafe`: where there is a batch route, no read meets a half-written append
and no capped chunk falls back to per-event delivery. Without it the property is
false: the first exclusion is the batch reader's handling of half a line, the
second is configuration 2 of section 4. `Durable` adds that no append is torn (the
event glued to a torn one cannot be parsed) and that truncation is not interrupted
(configuration 1). So the theorems say that these exceptions are the only ones,
and crashes anywhere else, failing cursor writes, byte caps, and (with `Batch`
false) split and torn writes are covered by them. The settings of `OutboxLanes` are
three instances of what is proved.

A cursor write is right because of the lines the drain has in hand, and those are
right because of where its reader stands.

* `TypeInv` adds to `TypeOK` that lines in hand end with a newline the file still
  has (`LinesInHand`) and that `compact` changes the file only under the lane lock
  (`CompactLocked`). It holds in every environment.
* `SettleInv` says where the reader and the lines in hand are relative to the
  cursor (`ReaderAtCursor`, `HandAtCursor`), that a reader ahead of its lines comes
  of the byte cap and does not outlive the chunk (`CutChunk`, where `ReaderSafe`
  is needed), and that what is about to be committed is answered for
  (`ChunkProven`, `LineProven`).
* `KeepInv`, on top of both, is `OneUnfinished` (only the append that holds the
  lock may have left an incomplete line, and only at the end), `CursorAtLine` (the
  cursor is at the start of a line, and `compact` copies from the cursor it
  found) and `Remembered` (an accepted event without an answer can be read from
  `KeptFrom`: the cursor, or, while the tail is being renamed into place, the
  offset that the old file is cut at).
* `QueueInv` is what the refinement needs besides: `OnlyAccepted` (the file holds
  nothing but accepted events and the append in progress) and `PassedAnswered` (a
  cursor at 0 would bring back only what has its answer). Under it a commit, a
  compaction or a restart is a step of `DeliveryQueue` or none: what becomes
  pending again was answered for, and what stops being pending too.

The lemmas in front of them say what an append, a cut and a moved cursor do to
newlines, line starts and the events between two offsets.

### The signed ledger

`Inv` has `Room`, `LinesWritten`, `Chronological`, `Retained` and `Vacated` about the
segments – whatever stands in them is in order and only the oldest are gone, also
in the middle of the rotation cascade – and `Tips` (`TipsOwn`, `TipsCurrent`) and `Links`
about the chain: a tip, in the index or in the hands of an append, is an event of its
session behind which only events of `unindexed` are missing, those that died before
the commit or whose stale index could not be removed; a link is such a tip. The rotation is proved on segments place by place (`Sorted`, `Written`,
`Kept`), since a concatenation of all of them would need induction.

### The update goroutine

`Inv` says of the files that a probe which said "not newer" is still right
(`ProbedOld`), of a target that it is newer (`Upward`), of the policy that the last
answer is in one of the two files unless both may be stale (`IntentKept`, `NoPins`),
of the releases that the one version remembered covers all that were offered
(`Newest`, `AskedNewest`), and of restarts that a file which was started and not
yet cooled down is blocked by the guard or has been left behind (`Guarding`, with
`Current`), and that on one path nothing goes back (`FileForward`).

### The status line, the limits and the lanes

The three parts share no variable, so each action of `Usage` is, for each part, a
step of that part or a stutter (`LineSteps`, `PlanSteps`, `LaneSteps`), and each part
has its own invariants.

* The slot: `SlotTypes` has at most one locked operation under way; `SlotHeld` says,
  for each place at which a command or the healer may die, what the slot and the
  record hold between them, and that an `off` comes with a record that is gone; `StreakCounted` relates the re-wraps in a row to the
  count in the record, with an allowance for each heal that died or failed before
  it counted itself.
* The shim: `CachesOwn` and `OwnLine`: a cached line is of the session and the command
  in whose name it is kept, so what is drawn is. `ClearedSince` counts the removals of the
  record: where a tick found it gone, one came since the tick began, so our own line
  stands for a wrapped command only then, or where the record could not be read.
* The windows: `Dated` and `Unspent`: no reading is from the future, and one that is
  in the spool, in a tick or in the drain is newer than all that was sent, or
  will not be sent, or its file was sent before and could not be removed
  (`sent.stayed`).
* The limits: `PlanDated` and `HitsHeld`: what was sent is in the stored position or in
  the poll's own copy, or its window has expired, or it was lost to a counted mishap. `CountsBounded` and
  `MaxInSet` give the scan its newest hit.
* The lanes: `FilesHeld`, `DropsHeld` (counter, counts under way and counts cut short
  sum to the events refused), `HealthHeld` (the lanes that fail, in the order in
  which they began to, against the health in memory at each step of a drain),
  `BeatHeld` (what a heartbeat has read so far), `StillHeld` (a lane that stands
  still has events, and a cursor time that doctor will find old).

### The collector of vendor usage

* `Backed`: what a pool – in memory or on the disk – says was sent, the backend has,
  rows and manifests both, unless it lost something. With `TookAll`, what a reading
  leaves the backend with, this is why leaving out a row or a manifest never
  leaves a reading that cannot be rebuilt.
* `CalmKept`, `CalmRead`: a reading to which nothing has happened since it was sent
  is in the pool as the vendor would give it again, and while it is read again the
  pages in hand are a prefix of the one feed. Then nothing is left to send.
* `Sorted` has its own lemma: a reading is in the order of its lines, rows with equal
  lines in the order of the feed, so two readings of the same rows are the same.
* `Covered`, `InHand`: an account the poll found has been told of, is in `unheard` or is
  still to come to, or the poll's time ran out; the one being read is the first of
  those to come.
* `Known`: what was read and not forbidden since is in the logins or in `dropped`, and
  there are never more than `keep` logins.

### The durability ledger

`VerdictsTrue` is proved for files and histories of any length, any number of
paths, sessions, pollers and days, and hunks of any size (one or two in a commit).
`IInv` is `Basics /\ EvidenceInv /\ LinesInv`.

* `Basics` is `History` (every commit is the patch of its parent by its hunks:
  `Moved` says where each line comes from; no line stands at two places,
  `Distinct`; without a rewrite the branch is one chain, `Linear`), `Types` and
  `Pollers` (which label a poller can be at with a queue, evidence in hand or
  verdicts to report). It holds in every environment.
* The lemmas before it are the arithmetic: `Geometry` says, of one hunk and of two
  that do not touch, that `Patched`, `NewSides`, `Churned` and `ShiftFor` agree – an old
  line is churned or stands at its shifted place, a new place is shifted from an
  old one or lies in a new side, and no two old lines meet. `LinearUnfolded` says
  that the commits to fold are the cursor's successors, by the least commit for
  which that would fail.
* `LinesInv`, under `Regular`: the queue continues the cursor (`Following`), a
  tracked offset stands for a line its lineage brought in (`Lines`), what was
  reported is not from after the cursor, not reported twice and not tracked any
  more (`ToldPast`, `ToldOnce`, `ToldGone`: without these a line that was churned
  could be harvested too), and what was seen is tracked or told (`SeenKept`). A fold
  and a harvest are each a `Turn`: what is tracked after it was tracked before or
  came in with the commit, and what is not any more is reported.
* `EvidenceInv`, where no session resumes and one process polls: a write that was
  spent and that a live session still holds is covered by a tombstone or the path is
  tracked (`SpentBacked`), also in what a poller has read and not yet used
  (`SpentViewed`), and where both checkouts know a path the own write is the newer
  (`OwnNewer`), so that a sibling that moves away or back brings nothing again.

### The Claude tail

`Faithful` is proved for transcripts of any length and any set of messages and
calls, and for the conditions each of its parts names. It compares the queue with
a pass over the whole transcript, `Pass`, so the proof has two halves: what the
watcher keeps at each step, and what a pass yields.

The watcher. `Here` is the record up to which it has dealt with the transcript, and
`Safe` an event that is queued or about to be (`out`). Nearly every step is `Quiet`:
it leaves the events, the processor and `Here` as they are.

* `BaseInv` is about single states: `TypeOK` by parts, with what each place of the
  poll implies (nothing in `out` but at `queue`, a progress of this schema once the
  poll has begun). `Becomes` and `Made` say of `Processed` and `Produced`, field by
  field, what the rest uses.
* `PromptsInv`: a prompt before the saved offset, or before the one that is read
  at, was queued. It holds under every condition but degradation.
* `ToolsInv` and `ResponsesInv`: the event of a call or of a message is safe, or comes
  of the processor and the records after `Here`; and while the processor holds
  anything, it was queued or comes of the records after `rewind` alone. The second
  half is what a refusal needs, which discards the processor and goes back there.
  `Forward` (where saves fail, the saved offset is not past the one read at) and
  `ClaimsSent` (a claimed file_diff was queued) are for a save that fails.
* `OnceInv`: what is queued or in `out` is known to the processor – a prompt it has
  passed, a message it has flushed, a call it has seen and does not wait for – and a
  record makes nothing that is known (`KnownAfter`, which needs `CallsOnce`).
* `GoInv`: what the processor and `out` hold comes of records after `base`. It needs
  where the records older than the window end (`Past`: behind `base`; `Scanned`: what
  the classification has passed has no cwd) and that an entry which has not been
  read has an empty processor (`UnreadIsEmpty`), or a decision taken again could
  move `base` under what is held.
* `FollowsInv`, where lanes fill and no message encloses a result: the watcher holds
  what the reading in one go held after the same record; its memo of flushed messages
  may be smaller, since a rewind clears it, and that makes no difference because
  a message in the larger one has no line left (`InOneGo`).

The pass. `PassIsRun` takes `Pass` apart into a sequence of states, by the least record
at which that would fail; `Upward` is the induction over records as a fact about a
set, so no operator is a parameter. `FutureHas` is what a pass is sure to give (a
later prompt; a message or a call that `ResponseComes`, `ToolComes`), `FutureIsFrom`
that a pass of an empty processor gives nothing else. `FullLaneDelays` is then the
three invariants between polls, where `Here` is the saved offset.

### The git watcher

* `TypeInv` has `LogOK` (every commit reaches itself and its first parent's reach,
  never a later commit, and changes what its shape says), `Marks`, `Repository`,
  `Files` and `Progress`. A ledger is in `Ledgers(r)`, which the fold keeps: `FoldSet`
  picks a path at a time, and `FoldStays` is the induction over what is left, by
  the least size at which it would fail, so no operator is a parameter.
* `Unspent`, a part of `Ledgers(r)`, is why no write is spent twice: while a seed
  stands on a path, the stamp of that seed is not later than the mark the ledger
  would find now, and without spans it is not later than the tombstone. The first
  half needs `TwoCheckouts`: of two checkouts the recorded view reads both, or the
  own mark that only grows. With three it is false (`GitWatchThree`).
* `SentInv`: what was sent is in `attributed-commits.json`, in what this poll has
  added, or in `forgotten`, and from the end of the HEADs on, the poll knows what was
  not forgotten.
* `OriginInv`: what a cursor is about to pass (`Over`) is in what the poll found for
  its checkout, and the requests of that are made; so `ReportedOnce` holds although a
  poll takes less than the range: the oldest commits of a range are closed downwards
  (`OldestDown`), so the newest of those taken has nothing untaken below it
  (`OldestCover`, `OldestCoverChain`).

That spans stay in place (`SpansInPlace`) has an invariant of its own, `PlaceInv`:

* `ChainInv` holds in every environment: the chain of a commit is its first parent's
  and itself, and its files are those of its first parent after its change. So the
  commits of a chain, in order, are diffs that compose (`OnTopOf`).
* `SpansInv` holds where the property is promised (`Straight`). `HeadInv`: every HEAD
  is the tip of a branch of its own and no commit is off every branch, so nothing is
  pruned and a branch only goes on (`BranchesOnward`). `Stands` is the heart: the spans
  of a ledger that is bound to a branch stand in one commit `k` of that branch, and
  `Way` says that what is still to be folded in this poll is all of the chain from
  `k` to the cursor, or to the end of the replay that is owed. `PollInv` says for each
  step of a poll which checkouts rest like that (`Rests`), which are visited and what
  was found for them (`VisitOK`), which wait with moved cursors (`Waits`), and how far
  the one being attributed has come (`Busy`).
* `AppliesWell` is the step that matters: the oldest commit left is a child of `k`, so
  its hunks are applied to the content they were made on, and the spans then stand
  in it. A ledger that is being adopted is empty until a replay, or a HEAD that
  is reached, gives it a place (`BindRootBinds`, `FinishedStands`).
* With merges a range is not a chain: the oldest commits of a range that is cut in its
  middle leave out some of the chain, which is what `Whole` excludes and where
  `OldestWhole` and `TakenIs` are needed.
* `LoneInv`: where there is one checkout and no fast-forward, nothing that a bound ledger
  is still to fold has been reported (`Unmet`), so nothing is left out; `Unseen` is
  why the step over the commits off the HEADs reports none of them.

That the cursors skip no commit of this device (`OwnReported`, what `CaughtUp` says of
every state) has `TellInv`:

* `Answers`: of a checkout that owes no replay, what its cursor reaches has been told,
  skipped by a failure, declined, or was there at the baseline (`Told`); of one that
  owes a replay, the same holds of what the end of the replay reaches and the replay
  does not. What this poll has found for the checkout and not attributed yet (`Pending`),
  or passes without being able to list it (`unseen`), is excepted. So a cursor may only move over
  what is attributed in the same poll, and a cold start may only take a base below
  which all is in the baseline.
* `PollHeadTells` has a case for each way a checkout is visited. A batch that the caps or
  the shared budget cut takes the oldest commits, and what its newest does not reach is
  still in the range (`OldestCover`); a replay that is cut keeps its end, and the rest
  of its chain (`ChainLeft`).
* Whatever is recorded, seen off the HEADs or kept by another checkout is reported
  (`Known \cap Mine \subseteq Reported`, where `Reported` is sent, skipped or declined), so
  leaving it out of a batch skips nothing.
* It holds in every environment: what a failing probe, a failing `git show`, an unlisted
  range or a death passes over is in `skipped` at that step, what the outbox refuses in
  `declined`, and nothing else may be missing.

### Only model-checked

* liveness (`Served`, `CaughtUp`, `Shown`, `AllTold`, `Returns`, `CatchesUp`):
  fairness and ENABLED are out of the prover's reach;
* of `GitWatch`, nothing else that is safety: `EvidenceFresh` without `TwoCheckouts` is
  false;
* the properties of `CodexTail`, `CursorRails` and `Daemon`. `Faithful` of the Codex
  tail compares with a pass as that of the Claude tail does, but the processor
  has four times the state, and a restart replays a prefix of it; `CursorRails`
  filters sequences. What such operators yield for every input can be proved along
  the lines of `PassIsRun` and `Upward`. The properties of `Daemon` hold in
  the environments of `MCDaemon`, which keep apart events whose combinations the
  code does not survive, and not in every environment.

## 6. Not modelled, and plan

Not modelled: redaction and projection (pure functions of one event, regular
expressions), the census and discovery (directory walks and parsing), the
command line's output, the transport below the answers the drain distinguishes,
the npm wrapper. Within the modelled components, what section 2 lists.

Worth proving next: `Faithful` of `CodexTail`, beginning with its types and the
`Becomes` of its processor. Worth modelling next: the
installation of the Cursor hooks with its repair, bash windows with the recovery
of commits from them, and a composition of `Daemon` with `SelfUpdate`.
