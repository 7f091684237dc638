----------------------------- MODULE PlanLimits -----------------------------
(***************************************************************************)
(* Which plan an engineer is on, which of its limits were hit, and how     *)
(* full its windows are, from what the tools leave on the disk             *)
(* (internal/capture/plan_tier.go, limit_hits.go, window_usage.go).  The   *)
(* watcher of a provider reads the tier every six hours and sends it when  *)
(* it changed and once a day; it scans the transcripts for refused         *)
(* requests every five minutes, from where the last complete scan began    *)
(* less an overlap; and the Codex watcher looks for the newest token count *)
(* that carries a window.  A file per provider holds what was sent.        *)
(***************************************************************************)
EXTENDS Integers, FiniteSets, FiniteSetsExt

CONSTANTS
  Accounts,    \* who may be signed in; one of them may stand for a file that cannot be read
  Nobody,      \* nobody is: an observed absence, which is sent like a tier
  Files,       \* transcripts or rollouts, one session each
  Limits,      \* windows that may be exhausted: a name and the time it resets
  Unread,      \* no tier was read, none was sent
  Overlap      \* how far a scan reaches back before the last one

PlanEvents == {"signin", "refused", "pass", "midnight", "old", "full", "unsaved", "unread", "count", "age", "week"}

ASSUME PlanAssumption ==
  /\ Overlap \in Nat /\ IsFiniteSet(Files) /\ Nobody \notin Accounts /\ Unread \notin Accounts \cup {Nobody}

VARIABLES
  odds,        \* how often each event may still happen
  \* The tools.
  codex,       \* whose emitters these are: Codex's or Claude's
  account,     \* who is signed in
  hits,        \* the rows about limits in the transcripts
  mtime,       \* when each was written last
  counts,      \* the newest token count with rate limits of each rollout
  lastPlan,    \* the plan of the newest one of the last seven days
  \* Time, in units longer than limitHitScanInterval.
  now, date,
  expired,     \* the limits that reset more than 2 * limitHitFirstLookback ago
  stored,      \* plan-limits-<provider>.json
  \* The emitters.
  tier, tierDate,              \* planLimitEmitter: the tier read last, and the day it was looked at
  poll,        \* a poll under way: its copy of the file, and the hits it has still to send
  observed,    \* codexWindowEmitter: the newest reading it has sent
  \* For the properties.
  shown,       \* the tier sent last, and its day
  reported,    \* how often each hit was sent, the repeats of an expired one not counted
  told,        \* the newest reading sent in this life of the watcher
  dropped,     \* the readings that the full outbox refused
  mishaps      \* how often what was sent may not have been written down, or was not read back

planVars == <<odds, codex, account, hits, mtime, counts, lastPlan, now, date, expired, stored, tier, tierDate, poll,
              observed, shown, reported, told, dropped, mishaps>>
toolVars   == <<codex, account, hits, mtime, counts, lastPlan, now, date, expired>>
codexVars  == <<observed, told, dropped>>
limitsVars == <<stored, tier, tierDate, poll, shown, reported, mishaps>>

Signed == Accounts \cup {Nobody}
Tier(plan, acct) == [plan |-> plan, acct |-> acct]
NoTier == Tier(Unread, Unread)
NoRow  == [tier |-> NoTier, day |-> 0]
NoState == [tier |-> NoRow, scan |-> 0, hits |-> {}]
NoPoll == [on |-> FALSE, scans |-> FALSE, st |-> NoState, left |-> {}, failed |-> FALSE, now |-> 0]
NoCount == [at |-> 0, span |-> {}]

Odds(e) == odds[e] > 0 /\ odds' = [odds EXCEPT ![e] = @ - 1]
AllOdds(E) == /\ \A e \in E : odds[e] > 0
              /\ odds' = [e \in DOMAIN odds |-> IF e \in E THEN odds[e] - 1 ELSE odds[e]]

PlanInit(n, provider, first) ==
  /\ odds = n
  /\ codex = provider /\ account = first /\ lastPlan = Unread /\ hits = {} /\ mtime = [f \in Files |-> 0]
  /\ counts = [f \in Files |-> NoCount]
  /\ now = 1 /\ date = 1 /\ expired = {}
  /\ stored = NoState
  /\ tier = NoTier /\ tierDate = 0 /\ poll = NoPoll /\ observed = 0
  /\ shown = NoRow /\ reported = [l \in Limits |-> 0] /\ told = 0 /\ dropped = {} /\ mishaps = 0

-----------------------------------------------------------------------------
(* The tools, and time.                                                     *)

SignIn ==
  /\ Odds("signin") /\ account' \in Signed \ {account}
  /\ UNCHANGED <<codex, hits, mtime, counts, lastPlan, now, date, expired, codexVars, limitsVars>>

\* What a row may say: Claude refuses a request, or lets it run on overage; a window of Codex is full, or nearly, or
\* the fullest one of a count that names a limit as reached (rate_limit_reached_type).
Says == IF codex THEN {"full", "reached", "partly"} ELSE {"rejected", "overage"}

LimitRow ==
  /\ Odds("refused")
  /\ \E f \in Files, l \in Limits \ expired, says \in Says :
       /\ hits' = hits \cup {[f |-> f, limit |-> l, says |-> says, at |-> now]}
       /\ mtime' = [mtime EXCEPT ![f] = now]
  /\ UNCHANGED <<codex, account, counts, lastPlan, now, date, expired, codexVars, limitsVars>>

\* A turn of Codex ends: its rollout holds a newer count, of a window that has a slot on the wire or of one that
\* has none, under the plan of the account.
TokenCount ==
  /\ codex /\ Odds("count")
  /\ \E f \in Files, span \in {{"hours", "month"}, {"month"}} :
       counts' = [counts EXCEPT ![f] = [at |-> 1 + Max({counts[g].at : g \in Files}), span |-> span]]
  /\ lastPlan' = account
  /\ UNCHANGED <<codex, account, hits, mtime, now, date, expired, codexVars, limitsVars>>

\* A rollout is older than codexWindowLookback; all of them are older than codexPlanLookback.
RolloutAges ==
  /\ \/ Odds("age") /\ UNCHANGED lastPlan
        /\ \E f \in Files : counts[f] # NoCount /\ counts' = [counts EXCEPT ![f] = NoCount]
     \/ Odds("week") /\ counts' = [f \in Files |-> NoCount] /\ lastPlan' = Unread
  /\ UNCHANGED <<codex, account, hits, mtime, now, date, expired, codexVars, limitsVars>>

TimePasses ==
  /\ \/ Odds("pass") /\ now' = now + 1 /\ UNCHANGED <<date, expired>>
     \/ Odds("midnight") /\ date' = date + 1 /\ UNCHANGED <<now, expired>>
     \/ Odds("old") /\ (\E l \in Limits : expired' = expired \cup {l}) /\ UNCHANGED <<now, date>>
  /\ UNCHANGED <<codex, account, hits, mtime, counts, lastPlan, codexVars, limitsVars>>

-----------------------------------------------------------------------------
(* planLimitEmitter.                                                        *)

\* The plan of a Codex account is the one of its newest rollout, and its token's when that is too old; the
\* account itself is always the one that is signed in.
ClaudeTier == Tier(account, account)
CodexTier  == Tier(IF lastPlan # Unread THEN lastPlan ELSE account, account)
TierRead == IF codex THEN CodexTier ELSE ClaudeTier

ClaudeHit(row) == row.says = "rejected"
CodexHit(row)  == row.says \in {"full", "reached"}
IsHit(row) == IF codex THEN CodexHit(row) ELSE ClaudeHit(row)

\* The rows of the files that were written since.
ModifiedSince(since) == {f \in Files : mtime[f] >= since}
RowsIn(files) == {h \in hits : h.f \in files /\ IsHit(h)}
\* One hit for each window, as it was first seen.
Earliest(found) == {h \in found : \A g \in found : g.limit = h.limit => h.at <= g.at}
Scanned(since) == Earliest(RowsIn(ModifiedSince(since)))
Since(st) == IF st.scan = 0 THEN 0 ELSE st.scan - Overlap
LimitsOf(found) == {h.limit : h \in found}
Unsent(st, found) == LimitsOf(found) \ st.hits

\* Mutant: the position moves although a hit could not be queued.
PositionMoves(p) == IF p.scans THEN p.now ELSE p.st.scan
Position(p) == IF p.scans /\ ~p.failed THEN p.now ELSE p.st.scan

\* A scan forgets the hits of windows that are long gone, also one it has sent just now.
Kept(p) == IF p.scans THEN p.st.hits \ expired ELSE p.st.hits

Saves(p) ==
  \/ stored' = [p.st EXCEPT !.scan = Position(p), !.hits = Kept(p)] /\ UNCHANGED <<odds, mishaps>>
  \/ Odds("unsaved") /\ mishaps' = mishaps + 1 /\ UNCHANGED stored

\* "reads": six hours have passed, or it has just started; "scans": five minutes have.
\* The tier is sent when it changed or the day did; a tier that was refused is not marked as sent.  A file that
\* cannot be read is taken for an empty one: all is sent again, and saved over what the file held.
PollBegin(reads, scans) ==
  /\ ~poll.on
  /\ reads \/ scans \/ tierDate # date
  /\ tier = NoTier => reads /\ scans
  /\ \E bad \in SUBSET {"unread", "full"} :
     LET st == IF "unread" \in bad THEN NoState ELSE stored
         read == IF reads THEN TierRead ELSE tier
         row == [tier |-> read, day |-> date]
         left == IF scans THEN Unsent(st, Scanned(Since(st))) ELSE {}
         begun(sent0) == [on |-> TRUE, scans |-> scans, st |-> sent0, now |-> now, failed |-> FALSE, left |-> left]
     IN /\ tier' = read /\ tierDate' = date
        /\ \/ /\ bad = {} /\ row = st.tier /\ left = {}
              /\ IF scans THEN Saves(begun(st)) ELSE UNCHANGED <<odds, stored, mishaps>>
              /\ UNCHANGED <<poll, shown>>
           \/ /\ row = st.tier => bad = {} /\ left # {}
              /\ AllOdds(bad) /\ UNCHANGED stored
              /\ mishaps' = IF "unread" \in bad THEN mishaps + 1 ELSE mishaps
              /\ \/ row = st.tier /\ poll' = begun(st) /\ UNCHANGED shown
                 \/ /\ row # st.tier /\ "full" \notin bad
                    /\ shown' = row /\ poll' = begun([st EXCEPT !.tier = row])
                 \/ /\ row # st.tier /\ "full" \in bad /\ UNCHANGED shown
                    /\ IF scans THEN poll' = begun(st) ELSE UNCHANGED poll
  /\ UNCHANGED <<toolVars, codexVars, reported>>

PollHit ==
  /\ poll.on
  /\ \E l \in poll.left :
       \/ /\ poll' = [poll EXCEPT !.left = @ \ {l}, !.st.hits = @ \cup {l}]
          /\ reported' = [reported EXCEPT ![l] = IF l \in expired /\ @ > 0 THEN @ ELSE @ + 1]
          /\ UNCHANGED odds
       \/ /\ Odds("full")
          /\ poll' = [poll EXCEPT !.left = @ \ {l}, !.failed = TRUE] /\ UNCHANGED reported
  /\ UNCHANGED <<toolVars, codexVars, stored, tier, tierDate, shown, mishaps>>

PollSave ==
  /\ poll.on /\ poll.left = {} /\ poll' = NoPoll
  /\ Saves(poll)
  /\ UNCHANGED <<toolVars, codexVars, tier, tierDate, shown, reported>>

-----------------------------------------------------------------------------
(* codexWindowEmitter.                                                      *)

\* A window is carried when it is of about five hours or a week, in whichever place it stands.
Carried(span) == span = "hours"
\* mapCodexRateLimits: the windows of a count that are carried.
Windows(count) == {w \in count.span : Carried(w)}
Usable == {counts[f].at : f \in {g \in Files : Windows(counts[g]) # {}}}
NewestUsable == IF Usable = {} THEN 0 ELSE Max(Usable)

\* An observed absence goes out once an hour, and never stops a reading that follows it.
CodexScan ==
  /\ NewestUsable > observed
  /\ observed' = NewestUsable
  /\ \/ told' = NewestUsable /\ UNCHANGED <<odds, dropped>>
     \/ Odds("full") /\ dropped' = dropped \cup {NewestUsable} /\ UNCHANGED told
  /\ UNCHANGED <<toolVars, limitsVars>>

-----------------------------------------------------------------------------
(* The watchers die and are started again.                                  *)
EmitterDies ==
  /\ tier' = NoTier /\ tierDate' = 0 /\ poll' = NoPoll
  /\ mishaps' = IF poll.on THEN mishaps + 1 ELSE mishaps
  /\ observed' = 0 /\ told' = 0
  /\ UNCHANGED <<toolVars, stored, shown, reported, dropped>>
=============================================================================
