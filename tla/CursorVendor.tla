---------------------------- MODULE CursorVendor ----------------------------
(***************************************************************************)
(* The collector of what Cursor says was spent (internal/capture/          *)
(* cmd_cursor_usage.go).  Every poll reads the logins it finds on the      *)
(* device, asks the vendor for all rows of the current billing cycle, page *)
(* by page, and for those of the one before; the vendor rewrites its rows  *)
(* at any moment.  A reading goes out as the rows that have not been sent, *)
(* and one completion with the manifest of all of them                     *)
(* (cursor_vendor_delta.go), from which the backend rebuilds it.  The      *)
(* hooks are two more readers of its files: they name the login of a turn  *)
(* (cursor_account_attribution.go) and leave the cost of a conversation    *)
(* that the vendor bills to its rows (cursor_vendor_claims.go).            *)
(***************************************************************************)
EXTENDS Integers, Sequences, FiniteSets, SequencesExt, FiniteSetsExt

CONSTANTS
  Accounts,      \* the logins
  Rows,          \* what one row of the vendor may say
  Line(_),       \* the part of a row the identity of a snapshot is made of (canonicalRowLine)
  Conv(_),       \* its conversation
  NoAccount, NoSnapshot,
  MaxRows,       \* the longest feed of a cycle
  MaxCycle,      \* cycles are 0..MaxCycle
  RepairAfter,   \* cursorVendorRepairInterval, in ticks of the clock
  Environments   \* what may happen in a behaviour, and how often

\* "file": a file of the collector's own cannot be read, written or removed.
Events == { "edit", "rollover", "signin", "profile", "policy", "back", "turn",
            "store", "fail", "spent", "refuse", "file", "restart", "lose" }

Cycles  == 0..MaxCycle
Convs   == {Conv(r) : r \in Rows}
Feeds   == BoundedSeq(Rows, MaxRows)
\* The store of the IDE, that of a Cursor that runs with --user-data-dir, and the agent's file.
Sources == {"ide", "profile", "agent"}
Login   == [acct : Accounts \cup {NoAccount}, expired : BOOLEAN]

ASSUME VendorAssumption ==
  /\ \A e \in Environments : /\ e.times \in [Events -> Nat]
                             /\ e.teamed \subseteq Accounts
                             /\ e.late \in BOOLEAN /\ e.keep \in Nat \ {0}
                             /\ e.stores \in [Sources -> Login]
                             /\ e.feed \in [Accounts -> [Cycles -> Feeds]]
  /\ RepairAfter \in Nat \ {0} /\ MaxCycle \in Nat /\ MaxRows \in Nat
  /\ NoAccount \notin Accounts /\ NoSnapshot \notin [Rows -> SUBSET Nat]

VARIABLES
  left,       \* how often each event may still happen
  teamed,     \* the accounts that belong to a team
  late,       \* does a cycle begin after the 28th
  keep,       \* how many logins are kept (cursorAccountLoginsMax)
  \* The vendor.
  cycle, feed,
  \* The device: who is signed in where, and the policy of the organisation.
  stores, open, policy,
  \* Files.
  logins,     \* cursor-account.json: the logins read, the last one first
  profile,    \* cursor-profiles/: is the second profile remembered
  claims,     \* cursor-vendor-cost-claims.json
  history,    \* cursor-vendor-history.json
  disk,       \* cursor-vendor-seen-v2.json
  \* The collector.
  mem,        \* cursorVendorSeenMemory
  todo,       \* the accounts of this poll that are still to be collected
  rd,         \* the reading under way
  \* The backend.
  rows, manifests, published,
  priced,     \* the conversations of which it has ever published a row
  lost,       \* has it lost anything
  \* For the properties.
  found,      \* the accounts this poll found
  said,       \* those it has said something about
  unheard,    \* those of which the outbox refused what there was to say
  cut,        \* did the budget of the poll run out
  read,       \* the logins read since the organisation last said no
  dropped,    \* those a failing file, or too many others, put out of the map
  stripped,   \* the conversations a hook has left to the vendor's rows
  calm        \* the readings that nothing has happened to since they went out

env     == <<teamed, late, keep>>
vendor  == <<cycle, feed>>
device  == <<stores, open, policy>>
files   == <<logins, profile, claims, history, disk>>
backend == <<rows, manifests, published, priced>>
poll    == <<found, said, unheard, cut>>
ghosts  == <<poll, read, dropped, stripped, calm, lost>>
vars    == <<left, env, vendor, device, files, mem, todo, rd, backend, ghosts>>

-----------------------------------------------------------------------------
(* Readings, and the pools they are sent to.                                *)

\* A reading is sorted by line, and rows of one line stay as the pages had them: it is where each row
\* stands among those of its line.
Rank(s, i) == Cardinality({j \in 1..i : Line(s[j]) = Line(s[i])})
Sorted(s) == [r \in Rows |-> {Rank(s, i) : i \in {i \in DOMAIN s : s[i] = r}}]
RowsOf(b) == {r \in Rows : b[r] # {}}
ConvsOf(b) == {Conv(r) : r \in RowsOf(b)}
Lines(b) == [l \in {Line(r) : r \in Rows} |-> UNION {b[r] : r \in {r \in Rows : Line(r) = l}}]
SnapshotId(a, c, b) == <<a, c, Lines(b)>>

Never == -2     \* a stamp that was never set
Future == -1    \* one that the clock has been set back behind
Ages == Never..RepairAfter
\* Mutant: a stamp that is not bounded.
Counted(age) == IF age = Never THEN age ELSE age + 1
Older(age) == IF age \in {Never, RepairAfter} THEN age ELSE age + 1
Behind(age) == IF age = Never THEN Never ELSE Future
Recent(age) == age >= 0 /\ age < RepairAfter

NoPool == [hashes |-> {}, snap |-> [a \in Accounts |-> NoSnapshot], man |-> [a \in Accounts |-> NoSnapshot],
           repaired |-> [a \in Accounts |-> Never]]
NoHistory == [snap |-> NoSnapshot, age |-> Never]

EachPool(pools, F(_)) == [c \in Cycles |-> [pools[c] EXCEPT !.repaired = [a \in Accounts |-> F(pools[c].repaired[a])]]]
EachStamp(F(_)) == [a \in Accounts |-> [c \in Cycles |-> [history[a][c] EXCEPT !.age = F(@)]]]

NoReading == [acct |-> NoAccount, at |-> "idle", cur |-> 0, c |-> 0, got |-> <<>>, page |-> 1, total |-> 0]
Idle == rd.at = "idle" /\ todo = <<>>

May(e) == left[e] > 0
Spend(e) == May(e) /\ left' = [left EXCEPT ![e] = @ - 1]
SpendAll(es) == (\A e \in es : May(e)) /\ left' = [e \in Events |-> IF e \in es THEN left[e] - 1 ELSE left[e]]
If(holds, e) == IF holds THEN {e} ELSE {}

-----------------------------------------------------------------------------
Init ==
  /\ \E e \in Environments : /\ left = e.times /\ teamed = e.teamed /\ late = e.late /\ keep = e.keep
                             /\ stores = e.stores /\ feed = e.feed
  /\ cycle = 0 /\ open = FALSE /\ policy = "on"
  /\ logins = <<>> /\ profile = FALSE /\ claims = {}
  /\ history = [a \in Accounts |-> [c \in Cycles |-> NoHistory]]
  /\ disk = [c \in Cycles |-> NoPool] /\ mem = disk
  /\ todo = <<>> /\ rd = NoReading
  /\ rows = [c \in Cycles |-> {}] /\ manifests = {}
  /\ published = [a \in Accounts |-> [c \in Cycles |-> NoSnapshot]]
  /\ priced = {} /\ lost = FALSE
  /\ found = {} /\ said = {} /\ unheard = {} /\ cut = FALSE
  /\ read = {} /\ dropped = {} /\ stripped = {}
  /\ calm = [a \in Accounts |-> [c \in Cycles |-> FALSE]]

-----------------------------------------------------------------------------
(* The vendor, the engineer, the organisation and the clock.                *)

Edited(a, c, s) == /\ feed' = [feed EXCEPT ![a][c] = s]
                   /\ calm' = [calm EXCEPT ![a][c] = FALSE]

\* The vendor meters a request, aggregates two, or corrects one, in any cycle it still serves.
Edit ==
  /\ Spend("edit")
  /\ \E a \in Accounts, c \in {cycle, cycle - 1} \cap Cycles :
       LET s == feed[a][c] IN
       \/ Len(s) < MaxRows /\ \E r \in Rows : Edited(a, c, <<r>> \o s)
       \/ \E i \in DOMAIN s : \E r \in Rows \ {s[i]} : Edited(a, c, [s EXCEPT ![i] = r])
       \/ \E i \in DOMAIN s : Edited(a, c, RemoveAt(s, i))
  /\ UNCHANGED <<env, cycle, device, files, mem, todo, rd, backend, poll, read, dropped, stripped, lost>>

Rollover ==
  /\ Spend("rollover") /\ cycle < MaxCycle /\ cycle' = cycle + 1
  /\ UNCHANGED <<env, feed, device, files, mem, todo, rd, backend, ghosts>>

SignIn ==
  /\ Spend("signin")
  /\ \E s \in Sources, a \in Accounts \cup {NoAccount}, x \in BOOLEAN :
       stores' = [stores EXCEPT ![s] = [acct |-> a, expired |-> x]]
  /\ UNCHANGED <<env, vendor, open, policy, files, mem, todo, rd, backend, ghosts>>

Profile ==
  /\ Spend("profile") /\ open' = ~open
  /\ UNCHANGED <<env, vendor, stores, policy, files, mem, todo, rd, backend, ghosts>>

\* "unknown": the last answer is too old, or did not name the collector.
Policy ==
  /\ Spend("policy")
  /\ \E p \in {"on", "off", "unknown"} :
       /\ policy' = p
       /\ read' = IF p = "off" THEN {} ELSE read
       /\ dropped' = IF p = "off" THEN {} ELSE dropped
  /\ UNCHANGED <<env, vendor, stores, open, files, mem, todo, rd, backend, poll, stripped, calm, lost>>

Tick ==
  /\ disk' = EachPool(disk, Older) /\ mem' = EachPool(mem, Older)
  /\ history' = EachStamp(Older)
  /\ calm' = [a \in Accounts |-> [c \in Cycles |-> calm[a][c] /\ Recent(mem'[c].repaired[a])]]
  /\ UNCHANGED <<left, env, vendor, device, logins, profile, claims, todo, rd, backend, poll, read, dropped, stripped, lost>>

SetBack ==
  /\ Spend("back")
  /\ disk' = EachPool(disk, Behind) /\ mem' = EachPool(mem, Behind)
  /\ history' = EachStamp(Behind)
  /\ calm' = [a \in Accounts |-> [c \in Cycles |-> FALSE]]
  /\ UNCHANGED <<env, vendor, device, logins, profile, claims, todo, rd, backend, poll, read, dropped, stripped, lost>>

-----------------------------------------------------------------------------
(* A turn of the agent: metered by the vendor, reported by the stop hook.   *)

SignedIn(a) == \E s \in DOMAIN stores : stores[s].acct = a /\ (s = "profile" => open)

\* cursorHookAccountRef; nothing is stamped while there is no map.
Stamp(a) == IF logins = <<>> THEN "none" ELSE IF a \in ToSet(logins) THEN "ref" ELSE "unreadable"

\* suppressCursorHookCostIfVendorClaimed
Stripped(conv) == {conv} \cap claims

Turn ==
  /\ Spend("turn")
  /\ \E a \in Accounts, r \in Rows :
       /\ SignedIn(a) /\ Len(feed[a][cycle]) < MaxRows
       /\ Edited(a, cycle, <<r>> \o feed[a][cycle])
       /\ stripped' = stripped \cup Stripped(Conv(r))
       /\ profile' = (profile \/ (Stamp(a) = "unreadable" /\ open))
  /\ UNCHANGED <<env, cycle, device, logins, claims, history, disk, mem, todo, rd, backend, poll, read, dropped, lost>>

-----------------------------------------------------------------------------
(* A poll begins.                                                           *)

\* rememberCursorProfiles
Remembered == profile \/ open
Present(s) == s = "profile" => Remembered

\* The store can be copied and opened, and holds a token of some login.
Opens(s, bad) == s \notin bad
Held(s, bad) == Present(s) /\ Opens(s, bad) /\ stores[s].acct # NoAccount
Usable(s, bad) == Held(s, bad) /\ ~stores[s].expired

\* readCursorCredentialSources
Read(bad) == {s \in Sources : Held(s, bad)}

\* cursorAccountsToCollect: one source for each account, a usable one if there is any, in the order of
\* the sources.
Earlier == {<<"ide", "profile">>, <<"ide", "agent">>, <<"profile", "agent">>}
FirstOf(s, bad) ==
  /\ s \in Read(bad)
  /\ \A t \in Read(bad) : stores[t].acct = stores[s].acct => <<t, s>> \notin Earlier
Collect(s, bad) ==
  LET who == stores[s].acct
  IN IF FirstOf(s, bad)
     THEN << [acct |-> who, ok |-> \E t \in Read(bad) : stores[t].acct = who /\ Usable(t, bad)] >>
     ELSE <<>>
ToCollect(bad) == Collect("ide", bad) \o Collect("profile", bad) \o Collect("agent", bad)

\* A usable store names its login; that of the agent is named whatever its token is good for
\* (cursorAgentConfigLogin).
Learns(s, bad) == stores[s].acct # NoAccount /\ (s = "agent" \/ Usable(s, bad))
Learned(bad) == {stores[s].acct : s \in {s \in Sources : Learns(s, bad)}}

\* A login goes to the front of the map, and out of a full one goes the one seen last.
Place(q, x) == CHOOSE i \in DOMAIN q : q[i] = x
Full(q, x) == x \notin ToSet(q) /\ Len(q) >= keep
Without(q, x) == IF x \in ToSet(q) THEN RemoveAt(q, Place(q, x)) ELSE IF Full(q, x) THEN Front(q) ELSE q
Evicted(q, x) == IF x \notin ToSet(q) /\ Len(q) = keep THEN {Last(q)} ELSE {}

\* recordCursorAccountReading: best effort, from an empty map when that in the file cannot be read.
Outcomes == {"saved", "failed", "unread"}
Noted(m, x, how) ==
  CASE how = "saved"  -> [q |-> <<x>> \o Without(m.q, x), gone |-> (m.gone \cup Evicted(m.q, x)) \ {x}]
    [] how = "failed" -> [q |-> m.q, gone |-> m.gone \cup ({x} \ ToSet(m.q))]
    [] how = "unread" -> [q |-> <<x>>, gone |-> (m.gone \cup ToSet(m.q)) \ {x}]
NotedOf(m, s, bad, how) == IF Learns(s, bad) THEN Noted(m, stores[s].acct, how[s]) ELSE m
MapAfter(bad, how) ==
  NotedOf(NotedOf(NotedOf([q |-> logins, gone |-> dropped], "ide", bad, how), "profile", bad, how), "agent", bad, how)

Revoked(p) == p = "off"

\* forgetCursorAccountLogins, and an absence that names no account.
PollDenied ==
  /\ Idle /\ policy # "on"
  /\ \/ UNCHANGED left /\ logins' = IF Revoked(policy) THEN <<>> ELSE logins
     \/ Revoked(policy) /\ Spend("file") /\ UNCHANGED logins
  /\ found' = {} /\ said' = {} /\ unheard' = {} /\ cut' = FALSE
  /\ UNCHANGED <<env, vendor, device, profile, claims, history, disk, mem, todo, rd, backend, read, dropped, stripped, calm, lost>>

PollStart ==
  /\ Idle /\ policy = "on"
  /\ \E bad \in SUBSET DOMAIN stores, how \in [Sources -> Outcomes], remembers \in BOOLEAN :
       /\ SpendAll(If(bad # {}, "store") \cup If(~remembers \/ \E s \in Sources : how[s] # "saved", "file"))
       /\ profile' = (profile \/ (open /\ remembers))
       /\ logins' = MapAfter(bad, how).q /\ dropped' = MapAfter(bad, how).gone
       /\ read' = read \cup Learned(bad)
       /\ todo' = ToCollect(bad)
       /\ found' = {stores[s].acct : s \in Read(bad)} /\ said' = {} /\ unheard' = {} /\ cut' = FALSE
  /\ UNCHANGED <<env, vendor, device, claims, history, disk, mem, rd, backend, stripped, calm, lost>>

Account == Head(todo).acct

Told(a) == {a}

\* Nothing is collected for the account, and an absence says so (buildCursorVendorAbsenceEvent); the
\* outbox may refuse it, and nobody looks.
Absent(why) ==
  /\ \/ SpendAll(why) /\ said' = said \cup Told(Account) /\ UNCHANGED unheard
     \/ SpendAll(why \cup {"refuse"}) /\ unheard' = unheard \cup Told(Account) /\ UNCHANGED said
  /\ rd' = NoReading /\ todo' = Tail(todo)
  /\ UNCHANGED <<env, vendor, device, files, mem, backend, found, cut, read, dropped, stripped, calm, lost>>

Expired ==
  /\ rd.at = "idle" /\ todo # <<>> /\ ~Head(todo).ok
  /\ Absent({})

\* cursorAccountIsOnTeam
Team ==
  /\ rd.at = "idle" /\ todo # <<>> /\ Head(todo).ok /\ Account \in teamed
  /\ Absent({})

\* fetchCurrentPeriod, cycleBounds
Period ==
  /\ rd.at = "idle" /\ todo # <<>> /\ Head(todo).ok /\ Account \notin teamed
  /\ rd' = [NoReading EXCEPT !.acct = Account, !.at = "page", !.cur = cycle, !.c = cycle]
  /\ UNCHANGED <<left, env, vendor, device, files, mem, todo, backend, ghosts>>

\* Any of the requests, of the current cycle, is refused or not understood.
RequestFails ==
  /\ todo # <<>> /\ Head(todo).ok
  /\ rd.at = "idle" \/ (rd.at = "page" /\ rd.c = rd.cur)
  /\ Absent({"fail"})

\* The deadline of the whole poll: what is left of it is skipped, and not a word is said.
BudgetSpent ==
  /\ todo # <<>> /\ rd.at \in {"idle", "page"}
  /\ Spend("spent")
  /\ todo' = <<>> /\ rd' = NoReading /\ cut' = TRUE
  /\ UNCHANGED <<env, vendor, device, files, mem, backend, found, said, unheard, read, dropped, stripped, calm, lost>>

\* fetchUsagePage: pages of one row, newest first, until one is empty or the count of the first is reached.
Page ==
  /\ rd.at = "page"
  /\ LET s == feed[rd.acct][rd.c]
         got == IF rd.page <= Len(s) THEN Append(rd.got, s[rd.page]) ELSE rd.got
         total == IF rd.page = 1 THEN Len(s) ELSE rd.total
     IN rd' = [rd EXCEPT !.got = got, !.page = @ + 1, !.total = total,
                         !.at = IF rd.page > Len(s) \/ Len(got) >= total THEN "queue" ELSE "page"]
  /\ UNCHANGED <<left, env, vendor, device, files, mem, todo, backend, ghosts>>

-----------------------------------------------------------------------------
(* A reading is queued (queueCursorVendorSnapshotV2).                       *)

Reading == Sorted(rd.got)
Pool == mem[rd.c]
Id == SnapshotId(rd.acct, rd.c, Reading)

RepairDue == LET age == Pool.repaired[rd.acct] IN
  (age = Never /\ Pool.hashes = {}) \/ (age # Never /\ ~Recent(age))

ToSend == {r \in RowsOf(Reading) : RepairDue \/ r \notin Pool.hashes}

\* Mutant: a manifest goes with a new snapshot only, also when a row differs in what its id leaves out.
ManifestOnNewId == RepairDue \/ Pool.snap[rd.acct] # Id
SendsManifest == RepairDue \/ Pool.snap[rd.acct] # Id \/ Pool.man[rd.acct] # Reading

\* Mutant: a poll that repairs nothing puts the next repair off, too.
PoolRenewed == [Pool EXCEPT !.snap[rd.acct] = Id, !.man[rd.acct] = Reading, !.hashes = @ \cup RowsOf(Reading),
                            !.repaired[rd.acct] = 0]

\* What becomes of the pool when everything was queued.
PoolAfter == [Pool EXCEPT !.snap[rd.acct] = Id, !.man[rd.acct] = Reading, !.hashes = @ \cup RowsOf(Reading),
                          !.repaired[rd.acct] = IF @ = Never \/ RepairDue THEN 0 ELSE @]

\* The backend publishes a reading when it has the manifest the completion names, by its snapshot
\* and its digest, and the rows of it.
Manifest == [id |-> Id, of |-> Reading]
Taken(sent, completion) ==
  /\ rows' = [rows EXCEPT ![rd.c] = @ \cup sent]
  /\ manifests' = manifests \cup IF completion /\ SendsManifest THEN {Manifest} ELSE {}
  /\ published' = IF completion /\ Manifest \in manifests' /\ RowsOf(Reading) \subseteq rows'[rd.c]
                  THEN [published EXCEPT ![rd.acct][rd.c] = Reading] ELSE published
  /\ priced' = priced \cup IF published'[rd.acct][rd.c] = NoSnapshot THEN {} ELSE ConvsOf(published'[rd.acct][rd.c])

Done == rd' = NoReading /\ todo' = Tail(todo)

\* previousCursorBillingCycle
GoOn == IF rd.c = rd.cur /\ rd.cur > 0 /\ ~late
        THEN /\ rd' = [NoReading EXCEPT !.acct = rd.acct, !.at = "page", !.cur = rd.cur, !.c = rd.cur - 1]
             /\ UNCHANGED todo
        ELSE Done

\* queueHistoricalCursorVendorSnapshot
Checkpointed == LET h == history[rd.acct][rd.c] IN rd.c < rd.cur /\ h.snap = Id /\ Recent(h.age)

Checkpoint == IF rd.c < rd.cur THEN [history EXCEPT ![rd.acct][rd.c] = [snap |-> Id, age |-> 0]] ELSE history

\* saveCursorVendorSeen; when it fails the memory still has the pool.
Saved == \/ UNCHANGED left /\ disk' = mem'
         \/ Spend("file") /\ UNCHANGED disk

ClaimsAfter(all) == claims \cup IF all /\ rd.c = rd.cur THEN ConvsOf(Reading) ELSE {}

Queue ==
  /\ rd.at = "queue" /\ ~Checkpointed
  /\ mem' = [mem EXCEPT ![rd.c] = PoolAfter]
  /\ Saved
  /\ Taken(ToSend, TRUE)
  /\ claims' = ClaimsAfter(TRUE)
  /\ history' = Checkpoint
  /\ calm' = [calm EXCEPT ![rd.acct][rd.c] = Reading = Sorted(feed[rd.acct][rd.c]) /\ Recent(PoolAfter.repaired[rd.acct])]
  /\ said' = said \cup {rd.acct}
  /\ GoOn
  /\ UNCHANGED <<env, vendor, device, logins, profile, found, unheard, cut, read, dropped, stripped, lost>>

\* The outbox refuses some of the rows, or the completion, which is what names the account: nothing is
\* recorded, and the rest stays queued.
QueueRefused ==
  /\ rd.at = "queue" /\ ~Checkpointed
  /\ Spend("refuse")
  /\ \E sent \in SUBSET ToSend, completion \in BOOLEAN :
       /\ sent # ToSend \/ ~completion
       /\ Taken(sent, completion)
       /\ said' = said \cup IF completion THEN {rd.acct} ELSE {}
       /\ unheard' = unheard \cup IF completion THEN {} ELSE {rd.acct}
  /\ claims' = ClaimsAfter(FALSE)
  /\ calm' = [calm EXCEPT ![rd.acct][rd.c] = FALSE]
  /\ GoOn
  /\ UNCHANGED <<env, vendor, device, logins, profile, history, disk, mem, found, cut, read, dropped, stripped, lost>>

HistoryChecked ==
  /\ rd.at = "queue" /\ Checkpointed /\ Done
  /\ UNCHANGED <<left, env, vendor, device, files, mem, backend, ghosts>>

HistoryFails ==
  /\ rd.at = "page" /\ rd.c < rd.cur /\ Spend("fail")
  /\ Done
  /\ UNCHANGED <<env, vendor, device, files, mem, backend, ghosts>>

\* The daemon is killed, or replaced; in the middle of queueing, perhaps.  A pool that cannot be read
\* is an empty one (loadCursorVendorSeen).
Restart ==
  /\ \/ Spend("restart") /\ mem' = disk
     \/ SpendAll({"restart", "file"}) /\ mem' = [c \in Cycles |-> NoPool]
  /\ \/ UNCHANGED backend
     \/ /\ rd.at = "queue" /\ ~Checkpointed
        /\ \E sent \in SUBSET ToSend, completion \in BOOLEAN :
             (completion => sent = ToSend) /\ Taken(sent, completion)
  /\ todo' = <<>> /\ rd' = NoReading
  /\ found' = {} /\ said' = {} /\ unheard' = {} /\ cut' = FALSE
  /\ calm' = [a \in Accounts |-> [c \in Cycles |-> calm[a][c] /\ mem' = mem /\ rd.at # "queue"]]
  /\ UNCHANGED <<env, vendor, device, files, read, dropped, stripped, lost>>

\* A row is dropped from the outbox, or lost by the backend's storage.
Lose ==
  /\ Spend("lose")
  /\ \E c \in Cycles : \E r \in rows[c] : rows' = [rows EXCEPT ![c] = @ \ {r}]
  /\ lost' = TRUE
  /\ UNCHANGED <<env, vendor, device, files, mem, todo, rd, manifests, published, priced, poll, read, dropped, stripped, calm>>

-----------------------------------------------------------------------------
Collector == \/ PollDenied \/ PollStart \/ Expired \/ Team \/ Period \/ Page \/ Queue \/ HistoryChecked
World == \/ Edit \/ Rollover \/ SignIn \/ Profile \/ Policy \/ Tick \/ SetBack \/ Turn
         \/ RequestFails \/ BudgetSpent \/ QueueRefused \/ HistoryFails \/ Restart \/ Lose
Next == Collector \/ World
Spec == Init /\ [][Next]_vars /\ WF_vars(Collector) /\ WF_vars(Tick)

-----------------------------------------------------------------------------
Bags == [Rows -> SUBSET (1..MaxRows)]

TypeOK ==
  /\ left \in [Events -> Nat]
  /\ cycle \in Cycles /\ DOMAIN feed = Accounts
  /\ \A a \in Accounts : \A c \in Cycles : feed[a][c] \in Feeds
  /\ open \in BOOLEAN /\ policy \in {"on", "off", "unknown"}
  /\ logins \in Seq(Accounts) /\ Len(logins) <= keep /\ profile \in BOOLEAN /\ claims \subseteq Convs
  /\ \A c \in Cycles : \A p \in {mem[c], disk[c]} :
       /\ p.hashes \subseteq Rows
       /\ \A a \in Accounts : p.repaired[a] \in Ages /\ p.man[a] \in Bags \cup {NoSnapshot}
  /\ \A a \in Accounts : \A c \in Cycles : /\ history[a][c].age \in Ages
                                           /\ published[a][c] \in Bags \cup {NoSnapshot}
  /\ rd.at \in {"idle", "page", "queue"} /\ rd.got \in Feeds
  /\ \A c \in Cycles : rows[c] \subseteq Rows
  /\ said \cup unheard \subseteq found /\ read \cup dropped \subseteq Accounts /\ stripped \subseteq Convs

\* While nothing has happened to a reading since it went out, the next poll sends no row and no
\* manifest for it again, whatever became of the file of the pool.
Quiet ==
  (rd.at = "queue" /\ calm[rd.acct][rd.c]) => ToSend = {} /\ ~SendsManifest

\* A poll says something of every account it finds, a snapshot or why there is none, unless its
\* budget ran out or the outbox refused what there was to say.
Speaks == Idle => found \subseteq said \cup unheard \/ cut

\* When all of a reading is queued the backend has what it takes to rebuild that very reading:
\* the rows not sent and the manifest left out were there.
Rebuilt == [][Queue /\ ~lost => published'[rd.acct][rd.c] = Reading]_vars

\* A hook leaves the cost of a turn to the vendor's rows only if the backend has had rows of that
\* conversation.
CostsBacked == lost \/ stripped \subseteq priced

\* A login the device has read is recognised on every later turn, signed in or not, until the
\* organisation says no; but for those that a failing file or more logins than are kept put out of
\* the map since they were last recorded.
Recognised == read \subseteq ToSet(logins) \cup dropped

\* What a poll leaves behind is true: it sends nothing twice without a cause, accounts for
\* every login it had the time and the room for, and lets a turn have its cost from one side only; and what it does not send
\* the backend has (pollCursorVendorUsage, queueCursorVendorSnapshotV2).
LeavesTrue == Quiet /\ Speaks /\ CostsBacked /\ Recognised
PollsTrue == []LeavesTrue /\ Rebuilt

\* What the backend shows of an account that is collected becomes what the vendor says, however
\* the vendor rewrote it, and whatever was refused, lost or forgotten on the way.
Collected(a, c) ==
  /\ policy = "on" /\ a \notin teamed /\ \E s \in DOMAIN stores : Usable(s, {}) /\ stores[s].acct = a
  /\ c = cycle \/ (c = cycle - 1 /\ ~late)
Shown ==
  \A a \in Accounts, c \in Cycles : <>[](Collected(a, c) => published[a][c] = Sorted(feed[a][c]))
=============================================================================
