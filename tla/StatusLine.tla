----------------------------- MODULE StatusLine -----------------------------
(***************************************************************************)
(* The status line slot of Claude Code (internal/capture/statusline.go)    *)
(* and the shim that is put into it (statusline_shim.go).  The slot is one *)
(* key of one file that everybody writes: the engineer, other tools, the   *)
(* foreground commands enable and disable, and the healer of the daemon.   *)
(* Only the last three take statusline.lock.  The shim, one process for    *)
(* each tick of each session, takes no lock: it spools the usage windows   *)
(* (window_usage.go), runs the command that it displaced and, when that    *)
(* fails, draws what it drew last.  The watcher drains the spool.          *)
(***************************************************************************)
EXTENDS Integers, FiniteSets

CONSTANTS
  Commands,    \* the status lines of the engineer and of other tools
  Sessions,    \* sessions of Claude Code, each redrawn on its own
  Ticks,       \* the shim processes that may run at once
  Shim,        \* our command, in the slot
  Absent,      \* no status line, no prior, no line
  MaxHeals     \* maxAutoHeals

LineEvents == { "evict", "remove", "manage", "enable", "disable", "tick", "bare", "fail",
                "unread", "broken", "kill", "killcli", "hour", "prune", "refuse" }

ASSUME LineAssumption ==
  /\ MaxHeals \in Nat \ {0}
  /\ Shim \notin Commands /\ Absent \notin Commands /\ Shim # Absent

Lockers == {"cli", "daemon"}

VARIABLES
  chances,      \* how often each event may still happen
  \* Files.
  slot,         \* statusLine in the user's settings.json
  managed,      \* is there one in the managed settings, which outrank it
  record,       \* statusline-prior.json
  cache,        \* statusline-lastgood/: the last good output of each session
  spool,        \* claude-window.json
  \* Processes.
  op,           \* the locked operation of each locker
  tick,         \* the shim processes
  drain,        \* what the watcher has read from the spool and not handled yet
  lastObserved, \* claudeWindowEmitter: the newest reading it has sent
  absenceDue,   \*   and may it send an absence again
  clock,        \* a tick begins
  \* For the properties.
  mine,         \* what the others last wanted in the slot
  off,          \* has disable done its work, and nobody asked for enable since
  clobbered,    \* was the slot changed by another between a read and the write, or a record that was not read lost
  clears,       \* how often a record was cleared
  streak,       \* re-wraps in a row with no quiet check between them
  lapses,       \* how often a heal died or failed before it had counted itself
  drawn,        \* the last line drawn
  sent          \* the readings queued, in this life of the watcher and ever; those whose spool file stayed

slotVars   == <<slot, managed, record, op, mine, off, clobbered, clears, streak, lapses>>
shimVars   == <<cache, tick, drawn, clock>>
windowVars == <<spool, drain, lastObserved, absenceDue, sent>>
lineVars   == <<chances, slotVars, shimVars, windowVars>>

NoRecord == [wrapped |-> FALSE, prior |-> Absent, heals |-> 0]
Wrapping(cmd, heals) == [wrapped |-> TRUE, prior |-> cmd, heals |-> heals]
NoOp     == [kind |-> Absent, at |-> "idle", cur |-> Absent, heals |-> 0]
NoTick   == [at |-> "idle", s |-> Absent, obs |-> 0, blob |-> Absent, cmd |-> Absent, why |-> "wrapped", begun |-> 0]
NoWindow == [obs |-> 0, kind |-> Absent]
Line(s, cmd) == [s |-> s, cmd |-> cmd]
NoLine == Line(Absent, Absent)
Own == Line(Absent, Shim)                \* renderOwnStatusline
NoCache  == [fp |-> Absent, line |-> NoLine]
NoCaches == [s \in Sessions |-> NoCache]

Chance(e) == chances[e] > 0 /\ chances' = [chances EXCEPT ![e] = @ - 1]
Chances(E) == /\ \A e \in E : chances[e] > 0
              /\ chances' = [e \in DOMAIN chances |-> IF e \in E THEN chances[e] - 1 ELSE chances[e]]
\* resolveEffectiveStatusLine: Claude Code runs the managed line, or else the one in the slot.
Runs(cmd) == ~managed /\ slot = cmd

\* Mutant: the lock is tried and not waited for.
NoLock == TRUE
LockFree == \A p \in Lockers : op[p].at = "idle"

LineInit(n, first) ==
  /\ chances = n
  /\ slot = first /\ mine = slot
  /\ managed = FALSE /\ record = NoRecord /\ cache = NoCaches /\ spool = NoWindow
  /\ op = [p \in Lockers |-> NoOp] /\ tick = [t \in Ticks |-> NoTick]
  /\ drain = NoWindow /\ lastObserved = 0 /\ absenceDue = TRUE /\ clock = 0
  /\ off = FALSE /\ clobbered = FALSE /\ clears = 0 /\ streak = 0 /\ lapses = 0
  /\ drawn = [s |-> Absent, cmd |-> Absent, why |-> "wrapped", turnedOff |-> FALSE, line |-> NoLine]
  /\ sent = [life |-> {}, ever |-> {}, stayed |-> {}]

-----------------------------------------------------------------------------
(* The others: they write the slot without a lock, at any moment.           *)

SlotSet ==
  /\ \/ Chance("evict") /\ \E cmd \in Commands \ {slot} : slot' = cmd
     \/ Chance("remove") /\ slot # Absent /\ slot' = Absent
  /\ mine' = slot'
  /\ UNCHANGED <<managed, record, op, off, clobbered, clears, streak, lapses, shimVars, windowVars>>

Manage ==
  /\ Chance("manage") /\ managed' = ~managed
  /\ UNCHANGED <<slot, record, op, mine, off, clobbered, clears, streak, lapses, shimVars, windowVars>>

-----------------------------------------------------------------------------
(* The locked operations.                                                   *)

At(p, step) == op[p].at = step
Goes(p, step) == op' = [op EXCEPT ![p].at = step]
Ends(p) == op' = [op EXCEPT ![p] = NoOp]
NotCounted(p) == lapses' = IF p = "daemon" /\ op[p].at \in {"write", "count"} THEN lapses + 1 ELSE lapses

\* Our shim is in the slot already: a record that is not there, or cannot be read, is written anew without a prior.
EnableAgain ==
  /\ slot = Shim /\ UNCHANGED op
  /\ \/ Chance("enable") /\ record.wrapped /\ UNCHANGED <<record, cache, clobbered>>
     \/ /\ Chances({"enable", "unread"}) /\ record' = Wrapping(Absent, 0) /\ cache' = NoCaches
        /\ clobbered' = (clobbered \/ record.prior # Absent)

EnableStart ==
  /\ LockFree /\ off' = FALSE /\ streak' = 0
  /\ \/ EnableAgain
     \/ /\ slot # Shim /\ Chance("enable")
        /\ op' = [op EXCEPT !["cli"] = [kind |-> "enable", at |-> "save", cur |-> slot, heals |-> 0]]
        /\ UNCHANGED <<record, cache, clobbered>>
  /\ UNCHANGED <<slot, managed, mine, clears, lapses, tick, drawn, clock, windowVars>>

\* The shim is in its place: the fight, if there was one, is over.
HealQuiet ==
  /\ LockFree /\ record.wrapped /\ Runs(Shim)
  /\ record.heals # 0 \/ streak # 0
  /\ \/ record' = [record EXCEPT !.heals = 0] /\ UNCHANGED chances
     \/ Chance("fail") /\ record.heals # 0 /\ UNCHANGED record
  /\ streak' = 0
  /\ UNCHANGED <<slot, managed, op, mine, off, clobbered, clears, lapses, shimVars, windowVars>>

\* Mutant: one more is tried.
OnceMore == record.heals <= MaxHeals
Uncontested == record.heals < MaxHeals

HealStart ==
  /\ LockFree /\ record.wrapped /\ ~managed /\ slot \notin {Shim, Absent}
  /\ Uncontested
  /\ op' = [op EXCEPT !["daemon"] = [kind |-> "heal", at |-> "read", cur |-> Absent, heals |-> record.heals + 1]]
  /\ UNCHANGED <<chances, slot, managed, record, mine, off, clobbered, clears, streak, lapses, shimVars, windowVars>>

\* enableStatuslineLocked reads the slot a second time.
HealRead ==
  /\ At("daemon", "read")
  /\ op' = [op EXCEPT !["daemon"].at = "save", !["daemon"].cur = slot]
  /\ UNCHANGED <<chances, slot, managed, record, mine, off, clobbered, clears, streak, lapses, shimVars, windowVars>>

SavePrior(p) ==
  /\ At(p, "save") /\ cache' = NoCaches
  /\ \/ record' = Wrapping(op[p].cur, 0) /\ Goes(p, "write") /\ UNCHANGED chances
     \/ Chance("fail") /\ Ends(p) /\ UNCHANGED record
  /\ UNCHANGED <<slot, managed, mine, off, clobbered, clears, streak, lapses, tick, drawn, clock, windowVars>>

WriteShim(p) ==
  /\ At(p, "write")
  /\ \/ /\ slot' = Shim /\ clobbered' = (clobbered \/ slot # op[p].cur)
        /\ IF op[p].kind = "heal" THEN streak' = streak + 1 /\ Goes(p, "count")
                                  ELSE UNCHANGED streak /\ Ends(p)
        /\ UNCHANGED <<chances, lapses>>
     \/ Chance("fail") /\ Ends(p) /\ NotCounted(p) /\ UNCHANGED <<slot, clobbered, streak>>
  /\ UNCHANGED <<managed, record, mine, off, clears, shimVars, windowVars>>

CountHeal ==
  /\ At("daemon", "count") /\ Ends("daemon")
  /\ \/ record' = [record EXCEPT !.heals = op["daemon"].heals] /\ UNCHANGED <<chances, lapses>>
     \/ Chance("fail") /\ NotCounted("daemon") /\ UNCHANGED record
  /\ UNCHANGED <<slot, managed, mine, off, clobbered, clears, streak, shimVars, windowVars>>

\* clearStatuslinePrior: nobody is told of a record that could not be removed, and disable returns as if it had been.
Clears(E) ==
  \/ /\ Chances(E) /\ record' = NoRecord /\ clears' = clears + 1
     /\ cache' = NoCaches /\ off' = TRUE
  \/ Chances(E \cup {"fail"}) /\ cache' \in {cache, NoCaches} /\ UNCHANGED <<record, clears, off>>

\* A slot that is not ours is left as it is, also an empty one.
DisableStart ==
  /\ LockFree
  /\ \/ slot # Shim /\ Clears({"disable"}) /\ UNCHANGED op
     \/ /\ slot = Shim /\ Chance("disable")
        /\ op' = [op EXCEPT !["cli"] = [kind |-> "disable", at |-> "restore", cur |-> slot, heals |-> 0]]
        /\ UNCHANGED <<record, cache, off, clears>>
  /\ UNCHANGED <<slot, managed, mine, clobbered, streak, lapses, tick, drawn, clock, windowVars>>

RestorePrior ==
  /\ At("cli", "restore")
  /\ \/ /\ slot' = record.prior /\ clobbered' = (clobbered \/ slot # op["cli"].cur)
        /\ Goes("cli", "clear") /\ UNCHANGED chances
     \* A record that cannot be read is taken for one without a prior.
     \/ /\ Chance("unread") /\ slot' = Absent /\ Goes("cli", "clear")
        /\ clobbered' = (clobbered \/ slot # op["cli"].cur \/ record.prior # Absent)
     \/ Chance("fail") /\ Ends("cli") /\ UNCHANGED <<slot, clobbered>>
  /\ UNCHANGED <<managed, record, mine, off, clears, streak, lapses, shimVars, windowVars>>

ClearRecord ==
  /\ At("cli", "clear") /\ Ends("cli")
  /\ Clears({})
  /\ UNCHANGED <<slot, managed, mine, clobbered, streak, lapses, tick, drawn, clock, windowVars>>

KillCommand ==
  /\ Chance("killcli") /\ ~At("cli", "idle") /\ Ends("cli")
  /\ UNCHANGED <<slot, managed, record, mine, off, clobbered, clears, streak, lapses, shimVars, windowVars>>

-----------------------------------------------------------------------------
(* The shim.                                                                *)

TickBegin(t) ==
  /\ Runs(Shim) /\ tick[t].at = "idle"
  /\ clock' = clock + 1
  /\ \E s \in Sessions, blob \in {"windows", "bare", "garbled"} :
       /\ Chance(IF blob = "windows" THEN "tick" ELSE "bare")
       /\ tick' = [tick EXCEPT ![t] = [NoTick EXCEPT !.at = "spool", !.s = s, !.obs = clock', !.blob = blob, !.begun = clears]]
  /\ UNCHANGED <<slotVars, cache, drawn, windowVars>>

\* No window in a blob that can be read is an observed absence.
Parsed(b) == [obs |-> b.obs, kind |-> IF b.blob = "windows" THEN "reading" ELSE "absence"]

\* Latest wins: the file is replaced whole, if it can be.  Then the prior command is looked up: there is none where
\* the slot was empty, where the record is gone, and where it cannot be read.
Lookup(unread) == IF unread THEN "unread" ELSE IF record.wrapped THEN "wrapped" ELSE "gone"

TickSpool(t) ==
  /\ tick[t].at = "spool"
  /\ \E bad \in SUBSET {"fail", "unread"} :
       /\ Chances(bad)
       /\ spool' = IF "fail" \in bad \/ tick[t].blob = "garbled" THEN spool ELSE Parsed(tick[t])
       /\ tick' = [tick EXCEPT ![t].at = "run", ![t].why = Lookup("unread" \in bad),
                               ![t].cmd = IF "unread" \in bad THEN Absent ELSE record.prior]
  /\ UNCHANGED <<slotVars, cache, drawn, clock, drain, lastObserved, absenceDue, sent>>

LastGood(t) == IF tick[t].blob # "garbled" /\ cache[tick[t].s].fp = tick[t].cmd
               THEN cache[tick[t].s].line ELSE NoLine
Remembered(t) == IF tick[t].blob = "garbled" THEN cache
                 ELSE [cache EXCEPT ![tick[t].s] = [fp |-> tick[t].cmd, line |-> Line(tick[t].s, tick[t].cmd)]]

Draws(t, line) == drawn' = [s |-> tick[t].s, cmd |-> tick[t].cmd, why |-> tick[t].why,
                            turnedOff |-> tick[t].begun < clears, line |-> line]
\* A failing command may have written a part of its line.
Partial(t) == {NoLine, Line(tick[t].s, tick[t].cmd)}

TickDraw(t) ==
  /\ tick[t].at = "run"
  /\ tick' = [tick EXCEPT ![t] = NoTick]
  /\ \/ tick[t].cmd = Absent /\ Draws(t, Own) /\ UNCHANGED <<chances, cache>>
     \/ /\ tick[t].cmd # Absent /\ Draws(t, Line(tick[t].s, tick[t].cmd))
        /\ cache' = Remembered(t) /\ UNCHANGED chances
     \/ /\ tick[t].cmd # Absent /\ Chance("broken") /\ UNCHANGED cache
        /\ \E line \in (IF LastGood(t) # NoLine THEN {LastGood(t)} ELSE Partial(t)) : Draws(t, line)
  /\ UNCHANGED <<slotVars, clock, windowVars>>

\* The hourly sweep of what has not been rewritten for a day; a line that cannot be read is as good as swept.
PruneCaches ==
  /\ Chance("prune") /\ \E s \in Sessions : cache' = [cache EXCEPT ![s] = NoCache]
  /\ UNCHANGED <<slotVars, tick, drawn, clock, windowVars>>

-----------------------------------------------------------------------------
(* The watcher drains the spool.                                            *)

DrainRead ==
  /\ drain = NoWindow /\ spool # NoWindow
  /\ drain' = spool
  /\ UNCHANGED <<chances, slotVars, shimVars, spool, lastObserved, absenceDue, sent>>

\* Mutant: what was sent is sent again.
AnyReading == drain.kind = "reading"
NewReading == drain.kind = "reading" /\ drain.obs > lastObserved
NewAbsence == drain.kind = "absence" /\ absenceDue

\* The file goes, whatever it holds by now, unless it cannot be removed: nobody is told.  The outbox may refuse the
\* event: nobody asks again.
DrainEmit ==
  /\ drain # NoWindow /\ drain' = NoWindow
  /\ \E bad \in SUBSET {"fail", "refuse"} :
       LET queued == IF NewReading /\ "refuse" \notin bad THEN {drain.obs} ELSE {}
           kept == IF "fail" \in bad THEN {drain.obs} ELSE {}
       IN /\ Chances(bad)
          /\ spool' = IF "fail" \in bad THEN spool ELSE NoWindow
          /\ sent' = [life |-> sent.life \cup queued, ever |-> sent.ever \cup queued, stayed |-> sent.stayed \cup kept]
  /\ lastObserved' = IF NewReading THEN drain.obs ELSE lastObserved
  /\ absenceDue' = (absenceDue /\ ~NewAbsence)
  /\ UNCHANGED <<slotVars, shimVars>>

HourPasses ==
  /\ Chance("hour") /\ ~absenceDue /\ absenceDue' = TRUE
  /\ UNCHANGED <<slotVars, shimVars, spool, drain, lastObserved, sent>>

\* The daemon dies and is started again; its files are as it left them.
WatcherDies ==
  /\ op' = [op EXCEPT !["daemon"] = NoOp] /\ NotCounted("daemon")
  /\ drain' = NoWindow /\ lastObserved' = 0 /\ absenceDue' = TRUE
  /\ sent' = [sent EXCEPT !.life = {}]
  /\ UNCHANGED <<slot, managed, record, mine, off, clobbered, clears, streak, shimVars, spool>>

Resting == op["daemon"].at = "idle" /\ drain = NoWindow
=============================================================================
