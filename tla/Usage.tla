-------------------------------- MODULE Usage --------------------------------
(***************************************************************************)
(* What the poll loop of the Claude watcher does beside the transcripts    *)
(* (internal/capture/cmd_claude_watch.go): it drains the window spool,     *)
(* sends tiers and limit hits, sweeps the caches and heals the status line *)
(* slot, one after the other in one goroutine, and forgets its throttles   *)
(* when it dies.  The drains of the two lanes and the heartbeat run beside *)
(* it and die with it.                                                     *)
(***************************************************************************)
EXTENDS StatusLine, PlanLimits, LaneHealth

CONSTANT Environments    \* how often each event may happen in a behaviour

ASSUME UsageAssumption ==
  \A e \in Environments :
    /\ e.line \in [LineEvents -> Nat] /\ e.plan \in [PlanEvents -> Nat] /\ e.lane \in [LaneEvents -> Nat]
    /\ e.slot \in Commands \cup {Absent} /\ e.account \in Signed /\ e.codex \in BOOLEAN
    /\ e.queued \in [Queues -> 0..Cap]

vars == <<lineVars, planVars, laneVars>>

Init == \E e \in Environments : LineInit(e.line, e.slot) /\ PlanInit(e.plan, e.codex, e.account)
                               /\ LaneInit(e.lane, e.queued)

\* One at a time.
Free == Resting /\ ~poll.on

Heal == HealQuiet \/ HealStart
Loop == Free /\ \/ (Heal \/ DrainRead \/ PruneCaches) /\ UNCHANGED planVars
                \/ (\E reads, scans \in BOOLEAN : PollBegin(reads, scans)) /\ UNCHANGED lineVars
Continue ==
  \/ (HealRead \/ SavePrior("daemon") \/ WriteShim("daemon") \/ CountHeal \/ DrainEmit) /\ UNCHANGED planVars
  \/ (PollHit \/ PollSave) /\ UNCHANGED lineVars
Commanded == /\ SavePrior("cli") \/ WriteShim("cli") \/ RestorePrior \/ ClearRecord
             /\ UNCHANGED planVars
Codex == CodexScan /\ UNCHANGED lineVars
Shown == \E t \in Ticks : (TickSpool(t) \/ TickDraw(t)) /\ UNCHANGED planVars
Others ==
  \/ (SlotSet \/ Manage \/ EnableStart \/ DisableStart \/ KillCommand \/ HourPasses) /\ UNCHANGED planVars
  \/ \E t \in Ticks : TickBegin(t) /\ UNCHANGED planVars
  \/ (SignIn \/ LimitRow \/ TokenCount \/ RolloutAges \/ TimePasses) /\ UNCHANGED lineVars
Restart == Chance("kill") /\ WatcherDies /\ UNCHANGED <<cache, tick, drawn, clock>> /\ EmitterDies /\ UNCHANGED odds

\* The drains, the heartbeat and the hooks run beside the loop; what kills the watcher kills the drains.
Next == \/ (Loop \/ Continue \/ Commanded \/ Codex \/ Shown \/ Others) /\ UNCHANGED laneVars
        \/ Restart /\ LaneRestarts
        \/ LaneNext /\ UNCHANGED <<lineVars, planVars>>

\* Every pass of the loop comes to each of its parts, and the intervals of each pass; a command that holds the
\* lock ends.
Fairness ==
  /\ SF_vars(Free /\ HealStart /\ UNCHANGED <<planVars, laneVars>>)
  /\ SF_vars(Free /\ DrainRead /\ UNCHANGED <<planVars, laneVars>>)
  /\ SF_vars(Free /\ PollBegin(TRUE, TRUE) /\ UNCHANGED <<lineVars, laneVars>>)
  /\ WF_vars(Continue /\ UNCHANGED laneVars) /\ WF_vars(Commanded /\ UNCHANGED laneVars) /\ WF_vars(Codex /\ UNCHANGED laneVars)

Spec == Init /\ [][Next]_vars /\ Fairness

-----------------------------------------------------------------------------
(* Properties.                                                              *)

TypeOK ==
  /\ slot \in Commands \cup {Shim, Absent} /\ mine \in Commands \cup {Absent}
  /\ managed \in BOOLEAN /\ off \in BOOLEAN /\ clobbered \in BOOLEAN /\ absenceDue \in BOOLEAN
  /\ record \in [wrapped : BOOLEAN, prior : Commands \cup {Absent}, heals : 0..MaxHeals]
  /\ \A p \in Lockers : op[p].at \in {"idle", "read", "save", "write", "count", "restore", "clear"}
  /\ \E p \in Lockers : op[p] = NoOp
  /\ \A s \in Sessions : cache[s].fp \in Commands \cup {Absent}
  /\ \A t \in Ticks : tick[t].at \in {"idle", "spool", "run"} /\ tick[t].obs \in 0..clock
  /\ {spool.obs, drain.obs, lastObserved} \subseteq 0..clock /\ sent.life \subseteq sent.ever
  /\ account \in Signed /\ tier \in [plan : Signed \cup {Unread}, acct : Signed \cup {Unread}]
  /\ stored.scan \in 0..now /\ stored.hits \subseteq Limits /\ poll.left \subseteq Limits
  /\ tierDate \in 0..date /\ shown.day \in 0..date
  /\ \A f \in Files : mtime[f] \in 0..now /\ counts[f].at \in Nat
  /\ told <= observed
  /\ \A l \in Queues : cursor[l] \in 0..size[l] /\ size[l] - cursor[l] <= Cap

\* What the shim draws for a session is what its wrapped command drew, in that session: never the line of
\* another session, never one of a command that has been replaced since.  Our own line (runPriorStatusline: "OUR
\* OWN LINE IS NEVER THE FALLBACK FOR A COMMAND WE WRAPPED") is drawn only where the slot was wrapped empty; where
\* the record was cleared after the tick began, so that the shim has been turned off meanwhile; and where the
\* record could not be read, which is a fallback for a wrapped command after all.
OwnLine ==
  \/ drawn.line = NoLine
  \/ drawn.line = Own /\ drawn.cmd = Absent /\ (drawn.why = "gone" => drawn.turnedOff)
  \/ drawn.line = Line(drawn.s, drawn.cmd) /\ drawn.cmd \in Commands

\* Whatever was put into the slot last by the engineer or another tool can be had again: it is in the slot, or in
\* the record while our shim is, through commands and heals that are killed or fail at any step; unless the slot
\* was written by another while a command or the healer had it in hand, or a command took a record that it could
\* not read for one without a prior.  Once disable has done its work the shim does not come back
\* (withStatuslineLock): a disable that could not remove the record returns the same way and has not done it.
Restorable ==
  /\ LockFree /\ ~clobbered => IF slot = Shim THEN record.wrapped /\ record.prior = mine ELSE slot = mine
  /\ off => slot # Shim /\ ~record.wrapped

\* A fight for the slot ends: no more than maxAutoHeals re-wraps in a row, for each time that the count was lost.
FightBounded == streak <= MaxHeals * (1 + lapses)

\* In one life of the watcher a reading is only sent when it is newer than all it has sent, although ticks spool
\* in any order; and no reading is ever sent twice (readClaudeWindowSpool: "emitted exactly once") but one whose
\* spool file could not be removed, which the next life of the watcher sends again.
NewerOnly == \A n \in sent'.life \ sent.life : /\ n \in sent.ever => n \in sent.stayed
                                               /\ \A m \in sent.life : n > m
Advances  == [][NewerOnly]_vars

\* A limit that was hit is sent once, and once more only when the watcher died, or could not write, between
\* sending it and saving what it had sent, or could not read it back; two months after its window has reset it is
\* forgotten, and sent by every scan that finds it; and nothing is sent that was not refused.
HitOnce == \A l \in Limits : /\ reported[l] <= 1 + mishaps
                             /\ reported[l] > 0 => \E h \in hits : h.limit = l /\ IsHit(h)

\* What there is to tell is told: once the others leave off, each limit that was hit has been sent, however often
\* the outbox was full; the tier and the day sent last are the present ones; the newest usable reading of Codex
\* has been sent, unless the outbox refused it or a newer one; and a slot that another tool took has been taken
\* back, unless it was contested too often.
HitsTold   == \A l \in LimitsOf({h \in hits : IsHit(h)}) : reported[l] > 0
TierTold   == shown = [tier |-> TierRead, day |-> date]
WindowTold == told >= NewestUsable \/ \E n \in dropped : n >= NewestUsable
Healed     == \/ slot \in {Shim, Absent} \/ ~record.wrapped \/ managed
              \/ record.heals = MaxHeals
AllTold == []<>(HitsTold /\ TierTold /\ WindowTold /\ Healed)

\* The slot belongs to those who use it: every line drawn is the session's own, nothing that was taken from it is
\* lost, and no fight for it goes on (statusline.go).
SlotKept == OwnLine /\ Restorable /\ FightBounded

\* What is said of the lanes is true: the count of the drops, the health, the figures of a heartbeat and the
\* diagnosis of doctor (drops.go, delivery_health.go, presence.go, queue_health.go).
LanesTrue == DropsCounted /\ HealthTrue /\ BeatMeasured /\ DoctorWarns

\* Readings go forward and a hit is told once (window_usage.go, limit_hits.go).
ToldOnce == []HitOnce /\ Advances
=============================================================================
