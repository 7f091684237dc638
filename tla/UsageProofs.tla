----------------------------- MODULE UsageProofs -----------------------------
(***************************************************************************)
(* What Usage promises for every number of sessions, ticks, transcripts,   *)
(* limits and events: its types, that the status line slot is kept, that   *)
(* the reports about the lanes are true, and that nothing is told twice.   *)
(***************************************************************************)
EXTENDS Usage, FiniteSetTheorems, SequenceTheorems, NaturalsInduction, WellFoundedInduction, TLAPS

-----------------------------------------------------------------------------
(* The steps of the status line and of the windows.                         *)

Locked(p) == SavePrior(p) \/ WriteShim(p)
SlotStep == \/ SlotSet \/ Manage \/ EnableStart \/ HealQuiet \/ HealStart \/ HealRead
            \/ (\E p \in Lockers : Locked(p)) \/ CountHeal
            \/ DisableStart \/ RestorePrior \/ ClearRecord \/ KillCommand
ShimStep == \/ \E t \in Ticks : TickBegin(t) \/ TickSpool(t) \/ TickDraw(t)
            \/ PruneCaches \/ DrainRead \/ DrainEmit \/ HourPasses
DeathStep == WatcherDies /\ UNCHANGED <<cache, tick, drawn, clock>>

LEMMA LineSteps ==
  ASSUME Next
  PROVE  SlotStep \/ ShimStep \/ DeathStep \/ UNCHANGED lineVars
<1> USE DEF SlotStep, ShimStep, DeathStep, Locked, Lockers
<1>1. ASSUME Loop PROVE SlotStep \/ ShimStep \/ UNCHANGED lineVars
  BY <1>1 DEF Loop, Heal
<1>2. ASSUME Continue \/ Commanded \/ Codex \/ Shown PROVE SlotStep \/ ShimStep \/ UNCHANGED lineVars
  BY <1>2 DEF Continue, Commanded, Codex, Shown
<1>3. ASSUME Others PROVE SlotStep \/ ShimStep \/ UNCHANGED lineVars
  BY <1>3 DEF Others
<1>4. ASSUME Restart PROVE DeathStep
  BY <1>4 DEF Restart
<1> QED BY <1>1, <1>2, <1>3, <1>4 DEF Next

-----------------------------------------------------------------------------
(* The slot.                                                                *)

Line0 == Commands \cup {Absent}

OpShape ==
  /\ op["daemon"] = NoOp \/ op["cli"] = NoOp
  /\ op["daemon"] # NoOp =>
       /\ op["daemon"].kind = "heal" /\ op["daemon"].at \in {"read", "save", "write", "count"}
       /\ op["daemon"].heals \in 1..MaxHeals
  /\ op["cli"] # NoOp =>
       \/ op["cli"].kind = "enable" /\ op["cli"].at \in {"save", "write"}
       \/ op["cli"].kind = "disable" /\ op["cli"].at \in {"restore", "clear"} /\ op["cli"].cur = Shim

OpType == [kind : {Absent, "enable", "heal", "disable"},
           at : {"idle", "read", "save", "write", "count", "restore", "clear"},
           cur : Line0 \cup {Shim}, heals : 0..MaxHeals]

SlotTypes ==
  /\ slot \in Commands \cup {Shim, Absent} /\ mine \in Line0
  /\ managed \in BOOLEAN /\ off \in BOOLEAN /\ clobbered \in BOOLEAN
  /\ record \in [wrapped : BOOLEAN, prior : Line0, heals : 0..MaxHeals]
  /\ op \in [Lockers -> OpType]
  /\ streak \in Nat /\ lapses \in Nat /\ clears \in Nat
  /\ OpShape

\* While a locker is about to put the shim into the slot, it is not there, and the record
\* holds what the locker found; what was put into the slot last is in one of the two.
SlotHeld ==
  /\ \A p \in Lockers :
       /\ op[p].at \in {"read", "save", "write", "clear"} => slot # Shim
       /\ op[p].at \in {"save", "write"} => op[p].cur \in Line0
       /\ op[p].at = "write" => record.wrapped /\ record.prior = op[p].cur
  /\ ~clobbered => IF slot = Shim THEN record.wrapped /\ record.prior = mine ELSE slot = mine
  /\ off => LockFree /\ slot # Shim /\ ~record.wrapped
  /\ slot = Shim => record.wrapped

\* The count in the record lags behind the re-wraps in a row by the one that is under way,
\* and by maxAutoHeals for each count that was lost.
Slack == MaxHeals * lapses
Writing == {"write", "count"}
StreakCounted ==
  /\ op["cli"].at \in {"save", "write"} => streak = 0
  /\ op["daemon"].at \in {"read", "save"} => record.wrapped /\ op["daemon"].heals = record.heals + 1
  /\ op["daemon"].at = "write" => streak < op["daemon"].heals + Slack
  /\ op["daemon"].at = "count" => streak <= op["daemon"].heals + Slack
  /\ op["daemon"].at \notin Writing /\ record.wrapped => streak <= record.heals + Slack
  /\ streak <= MaxHeals + Slack

LEMMA ShimKeepsSlot == ShimStep => UNCHANGED slotVars
BY DEF ShimStep, TickBegin, TickSpool, TickDraw, PruneCaches, DrainRead, DrainEmit, HourPasses, shimVars,
       windowVars

LEMMA SlotTypesStep ==
  ASSUME SlotTypes, SlotHeld, SlotStep \/ ShimStep \/ DeathStep \/ UNCHANGED lineVars
  PROVE  SlotTypes'
<1> USE DEF Line0, Lockers, OpType, shimVars, windowVars
<1> DEFINE Others0 == /\ slot' \in Commands \cup {Shim, Absent} /\ mine' \in Line0
                      /\ managed' \in BOOLEAN /\ off' \in BOOLEAN /\ clobbered' \in BOOLEAN
                      /\ record' \in [wrapped : BOOLEAN, prior : Line0, heals : 0..MaxHeals]
                      /\ streak' \in Nat /\ lapses' \in Nat /\ clears' \in Nat
<1>0. /\ Absent # Shim /\ Shim \notin Commands /\ MaxHeals \in Nat /\ 0 \in 0..MaxHeals
      /\ NoOp \in OpType /\ "cli" \in Lockers /\ "daemon" \in Lockers
  BY LineAssumption DEF NoOp
<1>a. op \in [Lockers -> OpType] BY DEF SlotTypes
<1>c. /\ \A cmd \in Line0 : Wrapping(cmd, 0) \in [wrapped : BOOLEAN, prior : Line0, heals : 0..MaxHeals]
      /\ NoRecord \in [wrapped : BOOLEAN, prior : Line0, heals : 0..MaxHeals]
  BY <1>0 DEF Wrapping, NoRecord
<1>1. CASE SlotSet \/ Manage
  BY <1>0, <1>1 DEF SlotSet, Manage, SlotTypes, OpShape
<1>2. CASE EnableStart
  <2>b. off' \in BOOLEAN /\ streak' \in Nat BY <1>2 DEF EnableStart
  <2>c. \/ record' = record \/ record' = Wrapping(Absent, 0) BY <1>2 DEF EnableStart, EnableAgain
  <2>e. clobbered' \in BOOLEAN BY <1>2 DEF EnableStart, EnableAgain, SlotTypes
  <2>d. record' \in [wrapped : BOOLEAN, prior : Line0, heals : 0..MaxHeals]
    BY <2>c, <1>c DEF SlotTypes
  <2>a. /\ record' \in [wrapped : BOOLEAN, prior : Line0, heals : 0..MaxHeals]
        /\ off' \in BOOLEAN /\ streak' \in Nat
    BY <2>b, <2>d
  <2>1. Others0 BY <1>2, <2>a, <2>e DEF EnableStart, SlotTypes
  <2>2. CASE slot = Shim
    <3>1. op' = op BY <1>2, <2>2 DEF EnableStart, EnableAgain
    <3> QED BY <2>1, <3>1 DEF SlotTypes, OpShape
  <2>3. CASE slot # Shim
    <3> DEFINE o == [kind |-> "enable", at |-> "save", cur |-> slot, heals |-> 0]
    <3>1. o \in OpType BY <1>0, <2>3 DEF SlotTypes
    <3>2. op' = [op EXCEPT !["cli"] = o] BY <1>2, <2>3 DEF EnableStart, EnableAgain
    <3>3. op["daemon"] = NoOp /\ op["cli"] = NoOp BY <1>2 DEF EnableStart, LockFree, SlotTypes, OpShape
    <3>4. op' \in [Lockers -> OpType] BY <1>a, <3>1, <3>2
    <3>5. op'["cli"] = o /\ op'["daemon"] = NoOp BY <1>a, <3>2, <3>3
    <3>6. OpShape' BY <3>5 DEF OpShape
    <3> QED BY <2>1, <3>4, <3>6 DEF SlotTypes
  <2> QED BY <2>2, <2>3
<1>3. CASE HealQuiet
  BY <1>0, <1>3 DEF HealQuiet, SlotTypes, OpShape
<1>4. CASE HealStart
  <2>1. Others0 BY <1>4 DEF HealStart, SlotTypes
  <2> DEFINE o == [kind |-> "heal", at |-> "read", cur |-> Absent, heals |-> record.heals + 1]
  <2>2. record.heals + 1 \in 1..MaxHeals BY <1>0, <1>4 DEF HealStart, Uncontested, SlotTypes
  <2>3. o \in OpType BY <1>0, <2>2
  <2>4. op' = [op EXCEPT !["daemon"] = o] BY <1>4 DEF HealStart
  <2>5. op["daemon"] = NoOp /\ op["cli"] = NoOp BY <1>4 DEF HealStart, LockFree, SlotTypes, OpShape
  <2>6. op' \in [Lockers -> OpType] BY <1>a, <2>3, <2>4
  <2>7. op'["daemon"] = o /\ op'["cli"] = NoOp BY <1>a, <2>4, <2>5
  <2>8. OpShape' BY <2>2, <2>7 DEF OpShape
  <2> QED BY <2>1, <2>6, <2>8 DEF SlotTypes
<1>5. CASE HealRead
  <2>1. Others0 BY <1>5 DEF HealRead, SlotTypes
  <2> DEFINE o == [op["daemon"] EXCEPT !.at = "save", !.cur = slot]
  <2>2. op["daemon"] # NoOp /\ op["cli"] = NoOp BY <1>5 DEF HealRead, At, SlotTypes, OpShape, NoOp
  <2>3. op' = [op EXCEPT !["daemon"] = o] BY <1>5 DEF HealRead
  <2>4. op["daemon"] \in OpType BY <1>a, <1>0
  <2>5. o \in OpType /\ o.at = "save" /\ o.kind = op["daemon"].kind /\ o.heals = op["daemon"].heals
    BY <2>4 DEF SlotTypes
  <2>6. op' \in [Lockers -> OpType] BY <1>a, <2>3, <2>5
  <2>7. op'["daemon"] = o /\ op'["cli"] = NoOp BY <1>a, <2>2, <2>3
  <2>8. OpShape' BY <2>2, <2>5, <2>7 DEF OpShape, SlotTypes
  <2> QED BY <2>1, <2>6, <2>8 DEF SlotTypes
<1>b. ASSUME NEW p \in Lockers, Others0, Ends(p) PROVE SlotTypes'
  <2>1. op' \in [Lockers -> OpType] BY <1>0, <1>a, <1>b DEF Ends
  <2>2. op'[p] = NoOp /\ \A q \in Lockers \ {p} : op'[q] = op[q] BY <1>a, <1>b DEF Ends
  <2>3. OpShape' BY <2>2 DEF OpShape, SlotTypes
  <2> QED BY <1>b, <2>1, <2>3 DEF SlotTypes
<1>d. ASSUME NEW p \in Lockers, NEW nx \in {"write", "count", "clear"}, Others0, Goes(p, nx),
             op[p] # NoOp,
             p = "daemon" => nx \in {"write", "count"},
             p = "cli" => \/ op[p].kind = "enable" /\ nx = "write"
                          \/ op[p].kind = "disable" /\ nx = "clear"
      PROVE  SlotTypes'
  <2> DEFINE o == [op[p] EXCEPT !.at = nx]
  <2>1. op[p] \in OpType BY <1>a
  <2>2. o \in OpType /\ o.at = nx /\ o.kind = op[p].kind /\ o.heals = op[p].heals
        /\ o.cur = op[p].cur
    BY <2>1
  <2>3. op' = [op EXCEPT ![p] = o] BY <1>d DEF Goes
  <2>4. op' \in [Lockers -> OpType] BY <1>a, <2>2, <2>3
  <2> HIDE DEF o
  <2>5. op'[p] = o /\ \A q \in Lockers \ {p} : op'[q] = op[q] BY <1>a, <2>3
  <2>6. \A q \in Lockers \ {p} : op[q] = NoOp BY <1>d DEF OpShape, SlotTypes
  <2>7. ASSUME p = "daemon" PROVE OpShape'
    <3>1. op'["daemon"] = o /\ op'["cli"] = NoOp BY <2>5, <2>6, <2>7
    <3>2. op["daemon"].kind = "heal" /\ op["daemon"].heals \in 1..MaxHeals
      BY <1>d, <2>7 DEF OpShape, SlotTypes
    <3>3. nx \in {"write", "count"} BY <1>d, <2>7
    <3>4. o.kind = "heal" /\ o.at \in {"write", "count"} /\ o.heals \in 1..MaxHeals
      BY <2>2, <2>7, <3>2, <3>3
    <3> QED BY <3>1, <3>4 DEF OpShape
  <2>8. ASSUME p = "cli" PROVE OpShape'
    <3>1. op'["cli"] = o /\ op'["daemon"] = NoOp BY <2>5, <2>6, <2>8
    <3>2. op["cli"].kind = "disable" => op["cli"].cur = Shim
      BY <1>d, <2>8 DEF OpShape, SlotTypes
    <3>3. \/ op["cli"].kind = "enable" /\ nx = "write"
          \/ op["cli"].kind = "disable" /\ nx = "clear"
      BY <1>d, <2>8
    <3>4. \/ o.kind = "enable" /\ o.at = "write"
          \/ o.kind = "disable" /\ o.at = "clear" /\ o.cur = Shim
      BY <2>2, <2>8, <3>2, <3>3
    <3> QED BY <3>1, <3>4 DEF OpShape
  <2>9. OpShape' BY <2>7, <2>8
  <2> QED BY <1>d, <2>4, <2>9 DEF SlotTypes
<1>6. ASSUME NEW p \in Lockers, SavePrior(p) PROVE SlotTypes'
  <2>1. op[p].at = "save" /\ op[p] # NoOp BY <1>6 DEF SavePrior, At, NoOp
  <2>2. Others0 BY <1>0, <1>6, <1>c, <2>1 DEF SavePrior, SlotTypes, SlotHeld
  <2>3. p = "cli" => op[p].kind = "enable" BY <2>1 DEF SlotTypes, OpShape
  <2>4. Goes(p, "write") \/ Ends(p) BY <1>6 DEF SavePrior
  <2> HIDE DEF Others0
  <2> QED BY <1>b, <1>d, <2>1, <2>2, <2>3, <2>4
<1>7. ASSUME NEW p \in Lockers, WriteShim(p) PROVE SlotTypes'
  <2>1. op[p].at = "write" /\ op[p] # NoOp BY <1>7 DEF WriteShim, At, NoOp
  <2>a. slot' \in Commands \cup {Shim, Absent} /\ clobbered' \in BOOLEAN
    BY <1>7 DEF WriteShim, SlotTypes
  <2>b. streak' \in Nat /\ lapses' \in Nat BY <1>7 DEF WriteShim, NotCounted, SlotTypes
  <2>c. UNCHANGED <<managed, record, mine, off, clears>> BY <1>7 DEF WriteShim
  <2>2. Others0 BY <2>a, <2>b, <2>c DEF SlotTypes
  <2>3. Ends(p) \/ (Goes(p, "count") /\ op[p].kind = "heal") BY <1>7 DEF WriteShim
  <2>4. p = "cli" => op[p].kind = "enable" BY <2>1 DEF SlotTypes, OpShape
  <2>5. Ends(p) \/ (Goes(p, "count") /\ p = "daemon") BY <2>3, <2>4
  <2> HIDE DEF Others0
  <2> QED BY <1>b, <1>d, <2>1, <2>2, <2>4, <2>5
<1>8. CASE CountHeal
  <2>1. op["daemon"].heals \in 0..MaxHeals BY <1>0, <1>a
  <2>2. Others0 BY <1>0, <1>8, <2>1 DEF CountHeal, NotCounted, SlotTypes
  <2>3. Ends("daemon") BY <1>8 DEF CountHeal
  <2> HIDE DEF Others0
  <2> QED BY <1>0, <1>b, <2>2, <2>3
<1>9. CASE DisableStart
  <2>a. /\ record' \in {record, NoRecord} /\ (off' = off \/ off' = TRUE) /\ (clears' = clears \/ clears' = clears + 1)
        /\ UNCHANGED <<slot, managed, mine, clobbered, streak, lapses>>
    BY <1>9 DEF DisableStart, Clears
  <2>b. record' \in [wrapped : BOOLEAN, prior : Line0, heals : 0..MaxHeals] BY <1>0, <1>c, <2>a DEF SlotTypes
  <2>c. off \in BOOLEAN /\ (off' = off \/ off' = TRUE) BY <2>a DEF SlotTypes
  <2>d. off' \in BOOLEAN BY ONLY <2>c, Zenon
  <2>e. clears' \in Nat BY <2>a DEF SlotTypes
  <2>1. Others0 BY <2>a, <2>b, <2>d, <2>e DEF SlotTypes
  <2>2. CASE slot # Shim
    <3>1. op' = op BY <1>9, <2>2 DEF DisableStart
    <3> QED BY <2>1, <3>1 DEF SlotTypes, OpShape
  <2>3. CASE slot = Shim
    <3> DEFINE o == [kind |-> "disable", at |-> "restore", cur |-> slot, heals |-> 0]
    <3>1. o \in OpType BY <1>0, <2>3
    <3>2. op' = [op EXCEPT !["cli"] = o] BY <1>9, <2>3 DEF DisableStart
    <3>3. op["daemon"] = NoOp /\ op["cli"] = NoOp BY <1>9 DEF DisableStart, LockFree, SlotTypes, OpShape
    <3>4. op' \in [Lockers -> OpType] BY <1>a, <3>1, <3>2
    <3>5. op'["cli"] = o /\ op'["daemon"] = NoOp BY <1>a, <3>2, <3>3
    <3>6. OpShape' BY <2>3, <3>5 DEF OpShape
    <3> QED BY <2>1, <3>4, <3>6 DEF SlotTypes
  <2> QED BY <2>2, <2>3
<1>10. CASE RestorePrior
  <2>1. op["cli"].at = "restore" /\ op["cli"] # NoOp BY <1>10 DEF RestorePrior, At, NoOp
  <2>2. Others0 BY <1>0, <1>10 DEF RestorePrior, SlotTypes
  <2>3. op["cli"].kind = "disable" BY <2>1 DEF SlotTypes, OpShape
  <2>4. Goes("cli", "clear") \/ Ends("cli") BY <1>10 DEF RestorePrior
  <2> HIDE DEF Others0
  <2> QED BY <1>0, <1>b, <1>d, <2>1, <2>2, <2>3, <2>4
<1>11. CASE ClearRecord \/ KillCommand
  <2>a. /\ record' \in {record, NoRecord} /\ (off' = off \/ off' = TRUE) /\ (clears' = clears \/ clears' = clears + 1)
        /\ UNCHANGED <<slot, managed, mine, clobbered, streak, lapses>>
    BY <1>11 DEF ClearRecord, KillCommand, Clears
  <2>b. record' \in [wrapped : BOOLEAN, prior : Line0, heals : 0..MaxHeals] BY <1>0, <1>c, <2>a DEF SlotTypes
  <2>c. off \in BOOLEAN /\ (off' = off \/ off' = TRUE) BY <2>a DEF SlotTypes
  <2>d. off' \in BOOLEAN BY ONLY <2>c, Zenon
  <2>e. clears' \in Nat BY <2>a DEF SlotTypes
  <2>1. Others0 BY <2>a, <2>b, <2>d, <2>e DEF SlotTypes
  <2>2. Ends("cli") BY <1>11 DEF ClearRecord, KillCommand
  <2> HIDE DEF Others0
  <2> QED BY <1>0, <1>b, <2>1, <2>2
<1>12. CASE ShimStep
  BY <1>12, ShimKeepsSlot DEF slotVars, SlotTypes, OpShape
<1>13. CASE DeathStep
  <2>1. Others0 BY <1>0, <1>13 DEF DeathStep, WatcherDies, NotCounted, SlotTypes
  <2>2. Ends("daemon") BY <1>13 DEF DeathStep, WatcherDies, Ends
  <2> HIDE DEF Others0
  <2> QED BY <1>0, <1>b, <2>1, <2>2
<1>14. CASE UNCHANGED lineVars
  BY <1>14 DEF lineVars, slotVars, SlotTypes, OpShape
<1> QED BY <1>1, <1>2, <1>3, <1>4, <1>5, <1>6, <1>7, <1>8, <1>9, <1>10, <1>11, <1>12, <1>13, <1>14
        DEF SlotStep, Locked

LEMMA OpMoves ==
  ASSUME op \in [Lockers -> OpType], NEW p \in Lockers
  PROVE  /\ Ends(p) => op'[p] = NoOp /\ \A q \in Lockers \ {p} : op'[q] = op[q]
         /\ \A nx : Goes(p, nx) =>
              /\ op'[p].at = nx /\ op'[p].cur = op[p].cur
              /\ op'[p].kind = op[p].kind /\ op'[p].heals = op[p].heals
              /\ \A q \in Lockers \ {p} : op'[q] = op[q]
<1>1. ASSUME NEW nx, Goes(p, nx)
      PROVE  /\ op'[p].at = nx /\ op'[p].cur = op[p].cur
             /\ op'[p].kind = op[p].kind /\ op'[p].heals = op[p].heals
             /\ \A q \in Lockers \ {p} : op'[q] = op[q]
  <2> DEFINE o == [op[p] EXCEPT !.at = nx]
  <2>1. o.at = nx /\ o.kind = op[p].kind /\ o.heals = op[p].heals /\ o.cur = op[p].cur
    BY DEF OpType
  <2>2. op' = [op EXCEPT ![p] = o] BY <1>1 DEF Goes
  <2> HIDE DEF o
  <2>3. op'[p] = o /\ \A q \in Lockers \ {p} : op'[q] = op[q] BY <2>2
  <2> QED BY <2>1, <2>3
<1>2. Ends(p) => op'[p] = NoOp /\ \A q \in Lockers \ {p} : op'[q] = op[q]
  BY DEF Ends
<1> QED BY <1>1, <1>2

LEMMA SlotHeldStep ==
  ASSUME SlotTypes, SlotHeld, SlotStep \/ ShimStep \/ DeathStep \/ UNCHANGED lineVars
  PROVE  SlotHeld'
<1> USE DEF Line0, Lockers, shimVars, windowVars
<1>0. /\ Absent # Shim /\ Shim \notin Commands /\ "cli" \in Lockers /\ "daemon" \in Lockers
      /\ NoOp.at = "idle" /\ NoRecord.wrapped = FALSE
  BY LineAssumption DEF NoOp, NoRecord
<1>a. op \in [Lockers -> OpType] BY DEF SlotTypes
<1>r. \A cmd, n : Wrapping(cmd, n).wrapped = TRUE /\ Wrapping(cmd, n).prior = cmd
  BY DEF Wrapping
<1>1. CASE SlotSet
  BY <1>0, <1>1 DEF SlotSet, SlotTypes, SlotHeld, LockFree
<1>2. CASE Manage
  BY <1>2 DEF Manage, SlotHeld, LockFree
<1>3. CASE EnableStart
  <2>1. CASE slot = Shim
    <3>1. ~off' /\ LockFree /\ UNCHANGED <<slot, mine, op>> BY <1>3, <2>1 DEF EnableStart, EnableAgain
    <3>2. CASE record.wrapped /\ UNCHANGED <<record, clobbered>>
      BY <2>1, <3>1, <3>2 DEF SlotHeld
    <3>3. CASE record' = Wrapping(Absent, 0) /\ clobbered' = (clobbered \/ record.prior # Absent)
      BY <1>0, <1>r, <2>1, <3>1, <3>3 DEF SlotHeld, LockFree
    <3> QED BY <1>3, <2>1, <3>2, <3>3 DEF EnableStart, EnableAgain
  <2>2. CASE slot # Shim
    <3> DEFINE o == [kind |-> "enable", at |-> "save", cur |-> slot, heals |-> 0]
    <3>1. op' = [op EXCEPT !["cli"] = o] BY <1>3, <2>2 DEF EnableStart, EnableAgain
    <3>2. o.at = "save" /\ o.cur = slot OBVIOUS
    <3> HIDE DEF o
    <3>3. op'["cli"] = o /\ op'["daemon"] = op["daemon"] BY <1>a, <3>1
    <3>4. ~off' /\ UNCHANGED <<slot, record, mine, clobbered>>
      BY <1>3, <2>2 DEF EnableStart, EnableAgain
    <3> QED BY <1>0, <2>2, <3>2, <3>3, <3>4 DEF SlotHeld, SlotTypes
  <2> QED BY <2>1, <2>2
<1>4. CASE HealQuiet
  <2>1. record'.wrapped = record.wrapped /\ record'.prior = record.prior
    BY <1>4 DEF HealQuiet, SlotTypes
  <2> QED BY <1>4, <2>1 DEF HealQuiet, SlotHeld, LockFree
<1>5. CASE HealStart
  <2> DEFINE o == [kind |-> "heal", at |-> "read", cur |-> Absent, heals |-> record.heals + 1]
  <2>1. op' = [op EXCEPT !["daemon"] = o] BY <1>5 DEF HealStart
  <2>2. o.at = "read" OBVIOUS
  <2> HIDE DEF o
  <2>3. op'["daemon"] = o /\ op'["cli"] = op["cli"] BY <1>a, <2>1
  <2> QED BY <1>0, <1>5, <2>2, <2>3 DEF HealStart, SlotHeld
<1>6. CASE HealRead
  <2> DEFINE o == [op["daemon"] EXCEPT !.at = "save", !.cur = slot]
  <2>1. op["daemon"] \in OpType BY <1>a
  <2>2. o.at = "save" /\ o.cur = slot BY <2>1 DEF OpType
  <2>3. op' = [op EXCEPT !["daemon"] = o] BY <1>6 DEF HealRead
  <2> HIDE DEF o
  <2>4. op'["daemon"] = o /\ op'["cli"] = op["cli"] BY <1>a, <2>3
  <2>5. ~off /\ slot # Shim BY <1>6 DEF HealRead, At, SlotHeld, LockFree
  <2> QED BY <1>6, <2>2, <2>4, <2>5 DEF HealRead, SlotHeld, SlotTypes
<1>b. ASSUME NEW p \in Lockers, SavePrior(p) PROVE SlotHeld'
  <2>1. op[p].at = "save" /\ ~off' /\ slot # Shim /\ op[p].cur \in Line0
    BY <1>b DEF SavePrior, At, SlotHeld, LockFree
  <2>2. CASE record' = Wrapping(op[p].cur, 0) /\ Goes(p, "write")
    <3>1. \A q \in Lockers \ {p} : op[q] = NoOp BY <1>0, <2>1 DEF SlotTypes, OpShape
    <3> QED BY <1>0, <1>a, <1>b, <1>r, <2>1, <2>2, <3>1, OpMoves DEF SavePrior, SlotHeld
  <2>3. CASE record' = record /\ Ends(p)
    BY <1>0, <1>a, <1>b, <2>1, <2>3, OpMoves DEF SavePrior, SlotHeld
  <2> QED BY <1>b, <2>2, <2>3 DEF SavePrior
<1>c. ASSUME NEW p \in Lockers, WriteShim(p) PROVE SlotHeld'
  <2>1. /\ op[p].at = "write" /\ ~off' /\ slot # Shim /\ op[p].cur \in Line0
        /\ record.wrapped /\ record.prior = op[p].cur
    BY <1>c DEF WriteShim, At, SlotHeld, LockFree
  <2>2. \A q \in Lockers \ {p} : op[q] = NoOp BY <1>0, <2>1 DEF SlotTypes, OpShape
  <2>3. /\ op'[p].at \in {"count", "idle"} /\ \A q \in Lockers \ {p} : op'[q] = NoOp
    BY <1>0, <1>a, <1>c, <2>2, OpMoves DEF WriteShim
  <2>4. UNCHANGED <<record, mine>> BY <1>c DEF WriteShim
  <2>5. CASE slot' = Shim /\ clobbered' = (clobbered \/ slot # op[p].cur)
    <3>1. ~clobbered' => record.prior = mine BY <2>1, <2>5 DEF SlotHeld
    <3> QED BY <1>0, <2>1, <2>3, <2>4, <2>5, <3>1 DEF SlotHeld
  <2>6. CASE UNCHANGED <<slot, clobbered>>
    BY <1>0, <2>1, <2>3, <2>4, <2>6 DEF SlotHeld
  <2> QED BY <1>c, <2>5, <2>6 DEF WriteShim
<1>7. CASE CountHeal
  <2>1. /\ op["daemon"].at = "count" /\ ~off' /\ UNCHANGED <<slot, mine, clobbered>>
    BY <1>7 DEF CountHeal, At, SlotHeld, LockFree
  <2>2. op["cli"] = NoOp BY <1>0, <2>1 DEF SlotTypes, OpShape
  <2>3. op'["daemon"] = NoOp /\ op'["cli"] = NoOp BY <1>a, <1>7, <2>2, OpMoves DEF CountHeal
  <2>4. record'.wrapped = record.wrapped /\ record'.prior = record.prior
    BY <1>7 DEF CountHeal, SlotTypes
  <2> QED BY <1>0, <2>1, <2>3, <2>4 DEF SlotHeld
<1>8. CASE DisableStart
  <2>1. CASE slot # Shim
    BY <1>0, <1>8, <2>1 DEF DisableStart, Clears, SlotHeld, LockFree
  <2>2. CASE slot = Shim
    <3> DEFINE o == [kind |-> "disable", at |-> "restore", cur |-> slot, heals |-> 0]
    <3>1. op' = [op EXCEPT !["cli"] = o] BY <1>8, <2>2 DEF DisableStart
    <3>2. o.at = "restore" OBVIOUS
    <3> HIDE DEF o
    <3>3. op'["cli"] = o /\ op'["daemon"] = op["daemon"] BY <1>a, <3>1
    <3> QED BY <1>0, <1>8, <2>2, <3>2, <3>3 DEF DisableStart, SlotHeld, LockFree
  <2> QED BY <2>1, <2>2
<1>9. CASE RestorePrior
  <2>1. op["cli"].at = "restore" /\ ~off' BY <1>9 DEF RestorePrior, At, SlotHeld, LockFree
  <2>2. op["cli"].cur = Shim /\ op["daemon"] = NoOp BY <1>0, <2>1 DEF SlotTypes, OpShape
  <2>3. op'["daemon"] = NoOp /\ op'["cli"].at \in {"clear", "idle"}
    BY <1>0, <1>a, <1>9, <2>2, OpMoves DEF RestorePrior
  <2>4. UNCHANGED <<record, mine>> BY <1>9 DEF RestorePrior
  <2>5. CASE slot' = record.prior /\ clobbered' = (clobbered \/ slot # op["cli"].cur)
    <3>1. slot' # Shim BY <1>0, <2>5 DEF SlotTypes
    <3>2. ~clobbered' => slot' = mine BY <2>2, <2>5 DEF SlotHeld
    <3> QED BY <1>0, <2>1, <2>3, <2>4, <3>1, <3>2 DEF SlotHeld
  <2>6. CASE UNCHANGED <<slot, clobbered>> /\ Ends("cli")
    BY <1>0, <1>a, <2>1, <2>2, <2>4, <2>6, OpMoves DEF SlotHeld
  <2>7. CASE slot' = Absent /\ clobbered' = (clobbered \/ slot # op["cli"].cur \/ record.prior # Absent)
    <3>1. ~clobbered' => slot' = mine BY <2>2, <2>7 DEF SlotHeld
    <3> QED BY <1>0, <2>1, <2>3, <2>4, <2>7, <3>1 DEF SlotHeld
  <2> QED BY <1>9, <2>5, <2>6, <2>7 DEF RestorePrior
<1>10. CASE ClearRecord
  <2>1. op["cli"].at = "clear" /\ slot # Shim BY <1>10 DEF ClearRecord, At, SlotHeld
  <2>2. op["daemon"] = NoOp BY <1>0, <2>1 DEF SlotTypes, OpShape
  <2>3. op'["daemon"] = NoOp /\ op'["cli"] = NoOp BY <1>a, <1>10, <2>2, OpMoves DEF ClearRecord
  <2> QED BY <1>0, <1>10, <2>1, <2>3 DEF ClearRecord, Clears, SlotHeld, LockFree
<1>11. CASE KillCommand
  BY <1>0, <1>a, <1>11, OpMoves DEF KillCommand, At, SlotHeld, LockFree
<1>12. CASE ShimStep
  BY <1>12, ShimKeepsSlot DEF slotVars, SlotHeld, LockFree
<1>13. CASE DeathStep
  <2>1. Ends("daemon") /\ UNCHANGED <<slot, record, mine, off, clobbered>>
    BY <1>13 DEF DeathStep, WatcherDies, Ends
  <2> QED BY <1>0, <1>a, <2>1, OpMoves DEF SlotHeld, LockFree
<1>14. CASE UNCHANGED lineVars
  BY <1>14 DEF lineVars, slotVars, SlotHeld, LockFree
<1> QED BY <1>1, <1>2, <1>3, <1>4, <1>5, <1>6, <1>b, <1>c, <1>7, <1>8, <1>9, <1>10, <1>11, <1>12,
           <1>13, <1>14
        DEF SlotStep, Locked

LEMMA SlackGrows ==
  ASSUME lapses \in Nat
  PROVE  /\ Slack \in Nat
         /\ UNCHANGED lapses => Slack' = Slack
         /\ lapses' = lapses + 1 => Slack' = Slack + MaxHeals
<1>1. MaxHeals \in Nat BY LineAssumption
<1>2. \A l \in Nat : MaxHeals * l \in Nat /\ MaxHeals * (l + 1) = MaxHeals * l + MaxHeals
  BY <1>1
<1> QED BY <1>2 DEF Slack

LEMMA StreakStep ==
  ASSUME SlotTypes, SlotHeld, StreakCounted,
         SlotStep \/ ShimStep \/ DeathStep \/ UNCHANGED lineVars
  PROVE  StreakCounted'
<1> USE DEF Lockers, Writing, shimVars, windowVars
<1>0. /\ MaxHeals \in Nat /\ "cli" \in Lockers /\ "daemon" \in Lockers
      /\ NoOp.at = "idle" /\ NoRecord.wrapped = FALSE
      /\ \A cmd, n : Wrapping(cmd, n).heals = n
  BY LineAssumption DEF NoOp, NoRecord, Wrapping
<1>a. /\ op \in [Lockers -> OpType] /\ streak \in Nat /\ lapses \in Nat
      /\ record.heals \in 0..MaxHeals /\ op["daemon"].heals \in 0..MaxHeals
  BY DEF SlotTypes, OpType
<1>s. /\ Slack \in Nat
      /\ UNCHANGED lapses => Slack' = Slack
      /\ lapses' = lapses + 1 => Slack' = Slack + MaxHeals
  BY <1>a, SlackGrows
<1>k. ASSUME op'["daemon"] = op["daemon"], UNCHANGED <<streak, lapses>>,
             record' = record \/ (~record'.wrapped /\ op["daemon"] = NoOp),
             op'["cli"].at \in {"save", "write"} => op["cli"].at \in {"save", "write"}
      PROVE  StreakCounted'
  BY <1>0, <1>k, <1>s DEF StreakCounted
<1>z. ASSUME op'["daemon"].at = "idle", streak' = 0, UNCHANGED lapses, record'.heals \in Nat
      PROVE  StreakCounted'
  <2>1. Slack' = Slack BY <1>s, <1>z
  <2>2. streak' <= MaxHeals + Slack' BY <1>0, <1>s, <1>z, <2>1
  <2>3. streak' <= record'.heals + Slack' BY <1>0, <1>s, <1>z, <2>1
  <2> QED BY <1>z, <2>2, <2>3 DEF StreakCounted
<1>f. LockFree => op["daemon"].at = "idle" /\ op["cli"].at = "idle" BY DEF LockFree
<1>1. CASE SlotSet \/ Manage
  BY <1>k, <1>1 DEF SlotSet, Manage
<1>2. CASE EnableStart
  <2> DEFINE o == [kind |-> "enable", at |-> "save", cur |-> slot, heals |-> 0]
  <2>1. op' = op \/ op' = [op EXCEPT !["cli"] = o] BY <1>2 DEF EnableStart, EnableAgain
  <2> HIDE DEF o
  <2>2. op'["daemon"].at = "idle" BY <1>2, <1>a, <1>f, <2>1 DEF EnableStart
  <2>3. record' = record \/ record' = Wrapping(Absent, 0) BY <1>2 DEF EnableStart, EnableAgain
  <2>4. record'.heals \in Nat BY <1>0, <1>a, <2>3
  <2> QED BY <1>2, <1>z, <2>2, <2>4 DEF EnableStart
<1>3. CASE HealQuiet
  <2>1. record'.heals \in Nat BY <1>3, <1>a DEF HealQuiet, SlotTypes
  <2> QED BY <1>3, <1>f, <1>z, <2>1 DEF HealQuiet
<1>4. CASE HealStart
  <2> DEFINE o == [kind |-> "heal", at |-> "read", cur |-> Absent, heals |-> record.heals + 1]
  <2>1. op' = [op EXCEPT !["daemon"] = o] BY <1>4 DEF HealStart
  <2>2. o.at = "read" /\ o.heals = record.heals + 1 OBVIOUS
  <2> HIDE DEF o
  <2>3. op'["daemon"] = o /\ op'["cli"] = op["cli"] BY <1>a, <2>1
  <2>4. UNCHANGED <<streak, lapses, record>> /\ record.wrapped BY <1>4 DEF HealStart
  <2>5. op["daemon"].at = "idle" BY <1>4, <1>f DEF HealStart
  <2> QED BY <1>s, <2>2, <2>3, <2>4, <2>5 DEF StreakCounted
<1>5. CASE HealRead
  <2> DEFINE o == [op["daemon"] EXCEPT !.at = "save", !.cur = slot]
  <2>1. op["daemon"] \in OpType BY <1>a
  <2>2. o.at = "save" /\ o.heals = op["daemon"].heals BY <2>1 DEF OpType
  <2>3. op' = [op EXCEPT !["daemon"] = o] BY <1>5 DEF HealRead
  <2> HIDE DEF o
  <2>4. op'["daemon"] = o /\ op'["cli"] = op["cli"] BY <1>a, <2>3
  <2>5. UNCHANGED <<streak, lapses, record>> /\ op["daemon"].at = "read" BY <1>5 DEF HealRead, At
  <2> QED BY <1>s, <2>2, <2>4, <2>5 DEF StreakCounted
<1>b. ASSUME NEW p \in Lockers, SavePrior(p) PROVE StreakCounted'
  <2>1. op[p].at = "save" /\ UNCHANGED <<streak, lapses>> BY <1>b DEF SavePrior, At
  <2>2. \A q \in Lockers \ {p} : op[q] = NoOp BY <1>0, <2>1 DEF SlotTypes, OpShape
  <2>3. ASSUME record' = Wrapping(op[p].cur, 0), Goes(p, "write"), p = "cli" PROVE StreakCounted'
    <3>1. op'["daemon"].at = "idle" BY <1>0, <1>a, <2>2, <2>3, OpMoves
    <3>2. streak' = 0 BY <2>1, <2>3 DEF StreakCounted
    <3> QED BY <1>0, <1>z, <2>1, <2>3, <3>1, <3>2
  <2>4. ASSUME record' = Wrapping(op[p].cur, 0), Goes(p, "write"), p = "daemon" PROVE StreakCounted'
    <3>1. /\ op'["daemon"].at = "write" /\ op'["daemon"].heals = op["daemon"].heals
          /\ op'["cli"] = NoOp
      BY <1>0, <1>a, <2>2, <2>4, OpMoves
    <3>2. streak <= record.heals + Slack /\ op["daemon"].heals = record.heals + 1
      BY <2>1, <2>4 DEF StreakCounted
    <3>3. streak <= MaxHeals + Slack BY DEF StreakCounted
    <3> QED BY <1>0, <1>a, <1>s, <2>1, <3>1, <3>2, <3>3 DEF StreakCounted
  <2>5. ASSUME record' = record, Ends(p) PROVE StreakCounted'
    <3>1. op'["daemon"] = NoOp /\ op'["cli"] = NoOp BY <1>a, <2>2, <2>5, OpMoves
    <3>2. op["daemon"].at \notin Writing BY <1>0, <2>1, <2>2
    <3> QED BY <1>0, <1>s, <2>1, <2>5, <3>1, <3>2 DEF StreakCounted
  <2> QED BY <1>b, <2>3, <2>4, <2>5 DEF SavePrior
\* A heal that ends without having counted itself is a lapse.
<1>l. ASSUME op["daemon"].at \in Writing, op'["daemon"] = NoOp, op'["cli"] = NoOp,
             UNCHANGED <<streak, record>>, lapses' = lapses + 1
      PROVE  StreakCounted'
  <2>1. streak <= MaxHeals + Slack BY DEF StreakCounted
  <2>2. streak' <= Slack' BY <1>0, <1>a, <1>l, <1>s, <2>1
  <2> QED BY <1>0, <1>a, <1>l, <1>s, <2>2 DEF StreakCounted
<1>c. ASSUME NEW p \in Lockers, WriteShim(p) PROVE StreakCounted'
  <2>1. op[p].at = "write" /\ UNCHANGED record BY <1>c DEF WriteShim, At
  <2>2. \A q \in Lockers \ {p} : op[q] = NoOp BY <1>0, <2>1 DEF SlotTypes, OpShape
  <2>3. ASSUME op[p].kind = "heal", streak' = streak + 1, Goes(p, "count"), UNCHANGED lapses
        PROVE  StreakCounted'
    <3>1. p = "daemon" BY <1>0, <2>1, <2>3 DEF SlotTypes, OpShape
    <3>2. /\ op'["daemon"].at = "count" /\ op'["daemon"].heals = op["daemon"].heals
          /\ op'["cli"] = NoOp
      BY <1>a, <2>2, <2>3, <3>1, OpMoves
    <3>3. streak < op["daemon"].heals + Slack BY <2>1, <3>1 DEF StreakCounted
    <3> QED BY <1>0, <1>a, <1>s, <2>3, <3>2, <3>3 DEF StreakCounted
  <2>4. ASSUME op[p].kind # "heal", UNCHANGED <<streak, lapses>>, Ends(p) PROVE StreakCounted'
    <3>1. p = "cli" BY <1>0, <2>1, <2>4 DEF SlotTypes, OpShape
    <3>2. op'["daemon"] = op["daemon"] /\ op'["cli"] = NoOp BY <1>a, <2>4, <3>1, OpMoves
    <3> QED BY <1>0, <1>k, <2>1, <2>4, <3>2
  <2>5. ASSUME Ends(p), NotCounted(p), UNCHANGED streak PROVE StreakCounted'
    <3>1. op'["daemon"] = NoOp /\ op'["cli"] = NoOp BY <1>a, <2>2, <2>5, OpMoves
    <3>2. CASE p = "daemon"
      <4>1. lapses' = lapses + 1 BY <2>1, <2>5, <3>2 DEF NotCounted
      <4> QED BY <1>l, <2>1, <2>5, <3>1, <3>2, <4>1
    <3>3. CASE p = "cli"
      <4>1. UNCHANGED lapses BY <2>5, <3>3 DEF NotCounted
      <4>2. op["daemon"] = NoOp BY <2>2, <3>3
      <4> QED BY <1>0, <1>k, <2>1, <2>5, <3>1, <4>1, <4>2
    <3> QED BY <3>2, <3>3
  <2> QED BY <1>c, <2>3, <2>4, <2>5 DEF WriteShim
<1>6. CASE CountHeal
  <2>1. op["daemon"].at = "count" /\ UNCHANGED streak BY <1>6 DEF CountHeal, At
  <2>2. op["cli"] = NoOp BY <1>0, <2>1 DEF SlotTypes, OpShape
  <2>3. op'["daemon"] = NoOp /\ op'["cli"] = NoOp BY <1>6, <1>a, <2>2, OpMoves DEF CountHeal
  <2>4. ASSUME record' = [record EXCEPT !.heals = op["daemon"].heals], UNCHANGED lapses
        PROVE  StreakCounted'
    <3>1. record'.heals = op["daemon"].heals BY <2>4 DEF SlotTypes
    <3>2. streak <= op["daemon"].heals + Slack /\ streak <= MaxHeals + Slack BY <2>1 DEF StreakCounted
    <3> QED BY <1>0, <1>s, <2>1, <2>3, <2>4, <3>1, <3>2 DEF StreakCounted
  <2>5. ASSUME NotCounted("daemon"), UNCHANGED record PROVE StreakCounted'
    <3>1. lapses' = lapses + 1 BY <2>1, <2>5 DEF NotCounted
    <3> QED BY <1>l, <2>1, <2>3, <2>5, <3>1
  <2> QED BY <1>6, <2>4, <2>5 DEF CountHeal
<1>7. CASE DisableStart
  <2> DEFINE o == [kind |-> "disable", at |-> "restore", cur |-> slot, heals |-> 0]
  <2>1. op' = op \/ op' = [op EXCEPT !["cli"] = o] BY <1>7 DEF DisableStart
  <2>2. o.at = "restore" OBVIOUS
  <2> HIDE DEF o
  <2>3. op'["daemon"] = op["daemon"] /\ op["daemon"] = NoOp
    BY <1>0, <1>7, <1>a, <1>f, <2>1 DEF DisableStart, SlotTypes, OpShape
  <2>4. op'["cli"].at \in {op["cli"].at, "restore"} BY <1>a, <2>1, <2>2
  <2>5. record' = record \/ record' = NoRecord BY <1>7 DEF DisableStart, Clears
  <2>6. UNCHANGED <<streak, lapses>> BY <1>7 DEF DisableStart
  <2> QED BY <1>0, <1>k, <2>3, <2>4, <2>5, <2>6
<1>8. CASE RestorePrior
  <2>1. op'["daemon"] = op["daemon"] /\ op'["cli"].at \in {"clear", "idle"}
    BY <1>0, <1>8, <1>a, OpMoves DEF RestorePrior
  <2> QED BY <1>8, <1>k, <2>1 DEF RestorePrior
<1>9. CASE ClearRecord
  <2>1. op["cli"].at = "clear" BY <1>9 DEF ClearRecord, At
  <2>2. op["daemon"] = NoOp BY <1>0, <2>1 DEF SlotTypes, OpShape
  <2>3. op'["daemon"] = NoOp /\ op'["cli"] = NoOp BY <1>9, <1>a, <2>2, OpMoves DEF ClearRecord
  <2>4. record' = record \/ record' = NoRecord BY <1>9 DEF ClearRecord, Clears
  <2> QED BY <1>0, <1>9, <1>k, <2>2, <2>3, <2>4 DEF ClearRecord
<1>10. CASE KillCommand
  <2>1. op'["daemon"] = op["daemon"] /\ op'["cli"] = NoOp BY <1>10, <1>a, OpMoves DEF KillCommand
  <2> QED BY <1>0, <1>10, <1>k, <2>1 DEF KillCommand
<1>11. CASE DeathStep
  <2>1. Ends("daemon") /\ NotCounted("daemon") /\ UNCHANGED <<streak, record>>
    BY <1>11 DEF DeathStep, WatcherDies, Ends
  <2>2. op'["daemon"] = NoOp /\ op'["cli"] = op["cli"] BY <1>a, <2>1, OpMoves
  <2>3. CASE op["daemon"].at \in Writing
    <3>1. op["cli"] = NoOp BY <1>0, <2>3 DEF SlotTypes, OpShape
    <3>2. lapses' = lapses + 1 BY <2>1, <2>3 DEF NotCounted
    <3> QED BY <1>l, <2>1, <2>2, <2>3, <3>1, <3>2
  <2>4. CASE op["daemon"].at \notin Writing
    <3>1. UNCHANGED lapses BY <2>1, <2>4 DEF NotCounted
    <3> QED BY <1>0, <1>s, <2>1, <2>2, <2>4, <3>1 DEF StreakCounted
  <2> QED BY <2>3, <2>4
<1>12. CASE ShimStep
  BY <1>12, <1>k, ShimKeepsSlot DEF slotVars
<1>13. CASE UNCHANGED lineVars
  BY <1>13, <1>k DEF lineVars, slotVars
<1> QED BY <1>1, <1>2, <1>3, <1>4, <1>5, <1>b, <1>c, <1>6, <1>7, <1>8, <1>9, <1>10, <1>11, <1>12,
           <1>13
        DEF SlotStep, Locked

-----------------------------------------------------------------------------
(* The shim, and the windows it spools.                                     *)

LineType == [s : Sessions \cup {Absent}, cmd : Line0 \cup {Shim}]
CacheType == [fp : Line0, line : LineType]
TickType == [at : {"idle", "spool", "run"}, s : Sessions \cup {Absent}, obs : Nat,
             blob : {"windows", "bare", "garbled", Absent}, cmd : Line0,
             why : {"wrapped", "gone", "unread"}, begun : Nat]
WindowType == [obs : Nat, kind : {"reading", "absence", Absent}]

ShimTypes ==
  /\ cache \in [Sessions -> CacheType]
  /\ tick \in [Ticks -> TickType]
  /\ \A t \in Ticks : tick[t].at # "idle" => tick[t].s \in Sessions
  /\ clock \in Nat

\* What is remembered of a session is the line of that session and of the command named.
CachesOwn == \A s \in Sessions : cache[s].fp \in Commands => cache[s].line = Line(s, cache[s].fp)

WindowTypes ==
  /\ spool \in WindowType /\ drain \in WindowType
  /\ lastObserved \in Nat /\ absenceDue \in BOOLEAN
  /\ sent \in [life : SUBSET Nat, ever : SUBSET Nat, stayed : SUBSET Nat]

\* Nothing carries a time to come.
Dated ==
  /\ \A t \in Ticks : tick[t].obs \in 0..clock
  /\ {spool.obs, drain.obs, lastObserved} \subseteq 0..clock
  /\ sent.ever \subseteq 1..clock /\ sent.life \subseteq sent.ever

\* No reading that may still be sent was sent before, unless its file stayed, and none of this life is newer than
\* the one looked at last.
Unspent ==
  /\ \A t \in Ticks : tick[t].at = "spool" =>
       /\ tick[t].obs \notin sent.ever \cup {0, spool.obs, drain.obs}
       /\ \A u \in Ticks \ {t} : tick[u].at = "spool" => tick[u].obs # tick[t].obs
  /\ {spool.obs, drain.obs} \cap sent.ever \subseteq sent.stayed
  /\ \A n \in sent.life : n <= lastObserved

LEMMA SlotKeepsShim ==
  ASSUME SlotStep
  PROVE  UNCHANGED <<tick, drawn, clock, windowVars>> /\ (cache' = cache \/ cache' = NoCaches)
BY DEF SlotStep, Locked, SlotSet, Manage, EnableStart, EnableAgain, HealQuiet, HealStart, HealRead, SavePrior,
       WriteShim, CountHeal, DisableStart, RestorePrior, ClearRecord, Clears, KillCommand, shimVars, windowVars

\* A tick began while the shim was in the slot, and so while there was a record: it finds none only when one has
\* been cleared since.
ClearedSince ==
  \A t \in Ticks :
    /\ tick[t].begun <= clears
    /\ tick[t].at = "spool" /\ ~record.wrapped => tick[t].begun < clears
    /\ tick[t].at = "run" /\ tick[t].why = "gone" => tick[t].begun < clears

LEMMA ClearsCounted ==
  ASSUME SlotTypes, SlotStep \/ ShimStep \/ DeathStep \/ UNCHANGED lineVars
  PROVE  \/ clears' = clears /\ (record.wrapped => record'.wrapped)
         \/ clears' = clears + 1
<1>r. \A cmd, n : Wrapping(cmd, n).wrapped = TRUE BY DEF Wrapping
<1>1. CASE SlotSet \/ Manage \/ HealStart \/ HealRead \/ RestorePrior \/ KillCommand
  BY <1>1 DEF SlotSet, Manage, HealStart, HealRead, RestorePrior, KillCommand
<1>2. CASE EnableStart
  BY <1>2, <1>r DEF EnableStart, EnableAgain
<1>3. CASE HealQuiet \/ CountHeal
  BY <1>3 DEF HealQuiet, CountHeal, SlotTypes
<1>4. ASSUME NEW p \in Lockers, SavePrior(p) \/ WriteShim(p)
      PROVE  clears' = clears /\ (record.wrapped => record'.wrapped)
  BY <1>4, <1>r DEF SavePrior, WriteShim
<1>5. CASE DisableStart \/ ClearRecord
  BY <1>5 DEF DisableStart, ClearRecord, Clears
<1>6. CASE ShimStep \/ DeathStep \/ UNCHANGED lineVars
  BY <1>6, ShimKeepsSlot DEF slotVars, lineVars, DeathStep, WatcherDies
<1> QED BY <1>1, <1>2, <1>3, <1>4, <1>5, <1>6 DEF SlotStep, Locked

LEMMA ClearedStep ==
  ASSUME SlotTypes, SlotHeld, ShimTypes, ClearedSince,
         SlotStep \/ ShimStep \/ DeathStep \/ UNCHANGED lineVars
  PROVE  ClearedSince'
<1> USE DEF windowVars
<1>a. /\ tick \in [Ticks -> TickType] /\ clears \in Nat /\ \A t \in Ticks : tick[t].begun \in Nat
  BY DEF ShimTypes, SlotTypes, TickType
<1>1. CASE UNCHANGED tick
  BY <1>a, <1>1, ClearsCounted DEF ClearedSince
<1>k. ASSUME NEW t \in Ticks, UNCHANGED <<clears, record>>, \A u \in Ticks \ {t} : tick'[u] = tick[u],
             tick'[t].begun <= clears,
             tick'[t].at = "spool" => record.wrapped,
             tick'[t].at = "run" /\ tick'[t].why = "gone" => tick'[t].begun < clears
      PROVE  ClearedSince'
  BY <1>k DEF ClearedSince
<1>2. ASSUME NEW t \in Ticks, TickBegin(t) PROVE ClearedSince'
  <2>1. PICK s \in Sessions, blob \in {"windows", "bare", "garbled"} :
          tick' = [tick EXCEPT ![t] = [NoTick EXCEPT !.at = "spool", !.s = s, !.obs = clock', !.blob = blob, !.begun = clears]]
    BY <1>2 DEF TickBegin
  <2> DEFINE o == [NoTick EXCEPT !.at = "spool", !.s = s, !.obs = clock', !.blob = blob, !.begun = clears]
  <2>2. o.at = "spool" /\ o.begun = clears BY DEF NoTick
  <2>3. tick' = [tick EXCEPT ![t] = o] BY <2>1
  <2> HIDE DEF o
  <2>4. tick'[t] = o /\ \A u \in Ticks \ {t} : tick'[u] = tick[u] BY <1>a, <2>3
  <2>5. UNCHANGED <<clears, record>> /\ record.wrapped BY <1>2 DEF TickBegin, slotVars, Runs, SlotHeld
  <2> QED BY <1>a, <1>k, <2>2, <2>4, <2>5
<1>3. ASSUME NEW t \in Ticks, TickSpool(t) PROVE ClearedSince'
  <2>1. PICK bad \in SUBSET {"fail", "unread"} :
          tick' = [tick EXCEPT ![t].at = "run", ![t].why = Lookup("unread" \in bad),
                               ![t].cmd = IF "unread" \in bad THEN Absent ELSE record.prior]
    BY <1>3 DEF TickSpool
  <2> DEFINE o == [tick[t] EXCEPT !.at = "run", !.why = Lookup("unread" \in bad),
                                  !.cmd = IF "unread" \in bad THEN Absent ELSE record.prior]
  <2>2. tick[t] \in TickType BY <1>a
  <2>3. o.at = "run" /\ o.begun = tick[t].begun /\ o.why = Lookup("unread" \in bad) BY <2>2 DEF TickType
  <2>4. tick' = [tick EXCEPT ![t] = o] BY <2>1
  <2> HIDE DEF o
  <2>5. tick'[t] = o /\ \A u \in Ticks \ {t} : tick'[u] = tick[u] BY <1>a, <2>4
  <2>6. UNCHANGED <<clears, record>> /\ tick[t].at = "spool" BY <1>3 DEF TickSpool, slotVars
  <2>7. o.why = "gone" => ~record.wrapped BY <2>3 DEF Lookup
  <2>8. o.begun <= clears /\ (o.why = "gone" => o.begun < clears) BY <2>3, <2>6, <2>7 DEF ClearedSince
  <2> QED BY <1>k, <2>3, <2>5, <2>6, <2>8
<1>4. ASSUME NEW t \in Ticks, TickDraw(t) PROVE ClearedSince'
  <2>1. tick' = [tick EXCEPT ![t] = NoTick] /\ UNCHANGED <<clears, record>> BY <1>4 DEF TickDraw, slotVars
  <2>2. tick'[t] = NoTick /\ \A u \in Ticks \ {t} : tick'[u] = tick[u] BY <1>a, <2>1
  <2>3. NoTick.at = "idle" /\ NoTick.begun = 0 BY DEF NoTick
  <2> QED BY <1>a, <1>k, <2>1, <2>2, <2>3
<1>5. CASE SlotStep
  BY <1>1, <1>5, SlotKeepsShim
<1>6. CASE PruneCaches \/ DrainRead \/ DrainEmit \/ HourPasses \/ DeathStep \/ UNCHANGED lineVars
  BY <1>1, <1>6 DEF PruneCaches, DrainRead, DrainEmit, HourPasses, DeathStep, lineVars, shimVars
<1> QED BY <1>2, <1>3, <1>4, <1>5, <1>6 DEF ShimStep

LEMMA ShimSteps ==
  ASSUME SlotTypes, ShimTypes, CachesOwn, ClearedSince, OwnLine,
         SlotStep \/ ShimStep \/ DeathStep \/ UNCHANGED lineVars
  PROVE  ShimTypes' /\ CachesOwn' /\ OwnLine'
<1> USE DEF windowVars
<1>0. /\ Absent \notin Commands /\ Shim \notin Commands /\ Shim # Absent
      /\ NoCache \in CacheType /\ NoCache.fp = Absent
      /\ NoTick \in TickType /\ NoTick.at = "idle"
      /\ NoLine \in LineType /\ Own \in LineType
      /\ \A s \in Sessions, cmd \in Line0 : Line(s, cmd) \in LineType
  BY LineAssumption DEF NoCache, NoTick, NoLine, Own, Line, CacheType, TickType, LineType, Line0
<1>c. clears \in Nat BY DEF SlotTypes
<1>a. /\ cache \in [Sessions -> CacheType] /\ tick \in [Ticks -> TickType] /\ clock \in Nat
  BY DEF ShimTypes
<1>n. NoCaches \in [Sessions -> CacheType] /\ \A s \in Sessions : NoCaches[s] = NoCache
  BY <1>0 DEF NoCaches
<1>1. ASSUME UNCHANGED <<tick, drawn, clock>>, cache' = cache \/ cache' = NoCaches
      PROVE  ShimTypes' /\ CachesOwn' /\ OwnLine'
  <2>1. ShimTypes' BY <1>a, <1>n, <1>1 DEF ShimTypes
  <2>2. CachesOwn' BY <1>0, <1>n, <1>1 DEF CachesOwn
  <2>3. OwnLine' BY <1>1 DEF OwnLine
  <2> QED BY <2>1, <2>2, <2>3
<1>2. CASE SlotStep
  BY <1>1, <1>2, SlotKeepsShim
<1>3. ASSUME NEW t \in Ticks, TickBegin(t) PROVE ShimTypes' /\ CachesOwn' /\ OwnLine'
  <2>1. PICK s \in Sessions, blob \in {"windows", "bare", "garbled"} :
          tick' = [tick EXCEPT ![t] = [NoTick EXCEPT !.at = "spool", !.s = s, !.obs = clock', !.blob = blob, !.begun = clears]]
    BY <1>3 DEF TickBegin
  <2> DEFINE o == [NoTick EXCEPT !.at = "spool", !.s = s, !.obs = clock', !.blob = blob, !.begun = clears]
  <2>2. clock' \in Nat /\ UNCHANGED <<cache, drawn>> BY <1>3, <1>a DEF TickBegin
  <2>3. o \in TickType /\ o.s \in Sessions BY <1>0, <1>c, <2>2 DEF TickType, NoTick
  <2>4. tick' = [tick EXCEPT ![t] = o] BY <2>1
  <2> HIDE DEF o
  <2>5. tick' \in [Ticks -> TickType] BY <1>a, <2>3, <2>4
  <2>6. tick'[t] = o /\ \A u \in Ticks \ {t} : tick'[u] = tick[u] BY <1>a, <2>4
  <2>7. ShimTypes' BY <1>a, <2>2, <2>3, <2>5, <2>6 DEF ShimTypes
  <2> QED BY <2>2, <2>7 DEF CachesOwn, OwnLine
<1>4. ASSUME NEW t \in Ticks, TickSpool(t) PROVE ShimTypes' /\ CachesOwn' /\ OwnLine'
  <2>p. PICK bad \in SUBSET {"fail", "unread"} :
          tick' = [tick EXCEPT ![t].at = "run", ![t].why = Lookup("unread" \in bad),
                               ![t].cmd = IF "unread" \in bad THEN Absent ELSE record.prior]
    BY <1>4 DEF TickSpool
  <2> DEFINE o == [tick[t] EXCEPT !.at = "run", !.why = Lookup("unread" \in bad),
                                  !.cmd = IF "unread" \in bad THEN Absent ELSE record.prior]
  <2>1. record.prior \in Line0 /\ Absent \in Line0 /\ tick[t] \in TickType BY <1>a DEF SlotTypes, Line0
  <2>a. Lookup("unread" \in bad) \in {"wrapped", "gone", "unread"} BY DEF Lookup
  <2>2. o \in TickType /\ o.s = tick[t].s BY <2>1, <2>a DEF TickType
  <2>3. tick' = [tick EXCEPT ![t] = o] BY <2>p
  <2>4. tick[t].s \in Sessions BY <1>4 DEF TickSpool, ShimTypes
  <2> HIDE DEF o
  <2>5. tick' \in [Ticks -> TickType] BY <1>a, <2>2, <2>3
  <2>6. tick'[t] = o /\ \A u \in Ticks \ {t} : tick'[u] = tick[u] BY <1>a, <2>3
  <2>7. UNCHANGED <<cache, drawn, clock>> BY <1>4 DEF TickSpool
  <2>8. ShimTypes' BY <1>a, <2>2, <2>4, <2>5, <2>6, <2>7 DEF ShimTypes
  <2> QED BY <2>7, <2>8 DEF CachesOwn, OwnLine
<1>5. ASSUME NEW t \in Ticks, TickDraw(t) PROVE ShimTypes' /\ CachesOwn' /\ OwnLine'
  <2> DEFINE o == [fp |-> tick[t].cmd, line |-> Line(tick[t].s, tick[t].cmd)]
             new == [cache EXCEPT ![tick[t].s] = o]
  <2>1. tick[t] \in TickType /\ tick[t].s \in Sessions /\ tick[t].cmd \in Line0
    BY <1>a, <1>5 DEF TickDraw, ShimTypes, TickType
  <2>2. o \in CacheType /\ o.fp = tick[t].cmd /\ o.line = Line(tick[t].s, tick[t].cmd)
    BY <1>0, <2>1 DEF CacheType
  <2>3. cache' = cache \/ (cache' = new /\ tick[t].cmd # Absent)
    BY <1>5 DEF TickDraw, Remembered
  <2> HIDE DEF o
  <2>4. /\ new \in [Sessions -> CacheType] /\ new[tick[t].s] = o
        /\ \A s \in Sessions \ {tick[t].s} : new[s] = cache[s]
    BY <1>a, <2>1, <2>2
  <2> HIDE DEF new
  <2>5. tick' = [tick EXCEPT ![t] = NoTick] /\ UNCHANGED clock BY <1>5 DEF TickDraw
  <2>6. /\ tick' \in [Ticks -> TickType] /\ tick'[t] = NoTick
        /\ \A u \in Ticks \ {t} : tick'[u] = tick[u]
    BY <1>0, <1>a, <2>5
  <2>7. cache' \in [Sessions -> CacheType] BY <1>a, <2>3, <2>4
  <2>8. ShimTypes' BY <1>0, <1>a, <2>5, <2>6, <2>7 DEF ShimTypes
  <2>9. CachesOwn' BY <2>2, <2>3, <2>4 DEF CachesOwn
  <2>10. PICK line : Draws(t, line) /\ \/ line = Own /\ tick[t].cmd = Absent
                                       \/ line = Line(tick[t].s, tick[t].cmd) /\ tick[t].cmd \in Commands
                                       \/ line = NoLine
    <3>1. tick[t].cmd # Absent => tick[t].cmd \in Commands BY <2>1 DEF Line0
    <3>2. ASSUME tick[t].cmd # Absent, LastGood(t) # NoLine
          PROVE  LastGood(t) = Line(tick[t].s, tick[t].cmd)
      BY <2>1, <3>1, <3>2 DEF LastGood, CachesOwn
    <3> QED BY <1>5, <3>1, <3>2 DEF TickDraw, Partial
  <2>11. /\ drawn'.line = line /\ drawn'.s = tick[t].s /\ drawn'.cmd = tick[t].cmd
         /\ drawn'.why = tick[t].why /\ drawn'.turnedOff = (tick[t].begun < clears)
    BY <2>10 DEF Draws
  <2>13. tick[t].why = "gone" => tick[t].begun < clears BY <1>5 DEF TickDraw, ClearedSince
  <2>12. OwnLine' BY <2>10, <2>11, <2>13 DEF OwnLine
  <2> QED BY <2>8, <2>9, <2>12
<1>6. CASE PruneCaches
  <2>1. PICK s \in Sessions : cache' = [cache EXCEPT ![s] = NoCache] BY <1>6 DEF PruneCaches
  <2>2. UNCHANGED <<tick, drawn, clock>> BY <1>6 DEF PruneCaches
  <2>3. cache' \in [Sessions -> CacheType] /\ cache'[s] = NoCache
        /\ \A u \in Sessions \ {s} : cache'[u] = cache[u]
    BY <1>0, <1>a, <2>1
  <2>4. ShimTypes' BY <1>a, <2>2, <2>3 DEF ShimTypes
  <2>5. CachesOwn' BY <1>0, <2>3 DEF CachesOwn
  <2> QED BY <2>2, <2>4, <2>5 DEF OwnLine
<1>7. CASE DrainRead \/ DrainEmit \/ HourPasses
  BY <1>1, <1>7 DEF DrainRead, DrainEmit, HourPasses, shimVars
<1>8. CASE DeathStep
  BY <1>1, <1>8 DEF DeathStep
<1>9. CASE UNCHANGED lineVars
  BY <1>1, <1>9 DEF lineVars, shimVars
<1> QED BY <1>2, <1>3, <1>4, <1>5, <1>6, <1>7, <1>8, <1>9 DEF ShimStep

LEMMA WindowSteps ==
  ASSUME ShimTypes, ShimTypes', WindowTypes, Dated, Unspent,
         SlotStep \/ ShimStep \/ DeathStep \/ UNCHANGED lineVars
  PROVE  /\ WindowTypes' /\ Dated' /\ Unspent'
         /\ \A n \in sent'.life \ sent.life : (n \in sent.ever => n \in sent.stayed) /\ \A m \in sent.life : n > m
<1> DEFINE Goal == /\ WindowTypes' /\ Dated' /\ Unspent'
                   /\ \A n \in sent'.life \ sent.life : (n \in sent.ever => n \in sent.stayed) /\ \A m \in sent.life : n > m
<1>0. NoWindow \in WindowType /\ NoWindow.obs = 0 /\ NoTick.at = "idle" /\ NoTick.obs = 0
  BY DEF NoWindow, WindowType, NoTick
<1>a. /\ tick \in [Ticks -> TickType] /\ clock \in Nat /\ tick' \in [Ticks -> TickType] /\ clock' \in Nat
      /\ \A t \in Ticks : tick[t].obs \in Nat /\ tick'[t].obs \in Nat
  BY DEF ShimTypes, TickType
<1>b. spool.obs \in Nat /\ drain.obs \in Nat /\ lastObserved \in Nat BY DEF WindowTypes, WindowType
<1>1. ASSUME UNCHANGED <<windowVars, clock>>,
             \A t \in Ticks : \/ tick'[t] = tick[t]
                              \/ tick'[t].at # "spool" /\ tick'[t].obs \in {0, tick[t].obs}
      PROVE  Goal
  <2>1. UNCHANGED <<spool, drain, lastObserved, absenceDue, sent, clock>> BY <1>1 DEF windowVars
  <2>2. WindowTypes' BY <2>1 DEF WindowTypes
  <2>3. Dated' BY <1>a, <1>1, <2>1 DEF Dated
  <2>4. Unspent' BY <1>a, <1>1, <2>1 DEF Unspent
  <2> QED BY <2>1, <2>2, <2>3, <2>4
<1>2. CASE SlotStep \/ UNCHANGED lineVars
  BY <1>1, <1>2, SlotKeepsShim DEF lineVars, shimVars
<1>3. ASSUME NEW t \in Ticks, TickBegin(t) PROVE Goal
  <2>1. PICK s \in Sessions, blob \in {"windows", "bare", "garbled"} :
          tick' = [tick EXCEPT ![t] = [NoTick EXCEPT !.at = "spool", !.s = s, !.obs = clock', !.blob = blob, !.begun = clears]]
    BY <1>3 DEF TickBegin
  <2>2. clock' = clock + 1 /\ UNCHANGED <<spool, drain, lastObserved, absenceDue, sent>>
    BY <1>3 DEF TickBegin, windowVars
  <2> DEFINE o == [NoTick EXCEPT !.at = "spool", !.s = s, !.obs = clock', !.blob = blob, !.begun = clears]
  <2>a. o.obs = clock' BY DEF NoTick
  <2>b. tick' = [tick EXCEPT ![t] = o] BY <2>1
  <2> HIDE DEF o
  <2>3. tick'[t].obs = clock' /\ \A u \in Ticks \ {t} : tick'[u] = tick[u] BY <1>a, <2>a, <2>b
  <2>4. WindowTypes' BY <2>2 DEF WindowTypes
  <2>5. Dated' BY <1>a, <1>b, <2>2, <2>3 DEF Dated
  <2>6. clock' \notin sent.ever \cup {0, spool.obs, drain.obs} /\ \A u \in Ticks : tick[u].obs # clock'
    BY <1>a, <1>b, <2>2 DEF Dated
  <2>7. Unspent' BY <1>a, <2>2, <2>3, <2>6 DEF Unspent
  <2> QED BY <2>2, <2>4, <2>5, <2>7
<1>4. ASSUME NEW t \in Ticks, TickSpool(t) PROVE Goal
  <2>p. PICK bad \in SUBSET {"fail", "unread"} :
          tick' = [tick EXCEPT ![t].at = "run", ![t].why = Lookup("unread" \in bad),
                               ![t].cmd = IF "unread" \in bad THEN Absent ELSE record.prior]
    BY <1>4 DEF TickSpool
  <2> DEFINE o == [tick[t] EXCEPT !.at = "run", !.why = Lookup("unread" \in bad),
                                  !.cmd = IF "unread" \in bad THEN Absent ELSE record.prior]
  <2>1. o.at = "run" /\ o.obs = tick[t].obs BY <1>a DEF TickType
  <2>2. tick' = [tick EXCEPT ![t] = o] BY <2>p
  <2> HIDE DEF o
  <2>3. tick'[t] = o /\ \A u \in Ticks \ {t} : tick'[u] = tick[u] BY <1>a, <2>2
  <2>4. UNCHANGED <<drain, lastObserved, absenceDue, sent, clock>> BY <1>4 DEF TickSpool
  <2>5. spool' = spool \/ spool' = Parsed(tick[t]) BY <1>4 DEF TickSpool
  <2>6. Parsed(tick[t]) \in WindowType /\ Parsed(tick[t]).obs = tick[t].obs
    BY <1>a DEF Parsed, WindowType
  <2>7. WindowTypes' BY <2>4, <2>5, <2>6 DEF WindowTypes
  <2>8. Dated' BY <1>a, <2>1, <2>3, <2>4, <2>5, <2>6 DEF Dated
  <2>9. tick[t].at = "spool" BY <1>4 DEF TickSpool
  <2>10. Unspent' BY <1>a, <2>1, <2>3, <2>4, <2>5, <2>6, <2>9 DEF Unspent
  <2> QED BY <2>4, <2>7, <2>8, <2>10
<1>5. ASSUME NEW t \in Ticks, TickDraw(t) PROVE Goal
  <2>1. tick' = [tick EXCEPT ![t] = NoTick] /\ UNCHANGED <<windowVars, clock>> BY <1>5 DEF TickDraw
  <2>2. tick'[t] = NoTick /\ \A u \in Ticks \ {t} : tick'[u] = tick[u] BY <1>a, <2>1
  <2> QED BY <1>0, <1>1, <2>1, <2>2
<1>6. CASE PruneCaches \/ HourPasses
  <2>1. CASE PruneCaches BY <1>1, <2>1 DEF PruneCaches
  <2>2. CASE HourPasses
    <3>1. UNCHANGED <<tick, clock, spool, drain, lastObserved, sent>> /\ absenceDue' \in BOOLEAN
      BY <2>2 DEF HourPasses, shimVars
    <3> QED BY <3>1 DEF WindowTypes, Dated, Unspent
  <2> QED BY <1>6, <2>1, <2>2
<1>7. CASE DrainRead
  <2>1. UNCHANGED <<tick, clock, spool, lastObserved, absenceDue, sent>> /\ drain' = spool
    BY <1>7 DEF DrainRead, shimVars
  <2> QED BY <2>1 DEF WindowTypes, Dated, Unspent
<1>8. CASE DrainEmit
  <2>1. UNCHANGED <<tick, clock>> /\ drain' = NoWindow BY <1>8 DEF DrainEmit, shimVars
  <2>2. absenceDue' \in BOOLEAN BY <1>8 DEF DrainEmit, WindowTypes
  <2>3. PICK bad \in SUBSET {"fail", "refuse"} :
          LET queued == IF NewReading /\ "refuse" \notin bad THEN {drain.obs} ELSE {}
              kept == IF "fail" \in bad THEN {drain.obs} ELSE {}
          IN /\ spool' = IF "fail" \in bad THEN spool ELSE NoWindow
             /\ sent' = [life |-> sent.life \cup queued, ever |-> sent.ever \cup queued,
                         stayed |-> sent.stayed \cup kept]
    BY <1>8 DEF DrainEmit
  <2> DEFINE queued == IF NewReading /\ "refuse" \notin bad THEN {drain.obs} ELSE {}
             kept == IF "fail" \in bad THEN {drain.obs} ELSE {}
  <2>4. /\ sent'.life = sent.life \cup queued /\ sent'.ever = sent.ever \cup queued
        /\ sent'.stayed = sent.stayed \cup kept
        /\ sent' \in [life : SUBSET Nat, ever : SUBSET Nat, stayed : SUBSET Nat]
    BY <1>b, <2>3 DEF WindowTypes
  <2>5. spool' = NoWindow \/ (spool' = spool /\ kept = {drain.obs}) BY <2>3
  <2>6. queued \subseteq {drain.obs} /\ (queued # {} => NewReading) OBVIOUS
  <2>7. lastObserved' = IF NewReading THEN drain.obs ELSE lastObserved BY <1>8 DEF DrainEmit
  <2>8. /\ lastObserved' \in 0..clock /\ lastObserved <= lastObserved'
        /\ queued # {} => lastObserved' = drain.obs /\ drain.obs > lastObserved /\ drain.obs \in 1..clock
    BY <1>a, <1>b, <2>6, <2>7 DEF NewReading, Dated
  <2> HIDE DEF queued, kept
  <2>9. WindowTypes' BY <1>0, <2>1, <2>2, <2>4, <2>5, <2>8 DEF WindowTypes
  <2>10. Dated' BY <1>0, <1>a, <2>1, <2>4, <2>5, <2>6, <2>8 DEF Dated
  <2>11. 0 \notin sent'.ever BY <1>a, <2>4, <2>6, <2>8 DEF Dated
  <2>12. \A n \in sent.life : n \in Nat /\ n <= lastObserved BY <1>b DEF Unspent, WindowTypes
  <2>13. \A n \in sent'.life : n <= lastObserved' BY <1>b, <2>4, <2>6, <2>8, <2>12
  <2>14. {spool'.obs, drain'.obs} \cap sent'.ever \subseteq sent'.stayed
    BY <1>0, <2>1, <2>4, <2>5, <2>6, <2>11 DEF Unspent
  <2>15. ASSUME NEW t \in Ticks, tick'[t].at = "spool"
         PROVE  /\ tick'[t].obs \notin sent'.ever \cup {0, spool'.obs, drain'.obs}
                /\ \A u \in Ticks \ {t} : tick'[u].at = "spool" => tick'[u].obs # tick'[t].obs
    BY <1>0, <2>1, <2>4, <2>5, <2>6, <2>15 DEF Unspent
  <2>16. Unspent' BY <2>13, <2>14, <2>15 DEF Unspent
  <2>17. \A n \in sent'.life \ sent.life : /\ n \in sent.ever => n \in sent.stayed
                                         /\ \A m \in sent.life : n > m
    BY <1>b, <2>4, <2>6, <2>8, <2>12 DEF Unspent
  <2> QED BY <2>9, <2>10, <2>16, <2>17
<1>9. CASE DeathStep
  <2>1. /\ UNCHANGED <<tick, clock, spool>> /\ drain' = NoWindow /\ lastObserved' = 0
        /\ absenceDue' \in BOOLEAN /\ sent' = [sent EXCEPT !.life = {}]
    BY <1>9 DEF DeathStep, WatcherDies
  <2>2. /\ sent'.life = {} /\ sent'.ever = sent.ever /\ sent'.stayed = sent.stayed
        /\ sent' \in [life : SUBSET Nat, ever : SUBSET Nat, stayed : SUBSET Nat]
    BY <2>1 DEF WindowTypes
  <2>3. WindowTypes' BY <1>0, <2>1, <2>2 DEF WindowTypes
  <2>4. Dated' BY <1>0, <1>a, <2>1, <2>2 DEF Dated
  <2>5. 0 \notin sent.ever BY <1>a DEF Dated
  <2>6. Unspent' BY <1>0, <1>a, <2>1, <2>2, <2>5 DEF Unspent
  <2> QED BY <2>2, <2>3, <2>4, <2>6
<1> QED BY <1>2, <1>3, <1>4, <1>5, <1>6, <1>7, <1>8, <1>9 DEF ShimStep

-----------------------------------------------------------------------------
(* The plan, its limits and the newest reading of Codex.                    *)

LEMMA LeastElement ==
  ASSUME NEW S \in SUBSET Nat, S # {}
  PROVE  \E p \in S : \A q \in S : p <= q
<1> DEFINE R == {ss \in Nat \X Nat : ss[1] < ss[2]}
<1>1. IsWellFoundedOn(R, Nat) BY NatLessThanWellFounded DEF OpToRel
<1>2. \A p, q \in Nat : q < p => <<q, p>> \in R
  <2> SUFFICES ASSUME NEW p \in Nat, NEW q \in Nat, q < p PROVE <<q, p>> \in R
    OBVIOUS
  <2>1. <<q, p>> \in Nat \X Nat OBVIOUS
  <2>2. <<q, p>>[1] = q /\ <<q, p>>[2] = p OBVIOUS
  <2> QED BY <2>1, <2>2
<1> HIDE DEF R
<1>3. PICK p \in S : \A q \in S : ~(<<q, p>> \in R) BY <1>1, WFMin
<1>4. \A q \in S : ~(q < p) BY <1>2, <1>3
<1> QED BY <1>4

\* Finitely many numbers have a bound.
LEMMA Bounded ==
  ASSUME NEW S, IsFiniteSet(S), NEW f \in [S -> Nat]
  PROVE  \E b \in Nat : \A x \in S : f[x] <= b
<1>1. PICK n \in Nat : ExistsSurjection(1..n, S) BY FS_NatSurjection
<1>2. PICK g \in [1..n -> S] : \A x \in S : \E i \in 1..n : g[i] = x
  BY <1>1 DEF ExistsSurjection, Surjection
<1> DEFINE Bound(k) == \E b \in Nat : \A i \in 1..k : f[g[i]] <= b
           Bad == {k \in 0..n : ~Bound(k)}
<1>3. Bad = {}
  <2> SUFFICES ASSUME Bad # {} PROVE FALSE OBVIOUS
  <2>0. Bad \in SUBSET Nat BY <1>1
  <2>1. PICK m \in Bad : \A k \in Bad : m <= k
    <3> HIDE DEF Bad
    <3> QED BY <2>0, LeastElement
  <2>2. Bound(0)
    <3>1. 0 \in Nat /\ 1..0 = {} OBVIOUS
    <3> QED BY <3>1
  <2>a. m \in 0..n /\ ~Bound(m)
    <3> HIDE DEF Bound
    <3> QED BY <2>1
  <2>3. m \in 1..n
    <3> HIDE DEF Bound, Bad
    <3> QED BY <1>1, <2>2, <2>a
  <2>4. Bound(m - 1)
    <3> HIDE DEF Bound
    <3>1. m - 1 \in 0..n /\ ~(m <= m - 1) BY <1>1, <2>3
    <3>2. m - 1 \notin Bad
      <4> HIDE DEF Bad
      <4> QED BY <2>1, <3>1
    <3> QED BY <3>1, <3>2
  <2>5. PICK b \in Nat : \A i \in 1..(m-1) : f[g[i]] <= b BY <2>4
  <2>6. f[g[m]] \in Nat BY <1>2, <2>3
  <2> DEFINE c == b + f[g[m]]
  <2>7. c \in Nat /\ b <= c /\ f[g[m]] <= c
    <3>1. \A u, v \in Nat : u + v \in Nat /\ u <= u + v /\ v <= u + v OBVIOUS
    <3> QED BY <2>5, <2>6, <3>1
  <2> HIDE DEF c
  <2>8. \A i \in 1..m : f[g[i]] <= c
    <3> SUFFICES ASSUME NEW i \in 1..m PROVE f[g[i]] <= c OBVIOUS
    <3>0. i \in 1..n BY <1>1, <2>3
    <3>1. f[g[i]] \in Nat BY <1>2, <3>0
    <3>2. CASE i = m BY <2>7, <3>2
    <3>3. CASE i # m
      <4>1. i \in 1..(m-1) BY <1>1, <2>3, <3>3
      <4> QED BY <2>5, <2>6, <2>7, <3>1, <4>1
    <3> QED BY <3>2, <3>3
  <2>9. Bound(m) BY <2>7, <2>8
  <2> QED BY <2>9, <2>a
<1>4. Bound(n)
  <2> HIDE DEF Bound
  <2>1. n \in 0..n BY <1>1
  <2> QED BY <1>3, <2>1
<1>5. PICK b \in Nat : \A i \in 1..n : f[g[i]] <= b BY <1>4
<1> QED BY <1>2, <1>5

\* Among numbers that have a bound there is a greatest.
LEMMA MaxInSet ==
  ASSUME NEW S \in SUBSET Nat, S # {}, NEW b \in Nat, \A x \in S : x <= b
  PROVE  Max(S) \in S /\ \A x \in S : x <= Max(S)
<1> DEFINE Gaps == {b - x : x \in S}
<1>0. \A x \in S : b - x \in Nat OBVIOUS
<1>1. Gaps \in SUBSET Nat /\ Gaps # {} BY <1>0
<1>2. PICK g \in Gaps : \A h \in Gaps : g <= h BY <1>1, LeastElement
<1>3. PICK m \in S : g = b - m BY <1>2
<1>4. \A x \in S : m >= x
  <2> SUFFICES ASSUME NEW x \in S PROVE m >= x OBVIOUS
  <2>1. b - x \in Gaps OBVIOUS
  <2>2. b - m <= b - x BY <1>2, <1>3, <2>1
  <2> QED BY <2>2
<1>5. \E m2 \in S : \A x \in S : m2 >= x BY <1>4
<1>6. Max(S) \in S /\ \A x \in S : Max(S) >= x BY <1>5 DEF Max
<1> QED BY <1>6

TierType == [plan : Signed \cup {Unread}, acct : Signed \cup {Unread}]
RowType  == [tier : TierType, day : Nat]
StType   == [tier : RowType, scan : Nat, hits : SUBSET Limits]
PollType == [on : BOOLEAN, scans : BOOLEAN, st : StType, left : SUBSET Limits, failed : BOOLEAN, now : Nat]
CountType == [at : Nat, span : SUBSET {"hours", "month"}]

PlanTypes ==
  /\ account \in Signed /\ lastPlan \in Signed \cup {Unread}
  /\ mtime \in [Files -> Nat] /\ counts \in [Files -> CountType]
  /\ now \in Nat /\ date \in Nat
  /\ stored \in StType /\ tier \in TierType /\ tierDate \in Nat
  /\ poll \in PollType
  /\ observed \in Nat /\ told \in Nat /\ told <= observed
  /\ shown \in RowType /\ reported \in [Limits -> Nat] /\ mishaps \in Nat
  /\ \A h \in hits : h.limit \in Limits

\* Nothing carries a time to come.
PlanDated ==
  /\ \A f \in Files : mtime[f] <= now
  /\ stored.scan <= now /\ poll.st.scan <= now /\ poll.now <= now
  /\ tierDate <= date /\ shown.day <= date

PlanStep == \/ SignIn \/ LimitRow \/ TokenCount \/ RolloutAges \/ TimePasses
            \/ (\E reads, scans \in BOOLEAN : PollBegin(reads, scans)) \/ PollHit \/ PollSave
            \/ CodexScan \/ EmitterDies \/ UNCHANGED <<planVars>>

LEMMA PlanSteps ==
  ASSUME Next
  PROVE  PlanStep
<1>1. ASSUME Loop \/ Continue PROVE PlanStep BY <1>1 DEF Loop, Continue, PlanStep
<1>2. ASSUME Commanded \/ Codex \/ Shown \/ Others PROVE PlanStep
  BY <1>2 DEF Commanded, Codex, Shown, Others, PlanStep
<1>3. ASSUME Restart PROVE PlanStep BY <1>3 DEF Restart, PlanStep
<1>4. ASSUME UNCHANGED planVars PROVE PlanStep BY <1>4 DEF PlanStep
<1> QED BY <1>1, <1>2, <1>3, <1>4 DEF Next

LEMMA CountsBounded ==
  ASSUME PlanTypes
  PROVE  /\ NewestUsable \in Nat
         /\ Files # {} => Max({counts[g].at : g \in Files}) \in Nat
<1> DEFINE ats == [f \in Files |-> counts[f].at]
<1>1. ats \in [Files -> Nat] BY DEF PlanTypes, CountType
<1>2. PICK b \in Nat : \A f \in Files : ats[f] <= b BY <1>1, Bounded, PlanAssumption
<1>3. \A f \in Files : counts[f].at \in Nat /\ counts[f].at <= b BY <1>2 DEF PlanTypes, CountType
<1> HIDE DEF ats
<1>4. NewestUsable \in Nat
  <2>1. Usable \in SUBSET Nat /\ \A x \in Usable : x <= b BY <1>3 DEF Usable
  <2>2. Usable # {} => Max(Usable) \in Usable BY <2>1, MaxInSet
  <2> QED BY <2>1, <2>2 DEF NewestUsable
<1>5. ASSUME Files # {} PROVE Max({counts[g].at : g \in Files}) \in Nat
  <2> DEFINE S == {counts[g].at : g \in Files}
  <2>1. S \in SUBSET Nat /\ S # {} /\ \A x \in S : x <= b BY <1>3, <1>5
  <2> HIDE DEF S
  <2>2. Max(S) \in Nat BY <2>1, MaxInSet
  <2> QED BY <2>2 DEF S
<1> QED BY <1>4, <1>5

\* A hit that a scan is about to send was refused once, and was not sent as far as is written down.
LEMMA ScannedHits ==
  ASSUME PlanTypes, NEW st, NEW since, NEW l \in Unsent(st, Scanned(since))
  PROVE  l \in Limits /\ l \notin st.hits /\ \E h \in hits : h.limit = l /\ IsHit(h)
BY DEF PlanTypes, Unsent, Scanned, LimitsOf, Earliest, RowsIn

LEMMA SavesWhat ==
  ASSUME NEW p \in PollType, Saves(p)
  PROVE  \/ /\ stored' \in StType /\ stored'.hits = Kept(p) /\ stored'.scan \in {p.now, p.st.scan}
            /\ mishaps' = mishaps
         \/ stored' = stored /\ mishaps' = mishaps + 1
<1>1. p.st \in StType /\ p.now \in Nat /\ Position(p) \in {p.now, p.st.scan} BY DEF PollType, Position
<1>2. p.st.scan \in Nat BY <1>1 DEF StType
<1>4. Kept(p) \in SUBSET Limits BY <1>1 DEF Kept, StType
<1> DEFINE s == [p.st EXCEPT !.scan = Position(p), !.hits = Kept(p)]
<1>3. s \in StType /\ s.hits = Kept(p) /\ s.scan = Position(p) BY <1>1, <1>2, <1>4 DEF StType
<1> HIDE DEF s
<1>5. \/ stored' = s /\ mishaps' = mishaps
      \/ stored' = stored /\ mishaps' = mishaps + 1
  BY DEF Saves, s
<1> QED BY <1>1, <1>3, <1>5

\* What a poll does first: nothing to send, and it may save where it stands; or it is under way, with a copy of
\* what is stored, or of nothing when that could not be read, and what it has still to send.
NewHits(seen, left) == \A l \in left : l \in Limits /\ l \notin seen /\ \E h \in hits : h.limit = l /\ IsHit(h)

LEMMA PollBegins ==
  ASSUME PlanTypes, NEW reads \in BOOLEAN, NEW scans \in BOOLEAN, PollBegin(reads, scans)
  PROVE  /\ tier' \in TierType /\ tierDate' = date /\ ~poll.on
         /\ UNCHANGED <<toolVars, codexVars, reported>>
         /\ shown' \in RowType /\ shown'.day \in {shown.day, date}
         /\ \/ /\ poll' = poll /\ stored' \in StType /\ stored.hits \subseteq stored'.hits \cup expired
               /\ stored'.scan \in {now, stored.scan} /\ mishaps' \in {mishaps, mishaps + 1}
            \/ /\ poll' \in PollType /\ poll'.on /\ poll'.now = now /\ stored' = stored
               /\ poll'.st.scan \in {0, stored.scan} /\ NewHits(poll'.st.hits, poll'.left)
               /\ \/ poll'.st.hits = stored.hits /\ mishaps' = mishaps
                  \/ poll'.st.hits = {} /\ mishaps' = mishaps + 1
<1>1. PICK bad \in SUBSET {"unread", "full"} :
     LET st == IF "unread" \in bad THEN NoState ELSE stored
         read == IF reads THEN TierRead ELSE tier
         row == [tier |-> read, day |-> date]
         left == IF scans THEN Unsent(st, Scanned(Since(st))) ELSE {}
         begun(sent0) == [on |-> TRUE, scans |-> scans, st |-> sent0, now |-> now, failed |-> FALSE, left |-> left]
     IN /\ tier' = read /\ tierDate' = date
        /\ \/ /\ bad = {} /\ row = st.tier /\ left = {}
              /\ IF scans THEN Saves(begun(st)) ELSE UNCHANGED <<odds, stored, mishaps>>
              /\ UNCHANGED <<poll, shown>>
           \/ /\ row = st.tier => bad = {} /\ left # {}
              /\ AllOdds(bad) /\ UNCHANGED stored
              /\ mishaps' = IF "unread" \in bad THEN mishaps + 1 ELSE mishaps
              /\ \/ row = st.tier /\ poll' = begun(st) /\ UNCHANGED shown
                 \/ /\ row # st.tier /\ "full" \notin bad
                    /\ shown' = row /\ poll' = begun([st EXCEPT !.tier = row])
                 \/ /\ row # st.tier /\ "full" \in bad /\ UNCHANGED shown
                    /\ IF scans THEN poll' = begun(st) ELSE UNCHANGED poll
  BY DEF PollBegin
<1> DEFINE st == IF "unread" \in bad THEN NoState ELSE stored
           read == IF reads THEN TierRead ELSE tier
           row == [tier |-> read, day |-> date]
           left == IF scans THEN Unsent(st, Scanned(Since(st))) ELSE {}
           begun(sent0) == [on |-> TRUE, scans |-> scans, st |-> sent0, now |-> now, failed |-> FALSE, left |-> left]
<1>2. /\ tier' = read /\ tierDate' = date
      /\ \/ /\ bad = {} /\ row = st.tier /\ left = {}
            /\ IF scans THEN Saves(begun(st)) ELSE UNCHANGED <<odds, stored, mishaps>>
            /\ UNCHANGED <<poll, shown>>
         \/ /\ stored' = stored /\ mishaps' = IF "unread" \in bad THEN mishaps + 1 ELSE mishaps
            /\ \/ poll' = begun(st) /\ shown' = shown
               \/ shown' = row /\ poll' = begun([st EXCEPT !.tier = row])
               \/ UNCHANGED <<poll, shown>>
  BY <1>1
<1>3. ~poll.on /\ UNCHANGED <<toolVars, codexVars, reported>> BY DEF PollBegin
<1>4. read \in TierType BY DEF PlanTypes, TierRead, CodexTier, ClaudeTier, Tier, TierType
<1>5. row \in RowType /\ row.day = date BY <1>4 DEF RowType, PlanTypes
<1>6. stored \in StType /\ now \in Nat /\ shown \in RowType /\ mishaps \in Nat BY DEF PlanTypes
<1>7. NoState \in StType /\ NoState.scan = 0 /\ NoState.hits = {}
  BY DEF NoState, NoRow, NoTier, Tier, TierType, RowType, StType
<1>8. /\ st \in StType /\ st.scan \in {0, stored.scan}
      /\ "unread" \in bad => st.hits = {}
      /\ "unread" \notin bad => st = stored
  BY <1>6, <1>7
<1>9. left \in SUBSET Limits /\ NewHits(st.hits, left)
  BY ScannedHits DEF NewHits
<1> HIDE DEF st, read, left
<1>10. CASE /\ bad = {} /\ IF scans THEN Saves(begun(st)) ELSE UNCHANGED <<odds, stored, mishaps>>
            /\ UNCHANGED <<poll, shown>>
  <2>1. st = stored BY <1>8, <1>10
  <2>2. /\ stored' \in StType /\ stored.hits \subseteq stored'.hits \cup expired
        /\ stored'.scan \in {now, stored.scan} /\ mishaps' \in {mishaps, mishaps + 1}
    <3>1. CASE scans
      <4> DEFINE p == begun(st)
      <4>1. p \in PollType /\ Saves(p) BY <1>6, <1>8, <1>9, <1>10, <3>1 DEF PollType
      <4>2. p.st = stored /\ p.now = now BY <2>1
      <4> HIDE DEF p
      <4>3. stored.hits \subseteq Kept(p) \cup expired BY <4>2 DEF Kept
      <4> QED BY <1>6, <4>1, <4>2, <4>3, SavesWhat
    <3>2. CASE ~scans BY <1>6, <1>10, <3>2
    <3> QED BY <3>1, <3>2
  <2> QED BY <1>2, <1>3, <1>4, <1>6, <1>10, <2>2
<1>11. ASSUME NEW s0 \in StType, s0.hits = st.hits, s0.scan = st.scan, poll' = begun(s0)
       PROVE  /\ poll' \in PollType /\ poll'.on /\ poll'.now = now
              /\ poll'.st.scan \in {0, stored.scan} /\ NewHits(poll'.st.hits, poll'.left)
              /\ poll'.st.hits = st.hits
  BY <1>6, <1>8, <1>9, <1>11 DEF PollType
<1>12. ASSUME stored' = stored, mishaps' = IF "unread" \in bad THEN mishaps + 1 ELSE mishaps,
              \/ poll' = begun(st) /\ shown' = shown
              \/ shown' = row /\ poll' = begun([st EXCEPT !.tier = row])
       PROVE  /\ poll' \in PollType /\ poll'.on /\ poll'.now = now
              /\ poll'.st.scan \in {0, stored.scan} /\ NewHits(poll'.st.hits, poll'.left)
              /\ \/ poll'.st.hits = stored.hits /\ mishaps' = mishaps
                 \/ poll'.st.hits = {} /\ mishaps' = mishaps + 1
              /\ shown' \in {shown, row}
  <2> DEFINE s0 == [st EXCEPT !.tier = row]
  <2>1. s0 \in StType /\ s0.hits = st.hits /\ s0.scan = st.scan BY <1>5, <1>8 DEF StType
  <2>2. poll' = begun(st) \/ poll' = begun(s0) BY <1>12
  <2> HIDE DEF s0, begun
  <2>3. /\ poll' \in PollType /\ poll'.on /\ poll'.now = now
        /\ poll'.st.scan \in {0, stored.scan} /\ NewHits(poll'.st.hits, poll'.left)
        /\ poll'.st.hits = st.hits
    BY <1>8, <1>11, <2>1, <2>2
  <2> QED BY <1>8, <1>12, <2>3
<1>13. CASE stored' = stored /\ mishaps' \in {mishaps, mishaps + 1} /\ UNCHANGED <<poll, shown>>
  BY <1>2, <1>3, <1>4, <1>6, <1>13
<1> HIDE DEF begun, row
<1> QED BY <1>2, <1>3, <1>4, <1>5, <1>6, <1>10, <1>12, <1>13

\* Between the sending of a hit and the saving of it there is one poll, and what it has still
\* to send was neither sent nor written down.
Known == IF poll.on THEN poll.st.hits ELSE stored.hits

HitsHeld ==
  /\ ~poll.on => poll.left = {}
  /\ NewHits(poll.st.hits, poll.left)
  /\ \A l \in Limits : /\ reported[l] <= 1 + mishaps
                       /\ reported[l] <= mishaps \/ l \in Known \cup expired
  /\ \A l \in Limits : reported[l] > 0 => \E h \in hits : h.limit = l /\ IsHit(h)

LEMMA NoPollType == NoPoll \in PollType /\ ~NoPoll.on /\ NoPoll.st.hits = {} /\ NoPoll.left = {}
                    /\ NoPoll.st.scan = 0 /\ NoPoll.now = 0 /\ NoState.hits = {} /\ NoState.scan = 0
                    /\ NoState \in StType
<1>1. NoTier \in TierType BY DEF NoTier, Tier, TierType
<1>2. NoRow \in RowType BY <1>1 DEF NoRow, RowType
<1>3. NoState \in StType /\ NoState.hits = {} /\ NoState.scan = 0 BY <1>2 DEF StType, NoState
<1> QED BY <1>3 DEF NoPoll, PollType

LEMMA PlanTypesStep ==
  ASSUME PlanTypes, PlanDated, PlanStep
  PROVE  PlanTypes' /\ PlanDated'
<1> USE DEF toolVars, codexVars, limitsVars
<1>0. NoTier \in TierType BY DEF NoTier, Tier, TierType
<1>1. CASE SignIn
  BY <1>1 DEF SignIn, PlanTypes, PlanDated
<1>2. CASE LimitRow
  <2>1. PICK f \in Files, l \in Limits \ expired, says \in Says :
          /\ hits' = hits \cup {[f |-> f, limit |-> l, says |-> says, at |-> now]}
          /\ mtime' = [mtime EXCEPT ![f] = now]
    BY <1>2 DEF LimitRow
  <2>2. \A h \in hits' : h.limit \in Limits BY <2>1 DEF PlanTypes
  <2>3. mtime' \in [Files -> Nat] /\ \A g \in Files : mtime'[g] <= now BY <2>1 DEF PlanTypes, PlanDated
  <2>4. UNCHANGED <<codex, account, counts, lastPlan, now, date, expired, codexVars, limitsVars>>
    BY <1>2 DEF LimitRow
  <2> QED BY <2>2, <2>3, <2>4 DEF PlanTypes, PlanDated
<1>3. CASE TokenCount
  <2>1. PICK f \in Files, span \in {{"hours", "month"}, {"month"}} :
          counts' = [counts EXCEPT ![f] = [at |-> 1 + Max({counts[g].at : g \in Files}), span |-> span]]
    BY <1>3 DEF TokenCount
  <2> DEFINE top == Max({counts[g].at : g \in Files})
             o == [at |-> 1 + top, span |-> span]
  <2>2. top \in Nat BY CountsBounded
  <2> HIDE DEF top
  <2>3. o \in CountType BY <2>2 DEF CountType
  <2>4. counts' = [counts EXCEPT ![f] = o] BY <2>1 DEF top
  <2> HIDE DEF o
  <2>5. counts' \in [Files -> CountType] BY <2>3, <2>4 DEF PlanTypes
  <2>6. lastPlan' = account /\ UNCHANGED <<codex, account, hits, mtime, now, date, expired, codexVars, limitsVars>>
    BY <1>3 DEF TokenCount
  <2> QED BY <2>5, <2>6 DEF PlanTypes, PlanDated
<1>4. CASE RolloutAges
  <2>1. NoCount \in CountType BY DEF NoCount, CountType
  <2>2. counts' \in [Files -> CountType] BY <1>4, <2>1 DEF RolloutAges, PlanTypes
  <2>3. lastPlan' \in Signed \cup {Unread} BY <1>4 DEF RolloutAges, PlanTypes
  <2>4. UNCHANGED <<codex, account, hits, mtime, now, date, expired, codexVars, limitsVars>>
    BY <1>4 DEF RolloutAges
  <2> QED BY <2>2, <2>3, <2>4 DEF PlanTypes, PlanDated
<1>5. CASE TimePasses
  <2>1. now' \in Nat /\ date' \in Nat /\ now <= now' /\ date <= date'
    BY <1>5 DEF TimePasses, PlanTypes
  <2>2. UNCHANGED <<codex, account, hits, mtime, counts, lastPlan, codexVars, limitsVars>>
    BY <1>5 DEF TimePasses
  <2>3. PlanTypes' BY <2>1, <2>2 DEF PlanTypes
  <2>4. /\ stored.scan \in Nat /\ poll.st.scan \in Nat /\ poll.now \in Nat /\ shown.day \in Nat
        /\ now \in Nat /\ date \in Nat /\ tierDate \in Nat /\ \A f \in Files : mtime[f] \in Nat
    BY DEF PlanTypes, StType, PollType, RowType
  <2>5. PlanDated' BY <2>1, <2>2, <2>4 DEF PlanDated
  <2> QED BY <2>3, <2>5
<1>6. ASSUME NEW reads \in BOOLEAN, NEW scans \in BOOLEAN, PollBegin(reads, scans)
      PROVE  PlanTypes' /\ PlanDated'
  <2>1. /\ tier' \in TierType /\ tierDate' = date /\ UNCHANGED <<toolVars, codexVars, reported>>
        /\ shown' \in RowType /\ shown'.day \in {shown.day, date}
    BY <1>6, PollBegins
  <2>2. /\ poll' \in PollType /\ stored' \in StType /\ mishaps' \in Nat
        /\ stored'.scan \in {now, stored.scan} /\ poll'.st.scan \in {0, poll.st.scan, stored.scan}
        /\ poll'.now \in {poll.now, now}
    <3>1. CASE /\ poll' = poll /\ stored' \in StType
               /\ stored'.scan \in {now, stored.scan} /\ mishaps' \in {mishaps, mishaps + 1}
      BY <3>1 DEF PlanTypes
    <3>2. CASE /\ poll' \in PollType /\ poll'.now = now /\ stored' = stored
               /\ poll'.st.scan \in {0, stored.scan} /\ mishaps' \in {mishaps, mishaps + 1}
      BY <3>2 DEF PlanTypes
    <3> QED BY <1>6, <3>1, <3>2, PollBegins
  <2>3. now \in Nat /\ date \in Nat BY DEF PlanTypes
  <2>4. PlanTypes' BY <2>1, <2>2 DEF PlanTypes
  <2>5. PlanDated' BY <2>1, <2>2, <2>3 DEF PlanDated
  <2> QED BY <2>4, <2>5
<1>7. CASE PollHit
  <2>1. PICK l \in poll.left :
          \/ /\ poll' = [poll EXCEPT !.left = @ \ {l}, !.st.hits = @ \cup {l}]
             /\ reported' = [reported EXCEPT ![l] = IF l \in expired /\ @ > 0 THEN @ ELSE @ + 1]
          \/ /\ poll' = [poll EXCEPT !.left = @ \ {l}, !.failed = TRUE] /\ UNCHANGED reported
    BY <1>7 DEF PollHit
  <2>2. poll \in PollType /\ l \in Limits /\ poll.st \in StType BY DEF PlanTypes, PollType
  <2>3. poll' \in PollType /\ poll'.st.scan = poll.st.scan /\ poll'.now = poll.now
    <3> DEFINE st == [poll.st EXCEPT !.hits = @ \cup {l}]
               o == [poll EXCEPT !.left = @ \ {l}, !.st = st]
               q == [poll EXCEPT !.left = @ \ {l}, !.failed = TRUE]
    <3>1. st \in StType /\ st.scan = poll.st.scan BY <2>2 DEF StType
    <3>2. poll' = o \/ poll' = q BY <2>1
    <3> HIDE DEF st
    <3>3. o \in PollType /\ o.st = st /\ o.now = poll.now BY <2>2, <3>1 DEF PollType
    <3>4. q \in PollType /\ q.st = poll.st /\ q.now = poll.now BY <2>2 DEF PollType
    <3> HIDE DEF o, q
    <3> QED BY <3>1, <3>2, <3>3, <3>4
  <2>4. reported' \in [Limits -> Nat] BY <2>1, <2>2 DEF PlanTypes
  <2>5. UNCHANGED <<toolVars, codexVars, stored, tier, tierDate, shown, mishaps>> BY <1>7 DEF PollHit
  <2> QED BY <2>3, <2>4, <2>5 DEF PlanTypes, PlanDated
<1>8. CASE PollSave
  <2>1. poll \in PollType /\ poll' = NoPoll /\ Saves(poll) BY <1>8 DEF PollSave, PlanTypes
  <2>2. UNCHANGED <<toolVars, codexVars, tier, tierDate, shown, reported>> BY <1>8 DEF PollSave
  <2>3. stored' \in StType /\ stored'.scan \in {poll.now, poll.st.scan, stored.scan} /\ mishaps' \in Nat
    BY <2>1, SavesWhat DEF PlanTypes
  <2>4. now \in Nat BY DEF PlanTypes
  <2>5. PlanTypes' BY <2>1, <2>2, <2>3, NoPollType DEF PlanTypes
  <2>6. PlanDated' BY <2>1, <2>2, <2>3, <2>4, NoPollType DEF PlanDated
  <2> QED BY <2>5, <2>6
<1>9. CASE CodexScan
  <2>1. /\ observed' = NewestUsable /\ observed < NewestUsable /\ told' \in {told, NewestUsable}
        /\ UNCHANGED <<toolVars, limitsVars>>
    BY <1>9 DEF CodexScan
  <2>2. NewestUsable \in Nat BY CountsBounded
  <2> QED BY <2>1, <2>2 DEF PlanTypes, PlanDated
<1>10. CASE EmitterDies
  <2>1. /\ tier' = NoTier /\ tierDate' = 0 /\ poll' = NoPoll /\ observed' = 0 /\ told' = 0
        /\ UNCHANGED <<toolVars, stored, shown, reported>>
    BY <1>10 DEF EmitterDies
  <2>2. mishaps' \in Nat BY <1>10 DEF EmitterDies, PlanTypes
  <2>3. PlanTypes' BY <1>0, <2>1, <2>2, NoPollType DEF PlanTypes
  <2>4. now \in Nat /\ date \in Nat BY DEF PlanTypes
  <2>5. PlanDated' BY <2>1, <2>4, NoPollType DEF PlanDated
  <2> QED BY <2>3, <2>5
<1>11. CASE UNCHANGED planVars
  BY <1>11 DEF planVars, PlanTypes, PlanDated
<1> QED BY <1>1, <1>2, <1>3, <1>4, <1>5, <1>6, <1>7, <1>8, <1>9, <1>10, <1>11 DEF PlanStep

LEMMA HitsStep ==
  ASSUME PlanTypes, HitsHeld, PlanStep
  PROVE  HitsHeld'
<1> USE DEF toolVars, codexVars, limitsVars
<1> DEFINE Seen(l) == \E h \in hits : h.limit = l /\ IsHit(h)
           Bound(l) == reported[l] <= 1 + mishaps /\ (reported[l] <= mishaps \/ l \in Known \cup expired)
<1>0. mishaps \in Nat /\ reported \in [Limits -> Nat] /\ poll \in PollType /\ poll.left \in SUBSET Limits
  BY DEF PlanTypes, PollType
<1>h. ASSUME hits \subseteq hits', UNCHANGED codex PROVE \A l : Seen(l) => Seen(l)'
  BY <1>h DEF IsHit, CodexHit, ClaudeHit
<1>b. \A l \in Limits : Bound(l) BY DEF HitsHeld
<1>s. \A l \in Limits : reported[l] > 0 => Seen(l) BY DEF HitsHeld
<1>n. \A l \in poll.left : l \in Limits /\ l \notin poll.st.hits /\ Seen(l) BY DEF HitsHeld, NewHits
\* It is enough to say what becomes of the bounds and of what is left to send.
<1>g. ASSUME \A l \in Limits : Bound(l)', \A l \in Limits : reported'[l] > 0 => Seen(l)',
             ~poll'.on => poll'.left = {},
             \A l \in poll'.left : l \in Limits /\ l \notin poll'.st.hits /\ Seen(l)'
      PROVE  HitsHeld'
  BY <1>g DEF HitsHeld, NewHits
<1>k. ASSUME hits \subseteq hits', expired \subseteq expired', UNCHANGED <<codex, stored, poll, reported, mishaps>>
      PROVE  HitsHeld'
  <2>1. \A l : Seen(l) => Seen(l)' BY <1>h, <1>k
  <2>2. \A l \in poll'.left : l \in Limits /\ l \notin poll'.st.hits /\ Seen(l)' BY <1>k, <1>n, <2>1
  <2>3. \A l \in Limits : reported'[l] > 0 => Seen(l)' BY <1>k, <1>s, <2>1
  <2>4. \A l \in Limits : Bound(l)' BY <1>b, <1>k DEF Known
  <2>5. ~poll'.on => poll'.left = {} BY <1>k DEF HitsHeld
  <2> HIDE DEF Seen, Bound
  <2> QED BY <1>g, <2>2, <2>3, <2>4, <2>5
<1>1. CASE SignIn \/ LimitRow \/ TokenCount \/ RolloutAges \/ TimePasses \/ UNCHANGED planVars
  BY <1>1, <1>k DEF SignIn, LimitRow, TokenCount, RolloutAges, TimePasses, planVars
<1>2. CASE CodexScan
  BY <1>2, <1>k DEF CodexScan
<1>3. ASSUME NEW reads \in BOOLEAN, NEW scans \in BOOLEAN, PollBegin(reads, scans) PROVE HitsHeld'
  <2>1. ~poll.on /\ UNCHANGED <<hits, codex, reported, expired>> BY <1>3, PollBegins
  <2>2. \A l : Seen(l) => Seen(l)' BY <1>h, <2>1
  <2>3. \A l \in Limits : reported'[l] > 0 => Seen(l)' BY <1>s, <2>1, <2>2
  <2>4. poll.left = {} BY <2>1 DEF HitsHeld
  <2>5. CASE /\ poll' = poll /\ stored.hits \subseteq stored'.hits \cup expired
             /\ mishaps' \in {mishaps, mishaps + 1}
    <3>1. \A l \in Limits : Bound(l)' BY <1>0, <1>b, <2>1, <2>5 DEF Known
    <3> HIDE DEF Seen, Bound
    <3> QED BY <1>g, <2>3, <2>4, <2>5, <3>1
  <2>6. CASE /\ poll'.on /\ stored' = stored /\ NewHits(poll'.st.hits, poll'.left)
             /\ \/ poll'.st.hits = stored.hits /\ mishaps' = mishaps
                \/ poll'.st.hits = {} /\ mishaps' = mishaps + 1
    <3>1. \A l \in poll'.left : l \in Limits /\ l \notin poll'.st.hits /\ Seen(l)' BY <2>2, <2>6 DEF NewHits
    <3>2. \A l \in Limits : Bound(l)' BY <1>0, <1>b, <2>1, <2>6 DEF Known
    <3> HIDE DEF Seen, Bound
    <3> QED BY <1>g, <2>3, <2>6, <3>1, <3>2
  <2> QED BY <1>3, <2>5, <2>6, PollBegins
<1>4. CASE PollHit
  <2>1. PICK l \in poll.left :
          \/ /\ poll' = [poll EXCEPT !.left = @ \ {l}, !.st.hits = @ \cup {l}]
             /\ reported' = [reported EXCEPT ![l] = IF l \in expired /\ @ > 0 THEN @ ELSE @ + 1]
          \/ /\ poll' = [poll EXCEPT !.left = @ \ {l}, !.failed = TRUE] /\ UNCHANGED reported
    BY <1>4 DEF PollHit
  <2>2. poll.on /\ UNCHANGED <<hits, codex, stored, mishaps, expired>> BY <1>4 DEF PollHit
  <2>3. l \in Limits /\ l \notin poll.st.hits /\ Seen(l) BY <1>n
  <2>4. poll.st \in StType BY <1>0 DEF PollType
  <2>5. \A k : Seen(k) => Seen(k)' BY <1>h, <2>2
  <2>6. CASE /\ poll' = [poll EXCEPT !.left = @ \ {l}, !.st.hits = @ \cup {l}]
             /\ reported' = [reported EXCEPT ![l] = IF l \in expired /\ @ > 0 THEN @ ELSE @ + 1]
    <3>1. poll'.on /\ poll'.left = poll.left \ {l} /\ poll'.st.hits = poll.st.hits \cup {l}
      BY <1>0, <2>2, <2>4, <2>6 DEF PollType, StType
    <3>2. /\ \/ l \in expired /\ reported[l] > 0 /\ reported'[l] = reported[l]
             \/ ~(l \in expired /\ reported[l] > 0) /\ reported'[l] = reported[l] + 1
          /\ \A k \in Limits \ {l} : reported'[k] = reported[k]
      BY <1>0, <2>3, <2>6
    <3>3. Known' = Known \cup {l} BY <2>2, <3>1 DEF Known
    <3>6. l \notin Known BY <2>2, <2>3 DEF Known
    <3>7. Bound(l)' BY <1>0, <1>b, <2>2, <2>3, <3>2, <3>3, <3>6
    <3>8. \A k \in Limits \ {l} : Bound(k)' BY <1>b, <2>2, <3>2, <3>3
    <3>4. \A k \in Limits : reported'[k] > 0 => Seen(k)' BY <1>s, <2>3, <2>5, <3>2
    <3>5. \A k \in poll'.left : k \in Limits /\ k \notin poll'.st.hits /\ Seen(k)' BY <1>n, <2>5, <3>1
    <3> HIDE DEF Seen, Bound
    <3> QED BY <1>g, <3>1, <3>4, <3>5, <3>7, <3>8
  <2>7. CASE poll' = [poll EXCEPT !.left = @ \ {l}, !.failed = TRUE] /\ UNCHANGED reported
    <3>1. poll'.on /\ poll'.left = poll.left \ {l} /\ poll'.st = poll.st
      BY <1>0, <2>2, <2>7 DEF PollType
    <3>4. \A k \in Limits : reported'[k] > 0 => Seen(k)' BY <1>s, <2>5, <2>7
    <3>5. \A k \in poll'.left : k \in Limits /\ k \notin poll'.st.hits /\ Seen(k)' BY <1>n, <2>5, <3>1
    <3>6. \A k \in Limits : Bound(k)' BY <1>b, <2>2, <2>7, <3>1 DEF Known
    <3> HIDE DEF Seen, Bound
    <3> QED BY <1>g, <3>1, <3>4, <3>5, <3>6
  <2> QED BY <2>1, <2>6, <2>7
<1>5. ASSUME poll' = NoPoll, UNCHANGED <<hits, codex, reported, expired>>,
             \/ poll.st.hits \subseteq stored'.hits \cup expired /\ mishaps' = mishaps /\ poll.on
             \/ mishaps' = mishaps + 1
             \/ stored' = stored /\ mishaps' = mishaps /\ ~poll.on
      PROVE  HitsHeld'
  <2>1. \A l : Seen(l) => Seen(l)' BY <1>h, <1>5
  <2>2. \A l \in Limits : reported'[l] > 0 => Seen(l)' BY <1>5, <1>s, <2>1
  <2>3. ~poll'.on /\ poll'.left = {} BY <1>5, NoPollType
  <2>4. \A l \in Limits : Bound(l)' BY <1>0, <1>5, <1>b, <2>3 DEF Known
  <2> HIDE DEF Seen, Bound
  <2> QED BY <1>g, <2>2, <2>3, <2>4
<1>6. CASE PollSave
  <2>1. poll' = NoPoll /\ UNCHANGED <<hits, codex, reported, expired>> /\ Saves(poll) /\ poll.on
    BY <1>6 DEF PollSave
  <2>2. \/ stored'.hits = Kept(poll) /\ mishaps' = mishaps
        \/ mishaps' = mishaps + 1
    BY <1>0, <2>1, SavesWhat
  <2>3. poll.st.hits \subseteq Kept(poll) \cup expired BY DEF Kept
  <2> HIDE DEF Seen
  <2> QED BY <1>5, <2>1, <2>2, <2>3
<1>7. CASE EmitterDies
  <2>1. poll' = NoPoll /\ UNCHANGED <<hits, codex, reported, stored, expired>> BY <1>7 DEF EmitterDies
  <2>2. mishaps' = mishaps + 1 \/ (~poll.on /\ mishaps' = mishaps) BY <1>7 DEF EmitterDies
  <2> HIDE DEF Seen
  <2> QED BY <1>5, <2>1, <2>2
<1> QED BY <1>1, <1>2, <1>3, <1>4, <1>6, <1>7 DEF PlanStep

LEMMA HitsToldOnce ==
  ASSUME PlanTypes, HitsHeld
  PROVE  HitOnce
<1>1. mishaps \in Nat /\ reported \in [Limits -> Nat] BY DEF PlanTypes
<1>2. \A l \in Limits : reported[l] <= 1 + mishaps BY <1>1 DEF HitsHeld
<1> QED BY <1>2 DEF HitsHeld, HitOnce

-----------------------------------------------------------------------------
(* The lanes: their files and the counter of drops.                         *)

LEMMA TwoLanes ==
  /\ "live" \in Queues /\ "backfill" \in Queues
  /\ Other("live") = "backfill" /\ Other("backfill") = "live"
  /\ \A l \in Queues : l = "live" \/ l = "backfill"
  /\ \A l \in Queues : Other(l) \in Queues /\ Other(l) # l /\ Other(Other(l)) = l
  /\ \A l, k \in Queues : k # l => k = Other(l)
<1>1. \E k \in Queues : k # "live" BY DEF Queues
<1>2. \E k \in Queues : k # "backfill" BY DEF Queues
<1>3. Other("live") = "backfill" BY <1>1 DEF Other, Queues
<1>4. Other("backfill") = "live" BY <1>2 DEF Other, Queues
<1> QED BY <1>3, <1>4 DEF Queues

CountStep == KillHook \/ \E p \in Appenders : Counter(p)
LaneStep  == LaneNext \/ LaneRestarts \/ UNCHANGED laneVars

LEMMA LaneSteps == Next => LaneStep
BY DEF Next, LaneStep

\* The cursor is within its file, a lane holds no more than its cap, and a drain that has an
\* answer to write down has an event to write it for.
FilesHeld ==
  /\ size \in [Queues -> Nat] /\ cursor \in [Queues -> Nat]
  /\ moved \in [Queues -> {"none", "fresh", "stale"}]
  /\ step \in [Queues -> {"idle", "save", "part", "landed"}]
  /\ \A l \in Queues : /\ cursor[l] <= size[l] /\ size[l] <= cursor[l] + Cap
                       /\ step[l] \in {"save", "part"} => cursor[l] < size[l]

LEMMA PendingIs == FilesHeld => \A l \in Queues : /\ Pending(l) \in Nat
                                                  /\ Pending(l) > 0 <=> cursor[l] < size[l]
                                                  /\ Pending(l) >= Cap <=> size[l] >= cursor[l] + Cap
BY CapAssumption DEF FilesHeld, Pending

LEMMA CountFrame == CountStep => UNCHANGED <<cursor, moved, drainVars, beat, up>>
BY DEF CountStep, KillHook, Counter, DropRead, DropWrite, AppendEvent, fileVars

LEMMA HeartFrame == Heartbeat => UNCHANGED <<fileVars, dropVars, drainVars, up>>
BY DEF Heartbeat, Beats, AwaitLive, AwaitBackfill, AwaitTimesOut, BeatHealth, BeatDrops, BeatAgain, BeatCursor,
       BeatCount

LEMMA DrainFrame ==
  ASSUME NEW l \in Queues, Lane(l)
  PROVE  UNCHANGED <<dropVars, beat, up>>
BY DEF Lane, PostFails, PostAnswered, PostPartly, SaveCursor, CursorUnwritable, RecordSuccess, Compacted

LEMMA FilesStep ==
  ASSUME FilesHeld, LaneStep
  PROVE  FilesHeld'
<1> USE CapAssumption DEF Draining
<1>p. \A l \in Queues : /\ Pending(l) > 0 <=> cursor[l] < size[l]
                        /\ Pending(l) >= Cap <=> size[l] >= cursor[l] + Cap
  BY PendingIs
<1>k. ASSUME UNCHANGED <<fileVars, step>> PROVE FilesHeld'
  BY <1>k DEF FilesHeld, fileVars
<1>1. ASSUME NEW p \in Appenders, Counter(p) PROVE FilesHeld'
  <2>1. CASE DropRead(p) \/ DropWrite(p) BY <1>k, <2>1 DEF DropRead, DropWrite, drainVars
  <2>2. ASSUME NEW l \in Queues, AppendEvent(p, l) PROVE FilesHeld'
    <3>1. UNCHANGED <<cursor, moved, step>> BY <2>2 DEF AppendEvent, drainVars
    <3>2. CASE Pending(l) >= Cap
      <4>1. UNCHANGED size BY <2>2, <3>2 DEF AppendEvent
      <4> QED BY <1>k, <3>1, <4>1 DEF fileVars
    <3>3. CASE ~(Pending(l) >= Cap)
      <4>1. size' = [size EXCEPT ![l] = @ + 1] BY <2>2, <3>3 DEF AppendEvent
      <4>2. size[l] < cursor[l] + Cap BY <1>p, <3>3 DEF FilesHeld
      <4> QED BY <3>1, <4>1, <4>2 DEF FilesHeld
    <3> QED BY <3>2, <3>3
  <2> QED BY <1>1, <2>1, <2>2 DEF Counter
<1>2. CASE KillHook BY <1>2, <1>k DEF KillHook, drainVars
<1>3. CASE Heartbeat BY <1>3, <1>k, HeartFrame DEF drainVars
<1>4. ASSUME NEW l \in Queues, PostFails(l) \/ PostAnswered(l) \/ PostPartly(l) \/ CursorUnwritable(l)
                               \/ RecordSuccess(l)
      PROVE  FilesHeld'
  <2>1. UNCHANGED fileVars
    BY <1>4 DEF PostFails, PostAnswered, PostPartly, CursorUnwritable, RecordSuccess
  <2>2. \/ UNCHANGED step
        \/ step' = [step EXCEPT ![l] = "idle"]
        \/ step' = [step EXCEPT ![l] = "save"] /\ Pending(l) > 0
        \/ step' = [step EXCEPT ![l] = "part"] /\ Pending(l) > 1
    BY <1>4 DEF PostFails, PostAnswered, PostPartly, CursorUnwritable, RecordSuccess
  <2>3. \/ UNCHANGED step
        \/ step' = [step EXCEPT ![l] = "idle"]
        \/ step' = [step EXCEPT ![l] = "save"] /\ Pending(l) > 0
        \/ step' = [step EXCEPT ![l] = "part"] /\ Pending(l) > 0
    BY <2>2, PendingIs
  <2> QED BY <1>p, <2>1, <2>3 DEF FilesHeld, fileVars
<1>5. ASSUME NEW l \in Queues, SaveCursor(l) PROVE FilesHeld'
  <2>1. /\ cursor' = [cursor EXCEPT ![l] = @ + 1] /\ moved' = [moved EXCEPT ![l] = "fresh"]
        /\ UNCHANGED size /\ step[l] \in {"save", "part"}
        /\ step' = [step EXCEPT ![l] = "landed"] \/ step' = [step EXCEPT ![l] = "idle"]
    BY <1>5 DEF SaveCursor, Advanced
  <2> QED BY <2>1 DEF FilesHeld
<1>6. ASSUME NEW l \in Queues, Compacted(l) PROVE FilesHeld'
  <2>1. /\ size' = [size EXCEPT ![l] = 0] /\ cursor' = [cursor EXCEPT ![l] = 0]
        /\ moved' = [moved EXCEPT ![l] = "fresh"] /\ step[l] = "idle" /\ UNCHANGED step
    BY <1>6 DEF Compacted, drainVars
  <2> QED BY <2>1 DEF FilesHeld
<1>7. CASE Minutes
  <2>1. /\ moved' = [l \in Queues |-> IF moved[l] = "fresh" THEN "stale" ELSE moved[l]]
        /\ UNCHANGED <<size, cursor, step>>
    BY <1>7 DEF Minutes
  <2> QED BY <2>1 DEF FilesHeld
<1>8. CASE LaneRestarts
  <2>1. step' = [l \in Queues |-> "idle"] /\ UNCHANGED <<size, cursor, moved>>
    BY <1>8 DEF LaneRestarts, fileVars
  <2> QED BY <2>1 DEF FilesHeld
<1>9. CASE UNCHANGED laneVars BY <1>9, <1>k DEF laneVars, drainVars
<1> QED BY <1>1, <1>2, <1>3, <1>4, <1>5, <1>6, <1>7, <1>8, <1>9 DEF LaneStep, LaneNext, Lane

CountType2 == [at : {"idle", "lock", "write"}, lane : Queues, read : Nat]
Busy(p) == IF counting[p].at = "idle" THEN 0 ELSE 1

\* Whoever writes the counter has read the latest of it.
DropsHeld ==
  /\ drops \in [Queues -> Nat] /\ lost \in [Queues -> Nat] /\ uncounted \in Nat
  /\ counting \in [Appenders -> CountType2]
  /\ \A p \in Appenders : counting[p].at = "write" =>
       /\ counting[p].read = drops[counting[p].lane]
       /\ \A q \in Appenders \ {p} : counting[q].at # "write"
  /\ Both(drops) + uncounted + Busy("daemon") + Busy("hook") = Both(lost)
  /\ beat.dropped \in Nat /\ beat.dropped <= Both(lost)

LEMMA CountedBusy ==
  ASSUME DropsHeld
  PROVE  DropsCounted
<1> DEFINE B == {p \in Appenders : counting[p].at # "idle"}
<1>1. Cardinality(B) = Busy("daemon") + Busy("hook")
  <2>1. CASE counting["daemon"].at = "idle" /\ counting["hook"].at = "idle"
    <3>1. B = {} BY <2>1 DEF Appenders
    <3> QED BY <2>1, <3>1, FS_EmptySet DEF Busy
  <2>2. CASE counting["daemon"].at # "idle" /\ counting["hook"].at = "idle"
    <3>1. B = {"daemon"} BY <2>2 DEF Appenders
    <3>2. Cardinality({"daemon"}) = 1 BY FS_Singleton
    <3>3. Busy("daemon") = 1 /\ Busy("hook") = 0 BY <2>2 DEF Busy
    <3> HIDE DEF B
    <3> QED BY <3>1, <3>2, <3>3
  <2>3. CASE counting["daemon"].at = "idle" /\ counting["hook"].at # "idle"
    <3>1. B = {"hook"} BY <2>3 DEF Appenders
    <3>2. Cardinality({"hook"}) = 1 BY FS_Singleton
    <3>3. Busy("daemon") = 0 /\ Busy("hook") = 1 BY <2>3 DEF Busy
    <3> HIDE DEF B
    <3> QED BY <3>1, <3>2, <3>3
  <2>4. CASE counting["daemon"].at # "idle" /\ counting["hook"].at # "idle"
    <3>1. B = {"daemon"} \cup {"hook"} BY <2>4 DEF Appenders
    <3>2. IsFiniteSet({"daemon"}) /\ Cardinality({"daemon"}) = 1 BY FS_Singleton
    <3>3. "hook" \notin {"daemon"} OBVIOUS
    <3>4. Cardinality({"daemon"} \cup {"hook"}) = 2 BY <3>2, <3>3, FS_AddElement
    <3> QED BY <2>4, <3>1, <3>4 DEF Busy
  <2> QED BY <2>1, <2>2, <2>3, <2>4
<1>2. Both(drops) \in Nat /\ Both(lost) \in Nat /\ uncounted \in Nat BY TwoLanes DEF DropsHeld, Both
<1>3. Busy("daemon") \in Nat /\ Busy("hook") \in Nat BY DEF Busy
<1> HIDE DEF B
<1>4. Both(drops) + uncounted + Cardinality(B) = Both(lost) BY <1>1, <1>2, <1>3 DEF DropsHeld
<1> QED BY <1>4 DEF DropsCounted, DropsHeld, B

BeatStates == {"await", "await2", "start", "live", "counted", "backfill", "health", "drops", "sent"}
BeatType == [at : BeatStates, read : Nat, count : Nat, state : {"unknown", "ok", "retrying"}, dropped : Nat,
             late : BOOLEAN, hid : BOOLEAN]

\* A heartbeat goes from await to await2 when the live lane is settled, on to start when the
\* other one is, back when it is not, and to start in the end when that takes too long.
LEMMA HeartMoves ==
  ASSUME FilesHeld, drops \in [Queues -> Nat], beat \in BeatType, Heartbeat
  PROVE  /\ beat' \in BeatType /\ beat'.dropped \in {beat.dropped, Both(drops)}
         /\ ~beat.hid => ~beat'.hid
         /\ \/ beat.at = "await" /\ beat'.at = "await2" /\ Settled("live")
            \/ beat.at = "await2" /\ beat'.at = "start" /\ Settled("backfill")
            \/ beat'.at = "await"
            \/ beat'.late
            \/ {beat.at, beat'.at} \cap {"await", "await2"} = {} /\ beat'.late = beat.late
<1> DEFINE Goal == /\ beat' \in BeatType /\ beat'.dropped \in {beat.dropped, Both(drops)}
                   /\ ~beat.hid => ~beat'.hid
                   /\ \/ beat.at = "await" /\ beat'.at = "await2" /\ Settled("live")
                      \/ beat.at = "await2" /\ beat'.at = "start" /\ Settled("backfill")
                      \/ beat'.at = "await"
                      \/ beat'.late
                      \/ {beat.at, beat'.at} \cap {"await", "await2"} = {} /\ beat'.late = beat.late
<1> USE DEF Beats
<1>0. /\ beat.late \in BOOLEAN /\ beat.hid \in BOOLEAN /\ beat.count \in Nat /\ beat.read \in Nat
      /\ Both(drops) \in Nat /\ HealthNow.state \in {"unknown", "ok", "retrying"}
  BY TwoLanes DEF BeatType, Both, HealthNow
<1>1. \A at \in BeatStates : /\ BeatGoes(at) \in BeatType /\ BeatGoes(at).at = at
                             /\ BeatGoes(at).dropped = beat.dropped /\ BeatGoes(at).late = beat.late
                             /\ BeatGoes(at).hid = beat.hid
  BY DEF BeatGoes, BeatType
<1>2. CASE AwaitLive
  <2>1. "await2" \in BeatStates BY DEF BeatStates
  <2> QED BY <1>1, <1>2, <2>1 DEF AwaitLive
<1>3. CASE AwaitBackfill
  <2>1. "start" \in BeatStates /\ "await" \in BeatStates BY DEF BeatStates
  <2> QED BY <1>1, <1>3, <2>1 DEF AwaitBackfill
<1>4. CASE AwaitTimesOut
  <2>1. beat' = [beat EXCEPT !.at = "start", !.late = TRUE] BY <1>4 DEF AwaitTimesOut
  <2>2. beat' \in BeatType /\ beat'.late /\ beat'.dropped = beat.dropped /\ beat'.hid = beat.hid
    BY <2>1 DEF BeatType, BeatStates
  <2> QED BY <2>2
<1>5. ASSUME NEW l \in Queues, BeatCursor(l) PROVE Goal
  <2>1. beat.at \in {"start", "counted"} /\ beat' = [beat EXCEPT !.at = l, !.read = cursor[l]]
    BY <1>5 DEF BeatCursor
  <2>2. cursor[l] \in Nat /\ l \in {"live", "backfill"} BY DEF FilesHeld, Queues
  <2>3. /\ beat' \in BeatType /\ beat'.late = beat.late /\ beat'.dropped = beat.dropped
        /\ beat'.hid = beat.hid /\ beat'.at = l
    BY <2>1, <2>2 DEF BeatType, BeatStates
  <2> QED BY <2>1, <2>2, <2>3
<1>6. ASSUME NEW l \in Queues, BeatCount(l) PROVE Goal
  <2> DEFINE n == Count(l, beat.read)
             hides == n = 0 /\ Pending(l) > 0 /\ size[l] # beat.read
             at == IF l = "live" THEN "counted" ELSE "health"
             cnt == IF l = "live" THEN n ELSE beat.count + n
             hid == beat.hid \/ hides
  <2>1. beat.at = l /\ beat' = [beat EXCEPT !.at = at, !.read = 0, !.count = cnt, !.hid = hid]
    BY <1>6 DEF BeatCount
  <2>2. size[l] \in Nat /\ cursor[l] \in Nat BY DEF FilesHeld
  <2>3. n \in Nat BY <1>0, <2>2 DEF Count
  <2>4. ~hides BY <1>0, <2>2 DEF Count, Pending
  <2>5. cnt \in Nat BY <1>0, <2>3
  <2>6. at \in {"counted", "health"} /\ hid \in BOOLEAN /\ (~beat.hid => ~hid) BY <1>0, <2>4
  <2> HIDE DEF at, cnt, hid
  <2>7. /\ beat' \in BeatType /\ beat'.late = beat.late /\ beat'.dropped = beat.dropped
        /\ beat'.hid = hid /\ beat'.at = at
    BY <2>1, <2>5, <2>6 DEF BeatType, BeatStates
  <2>8. beat.at \in {"live", "backfill"} BY <2>1 DEF Queues
  <2> QED BY <2>6, <2>7, <2>8
<1>7. CASE BeatHealth
  <2>1. beat.at = "health" /\ beat' = [beat EXCEPT !.at = "drops", !.state = HealthNow.state]
    BY <1>7 DEF BeatHealth
  <2>2. /\ beat' \in BeatType /\ beat'.late = beat.late /\ beat'.dropped = beat.dropped
        /\ beat'.hid = beat.hid /\ beat'.at = "drops"
    BY <1>0, <2>1 DEF BeatType, BeatStates
  <2> QED BY <2>1, <2>2
<1>8. CASE BeatDrops
  <2>1. beat.at = "drops" /\ beat' = [beat EXCEPT !.at = "sent", !.dropped = Both(drops)]
    BY <1>8 DEF BeatDrops, Both
  <2>2. /\ beat' \in BeatType /\ beat'.late = beat.late /\ beat'.dropped = Both(drops)
        /\ beat'.hid = beat.hid /\ beat'.at = "sent"
    BY <1>0, <2>1 DEF BeatType, BeatStates
  <2> QED BY <2>1, <2>2
<1>9. CASE BeatAgain
  <2>1. "start" \in BeatStates BY DEF BeatStates
  <2>2. beat.at = "sent" /\ beat' = BeatGoes("start") BY <1>9 DEF BeatAgain
  <2> QED BY <1>1, <2>1, <2>2
<1> QED BY <1>2, <1>3, <1>4, <1>5, <1>6, <1>7, <1>8, <1>9 DEF Heartbeat

LEMMA DropsStep ==
  ASSUME DropsHeld, FilesHeld, beat \in BeatType, LaneStep
  PROVE  DropsHeld'
<1>0. /\ "daemon" \in Appenders /\ "hook" \in Appenders
      /\ \A p \in Appenders : p = "daemon" \/ p = "hook"
      /\ NoDrop \in CountType2 /\ NoDrop.at = "idle"
  BY TwoLanes DEF Appenders, NoDrop, CountType2
<1>a. /\ counting \in [Appenders -> CountType2] /\ drops \in [Queues -> Nat] /\ lost \in [Queues -> Nat]
      /\ uncounted \in Nat /\ beat.dropped \in Nat
  BY DEF DropsHeld
<1>b. Both(drops) \in Nat /\ Both(lost) \in Nat BY <1>a, TwoLanes DEF Both
<1>k. ASSUME UNCHANGED <<drops, counting, lost, uncounted>>, beat'.dropped \in {0, beat.dropped, Both(drops)}
      PROVE  DropsHeld'
  <2>1. Both(drops)' = Both(drops) /\ Both(lost)' = Both(lost) BY <1>k DEF Both
  <2>2. Both(drops) <= Both(lost) BY <1>a, <1>b DEF DropsHeld, Busy
  <2>3. beat'.dropped \in Nat /\ beat'.dropped <= Both(lost) BY <1>b, <1>k, <2>2 DEF DropsHeld
  <2>4. Busy("daemon")' = Busy("daemon") /\ Busy("hook")' = Busy("hook") BY <1>k DEF Busy
  <2> QED BY <1>k, <2>1, <2>3, <2>4 DEF DropsHeld
\* A process that has counted, or will not.
<1>e. ASSUME NEW p \in Appenders, counting[p].at # "idle", counting' = [counting EXCEPT ![p] = NoDrop]
      PROVE  /\ counting' \in [Appenders -> CountType2] /\ counting'[p].at = "idle"
             /\ \A q \in Appenders \ {p} : counting'[q] = counting[q]
             /\ Busy("daemon")' + Busy("hook")' + 1 = Busy("daemon") + Busy("hook")
  <2>1. counting' \in [Appenders -> CountType2] /\ counting'[p].at = "idle"
        /\ \A q \in Appenders \ {p} : counting'[q] = counting[q]
    BY <1>0, <1>a, <1>e
  <2>2. CASE p = "daemon" BY <1>0, <1>e, <2>1, <2>2 DEF Busy
  <2>3. CASE p = "hook" BY <1>0, <1>e, <2>1, <2>3 DEF Busy
  <2> QED BY <1>0, <2>1, <2>2, <2>3
<1>u. ASSUME NEW p \in Appenders, counting[p].at # "idle", counting' = [counting EXCEPT ![p] = NoDrop],
             uncounted' = uncounted + 1, UNCHANGED <<drops, lost>>, beat'.dropped \in {0, beat.dropped}
      PROVE  DropsHeld'
  <2>1. Both(drops)' = Both(drops) /\ Both(lost)' = Both(lost) BY <1>u DEF Both
  <2>2. beat'.dropped \in Nat /\ beat'.dropped <= Both(lost) BY <1>b, <1>u DEF DropsHeld
  <2>3. Both(drops)' + uncounted' + Busy("daemon")' + Busy("hook")' = Both(lost)'
    <3>1. Busy("daemon") \in Nat /\ Busy("hook") \in Nat /\ Busy("daemon")' \in Nat /\ Busy("hook")' \in Nat
      BY DEF Busy
    <3>2. Busy("daemon")' + Busy("hook")' + 1 = Busy("daemon") + Busy("hook") BY <1>e, <1>u
    <3> QED BY <1>a, <1>b, <1>u, <2>1, <3>1, <3>2 DEF DropsHeld
  <2>4. /\ counting' \in [Appenders -> CountType2] /\ counting'[p].at = "idle"
        /\ \A q \in Appenders \ {p} : counting'[q] = counting[q]
    BY <1>e, <1>u
  <2>5. \A q \in Appenders : counting'[q].at = "write" =>
           /\ counting'[q].read = drops'[counting'[q].lane]
           /\ \A r \in Appenders \ {q} : counting'[r].at # "write"
    BY <1>u, <2>4 DEF DropsHeld
  <2> QED BY <1>a, <1>u, <2>1, <2>2, <2>3, <2>4, <2>5 DEF DropsHeld
<1>1. ASSUME NEW p \in Appenders, NEW l \in Queues, AppendEvent(p, l) PROVE DropsHeld'
  <2>1. UNCHANGED <<drops, uncounted, beat>> /\ counting[p].at = "idle" BY <1>1 DEF AppendEvent
  <2>2. CASE ~(Pending(l) >= Cap)
    <3>1. UNCHANGED <<lost, counting>> BY <1>1, <2>2 DEF AppendEvent
    <3> QED BY <1>k, <2>1, <3>1
  <2>3. CASE Pending(l) >= Cap
    <3> DEFINE o == [NoDrop EXCEPT !.at = "lock", !.lane = l]
    <3>1. lost' = [lost EXCEPT ![l] = @ + 1] /\ counting' = [counting EXCEPT ![p] = o]
      BY <1>1, <2>3 DEF AppendEvent
    <3>2. o \in CountType2 /\ o.at = "lock" BY DEF NoDrop, CountType2
    <3> HIDE DEF o
    <3>3. counting' \in [Appenders -> CountType2] /\ counting'[p] = o
          /\ \A q \in Appenders \ {p} : counting'[q] = counting[q]
      BY <1>a, <3>1, <3>2
    <3>4. Busy("daemon")' + Busy("hook")' = Busy("daemon") + Busy("hook") + 1
      <4>1. CASE p = "daemon" BY <1>0, <2>1, <3>2, <3>3, <4>1 DEF Busy
      <4>2. CASE p = "hook" BY <1>0, <2>1, <3>2, <3>3, <4>2 DEF Busy
      <4> QED BY <1>0, <4>1, <4>2
    <3>5. Both(drops)' = Both(drops) BY <2>1 DEF Both
    <3>6. lost' \in [Queues -> Nat] /\ Both(lost)' = Both(lost) + 1 BY <1>a, <3>1, TwoLanes DEF Both
    <3>7. Both(drops)' + uncounted' + Busy("daemon")' + Busy("hook")' = Both(lost)'
      <4>1. Busy("daemon") \in Nat /\ Busy("hook") \in Nat /\ Busy("daemon")' \in Nat /\ Busy("hook")' \in Nat
        BY DEF Busy
      <4> QED BY <1>a, <1>b, <2>1, <3>4, <3>5, <3>6, <4>1 DEF DropsHeld
    <3>8. \A q \in Appenders : counting'[q].at = "write" =>
             /\ counting'[q].read = drops'[counting'[q].lane]
             /\ \A r \in Appenders \ {q} : counting'[r].at # "write"
      BY <2>1, <3>2, <3>3 DEF DropsHeld
    <3>9. beat'.dropped \in Nat /\ beat'.dropped <= Both(lost)' BY <1>a, <1>b, <2>1, <3>6 DEF DropsHeld
    <3> QED BY <1>a, <2>1, <3>3, <3>6, <3>7, <3>8, <3>9 DEF DropsHeld
  <2> QED BY <2>2, <2>3
<1>2. ASSUME NEW p \in Appenders, DropRead(p) PROVE DropsHeld'
  <2> DEFINE o == [counting[p] EXCEPT !.at = "write", !.read = drops[counting[p].lane]]
  <2>1. counting[p] \in CountType2 /\ counting[p].lane \in Queues BY <1>a DEF CountType2
  <2>2. o \in CountType2 /\ o.at = "write" /\ o.read = drops[o.lane]
    BY <1>a, <2>1 DEF CountType2
  <2>3. counting' = [counting EXCEPT ![p] = o] /\ UNCHANGED <<drops, lost, uncounted, beat>>
    BY <1>2 DEF DropRead
  <2>4. counting[p].at = "lock" /\ \A q \in Appenders : counting[q].at # "write"
    BY <1>2 DEF DropRead, DropsLockFree
  <2> HIDE DEF o
  <2>5. counting' \in [Appenders -> CountType2] /\ counting'[p] = o
        /\ \A q \in Appenders \ {p} : counting'[q] = counting[q]
    BY <1>a, <2>2, <2>3
  <2>6. Busy("daemon")' = Busy("daemon") /\ Busy("hook")' = Busy("hook")
    <3>1. CASE p = "daemon" BY <1>0, <2>2, <2>4, <2>5, <3>1 DEF Busy
    <3>2. CASE p = "hook" BY <1>0, <2>2, <2>4, <2>5, <3>2 DEF Busy
    <3> QED BY <1>0, <3>1, <3>2
  <2>7. Both(drops)' = Both(drops) /\ Both(lost)' = Both(lost) BY <2>3 DEF Both
  <2>8. \A q \in Appenders : counting'[q].at = "write" =>
           /\ counting'[q].read = drops'[counting'[q].lane]
           /\ \A r \in Appenders \ {q} : counting'[r].at # "write"
    BY <2>2, <2>3, <2>4, <2>5
  <2> QED BY <2>3, <2>5, <2>6, <2>7, <2>8 DEF DropsHeld
<1>3. ASSUME NEW p \in Appenders, DropWrite(p) PROVE DropsHeld'
  <2>1. /\ counting[p].at = "write" /\ counting' = [counting EXCEPT ![p] = NoDrop] /\ UNCHANGED <<lost, beat>>
    BY <1>3 DEF DropWrite
  <2>2. CASE drops' = [drops EXCEPT ![counting[p].lane] = counting[p].read + 1] /\ UNCHANGED uncounted
    <3> DEFINE l == counting[p].lane
    <3>1. l \in Queues /\ counting[p].read = drops[l] BY <1>a, <2>1 DEF CountType2, DropsHeld
    <3>2. drops' \in [Queues -> Nat] /\ Both(drops)' = Both(drops) + 1
      <4> HIDE DEF l
      <4>1. drops' = [drops EXCEPT ![l] = drops[l] + 1] BY <2>2, <3>1 DEF l
      <4> QED BY <1>a, <3>1, <4>1, TwoLanes DEF Both
    <3>3. Both(lost)' = Both(lost) BY <2>1 DEF Both
    <3>4. Both(drops)' + uncounted' + Busy("daemon")' + Busy("hook")' = Both(lost)'
      <4>1. Busy("daemon") \in Nat /\ Busy("hook") \in Nat /\ Busy("daemon")' \in Nat /\ Busy("hook")' \in Nat
        BY DEF Busy
      <4>2. Busy("daemon")' + Busy("hook")' + 1 = Busy("daemon") + Busy("hook") BY <1>e, <2>1
      <4> QED BY <1>a, <1>b, <2>2, <3>2, <3>3, <4>1, <4>2 DEF DropsHeld
    <3>5. /\ counting' \in [Appenders -> CountType2] /\ counting'[p].at = "idle"
          /\ \A q \in Appenders \ {p} : counting'[q] = counting[q]
      BY <1>e, <2>1
    <3>6. \A q \in Appenders : counting'[q].at # "write" BY <2>1, <3>5 DEF DropsHeld
    <3> QED BY <1>a, <2>1, <2>2, <3>2, <3>3, <3>4, <3>5, <3>6 DEF DropsHeld
  <2>3. CASE uncounted' = uncounted + 1 /\ UNCHANGED drops BY <1>u, <2>1, <2>3
  <2> QED BY <1>3, <2>2, <2>3 DEF DropWrite
<1>4. CASE KillHook
  BY <1>0, <1>4, <1>u DEF KillHook
<1>5. CASE Heartbeat
  <2>1. UNCHANGED <<drops, counting, lost, uncounted>> BY <1>5, HeartFrame DEF dropVars
  <2>2. beat'.dropped \in {beat.dropped, Both(drops)} BY <1>5, <1>a, HeartMoves DEF DropsHeld
  <2> QED BY <1>k, <2>1, <2>2
<1>6. ASSUME NEW l \in Queues, Lane(l) PROVE DropsHeld'
  BY <1>6, <1>k, DrainFrame DEF dropVars
<1>7. CASE Minutes BY <1>7, <1>k DEF Minutes, dropVars
<1>8. CASE LaneRestarts
  <2>1. UNCHANGED <<drops, lost>> /\ beat'.dropped = 0 /\ counting' = [counting EXCEPT !["daemon"] = NoDrop]
    BY <1>8 DEF LaneRestarts, NoBeat
  <2>2. CASE counting["daemon"].at = "idle"
    <3>1. uncounted' = uncounted BY <1>8, <1>a, <2>2 DEF LaneRestarts
    <3>2. /\ counting' \in [Appenders -> CountType2] /\ counting'["daemon"].at = "idle"
          /\ counting'["hook"] = counting["hook"]
      BY <1>0, <1>a, <2>1
    <3>3. Busy("daemon")' = Busy("daemon") /\ Busy("hook")' = Busy("hook") BY <2>2, <3>2 DEF Busy
    <3>4. Both(drops)' = Both(drops) /\ Both(lost)' = Both(lost) BY <2>1 DEF Both
    <3>5. \A q \in Appenders : counting'[q].at = "write" =>
             /\ counting'[q].read = drops'[counting'[q].lane]
             /\ \A r \in Appenders \ {q} : counting'[r].at # "write"
      BY <1>0, <2>1, <3>2 DEF DropsHeld
    <3> QED BY <1>a, <1>b, <2>1, <3>1, <3>2, <3>3, <3>4, <3>5 DEF DropsHeld
  <2>3. CASE counting["daemon"].at # "idle"
    <3>1. uncounted' = uncounted + 1 BY <1>8, <1>a, <2>3 DEF LaneRestarts
    <3> QED BY <1>0, <1>u, <2>1, <2>3, <3>1
  <2> QED BY <2>2, <2>3
<1>9. CASE UNCHANGED laneVars BY <1>9, <1>k DEF laneVars, dropVars
<1> QED BY <1>1, <1>2, <1>3, <1>4, <1>5, <1>6, <1>7, <1>8, <1>9 DEF LaneStep, LaneNext, Counter

-----------------------------------------------------------------------------
(* The health of the lanes.                                                 *)

\* The lanes in a queue of failing lanes, and the queue without one of them.
In(q, l) == \E i \in 1..Len(q) : q[i] = l
Less(q, l) == IF ~In(q, l) THEN q ELSE IF q[1] = l THEN Tail(q) ELSE <<q[1]>>
Shaped(q) == q = <<>> \/ (\E l \in Queues : q = <<l>>) \/ \E l \in Queues : q = <<l, Other(l)>>

LEMMA Tuples ==
  ASSUME NEW l, NEW k
  PROVE  /\ Append(<<>>, l) = <<l>> /\ Append(<<l>>, k) = <<l, k>>
         /\ Head(<<l>>) = l /\ Head(<<l, k>>) = l
         /\ <<l>> # <<>> /\ <<l, k>> # <<>> /\ \A a, b : <<l>> # <<a, b>>
<1>1. Append(<<>>, l) = <<l>> OBVIOUS
<1>2. Append(<<l>>, k) = <<l, k>>
  <2> DEFINE S == {l, k}
             s == <<l>>
             t == <<l, k>>
  <2>1. k \in S /\ s \in Seq(S) /\ Len(s) = 1 /\ s[1] = l OBVIOUS
  <2>2. t \in Seq(S) /\ Len(t) = 2 /\ t[1] = l /\ t[2] = k OBVIOUS
  <2> HIDE DEF S, s, t
  <2>3. /\ Append(s, k) \in Seq(S) /\ Len(Append(s, k)) = Len(s) + 1
        /\ \A i \in 1..Len(s) : Append(s, k)[i] = s[i]
        /\ Append(s, k)[Len(s) + 1] = k
    BY <2>1, AppendProperties, ZenonT(30)
  <2>4. Len(Append(s, k)) = 2 /\ Append(s, k)[1] = l /\ Append(s, k)[2] = k BY <2>1, <2>3
  <2>5. \A i \in 1..2 : i = 1 \/ i = 2 OBVIOUS
  <2>7. Len(Append(s, k)) = Len(t) /\ \A i \in 1..Len(t) : Append(s, k)[i] = t[i]
    BY <2>2, <2>4, <2>5
  <2>6. Append(s, k) = t BY <2>2, <2>3, <2>7, SeqEqual
  <2> QED BY <2>6 DEF s, t
<1>3. Head(<<l>>) = l /\ Head(<<l, k>>) = l OBVIOUS
<1>4. <<l>> # <<>> /\ <<l, k>> # <<>> OBVIOUS
<1>5. \A a, b : <<l>> # <<a, b>> OBVIOUS
<1> QED BY <1>1, <1>2, <1>3, <1>4, <1>5

LEMMA QueueMembers ==
  ASSUME NEW q, NEW l \in Queues, NEW k \in Queues
  PROVE  /\ q = <<>> => ~In(q, k)
         /\ q = <<l>> => (In(q, k) <=> k = l)
         /\ q = <<l, Other(l)>> => In(q, k)
<1>1. ASSUME q = <<>> PROVE ~In(q, k)
  <2>1. Len(q) = 0 /\ 1..0 = {} BY <1>1
  <2> QED BY <2>1 DEF In
<1>2. ASSUME q = <<l>> PROVE In(q, k) <=> k = l
  <2>1. Len(q) = 1 /\ q[1] = l /\ 1 \in 1..1 /\ \A i \in 1..1 : i = 1 BY <1>2
  <2> QED BY <2>1 DEF In
<1>3. ASSUME q = <<l, Other(l)>> PROVE In(q, k)
  <2>1. Len(q) = 2 /\ q[1] = l /\ q[2] = Other(l) /\ 1 \in 1..2 /\ 2 \in 1..2 BY <1>3
  <2>2. k = l \/ k = Other(l) BY TwoLanes
  <2> QED BY <2>1, <2>2 DEF In
<1> QED BY <1>1, <1>2, <1>3

\* Of a queue without a lane that was in it only the other lane can be left.
LEMMA QueueMoves ==
  ASSUME NEW q, Shaped(q), NEW l \in Queues
  PROVE  /\ ~In(q, l) => \/ q = <<>> /\ Append(q, l) = <<l>>
                         \/ q = <<Other(l)>> /\ Append(q, l) = <<Other(l), l>>
         /\ In(q, l) => \/ Less(q, l) = <<>> /\ ~In(q, Other(l))
                        \/ Less(q, l) = <<Other(l)>> /\ In(q, Other(l))
<1>0. Other(l) \in Queues /\ Other(l) # l BY TwoLanes
<1>1. CASE q = <<>>
  <2>1. ~In(q, l) BY <1>1, QueueMembers
  <2>2. Append(q, l) = <<l>> BY <1>1, Tuples
  <2> QED BY <1>1, <2>1, <2>2
<1>2. ASSUME NEW k \in Queues, q = <<k>>
      PROVE  /\ ~In(q, l) => q = <<Other(l)>> /\ Append(q, l) = <<Other(l), l>>
             /\ In(q, l) => Less(q, l) = <<>> /\ ~In(q, Other(l))
  <2>1. CASE k = l
    <3>1. In(q, l) /\ ~In(q, Other(l)) BY <1>0, <1>2, <2>1, QueueMembers
    <3>2. q[1] = l /\ Tail(q) = <<>> BY <1>2, <2>1
    <3> QED BY <3>1, <3>2 DEF Less
  <2>2. CASE k # l
    <3>1. ~In(q, l) BY <1>2, <2>2, QueueMembers
    <3>2. k = Other(l) BY <2>2, TwoLanes
    <3>3. Append(q, l) = <<k, l>> BY <1>2, Tuples
    <3> QED BY <1>2, <3>1, <3>2, <3>3
  <2> QED BY <2>1, <2>2
<1>3. ASSUME NEW k \in Queues, q = <<k, Other(k)>>
      PROVE  In(q, l) /\ Less(q, l) = <<Other(l)>> /\ In(q, Other(l))
  <2>1. In(q, l) /\ In(q, Other(l)) BY <1>0, <1>3, QueueMembers
  <2>2. q[1] = k /\ Tail(q) = <<Other(k)>> BY <1>3
  <2>3. CASE k = l BY <2>1, <2>2, <2>3 DEF Less
  <2>4. CASE k # l
    <3>1. k = Other(l) BY <2>4, TwoLanes
    <3> QED BY <2>1, <2>2, <2>4, <3>1 DEF Less
  <2> QED BY <2>3, <2>4
<1> QED BY <1>1, <1>2, <1>3 DEF Shaped

LEMMA TroubleIs ==
  /\ \A l : InTrouble(l) <=> In(trouble, l)
  /\ \A l : Without(l) = Less(trouble, l)
BY DEF InTrouble, Without, In, Less

HealthType == [state : {"unknown", "ok", "retrying"}, since : Nat]

\* A lane whose head fails to advance is reported as retrying; a lane that is, though its head
\* advanced, is about to be set right; and of two that fail the first has the earlier date.
HealthHeld ==
  /\ health \in [Queues -> HealthType]
  /\ Shaped(trouble)
  /\ \A l \in Queues : In(trouble, l) => health[l].state = "retrying" /\ step[l] # "landed"
  /\ \A l \in Queues : health[l].state = "retrying" /\ ~In(trouble, l) => step[l] = "landed"
  /\ \A l \in Queues : trouble = <<l, Other(l)>> => health[l].since < health[Other(l)].since

LEMMA HealthIsTrue ==
  ASSUME HealthHeld
  PROVE  HealthTrue
<1> SUFFICES ASSUME trouble # <<>>
             PROVE  /\ HealthNow.state = "retrying"
                    /\ HealthNow.lane = Head(trouble) \/ step[HealthNow.lane] = "landed"
  BY DEF HealthTrue
<1>1. PICK a \in Queues : trouble = <<a>> \/ trouble = <<a, Other(a)>> BY DEF HealthHeld, Shaped
<1>2. Head(trouble) = a /\ In(trouble, a) BY <1>1, QueueMembers, Tuples
<1>3. a \in Failing BY <1>2 DEF HealthHeld, Failing
<1> DEFINE Oldest(l) == \A k \in Failing : health[l].since <= health[k].since
           lane == CHOOSE l \in Failing : Oldest(l)
<1>4. HealthNow.state = "retrying" /\ HealthNow.lane = lane BY <1>3 DEF HealthNow
<1>5. \A k \in Queues : health[k].since \in Nat BY DEF HealthHeld, HealthType
<1>6. Failing \subseteq {a, Other(a)} BY TwoLanes DEF Failing
<1>7. lane \in Failing /\ Oldest(lane)
  <2>1. CASE Other(a) \in Failing
    <3>1. health[a].since \in Nat /\ health[Other(a)].since \in Nat BY <1>5, TwoLanes
    <3>2. Oldest(a) \/ Oldest(Other(a)) BY <1>6, <3>1
    <3> HIDE DEF Oldest
    <3> QED BY <1>3, <2>1, <3>2
  <2>2. CASE Other(a) \notin Failing
    <3>1. Oldest(a) BY <1>3, <1>5, <1>6, <2>2
    <3> HIDE DEF Oldest
    <3> QED BY <1>3, <3>1
  <2> QED BY <2>1, <2>2
<1> HIDE DEF lane
<1>8. lane = a \/ lane = Other(a) BY <1>6, <1>7
<1>9. CASE lane = a BY <1>2, <1>4, <1>9
<1>10. CASE lane = Other(a)
  <2>1. trouble # <<a, Other(a)>>
    <3>1. ASSUME trouble = <<a, Other(a)>> PROVE FALSE
      <4>1. health[a].since < health[Other(a)].since BY <3>1 DEF HealthHeld
      <4>2. health[Other(a)].since <= health[a].since BY <1>3, <1>7, <1>10
      <4>3. health[a].since \in Nat /\ health[Other(a)].since \in Nat BY <1>5, TwoLanes
      <4> QED BY <4>1, <4>2, <4>3
    <3> QED BY <3>1
  <2>2. ~In(trouble, Other(a))
    <3>1. Other(a) \in Queues /\ Other(a) # a BY TwoLanes
    <3> QED BY <1>1, <2>1, <3>1, QueueMembers
  <2>3. step[Other(a)] = "landed" BY <1>7, <1>10, <2>2, TwoLanes DEF HealthHeld, Failing
  <2> QED BY <1>4, <1>10, <2>3
<1> QED BY <1>8, <1>9, <1>10

LEMMA HealthStep ==
  ASSUME FilesHeld, HealthHeld, LaneStep
  PROVE  HealthHeld'
<1>0. step \in [Queues -> {"idle", "save", "part", "landed"}] /\ health \in [Queues -> HealthType]
  BY DEF FilesHeld, HealthHeld
<1>k. ASSUME UNCHANGED <<health, trouble, step>> PROVE HealthHeld'
  BY <1>k DEF HealthHeld
\* A lane fails.
<1>f. ASSUME NEW l \in Queues, step[l] # "landed", health' = Retrying(l), Fails(l),
             \A k \in Queues \ {l} : step'[k] = step[k], step'[l] # "landed"
      PROVE  HealthHeld'
  <2>1. Other(l) \in Queues /\ health[Other(l)].since \in Nat /\ health[Other(l)] \in HealthType
    BY <1>0, TwoLanes DEF HealthType
  <2>2. CASE In(trouble, l)
    <3>1. trouble' = trouble BY <1>f, <2>2, TroubleIs DEF Fails
    <3>2. health[l].state = "retrying" BY <2>2 DEF HealthHeld
    <3>3. health' = health BY <1>0, <1>f, <3>2 DEF Retrying
    <3> QED BY <1>f, <3>1, <3>3 DEF HealthHeld
  <2>3. CASE ~In(trouble, l)
    <3> DEFINE h == [state |-> "retrying", since |-> health[Other(l)].since + 1]
    <3>1. trouble' = Append(trouble, l) BY <1>f, <2>3, TroubleIs DEF Fails
    <3>2. health[l].state # "retrying" BY <1>f, <2>3 DEF HealthHeld
    <3>3. health' = [health EXCEPT ![l] = h] BY <1>f, <3>2 DEF Retrying, Later
    <3>4. h \in HealthType /\ h.state = "retrying" /\ h.since = health[Other(l)].since + 1
      BY <2>1 DEF HealthType
    <3> HIDE DEF h
    <3>5. health' \in [Queues -> HealthType] /\ health'[l] = h /\ health'[Other(l)] = health[Other(l)]
          /\ \A k \in Queues \ {l} : health'[k] = health[k]
      BY <1>0, <3>3, <3>4, TwoLanes
    <3>6. CASE trouble = <<>> /\ trouble' = <<l>>
      <4>1. \A k \in Queues : In(trouble', k) <=> k = l BY <3>6, QueueMembers
      <4>2. \A k \in Queues : ~In(trouble, k) BY <3>6, QueueMembers
      <4>3. Shaped(trouble') /\ \A k \in Queues : trouble' # <<k, Other(k)>> BY <3>6 DEF Shaped
      <4> QED BY <1>f, <3>4, <3>5, <4>1, <4>2, <4>3 DEF HealthHeld
    <3>7. CASE trouble = <<Other(l)>> /\ trouble' = <<Other(l), l>>
      <4>1. trouble' = <<Other(l), Other(Other(l))>> BY <3>7, TwoLanes
      <4>2. \A k \in Queues : In(trouble', k) BY <2>1, <4>1, QueueMembers
      <4>3. In(trouble, Other(l)) BY <2>1, <3>7, QueueMembers
      <4>4. Shaped(trouble') BY <2>1, <4>1 DEF Shaped
      <4>5. \A k \in Queues : trouble' = <<k, Other(k)>> => k = Other(l) BY <3>7
      <4>6. health'[Other(l)].since < health'[l].since BY <2>1, <3>4, <3>5
      <4>7. \A k \in Queues : trouble' = <<k, Other(k)>> => health'[k].since < health'[Other(k)].since
        BY <4>5, <4>6, TwoLanes
      <4>8. \A k \in Queues : health'[k].state = "retrying" /\ step'[k] # "landed"
        <5>1. health[Other(l)].state = "retrying" /\ step[Other(l)] # "landed" BY <2>1, <4>3 DEF HealthHeld
        <5>2. step'[Other(l)] # "landed" BY <1>f, <2>1, <5>1, TwoLanes
        <5> QED BY <1>f, <3>4, <3>5, <5>1, <5>2, TwoLanes
      <4> QED BY <3>5, <4>2, <4>4, <4>7, <4>8 DEF HealthHeld
    <3> QED BY <2>3, <3>1, <3>6, <3>7, QueueMoves DEF HealthHeld
  <2> QED BY <2>2, <2>3
<1>1. ASSUME NEW l \in Queues, PostFails(l) \/ PostPartly(l) \/ CursorUnwritable(l) PROVE HealthHeld'
  <2>1. /\ step[l] # "landed" /\ health' = Retrying(l) /\ Fails(l)
        /\ \/ UNCHANGED step
           \/ step' = [step EXCEPT ![l] = "part"]
           \/ step' = [step EXCEPT ![l] = "idle"]
    BY <1>1 DEF PostFails, PostPartly, CursorUnwritable, Draining
  <2>2. (\A k \in Queues \ {l} : step'[k] = step[k]) /\ step'[l] # "landed" BY <1>0, <2>1
  <2> QED BY <1>f, <2>1, <2>2
<1>2. ASSUME NEW l \in Queues, PostAnswered(l) PROVE HealthHeld'
  <2>1. step[l] = "idle" /\ step' = [step EXCEPT ![l] = "save"] /\ UNCHANGED <<health, trouble>>
    BY <1>2 DEF PostAnswered, Draining
  <2> QED BY <1>0, <2>1 DEF HealthHeld
<1>3. ASSUME NEW l \in Queues, SaveCursor(l) PROVE HealthHeld'
  <2>1. UNCHANGED health BY <1>3 DEF SaveCursor
  <2>2. CASE step[l] = "save" /\ step' = [step EXCEPT ![l] = "landed"] /\ trouble' = Without(l)
    <3>1. trouble' = Less(trouble, l) BY <2>2, TroubleIs
    <3>2. step'[l] = "landed" /\ \A k \in Queues \ {l} : step'[k] = step[k] BY <1>0, <2>2
    <3>3. CASE ~In(trouble, l)
      <4>1. trouble' = trouble BY <3>1, <3>3 DEF Less
      <4> QED BY <2>1, <3>2, <3>3, <4>1 DEF HealthHeld
    <3>4. CASE In(trouble, l)
      <4>0. Other(l) \in Queues /\ Other(l) # l BY TwoLanes
      <4>1. \/ trouble' = <<>> /\ ~In(trouble, Other(l))
            \/ trouble' = <<Other(l)>> /\ In(trouble, Other(l))
        BY <3>1, <3>4, QueueMoves DEF HealthHeld
      <4>2. Shaped(trouble') BY <4>0, <4>1 DEF Shaped
      <4>3. \A k \in Queues : trouble' # <<k, Other(k)>> BY <4>1, Tuples
      <4>4. \A k \in Queues : In(trouble', k) <=> k = Other(l) /\ In(trouble, k)
        BY <4>0, <4>1, QueueMembers
      <4>5. \A k \in Queues : k = l \/ k = Other(l) BY TwoLanes
      <4> QED BY <2>1, <3>2, <4>0, <4>2, <4>3, <4>4, <4>5 DEF HealthHeld
    <3> QED BY <3>3, <3>4
  <2>3. CASE step[l] = "part" /\ step' = [step EXCEPT ![l] = "idle"] /\ UNCHANGED trouble
    BY <1>0, <2>1, <2>3 DEF HealthHeld
  <2> QED BY <1>3, <2>2, <2>3 DEF SaveCursor, Draining
<1>4. ASSUME NEW l \in Queues, RecordSuccess(l) PROVE HealthHeld'
  <2>1. /\ step[l] = "landed" /\ step' = [step EXCEPT ![l] = "idle"]
        /\ health' = [health EXCEPT ![l] = Fine] /\ UNCHANGED trouble
    BY <1>4 DEF RecordSuccess, Draining
  <2>2. Fine \in HealthType /\ Fine.state = "ok" BY DEF Fine, HealthType
  <2>3. ~In(trouble, l) BY <2>1 DEF HealthHeld
  <2>4. /\ health' \in [Queues -> HealthType] /\ health'[l].state = "ok" /\ step'[l] = "idle"
        /\ \A k \in Queues \ {l} : health'[k] = health[k] /\ step'[k] = step[k]
    BY <1>0, <2>1, <2>2
  <2>5. \A k \in Queues : trouble # <<k, Other(k)>> BY <2>3, QueueMembers
  <2> QED BY <2>1, <2>3, <2>4, <2>5 DEF HealthHeld
<1>5. ASSUME NEW l \in Queues, Compacted(l) PROVE HealthHeld'
  BY <1>5, <1>k DEF Compacted, drainVars
<1>6. CASE LaneRestarts
  <2>1. /\ health' = [l \in Queues |-> Unknown] /\ trouble' = <<>>
    BY <1>6 DEF LaneRestarts
  <2>2. Unknown \in HealthType /\ Unknown.state = "unknown" BY DEF Unknown, HealthType
  <2>3. \A l \in Queues : ~In(trouble', l) BY <2>1, QueueMembers
  <2>4. Shaped(trouble') /\ \A k \in Queues : trouble' # <<k, Other(k)>> BY <2>1 DEF Shaped
  <2>5. health' \in [Queues -> HealthType] /\ \A l \in Queues : health'[l].state = "unknown"
    BY <2>1, <2>2
  <2> QED BY <2>3, <2>4, <2>5 DEF HealthHeld
<1>7. CASE KillHook \/ (\E p \in Appenders : Counter(p))
  BY <1>7, <1>k, CountFrame DEF CountStep, drainVars
<1>8. CASE Heartbeat BY <1>8, <1>k, HeartFrame DEF drainVars
<1>9. CASE Minutes BY <1>9, <1>k DEF Minutes
<1>10. CASE UNCHANGED laneVars BY <1>10, <1>k DEF laneVars, drainVars
<1> QED BY <1>1, <1>2, <1>3, <1>4, <1>5, <1>6, <1>7, <1>8, <1>9, <1>10 DEF LaneStep, LaneNext, Lane

-----------------------------------------------------------------------------
(* The heartbeat and doctor.                                                *)

\* A lane that was not tried since the daemon came up still holds something; the heartbeat that
\* waited for a lane does not wait for it again.
BeatHeld ==
  /\ beat \in BeatType /\ ~beat.hid /\ untried \subseteq Queues
  /\ \A l \in untried : cursor[l] < size[l] /\ l \notin answered
  /\ beat.at = "await2" => "live" \notin untried
  /\ beat.at \notin {"await", "await2"} /\ ~beat.late => untried = {}

LEMMA BeatStep ==
  ASSUME FilesHeld, DropsHeld, BeatHeld, LaneStep
  PROVE  BeatHeld'
<1>0. /\ drops \in [Queues -> Nat] /\ size \in [Queues -> Nat] /\ cursor \in [Queues -> Nat]
  BY DEF DropsHeld, FilesHeld
\* A step that tries a lane, or leaves the lanes alone.
<1>k. ASSUME UNCHANGED beat, untried' \subseteq untried,
             \A l \in untried' : /\ l \in answered' => l \in answered
                                 /\ cursor[l] < size[l] => cursor'[l] < size'[l]
      PROVE  BeatHeld'
  BY <1>k DEF BeatHeld
<1>1. ASSUME NEW p \in Appenders, Counter(p) PROVE BeatHeld'
  <2>1. UNCHANGED <<cursor, answered, untried, beat>> BY <1>1, CountFrame DEF CountStep, drainVars
  <2>2. \A l \in Queues : size'[l] >= size[l]
    <3>1. CASE UNCHANGED size BY <1>0, <3>1
    <3>2. CASE \E l \in Queues : size' = [size EXCEPT ![l] = @ + 1] BY <1>0, <3>2
    <3>3. UNCHANGED size \/ \E l \in Queues : size' = [size EXCEPT ![l] = @ + 1]
      BY <1>1 DEF Counter, DropRead, DropWrite, AppendEvent, fileVars
    <3> QED BY <3>1, <3>2, <3>3
  <2>3. size' \in [Queues -> Nat]
    <3>1. FilesHeld' BY <1>1, FilesStep DEF LaneStep, LaneNext
    <3> QED BY <3>1 DEF FilesHeld
  <2>4. \A l \in untried' : l \in Queues BY <2>1 DEF BeatHeld
  <2> QED BY <1>0, <1>k, <2>1, <2>2, <2>3, <2>4
<1>2. CASE KillHook
  BY <1>2, <1>k DEF KillHook, fileVars, drainVars
<1>3. ASSUME NEW l \in Queues, PostFails(l) \/ PostPartly(l) \/ CursorUnwritable(l) \/ RecordSuccess(l)
      PROVE  BeatHeld'
  <2>1. UNCHANGED <<size, cursor, beat>> /\ answered' = answered \cup {l} /\ untried' = untried \ {l}
    BY <1>3 DEF PostFails, PostPartly, CursorUnwritable, RecordSuccess, Answers, fileVars
  <2> QED BY <1>k, <2>1
<1>4. ASSUME NEW l \in Queues, PostAnswered(l) PROVE BeatHeld'
  BY <1>4, <1>k DEF PostAnswered, fileVars
<1>5. ASSUME NEW l \in Queues, SaveCursor(l) PROVE BeatHeld'
  <2>1. /\ UNCHANGED <<size, answered, beat>> /\ untried' = untried \ {l}
        /\ cursor' = [cursor EXCEPT ![l] = @ + 1]
    BY <1>5 DEF SaveCursor, Advanced
  <2>2. \A k \in untried' : k \in Queues /\ k # l BY <2>1 DEF BeatHeld
  <2>3. \A k \in untried' : cursor'[k] = cursor[k] BY <1>0, <2>1, <2>2
  <2> QED BY <1>k, <2>1, <2>3
<1>6. ASSUME NEW l \in Queues, Compacted(l) PROVE BeatHeld'
  <2>1. /\ UNCHANGED <<answered, untried, beat>> /\ Pending(l) = 0
        /\ size' = [size EXCEPT ![l] = 0] /\ cursor' = [cursor EXCEPT ![l] = 0]
    BY <1>6 DEF Compacted, drainVars
  <2>2. l \notin untried BY <2>1, PendingIs DEF BeatHeld
  <2>3. \A k \in untried' : k \in Queues /\ k # l BY <2>1, <2>2 DEF BeatHeld
  <2>4. \A k \in untried' : cursor'[k] = cursor[k] /\ size'[k] = size[k] BY <1>0, <2>1, <2>3
  <2> QED BY <1>k, <2>1, <2>4
<1>7. CASE Heartbeat
  <2>1. UNCHANGED <<size, cursor, answered, untried>> BY <1>7, HeartFrame DEF fileVars, drainVars
  <2>2. beat' \in BeatType /\ ~beat'.hid BY <1>0, <1>7, HeartMoves DEF BeatHeld
  <2>3. \A l \in Queues : Settled(l) => l \notin untried
    BY PendingIs DEF Settled, BeatHeld
  <2>4. beat'.at = "await2" => "live" \notin untried
    <3>1. ASSUME beat'.at = "await2", ~beat'.late PROVE "live" \notin untried
      BY <1>0, <1>7, <2>3, <3>1, HeartMoves, TwoLanes DEF BeatHeld
    <3>2. ASSUME beat'.at = "await2" PROVE beat.at = "await" /\ Settled("live")
      BY <1>7, <3>2 DEF Heartbeat, Beats, BeatGoes, AwaitLive, AwaitBackfill, AwaitTimesOut, BeatHealth,
                        BeatDrops, BeatAgain, BeatCursor, BeatCount, BeatHeld, BeatType, Queues
    <3> QED BY <2>3, <3>2, TwoLanes
  <2>5. ASSUME beat'.at \notin {"await", "await2"}, ~beat'.late PROVE untried = {}
    <3>1. CASE beat.at = "await2" /\ Settled("backfill")
      <4>1. "live" \notin untried /\ "backfill" \notin untried BY <2>3, <3>1, TwoLanes DEF BeatHeld
      <4> QED BY <4>1, TwoLanes DEF BeatHeld
    <3>2. CASE beat.at \notin {"await", "await2"} /\ beat.late = beat'.late BY <2>5, <3>2 DEF BeatHeld
    <3> QED BY <1>0, <1>7, <2>5, <3>1, <3>2, HeartMoves DEF BeatHeld
  <2> QED BY <2>1, <2>2, <2>4, <2>5 DEF BeatHeld
<1>8. CASE Minutes
  BY <1>8, <1>k DEF Minutes
<1>9. CASE LaneRestarts
  <2>1. /\ answered' = {} /\ untried' = {l \in Queues : Pending(l) > 0} /\ beat' = NoBeat
        /\ UNCHANGED <<size, cursor>>
    BY <1>9 DEF LaneRestarts, fileVars
  <2>2. NoBeat \in BeatType /\ ~NoBeat.hid /\ NoBeat.at = "await"
    BY DEF NoBeat, BeatType, BeatStates
  <2> QED BY <2>1, <2>2, PendingIs DEF BeatHeld
<1>10. CASE UNCHANGED laneVars
  BY <1>10, <1>k DEF laneVars, fileVars, drainVars
<1> QED BY <1>1, <1>2, <1>3, <1>4, <1>5, <1>6, <1>7, <1>8, <1>9, <1>10 DEF LaneStep, LaneNext, Lane

\* A lane that stood still for two minutes holds something, and its cursor was not written since.
StillHeld ==
  /\ still \subseteq Queues /\ up \in {"fresh", "stale"}
  /\ \A l \in still : cursor[l] < size[l] /\ moved[l] # "fresh"

LEMMA StillStep ==
  ASSUME FilesHeld, StillHeld, LaneStep
  PROVE  StillHeld'
<1>0. /\ size \in [Queues -> Nat] /\ cursor \in [Queues -> Nat]
      /\ moved \in [Queues -> {"none", "fresh", "stale"}]
  BY DEF FilesHeld
<1>k. ASSUME up' \in {up, "fresh"}, still' \subseteq still,
             \A l \in still' : /\ moved'[l] = moved[l]
                               /\ cursor[l] < size[l] => cursor'[l] < size'[l]
      PROVE  StillHeld'
  BY <1>k DEF StillHeld
<1>1. ASSUME NEW p \in Appenders, Counter(p) PROVE StillHeld'
  <2>1. UNCHANGED <<cursor, moved, still, up>> BY <1>1, CountFrame DEF CountStep, drainVars
  <2>2. UNCHANGED size \/ \E l \in Queues : size' = [size EXCEPT ![l] = @ + 1]
    BY <1>1 DEF Counter, DropRead, DropWrite, AppendEvent, fileVars
  <2>3. \A l \in Queues : size'[l] \in Nat /\ size'[l] >= size[l] BY <1>0, <2>2
  <2>4. \A l \in still : l \in Queues BY DEF StillHeld
  <2> QED BY <1>0, <1>k, <2>1, <2>3, <2>4
<1>2. CASE KillHook
  BY <1>2, <1>k DEF KillHook, fileVars, drainVars
<1>3. ASSUME NEW l \in Queues,
             PostFails(l) \/ PostAnswered(l) \/ PostPartly(l) \/ CursorUnwritable(l) \/ RecordSuccess(l)
      PROVE  StillHeld'
  <2>1. UNCHANGED <<size, cursor, moved, still, up>>
    BY <1>3 DEF PostFails, PostAnswered, PostPartly, CursorUnwritable, RecordSuccess, fileVars
  <2> QED BY <1>k, <2>1
<1>4. ASSUME NEW l \in Queues, SaveCursor(l) PROVE StillHeld'
  <2>1. /\ UNCHANGED <<size, up>> /\ still' = still \ {l}
        /\ cursor' = [cursor EXCEPT ![l] = @ + 1] /\ moved' = [moved EXCEPT ![l] = "fresh"]
    BY <1>4 DEF SaveCursor, Advanced
  <2>2. \A k \in still' : k \in Queues /\ k # l BY <2>1 DEF StillHeld
  <2>3. \A k \in still' : cursor'[k] = cursor[k] /\ moved'[k] = moved[k] BY <1>0, <2>1, <2>2
  <2> QED BY <1>k, <2>1, <2>3
<1>5. ASSUME NEW l \in Queues, Compacted(l) PROVE StillHeld'
  <2>1. /\ UNCHANGED <<still, up>> /\ Pending(l) = 0 /\ size' = [size EXCEPT ![l] = 0]
        /\ cursor' = [cursor EXCEPT ![l] = 0] /\ moved' = [moved EXCEPT ![l] = "fresh"]
    BY <1>5 DEF Compacted, drainVars
  <2>2. l \notin still BY <2>1, PendingIs DEF StillHeld
  <2>3. \A k \in still' : k \in Queues /\ k # l BY <2>1, <2>2 DEF StillHeld
  <2>4. \A k \in still' : cursor'[k] = cursor[k] /\ size'[k] = size[k] /\ moved'[k] = moved[k]
    BY <1>0, <2>1, <2>3
  <2> QED BY <1>k, <2>1, <2>4
<1>6. CASE Heartbeat
  BY <1>6, <1>k, HeartFrame DEF fileVars, drainVars
<1>7. CASE Minutes
  <2>1. /\ moved' = [l \in Queues |-> IF moved[l] = "fresh" THEN "stale" ELSE moved[l]]
        /\ up' = "stale" /\ still' = {l \in Queues : Pending(l) > 0} /\ UNCHANGED <<size, cursor>>
    BY <1>7 DEF Minutes
  <2> QED BY <2>1, PendingIs DEF StillHeld
<1>8. CASE LaneRestarts
  BY <1>8, <1>k DEF LaneRestarts, fileVars
<1>9. CASE UNCHANGED laneVars
  BY <1>9, <1>k DEF laneVars, fileVars, drainVars
<1> QED BY <1>1, <1>2, <1>3, <1>4, <1>5, <1>6, <1>7, <1>8, <1>9 DEF LaneStep, LaneNext, Lane

LEMMA DoctorIsRight ==
  ASSUME FilesHeld, StillHeld
  PROVE  DoctorWarns
<1> SUFFICES ASSUME NEW l \in still, up = "stale", ~Masked(l)
             PROVE  Diagnosis \cap {"stuck", "full"} # {}
  BY DEF DoctorWarns
<1>1. l \in Queues /\ Pending(l) > 0 /\ moved[l] \in {"none", "stale"} BY PendingIs DEF StillHeld, FilesHeld
<1>2. CASE \E k \in Queues : size[k] >= Cap
  <2>1. "full" \in Diagnosis BY <1>2 DEF Diagnosis
  <2> QED BY <2>1
<1>3. CASE ~(\E k \in Queues : size[k] >= Cap)
  <2>1. ~(\A k \in Queues : Pending(k) = 0)
    <3>1. Pending(l) \in Nat BY <1>1, PendingIs
    <3> QED BY <1>1, <3>1
  <2>2. Progress = "stale"
    <3>1. CASE moved[l] = "stale"
      <4>1. l \in Probed BY <1>1, <3>1 DEF Probed
      <4> QED BY <3>1, <4>1 DEF Progress
    <3>2. CASE moved[l] = "none"
      <4>1. l \notin Probed BY <3>2 DEF Probed
      <4>2. CASE Probed = {} BY <4>2 DEF Progress
      <4>3. CASE Probed # {}
        <5>1. Other(l) \in Probed BY <1>1, <4>1, <4>3, TwoLanes DEF Probed
        <5>2. moved[Other(l)] \in {"fresh", "stale"} /\ Pending(Other(l)) > 0
          BY <1>1, <5>1, TwoLanes DEF Probed, FilesHeld
        <5>3. moved[Other(l)] = "stale" BY <3>2, <5>2 DEF Masked
        <5> QED BY <4>3, <5>1, <5>3 DEF Progress
      <4> QED BY <4>2, <4>3
    <3> QED BY <1>1, <3>1, <3>2
  <2>3. "stuck" \in Diagnosis BY <1>3, <2>1, <2>2 DEF Diagnosis
  <2> QED BY <2>3
<1> QED BY <1>2, <1>3

-----------------------------------------------------------------------------
(* The specification.                                                       *)

Inv == /\ SlotTypes /\ SlotHeld /\ StreakCounted
       /\ ShimTypes /\ CachesOwn /\ ClearedSince /\ OwnLine /\ WindowTypes /\ Dated /\ Unspent
       /\ PlanTypes /\ PlanDated /\ HitsHeld
       /\ FilesHeld /\ DropsHeld /\ HealthHeld /\ BeatHeld /\ StillHeld

LEMMA InvInit == Init => Inv
<1> SUFFICES ASSUME NEW e \in Environments, LineInit(e.line, e.slot), PlanInit(e.plan, e.codex, e.account),
                    LaneInit(e.lane, e.queued)
             PROVE  Inv
  BY DEF Init
<1>0. /\ e.slot \in Line0 /\ e.account \in Signed /\ e.queued \in [Queues -> 0..Cap]
      /\ MaxHeals \in Nat /\ 0 \in 0..MaxHeals /\ Cap \in Nat /\ Absent # Shim /\ e.slot # Shim
  BY UsageAssumption, LineAssumption, CapAssumption DEF Line0
<1>1. SlotTypes /\ SlotHeld
  <2>1. NoOp \in OpType /\ NoOp.at = "idle" BY <1>0 DEF NoOp, OpType, Line0
  <2>2. NoRecord \in [wrapped : BOOLEAN, prior : Line0, heals : 0..MaxHeals] /\ NoRecord.wrapped = FALSE
    BY <1>0 DEF NoRecord, Line0
  <2>3. /\ slot = e.slot /\ mine = slot /\ record = NoRecord /\ op = [p \in Lockers |-> NoOp]
        /\ managed = FALSE /\ off = FALSE /\ clobbered = FALSE /\ streak = 0 /\ lapses = 0 /\ clears = 0
    BY DEF LineInit
  <2>4. op \in [Lockers -> OpType] /\ \A p \in Lockers : op[p] = NoOp BY <2>1, <2>3
  <2>5. op["cli"] = NoOp /\ op["daemon"] = NoOp BY <2>4 DEF Lockers
  <2>6. SlotTypes BY <1>0, <2>2, <2>3, <2>4, <2>5 DEF SlotTypes, OpShape, Line0
  <2>7. SlotHeld BY <1>0, <2>1, <2>3, <2>4 DEF SlotHeld
  <2> QED BY <2>6, <2>7
<1>2. StreakCounted
  <2>1. lapses \in Nat BY <1>1 DEF SlotTypes
  <2>2. Slack \in Nat BY <2>1, SlackGrows
  <2>3. op["cli"].at = "idle" /\ op["daemon"].at = "idle" /\ streak = 0 /\ ~record.wrapped
    BY DEF LineInit, NoOp, Lockers, NoRecord
  <2> QED BY <1>0, <2>2, <2>3 DEF StreakCounted, Writing
<1>3. ShimTypes /\ CachesOwn /\ ClearedSince /\ OwnLine
  <2>1. NoTick \in TickType /\ NoTick.at = "idle" BY DEF NoTick, TickType, Line0
  <2>2. NoCache \in CacheType /\ NoCache.fp = Absent
    BY DEF NoCache, CacheType, NoLine, Line, LineType, Line0
  <2>3. cache = NoCaches /\ tick = [t \in Ticks |-> NoTick] /\ clock = 0
        /\ drawn.line = NoLine /\ clears = 0
    BY DEF LineInit
  <2>4. ShimTypes BY <2>1, <2>2, <2>3 DEF ShimTypes, NoCaches
  <2>5. CachesOwn BY <2>2, <2>3, LineAssumption DEF CachesOwn, NoCaches
  <2>6. OwnLine BY <2>3 DEF OwnLine
  <2>7. ClearedSince BY <2>3 DEF ClearedSince, NoTick
  <2> QED BY <2>4, <2>5, <2>6, <2>7
<1>4. WindowTypes /\ Dated /\ Unspent
  <2>1. /\ NoWindow \in WindowType /\ NoWindow.obs = 0 /\ NoTick.at = "idle" /\ NoTick.obs = 0
    BY DEF NoWindow, WindowType, NoTick
  <2>2. /\ spool = NoWindow /\ drain = NoWindow /\ lastObserved = 0 /\ absenceDue = TRUE
        /\ sent = [life |-> {}, ever |-> {}, stayed |-> {}] /\ clock = 0 /\ \A t \in Ticks : tick[t] = NoTick
    BY DEF LineInit
  <2>3. sent.life = {} /\ sent.ever = {} /\ sent.stayed = {} BY <2>2
  <2>4. WindowTypes BY <2>1, <2>2 DEF WindowTypes
  <2>5. Dated BY <2>1, <2>2, <2>3 DEF Dated
  <2>6. Unspent BY <2>1, <2>2, <2>3 DEF Unspent
  <2> QED BY <2>4, <2>5, <2>6
<1>5. PlanTypes /\ PlanDated /\ HitsHeld
  <2>1. NoTier \in TierType BY DEF NoTier, Tier, TierType
  <2>2. NoRow \in RowType /\ NoRow.day = 0 BY <2>1 DEF NoRow, RowType
  <2>3. NoCount \in CountType BY DEF NoCount, CountType
  <2> DEFINE s == NoState
  <2>4. s \in StType /\ s.scan = 0 /\ s.hits = {} BY NoPollType
  <2>5. /\ account = e.account /\ lastPlan = Unread /\ hits = {} /\ mtime = [f \in Files |-> 0]
        /\ counts = [f \in Files |-> NoCount] /\ now = 1 /\ date = 1 /\ stored = s
        /\ tier = NoTier /\ tierDate = 0 /\ poll = NoPoll /\ observed = 0 /\ shown = NoRow
        /\ reported = [l \in Limits |-> 0] /\ told = 0 /\ mishaps = 0
    BY DEF PlanInit
  <2> HIDE DEF s
  <2>6. PlanTypes BY <1>0, <2>1, <2>2, <2>3, <2>4, <2>5, NoPollType DEF PlanTypes
  <2>7. PlanDated BY <2>2, <2>4, <2>5, NoPollType DEF PlanDated
  <2>8. HitsHeld BY <2>4, <2>5, NoPollType DEF HitsHeld, NewHits
  <2> QED BY <2>6, <2>7, <2>8
<1>6. /\ size = e.queued /\ cursor = [l \in Queues |-> 0] /\ moved = [l \in Queues |-> "none"]
      /\ drops = [l \in Queues |-> 0]
      /\ step = [l \in Queues |-> "idle"] /\ health = [l \in Queues |-> Unknown] /\ answered = {}
      /\ beat = NoBeat /\ up = "fresh"
      /\ counting = [p \in Appenders |-> NoDrop] /\ lost = [l \in Queues |-> 0] /\ uncounted = 0
      /\ trouble = <<>> /\ untried = {l \in Queues : e.queued[l] > 0} /\ still = {}
  BY DEF LaneInit
<1>7. FilesHeld BY <1>0, <1>6 DEF FilesHeld
<1>8. DropsHeld
  <2>1. NoDrop \in CountType2 /\ NoDrop.at = "idle" BY TwoLanes DEF NoDrop, CountType2
  <2>2. counting["daemon"] = NoDrop /\ counting["hook"] = NoDrop BY <1>6 DEF Appenders
  <2>3. Both(drops) = 0 /\ Both(lost) = 0 BY <1>6, TwoLanes DEF Both
  <2>4. beat.dropped = 0 BY <1>6 DEF NoBeat
  <2>5. Busy("daemon") = 0 /\ Busy("hook") = 0 BY <2>1, <2>2 DEF Busy
  <2> QED BY <1>6, <2>1, <2>3, <2>4, <2>5 DEF DropsHeld
<1>9. HealthHeld
  <2>1. Unknown \in HealthType /\ Unknown.state = "unknown" BY DEF Unknown, HealthType
  <2>2. \A l \in Queues : ~In(trouble, l) /\ trouble # <<l, Other(l)>> BY <1>6, QueueMembers, Tuples
  <2> QED BY <1>6, <2>1, <2>2 DEF HealthHeld, Shaped
<1>10. BeatHeld
  <2>1. NoBeat \in BeatType /\ ~NoBeat.hid /\ NoBeat.at = "await" BY DEF NoBeat, BeatType, BeatStates
  <2> QED BY <1>6, <2>1 DEF BeatHeld
<1>11. StillHeld BY <1>6 DEF StillHeld
<1> QED BY <1>1, <1>2, <1>3, <1>4, <1>5, <1>7, <1>8, <1>9, <1>10, <1>11 DEF Inv

LEMMA InvNext == Inv /\ [Next]_vars => Inv' /\ [NewerOnly]_vars
<1> SUFFICES ASSUME Inv, [Next]_vars
             PROVE  Inv' /\ NewerOnly
  OBVIOUS
<1>1. SlotStep \/ ShimStep \/ DeathStep \/ UNCHANGED lineVars
  <2>1. ASSUME UNCHANGED vars PROVE UNCHANGED lineVars BY <2>1 DEF vars
  <2> QED BY <2>1, LineSteps
<1>2. PlanStep
  <2>1. ASSUME UNCHANGED vars PROVE UNCHANGED planVars BY <2>1 DEF vars
  <2> QED BY <2>1, PlanSteps DEF PlanStep
<1>3. LaneStep
  <2>1. ASSUME UNCHANGED vars PROVE UNCHANGED laneVars BY <2>1 DEF vars
  <2> QED BY <2>1, LaneSteps DEF LaneStep
<1>4. SlotTypes' /\ SlotHeld' /\ StreakCounted' BY <1>1, SlotTypesStep, SlotHeldStep, StreakStep DEF Inv
<1>5. ShimTypes' /\ CachesOwn' /\ ClearedSince' /\ OwnLine' BY <1>1, ShimSteps, ClearedStep DEF Inv
<1>6. WindowTypes' /\ Dated' /\ Unspent' /\ NewerOnly
  BY <1>1, <1>5, WindowSteps DEF Inv, NewerOnly
<1>7. PlanTypes' /\ PlanDated' /\ HitsHeld' BY <1>2, PlanTypesStep, HitsStep DEF Inv
<1>8. FilesHeld' /\ DropsHeld' /\ HealthHeld' /\ BeatHeld' /\ StillHeld'
  BY <1>3, FilesStep, DropsStep, HealthStep, BeatStep, StillStep DEF Inv, BeatHeld
<1> QED BY <1>4, <1>5, <1>6, <1>7, <1>8 DEF Inv

\* The inductive invariant: the types, who holds the lock of the slot and for what, where each reading, hit and
\* drop stands on its way, and what a lane's health is based on.
THEOREM InvAlways == Spec => []Inv
BY InvInit, InvNext, PTL DEF Spec

\* Every variable has its type, at most one locked operation is under way, no date lies ahead of the clock, and
\* a lane never holds more than its cap (statusline.go, window_usage.go, plan_tier.go, limit_hits.go, outbox.go).
THEOREM TypeCorrect == Spec => []TypeOK
<1>1. Inv => TypeOK
  <2> SUFFICES ASSUME Inv PROVE TypeOK OBVIOUS
  <2>1. /\ slot \in Commands \cup {Shim, Absent} /\ mine \in Commands \cup {Absent}
        /\ managed \in BOOLEAN /\ off \in BOOLEAN /\ clobbered \in BOOLEAN
        /\ record \in [wrapped : BOOLEAN, prior : Commands \cup {Absent}, heals : 0..MaxHeals]
    BY DEF Inv, SlotTypes, Line0
  <2>2. /\ \A p \in Lockers : op[p].at \in {"idle", "read", "save", "write", "count", "restore", "clear"}
        /\ \E p \in Lockers : op[p] = NoOp
    BY DEF Inv, SlotTypes, OpType, OpShape, Lockers
  <2>3. /\ \A s \in Sessions : cache[s].fp \in Commands \cup {Absent}
        /\ \A t \in Ticks : tick[t].at \in {"idle", "spool", "run"} /\ tick[t].obs \in 0..clock
    BY DEF Inv, ShimTypes, CacheType, TickType, Line0, Dated
  <2>4. /\ {spool.obs, drain.obs, lastObserved} \subseteq 0..clock /\ sent.life \subseteq sent.ever
        /\ absenceDue \in BOOLEAN
    BY DEF Inv, WindowTypes, Dated
  <2>5. /\ account \in Signed /\ tier \in [plan : Signed \cup {Unread}, acct : Signed \cup {Unread}]
        /\ stored.scan \in 0..now /\ stored.hits \subseteq Limits /\ poll.left \subseteq Limits
        /\ tierDate \in 0..date /\ shown.day \in 0..date
    BY DEF Inv, PlanTypes, PlanDated, TierType, StType, PollType, RowType
  <2>6. /\ \A f \in Files : mtime[f] \in 0..now /\ counts[f].at \in Nat
        /\ told <= observed
    BY DEF Inv, PlanTypes, PlanDated, CountType
  <2>7. \A l \in Queues : cursor[l] \in 0..size[l] /\ size[l] - cursor[l] <= Cap
    BY CapAssumption DEF Inv, FilesHeld
  <2> QED BY <2>1, <2>2, <2>3, <2>4, <2>5, <2>6, <2>7 DEF TypeOK
<1> QED BY <1>1, InvAlways, PTL

\* Whatever the engineer and other tools do to the slot, through commands and heals that are killed or fail at any
\* step: every line drawn is the session's own, or ours where the slot was wrapped empty, the shim has been turned
\* off since the tick began or the record cannot be read; what was displaced can be had again, unless the slot was
\* written by two at once or a record was overwritten unread; after a disable that removed its record the shim does
\* not come back; and the re-wraps in a row are bounded (statusline.go, statusline_shim.go).
THEOREM SlotIsKept == Spec => []SlotKept
<1>1. Inv => SlotKept
  <2> SUFFICES ASSUME Inv PROVE SlotKept OBVIOUS
  <2>1. Restorable BY DEF Inv, SlotHeld, Restorable
  <2>2. FightBounded
    <3>1. MaxHeals \in Nat /\ lapses \in Nat /\ streak \in Nat BY LineAssumption DEF Inv, SlotTypes
    <3>2. streak <= MaxHeals + MaxHeals * lapses BY DEF Inv, StreakCounted, Slack
    <3>3. \A m, l \in Nat : m * (1 + l) = m + m * l OBVIOUS
    <3> QED BY <3>1, <3>2, <3>3 DEF FightBounded
  <2> QED BY <2>1, <2>2 DEF Inv, SlotKept
<1> QED BY <1>1, InvAlways, PTL

\* The counter of drops misses nothing but what was cut short, a failing lane is never reported as healthy, the
\* first heartbeat waits for both lanes, and doctor warns of a lane that stands still (drops.go,
\* delivery_health.go, presence.go, queue_health.go).
THEOREM LanesAreTrue == Spec => []LanesTrue
<1>1. Inv => LanesTrue
  <2> SUFFICES ASSUME Inv PROVE LanesTrue OBVIOUS
  <2>1. DropsCounted BY CountedBusy DEF Inv
  <2>2. HealthTrue BY HealthIsTrue DEF Inv
  <2>3. BeatMeasured BY DEF Inv, BeatHeld, BeatMeasured
  <2>4. DoctorWarns BY DoctorIsRight DEF Inv
  <2> QED BY <2>1, <2>2, <2>3, <2>4 DEF LanesTrue
<1> QED BY <1>1, InvAlways, PTL

\* A hit is sent once, and again only for each time that what was sent may not have been written down or could not
\* be read back, until two months after its window has reset; and the readings of one life of the watcher only go
\* forward, none of them sent in an earlier one but one whose spool file could not be removed (limit_hits.go,
\* window_usage.go).
THEOREM NothingToldTwice == Spec => ToldOnce
<1>1. Inv => HitOnce BY HitsToldOnce DEF Inv
<1>2. Inv /\ [Next]_vars => [NewerOnly]_vars
  BY InvNext
<1>3. Spec => []HitOnce BY <1>1, InvAlways, PTL
<1>4. Spec => Advances BY <1>2, InvAlways, PTL DEF Spec, Advances
<1> QED BY <1>3, <1>4, PTL DEF ToldOnce

=============================================================================
