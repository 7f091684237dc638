-------------------------- MODULE SelfUpdateProofs --------------------------
(***************************************************************************)
(* What SelfUpdate promises about every daemon: its types, that neither a  *)
(* dialog nor a restart is repeated, that a restart keeps to the org's     *)
(* answer, and that one path never runs an older build.                    *)
(***************************************************************************)
EXTENDS SelfUpdate, FiniteSetTheorems, NaturalsInduction, WellFoundedInduction, TLAPS

-----------------------------------------------------------------------------
(* The inductive invariant.                                                 *)

\* A file that says a version runs as one; the daemon's own path and the file it runs
\* from exist, and nothing removes a file.
Files ==
  /\ \A s \in Slots : disk[s].says > 0 => disk[s].runs > 0
  /\ disk["own"].says > 0 /\ disk[self].says > 0

\* Without a withdrawn release the newest is the last that was published.
Newest == /\ \A v \in releases : v <= top
          /\ ~May("yank") => top \in releases

\* A file that is passed over was found not newer than the running build.
ProbedOld == \A s \in probed : ~Newer(ver, disk[s].says)

\* What is about to be installed is newer than the running build.
Upward == pc \in {"dialog", "download"} => Newer(ver, target)

\* The last answer the machine received is in one of the two files that keep it.
IntentKept ==
  /\ heard # "unset" => org.auto # "unset"
  /\ ~May("cacheFails") => cache.auto \in {"none", "unset", heard}
  /\ heard # "unset" /\ ~May("mirrorFails") => mirror.auto = heard
  /\ heard # "unset" /\ ~May("cacheFails") /\ ~May("cacheLost") /\ ~May("silent")
     => cache.auto = heard

\* Without an org there is no pin.
NoPins == ~May("org") => /\ org = Unstated /\ mirror = NoAnswer
                         /\ cache \in {NoAnswer, Unstated} /\ mem.pin = 0

\* The one version remembered is the newest that was offered, and where neither a
\* withdrawal nor a pin goes back, a release that is about to be offered is no older.
AskedNewest ==
  ~May("yank") /\ ~May("org") =>
    /\ \A v \in offered : v <= asked
    /\ asked <= top
    /\ pc = "gate" => asked <= target /\ target <= top
    /\ ~reoffered

\* On one path the file there runs as what it says, and never as an older build.
FileForward ==
  OnePath => /\ self = "own" /\ cmd = NoUpdate
             /\ disk["own"].says = disk["own"].runs /\ ver <= disk["own"].runs

\* The daemon has caught up with its own path; the file there runs as what it says.
Current == ~Newer(ver, disk["own"].says)
Honest  == disk["own"].runs >= disk["own"].says
Both    == {t.slot : t \in tried.targets} = Slots

\* The targets tried since the last cooldown are files that are still there.  The
\* guard names the last of them, and another can only be one that the daemon does
\* not come to again.
Guarding ==
  /\ ~tried.twice
  /\ \A t \in tried.targets : t.says = disk[t.slot].says
  /\ tried.targets # {} =>
       /\ cooling /\ guard \in tried.targets
       /\ guard.slot = "own" => /\ self = "own" /\ (Current => Honest)
                                /\ Both => ~Current /\ ~Honest
       /\ guard.slot = "managed" => /\ Both => Honest
                                    /\ self = "own" /\ Honest => Current

Inv == /\ TypeOK /\ Files /\ Newest /\ ProbedOld /\ Upward
       /\ IntentKept /\ NoPins /\ AskedNewest /\ FileForward /\ Guarding

-----------------------------------------------------------------------------
(* Releases and files.                                                      *)

\* The well-founded order of the naturals, without its operator parameter.
LEMMA LeastElement ==
  ASSUME NEW S \in SUBSET Nat, S # {}
  PROVE  \E p \in S : \A q \in S : p <= q
<1> DEFINE R == {ss \in Nat \X Nat : ss[1] < ss[2]}
<1>1. IsWellFoundedOn(R, Nat) BY NatLessThanWellFounded DEF OpToRel
<1>2. \A p, q \in Nat : q < p => <<q, p>> \in R
  <2> SUFFICES ASSUME NEW p \in Nat, NEW q \in Nat, q < p PROVE <<q, p>> \in R
    OBVIOUS
  <2>1. <<q, p>> \in Nat \X Nat OBVIOUS
  <2>2. <<q, p>>[1] = q /\ <<q, p>>[2] = p OBVIOUS
  <2> QED BY <2>1, <2>2
<1> HIDE DEF R
<1>3. PICK p \in S : \A q \in S : ~(<<q, p>> \in R) BY <1>1, WFMin
<1>4. \A q \in S : ~(q < p) BY <1>2, <1>3
<1> QED BY <1>4

\* The newest release exists.
LEMMA LatestNewest ==
  ASSUME TypeOK
  PROVE  Latest \in releases /\ \A w \in releases : w <= Latest
<1>1. MaxVersion \in Nat /\ releases \subseteq 1..MaxVersion /\ releases # {}
  BY UpdateAssumption DEF TypeOK, Version
<1>2. \A v \in releases : v \in Nat /\ MaxVersion - v \in Nat BY <1>1
<1> DEFINE gaps == {MaxVersion - v : v \in releases}
<1>3. gaps \in SUBSET Nat /\ gaps # {}
  <2>1. gaps \subseteq Nat BY <1>2
  <2> QED BY <1>1, <2>1
<1>4. PICK n \in gaps : \A m \in gaps : n <= m BY <1>3, LeastElement
<1>5. PICK v \in releases : n = MaxVersion - v BY <1>4
<1>6. \A w \in releases : w <= v
  <2> SUFFICES ASSUME NEW w \in releases PROVE w <= v
    OBVIOUS
  <2>1. MaxVersion - w \in gaps OBVIOUS
  <2>2. MaxVersion - v <= MaxVersion - w BY <1>4, <1>5, <2>1
  <2> QED BY <1>1, <1>2, <2>2
<1> QED BY <1>6 DEF Latest

\* What the policy yields.
LEMMA ResolvedType ==
  ASSUME NEW c \in Answer \cup {NoAnswer}, NEW m \in Answer \cup {NoAnswer}
  PROVE  Resolved(c, m) \in [auto : BOOLEAN, known : BOOLEAN, pin : 0..MaxVersion]
<1>1. c.pin \in 0..MaxVersion /\ m.pin \in 0..MaxVersion
  BY UpdateAssumption DEF Answer, NoAnswer
<1>2. (IF c.pin = 0 THEN m.pin ELSE c.pin) \in 0..MaxVersion BY <1>1
<1> QED BY <1>2 DEF Resolved

-----------------------------------------------------------------------------
(* Types and files.                                                         *)

\* A process that begins from a file that exists.
LEMMA BeginTypes ==
  ASSUME TypeOK, Files, NEW s \in Slots, Begin(s), disk[s].says > 0, UNCHANGED disk
  PROVE  /\ ver' \in Version /\ self' \in Slots /\ pc' = "catch" /\ due' \in BOOLEAN
         /\ mem' \in [auto : BOOLEAN, known : BOOLEAN, pin : 0..MaxVersion]
         /\ target' \in 0..MaxVersion /\ probed' \subseteq Slots
         /\ Files'
<1>1. disk[s].runs \in 1..MaxVersion BY UpdateAssumption DEF TypeOK, Files
<1>2. Resolved(cache, mirror) \in [auto : BOOLEAN, known : BOOLEAN, pin : 0..MaxVersion]
  BY ResolvedType DEF TypeOK
<1> QED BY <1>1, <1>2, UpdateAssumption DEF Begin, Files, Version

\* What the policy's steps leave behind.
LEMMA RecordedTypes ==
  ASSUME TypeOK, NEW a \in Answer, Recorded(a)
  PROVE  /\ mirror' \in Answer \cup {NoAnswer} /\ cache' \in Answer \cup {NoAnswer}
         /\ heard' \in {"unset", "on", "off"}
BY DEF TypeOK, Recorded, Answer

LEMMA UnstatedType == Unstated \in Answer
BY UpdateAssumption DEF Unstated, Answer, NoAnswer

LEMMA AnswersTyped ==
  ASSUME TypeOK
  PROVE  Answers \subseteq Answer
BY UnstatedType DEF TypeOK, Answers

\* A file that is written.
LEMMA WrittenTypes ==
  ASSUME TypeOK, Files, NEW s \in Slots, NEW f \in [says : Version, runs : Version],
         Written(s, f), UNCHANGED self
  PROVE  /\ disk' \in [Slots -> [says : 0..MaxVersion, runs : 0..MaxVersion]]
         /\ probed' \subseteq Slots
         /\ tried' \in [targets : SUBSET [slot : Slots, says : Version], twice : BOOLEAN]
         /\ Files'
<1>1. f \in [says : 0..MaxVersion, runs : 0..MaxVersion] /\ f.says > 0 /\ f.runs > 0
  BY UpdateAssumption DEF Version
<1>2. disk' = [disk EXCEPT ![s] = f] BY DEF Written
<1>3. \A r \in Slots : disk'[r] = IF r = s THEN f ELSE disk[r] BY <1>2 DEF TypeOK
<1>4. "own" \in Slots /\ self \in Slots BY DEF TypeOK, Slots
<1>5. Files' BY <1>1, <1>3, <1>4 DEF Files
<1> QED BY <1>1, <1>2, <1>5 DEF TypeOK, Written

LEMMA BuildTyped == \A v \in Version : Build(v) \in [says : Version, runs : Version]
BY DEF Build

\* A catch-up target is a file, and the guard names it.
LEMMA CatchTyped ==
  ASSUME TypeOK, NEW s \in Candidates, CatchTarget(s)
  PROVE  s \in Slots /\ disk[s].says \in Version /\ disk[s].says > ver /\ disk[s].says > 0
<1>1. s \in Slots BY DEF TypeOK, Candidates, Slots
<1>2. disk[s].says \in 0..MaxVersion /\ ver \in Version /\ disk[s].says > ver
  BY <1>1 DEF TypeOK, CatchTarget, Interesting, Newer
<1> QED BY <1>1, <1>2, UpdateAssumption DEF Version

LEMMA ProbedTyped ==
  ASSUME TypeOK
  PROVE  Candidates \subseteq Slots /\ Probed \subseteq Slots
BY DEF TypeOK, Candidates, Probed, Slots

LEMMA GuardTyped ==
  ASSUME TypeOK, NEW s \in Candidates, CatchTarget(s), Guarded(s)
  PROVE  /\ guard' \in [slot : Slots, says : 0..MaxVersion] /\ cooling' \in BOOLEAN
         /\ tried' \in [targets : SUBSET [slot : Slots, says : Version], twice : BOOLEAN]
BY CatchTyped, UpdateAssumption DEF TypeOK, Guarded, Version

LEMMA EventTyped ==
  ASSUME TypeOK, NEW c, Event(c)
  PROVE  events' \in 0..env.events
BY UpdateAssumption DEF TypeOK, EnvironmentType, Event

LEMMA TypeStep ==
  ASSUME TypeOK, Files, Next
  PROVE  TypeOK' /\ Files'
<1> USE DEF worldVars, policyVars, fileVars, procVars, histVars, Go
<1>0. MaxVersion \in Nat /\ env.events \in Nat /\ 0 \in 0..MaxVersion
      /\ Version \subseteq 0..MaxVersion /\ releases \subseteq Version
      /\ ver \in Version /\ mem.pin \in 0..MaxVersion
  BY UpdateAssumption DEF TypeOK, EnvironmentType, Version
<1>1. CASE Launch
  <2>1. "own" \in Slots /\ disk["own"].says > 0 /\ Begin("own") /\ UNCHANGED disk
    BY <1>1 DEF Launch, Slots, Files
  <2> QED BY <1>1, <2>1, BeginTypes DEF Launch, TypeOK
<1>2. CASE Refresh
  <2>1. PICK a \in Answers : mem' = Resolved(a, NoAnswer) /\ Recorded(a) BY <1>2 DEF Refresh
  <2>2. a \in Answer BY AnswersTyped
  <2>3. mem' \in [auto : BOOLEAN, known : BOOLEAN, pin : 0..MaxVersion]
    BY <2>1, <2>2, ResolvedType
  <2> QED BY <1>2, <2>1, <2>2, <2>3, RecordedTypes DEF Refresh, TypeOK, Files
<1>3. CASE CatchNothing
  <2>1. probed' \subseteq Slots BY <1>3, ProbedTyped DEF CatchNothing
  <2>2. pc' \in {"check", "idle"} BY <1>3 DEF CatchNothing, Checking
  <2> QED BY <1>3, <2>1, <2>2 DEF CatchNothing, TypeOK, Files
<1>4. CASE CatchUp
  <2>1. PICK s \in Candidates : CatchTarget(s) /\ ~Blocked(s) /\ Guarded(s) /\ Begin(s)
    BY <1>4 DEF CatchUp
  <2>2. s \in Slots /\ disk[s].says > 0 BY <2>1, CatchTyped
  <2> QED BY <1>4, <2>1, <2>2, BeginTypes, GuardTyped DEF CatchUp, TypeOK
<1>5. CASE CatchUpFails
  <2>1. PICK s \in Candidates : CatchTarget(s) /\ ~Blocked(s) /\ Guarded(s)
    BY <1>5 DEF CatchUpFails
  <2>2. /\ guard' \in [slot : Slots, says : 0..MaxVersion] /\ cooling' \in BOOLEAN
        /\ tried' \in [targets : SUBSET [slot : Slots, says : Version], twice : BOOLEAN]
    BY <2>1, GuardTyped
  <2>3. probed' \subseteq Slots BY <1>5, ProbedTyped DEF CatchUpFails
  <2>4. pc' \in {"check", "idle"} BY <1>5 DEF CatchUpFails, Checking
  <2>5. events' \in 0..env.events BY <1>5, EventTyped DEF CatchUpFails
  <2> QED BY <1>5, <2>2, <2>3, <2>4, <2>5 DEF CatchUpFails, TypeOK, Files
<1>6. CASE CheckSkipped \/ FetchFailed \/ GateCloses \/ Declined \/ DownloadFailed
  BY <1>0, <1>6 DEF CheckSkipped, FetchFailed, GateCloses, Declined, DownloadFailed, Done,
                    TypeOK, Files
<1>7. CASE CheckPinned \/ CheckLatest \/ GateOpens \/ Accepted
  <2>1. Stays /\ pc' \in {"gate", "fetch", "download"} /\ target' \in {target, mem.pin} /\ UNCHANGED <<ver, self>>
    BY <1>7 DEF CheckPinned, CheckLatest, GateOpens, Accepted
  <2>2. TypeOK' BY <1>0, <2>1 DEF Stays, TypeOK
  <2>3. Files' BY <2>1 DEF Stays, Files
  <2> QED BY <2>2, <2>3
<1>8. CASE FetchTag
  <2>1. Latest \in 0..MaxVersion BY <1>0, LatestNewest
  <2> QED BY <1>8, <2>1 DEF FetchTag, Stays, TypeOK, Files
<1>9. CASE Ask
  <2>1. target \in Version BY <1>0, <1>9 DEF Ask, Replaceable, Newer, TypeOK, Version
  <2> QED BY <1>0, <1>9, <2>1 DEF Ask, Offer, TypeOK, Files
<1>10. CASE Swap
  <2>1. Build(target) \in [says : Version, runs : Version] /\ self \in Slots
    BY <1>0, <1>10, BuildTyped DEF Swap, TypeOK
  <2> QED BY <1>10, <2>1, WrittenTypes DEF Swap, TypeOK
<1>11. CASE Reexec
  <2>1. self \in Slots /\ disk[self].says > 0 BY DEF TypeOK, Files
  <2> QED BY <1>11, <2>1, BeginTypes DEF Reexec, TypeOK
<1>12. CASE ReexecFails
  <2>1. events' \in 0..env.events BY <1>12, EventTyped DEF ReexecFails
  <2>2. TypeOK' BY <1>0, <1>12, <2>1, ZenonT(30) DEF ReexecFails, TypeOK
  <2>3. Files' BY <1>12 DEF ReexecFails, Files
  <2> QED BY <2>2, <2>3
<1>13. CASE Tick \/ IntervalElapses
  <2>3. ASSUME Tick PROVE TypeOK' BY <2>3, ZenonT(30) DEF Tick, TypeOK
  <2>4. ASSUME IntervalElapses PROVE TypeOK' BY <2>4, ZenonT(30) DEF IntervalElapses, TypeOK
  <2>1. TypeOK' BY <1>13, <2>3, <2>4
  <2>2. Files' BY <1>13 DEF Tick, IntervalElapses, Files
  <2> QED BY <2>1, <2>2
<1>21. CASE CooldownElapses
  <2>1. tried' \in [targets : SUBSET [slot : Slots, says : Version], twice : BOOLEAN]
    BY <1>21 DEF CooldownElapses, TypeOK
  <2>2. /\ cooling' \in BOOLEAN
        /\ UNCHANGED <<worldVars, disk, policyVars, consent, asked, guard, due, procVars, cmd,
                       offered, reoffered>>
    BY <1>21 DEF CooldownElapses
  <2>3. Files' BY <2>2 DEF Files
  <2>4. TypeOK' BY <2>1, <2>2 DEF TypeOK
  <2> QED BY <2>3, <2>4
<1>14. CASE Publish
  BY <1>0, <1>14 DEF Publish, TypeOK, Files, Version
<1>15. CASE Yank
  <2>1. releases \ {Latest} # {}
    <3> SUFFICES ASSUME releases \subseteq {Latest} PROVE FALSE
      OBVIOUS
    <3>4. IsFiniteSet({Latest}) /\ Cardinality({Latest}) = 1 BY FS_Singleton
    <3>1. Cardinality(releases) <= 1 BY <3>4, FS_Subset
    <3>2. IsFiniteSet(releases) BY <3>4, FS_Subset
    <3>3. Cardinality(releases) > 1 /\ Cardinality(releases) \in Nat
      BY <1>15, <3>2, FS_CardinalityType DEF Yank
    <3> QED BY <3>1, <3>3
  <2>2. events' \in 0..env.events BY <1>15, EventTyped DEF Yank
  <2>3. releases' \in (SUBSET Version) \ {{}} BY <1>0, <1>15, <2>1 DEF Yank
  <2>4. UNCHANGED <<env, org, top, disk, policyVars, fileVars, procVars, cmd, histVars>>
    BY <1>15 DEF Yank
  <2> QED BY <2>2, <2>3, <2>4 DEF TypeOK, Files
<1>16. CASE OrgSays \/ CacheLost \/ Decide
  <2>1. events' \in 0..env.events BY <1>16, EventTyped DEF OrgSays, CacheLost, Decide
  <2>2. CASE OrgSays BY <2>1, <2>2 DEF OrgSays, TypeOK, Files
  <2>3. CASE CacheLost BY <2>1, <2>3 DEF CacheLost, TypeOK, Files
  <2>4. CASE Decide BY <2>1, <2>4 DEF Decide, TypeOK, Files
  <2> QED BY <1>16, <2>2, <2>3, <2>4
<1>17. CASE Install
  <2>1. PICK s \in Slots, v \in Version : \E file \in Installed(v) : Written(s, file)
    BY <1>17 DEF Install
  <2>2. PICK file \in Installed(v) : Written(s, file) BY <2>1
  <2>3. file \in [says : Version, runs : Version]
    BY UpdateAssumption, BuildTyped DEF Installed, Version
  <2> QED BY <1>0, <1>17, <2>2, <2>3, WrittenTypes DEF Install, Event, TypeOK
<1>18. CASE Crash
  BY <1>0, <1>18 DEF Crash, Event, TypeOK, Files
<1>19. ASSUME NEW s \in Slots, CheckManual(s) PROVE TypeOK' /\ Files'
  <2>1. PICK a \in Answers \cup {NoAnswer} :
          LET m == IF a = NoAnswer THEN Resolved(cache, mirror) ELSE Resolved(a, NoAnswer)
          IN  /\ IF a = NoAnswer THEN UNCHANGED <<cache, mirror, heard>> ELSE Recorded(a)
              /\ cmd' = IF Installable(s, m) THEN [slot |-> s, to |-> ManualTarget(m)]
                        ELSE NoUpdate
    BY <1>19 DEF CheckManual
  <2> DEFINE m == IF a = NoAnswer THEN Resolved(cache, mirror) ELSE Resolved(a, NoAnswer)
  <2>2. a = NoAnswer \/ a \in Answer BY AnswersTyped
  <2>3. m \in [auto : BOOLEAN, known : BOOLEAN, pin : 0..MaxVersion]
    BY <2>2, ResolvedType DEF TypeOK
  <2>4. ManualTarget(m) \in 0..MaxVersion BY <1>0, <2>3, LatestNewest DEF ManualTarget
  <2> HIDE DEF m
  <2>5. cmd' = NoUpdate \/ cmd' = [slot |-> s, to |-> ManualTarget(m)] BY <2>1 DEF m
  <2>6. cmd' \in [slot : Slots, to : 0..MaxVersion]
    BY <1>0, <2>4, <2>5 DEF NoUpdate, Slots
  <2>7. /\ mirror' \in Answer \cup {NoAnswer} /\ cache' \in Answer \cup {NoAnswer}
        /\ heard' \in {"unset", "on", "off"}
    BY <2>1, <2>2, RecordedTypes DEF TypeOK
  <2> QED BY <1>0, <1>19, <2>6, <2>7 DEF CheckManual, Event, TypeOK, Files
<1>20. CASE ApplyManual
  <2>1. cmd'  \in [slot : Slots, to : 0..MaxVersion] /\ cmd.slot \in Slots
    BY <1>0, <1>20 DEF ApplyManual, NoUpdate, Slots, TypeOK
  <2>2. CASE cmd.to \in releases /\ Written(cmd.slot, Build(cmd.to))
    <3>1. Build(cmd.to) \in [says : Version, runs : Version] BY <1>0, <2>2, BuildTyped
    <3> QED BY <1>20, <2>1, <2>2, <3>1, WrittenTypes DEF ApplyManual, TypeOK
  <2>3. CASE UNCHANGED <<disk, probed, tried>>
    BY <1>20, <2>1, <2>3 DEF ApplyManual, TypeOK, Files
  <2> QED BY <1>20, <2>2, <2>3 DEF ApplyManual
<1> QED BY <1>1, <1>2, <1>3, <1>4, <1>5, <1>6, <1>7, <1>8, <1>9, <1>10, <1>11, <1>12, <1>13,
           <1>14, <1>15, <1>16, <1>17, <1>18, <1>19, <1>20, <1>21
        DEF Next, Catching, CheckSteps, Around

-----------------------------------------------------------------------------
(* The org's answer.                                                        *)

\* How a step treats the policy.
LEMMA PolicySteps ==
  ASSUME Next
  PROVE  /\ UNCHANGED env
         /\ \/ UNCHANGED <<org, mem, cache, mirror, heard>>
            \/ mem' = Resolved(cache, mirror) /\ UNCHANGED <<org, cache, mirror, heard>>
            \/ OrgSays /\ UNCHANGED <<mem, cache, mirror, heard>>
            \/ cache' = NoAnswer /\ May("cacheLost") /\ UNCHANGED <<org, mem, mirror, heard>>
            \/ \E a \in Answers : /\ Recorded(a) /\ UNCHANGED org
                                  /\ mem' \in {mem, Resolved(a, NoAnswer)}
<1> USE DEF worldVars, policyVars, fileVars, procVars, histVars, Go
<1>1. CASE Launch \/ CatchUp \/ Reexec
  BY <1>1 DEF Launch, CatchUp, Reexec, Begin
<1>2. CASE Refresh
  BY <1>2 DEF Refresh
<1>3. CASE OrgSays \/ CacheLost
  BY <1>3 DEF OrgSays, CacheLost, Event
<1>4. ASSUME NEW s \in Slots, CheckManual(s)
      PROVE  /\ UNCHANGED <<env, org, mem>>
             /\ \/ UNCHANGED <<cache, mirror, heard>>
                \/ \E a \in Answers : Recorded(a)
  BY <1>4 DEF CheckManual
<1>5. CASE CatchNothing \/ CatchUpFails \/ CheckSkipped \/ CheckPinned \/ CheckLatest
           \/ FetchTag \/ FetchFailed \/ GateCloses \/ GateOpens \/ Ask \/ Accepted \/ Declined
  BY <1>5 DEF CatchNothing, CatchUpFails, CheckSkipped, CheckPinned, CheckLatest, FetchTag,
              FetchFailed, GateCloses, GateOpens, Ask, Accepted, Declined, Done, Stays
<1>6. CASE DownloadFailed \/ Swap \/ ReexecFails \/ Tick \/ IntervalElapses \/ CooldownElapses
           \/ Publish \/ Yank \/ Install \/ Crash \/ ApplyManual \/ Decide
  BY <1>6 DEF DownloadFailed, Swap, ReexecFails, Tick, IntervalElapses, CooldownElapses,
              Publish, Yank, Install, Crash, ApplyManual, Decide, Done
<1> QED BY <1>1, <1>2, <1>3, <1>4, <1>5, <1>6 DEF Next, Catching, CheckSteps, Around

LEMMA IntentStep ==
  ASSUME TypeOK, IntentKept, Next
  PROVE  IntentKept'
<1>1. May("silent")' = May("silent") /\ May("cacheFails")' = May("cacheFails")
      /\ May("mirrorFails")' = May("mirrorFails") /\ May("cacheLost")' = May("cacheLost")
  BY PolicySteps DEF May
<1>2. CASE UNCHANGED <<org, cache, mirror, heard>>
  BY <1>1, <1>2 DEF IntentKept
<1>3. CASE OrgSays /\ UNCHANGED <<cache, mirror, heard>>
  BY <1>1, <1>3 DEF IntentKept, OrgSays
<1>4. CASE cache' = NoAnswer /\ May("cacheLost") /\ UNCHANGED <<org, mirror, heard>>
  BY <1>1, <1>4 DEF IntentKept, NoAnswer
<1>5. ASSUME NEW a \in Answers, Recorded(a), UNCHANGED org PROVE IntentKept'
  <2>1. /\ a = org \/ (May("silent") /\ a = Unstated)
        /\ Unstated.auto = "unset"
    BY DEF Answers, Unstated
  <2>2. heard' = IF a.auto = "unset" THEN heard ELSE a.auto BY <1>5 DEF Recorded
  <2>3. heard' # "unset" => org.auto # "unset" BY <2>1, <2>2 DEF IntentKept
  <2>4. ~May("cacheFails") => cache' = a BY <1>5 DEF Recorded
  <2>5. ~May("mirrorFails") => mirror' = IF a = Unstated THEN mirror ELSE a
    BY <1>5 DEF Recorded
  <2>6. heard' # "unset" /\ ~May("mirrorFails") => mirror'.auto = heard'
    BY <2>1, <2>2, <2>3, <2>5 DEF IntentKept
  <2>7. ~May("cacheFails") => cache'.auto \in {"none", "unset", heard'} BY <2>2, <2>4
  <2>8. heard' # "unset" /\ ~May("cacheFails") /\ ~May("silent") => cache'.auto = heard'
    BY <2>1, <2>2, <2>3, <2>4
  <2> QED BY <1>1, <1>5, <2>3, <2>6, <2>7, <2>8 DEF IntentKept
<1> QED BY <1>2, <1>3, <1>4, <1>5, PolicySteps

LEMMA NoPinsStep ==
  ASSUME NoPins, Next
  PROVE  NoPins'
<1> SUFFICES ASSUME ~May("org"), org = Unstated, mirror = NoAnswer,
                    cache \in {NoAnswer, Unstated}, mem.pin = 0
             PROVE  /\ org' = Unstated /\ mirror' = NoAnswer
                    /\ cache' \in {NoAnswer, Unstated} /\ mem'.pin = 0
  BY PolicySteps DEF NoPins, May
<1>1. ~OrgSays BY DEF OrgSays, Event
<1>2. \A c \in {NoAnswer, Unstated} : Resolved(c, NoAnswer).pin = 0
  BY DEF Resolved, NoAnswer, Unstated
<1>3. ASSUME NEW a \in Answers, Recorded(a), UNCHANGED org
      PROVE  a = Unstated /\ mirror' = NoAnswer /\ cache' \in {NoAnswer, Unstated}
  BY <1>3 DEF Answers, Recorded
<1> QED BY <1>1, <1>2, <1>3, PolicySteps

\* A process that starts has updates off where off is the last the machine was told.
LEMMA ResolvedKeeps ==
  ASSUME TypeOK, IntentKept, OneFileKept, heard = "off"
  PROVE  ~Resolved(cache, mirror).auto
<1> DEFINE a == IF cache.auto \in {"none", "unset"} /\ mirror # NoAnswer THEN mirror.auto
                ELSE cache.auto
<1>1. a = "off"
  BY DEF IntentKept, OneFileKept, NoAnswer
<1> QED BY <1>1 DEF Resolved

-----------------------------------------------------------------------------
(* Releases and dialogs.                                                    *)

\* How a step treats the releases.
LEMMA ReleaseSteps ==
  ASSUME Next
  PROVE  UNCHANGED <<env, releases, top>> \/ Publish \/ Yank
<1> USE DEF worldVars, policyVars, fileVars, procVars, histVars
<1>1. CASE Launch \/ CatchUp \/ Reexec \/ Refresh \/ OrgSays \/ CacheLost
  BY <1>1 DEF Launch, CatchUp, Reexec, Refresh, OrgSays, CacheLost
<1>2. ASSUME NEW s \in Slots, CheckManual(s) PROVE UNCHANGED <<env, releases, top>>
  BY <1>2 DEF CheckManual
<1>3. CASE CatchNothing \/ CatchUpFails \/ CheckSkipped \/ CheckPinned \/ CheckLatest
           \/ FetchTag \/ FetchFailed \/ GateCloses \/ GateOpens \/ Ask \/ Accepted \/ Declined
  BY <1>3 DEF CatchNothing, CatchUpFails, CheckSkipped, CheckPinned, CheckLatest, FetchTag,
              FetchFailed, GateCloses, GateOpens, Ask, Accepted, Declined, Done, Stays
<1>4. CASE DownloadFailed \/ Swap \/ ReexecFails \/ Tick \/ IntervalElapses \/ CooldownElapses
           \/ Install \/ Crash \/ ApplyManual \/ Decide
  BY <1>4 DEF DownloadFailed, Swap, ReexecFails, Tick, IntervalElapses, CooldownElapses,
              Install, Crash, ApplyManual, Decide, Done
<1> QED BY <1>1, <1>2, <1>3, <1>4 DEF Next, Catching, CheckSteps, Around

LEMMA NewestStep ==
  ASSUME TypeOK, Newest, Next
  PROVE  Newest'
<1> USE DEF worldVars, policyVars, fileVars, procVars, histVars, Go
<1>1. CASE UNCHANGED <<env, releases, top>>
  BY <1>1 DEF Newest, May
<1>2. CASE Publish
  <2>1. releases \subseteq Version /\ top \in Version BY DEF TypeOK
  <2> QED BY <1>2, <2>1, UpdateAssumption DEF Publish, Newest, May, Version
<1>3. CASE Yank
  BY <1>3 DEF Yank, Event, Newest, May
<1> QED BY <1>1, <1>2, <1>3, ReleaseSteps

\* What an append to the dialogs relies on: the newest release is the last published.
LEMMA LatestIsTop ==
  ASSUME TypeOK, Newest, ~May("yank")
  PROVE  Latest = top
<1>1. Latest \in releases /\ \A w \in releases : w <= Latest BY LatestNewest
<1>2. top \in releases /\ Latest <= top BY <1>1 DEF Newest
<1>3. Latest \in Nat /\ top \in Nat BY <1>1, UpdateAssumption DEF TypeOK, Version
<1> QED BY <1>1, <1>2, <1>3

LEMMA AskedStep ==
  ASSUME TypeOK, Newest, NoPins, AskedNewest, Next
  PROVE  AskedNewest'
<1> USE DEF worldVars, policyVars, fileVars, procVars, histVars, Go
<1> SUFFICES ASSUME ~May("yank"), ~May("org"), \A v \in offered : v <= asked, asked <= top,
                    pc = "gate" => asked <= target /\ target <= top, ~reoffered
             PROVE  /\ \A v \in offered' : v <= asked'
                    /\ asked' <= top'
                    /\ pc' = "gate" => asked' <= target' /\ target' <= top'
                    /\ ~reoffered'
  BY PolicySteps DEF AskedNewest, May
<1>1. /\ asked \in Nat /\ top \in Nat /\ target \in Nat /\ \A v \in offered : v \in Nat
  BY UpdateAssumption DEF TypeOK, Version
<1>2. CASE Launch \/ CatchUp \/ Reexec
  BY <1>2 DEF Launch, CatchUp, Reexec, Begin
<1>3. CASE Refresh \/ Swap \/ Tick \/ IntervalElapses \/ CooldownElapses \/ OrgSays \/ CacheLost
           \/ Install \/ Crash \/ ApplyManual \/ Decide \/ Yank
  BY <1>3 DEF Refresh, Swap, Tick, IntervalElapses, CooldownElapses, OrgSays, CacheLost,
              Install, Crash, ApplyManual, Decide, Yank, Event
<1>4. CASE CatchNothing \/ CatchUpFails
  BY <1>4 DEF CatchNothing, CatchUpFails, Checking
<1>5. CASE CheckSkipped \/ FetchFailed \/ GateCloses \/ Declined \/ DownloadFailed \/ ReexecFails
  BY <1>5 DEF CheckSkipped, FetchFailed, GateCloses, Declined, DownloadFailed, Done, ReexecFails
<1>6. CASE CheckPinned
  BY <1>6 DEF CheckPinned, NoPins
<1>7. CASE CheckLatest \/ GateOpens \/ Accepted
  BY <1>7 DEF CheckLatest, GateOpens, Accepted, Stays
<1>8. CASE FetchTag
  <2>1. Latest = top BY LatestIsTop
  <2>2. target' = top /\ UNCHANGED <<asked, top, offered, reoffered>>
    BY <1>8, <2>1 DEF FetchTag, Stays
  <2> QED BY <1>1, <2>2
<1>9. CASE Ask
  <2>1. asked' = target /\ offered' = offered \cup {target} /\ UNCHANGED top
        /\ reoffered' = (reoffered \/ target \in offered) /\ pc' = "dialog"
    BY <1>9 DEF Ask, Offer
  <2>2. asked < target BY <1>1, <1>9 DEF Ask, Asking
  <2>3. target \notin offered BY <1>1, <2>2
  <2>4. pc = "gate" BY <1>9 DEF Ask
  <2>5. \A v \in offered' : v <= asked' BY <1>1, <2>1, <2>2
  <2>6. asked' <= top' /\ ~reoffered' BY <2>1, <2>3, <2>4
  <2> QED BY <2>1, <2>5, <2>6
<1>10. CASE Publish
  BY <1>1, <1>10 DEF Publish
<1>11. ASSUME NEW s \in Slots, CheckManual(s) PROVE UNCHANGED <<offered, asked, top, pc, target, reoffered>>
  BY <1>11 DEF CheckManual, Event
<1> QED BY <1>2, <1>3, <1>4, <1>5, <1>6, <1>7, <1>8, <1>9, <1>10, <1>11
        DEF Next, Catching, CheckSteps, Around

-----------------------------------------------------------------------------
(* Builds on the disk and in the daemon.                                    *)

LEMMA UpwardStep ==
  ASSUME Upward, Next
  PROVE  Upward'
<1> USE DEF worldVars, policyVars, fileVars, procVars, histVars, Go
<1>1. CASE Launch \/ CatchUp \/ Reexec
  BY <1>1 DEF Launch, CatchUp, Reexec, Begin, Upward
<1>2. CASE Refresh \/ OrgSays \/ CacheLost \/ Publish \/ Yank \/ Decide
           \/ Install \/ ApplyManual \/ IntervalElapses \/ CooldownElapses
  BY <1>2 DEF Refresh, OrgSays, CacheLost, Publish, Yank, Decide, Install, ApplyManual,
              IntervalElapses, CooldownElapses, Upward
<1>3. ASSUME NEW s \in Slots, CheckManual(s) PROVE Upward'
  BY <1>3 DEF CheckManual, Upward
<1>4. CASE CatchNothing \/ CatchUpFails \/ CheckSkipped \/ CheckPinned \/ CheckLatest
           \/ FetchTag \/ FetchFailed \/ GateCloses \/ Declined \/ DownloadFailed
           \/ Swap \/ ReexecFails \/ Tick \/ Crash
  BY <1>4 DEF CatchNothing, CatchUpFails, Checking, CheckSkipped, CheckPinned, CheckLatest,
              FetchTag, FetchFailed, GateCloses, Declined, DownloadFailed, Swap, ReexecFails,
              Tick, Crash, Done, Upward
<1>5. CASE GateOpens \/ Ask \/ Accepted
  BY <1>5 DEF GateOpens, Ask, Accepted, Replaceable, Stays, Upward
<1> QED BY <1>1, <1>2, <1>3, <1>4, <1>5 DEF Next, Catching, CheckSteps, Around

\* A step that neither starts a process nor writes a binary.
Keeps == /\ UNCHANGED <<ver, self, disk, guard, cooling, tried>>
         /\ probed' \in {probed, Probed, {}}
         /\ cmd = NoUpdate /\ cmd' # cmd => May("update")

\* A process that begins from the file the daemon was started from, or runs from.
Starts(s) == /\ s \in {"own", self} /\ pc \in {"down", "exec"} /\ Begin(s)
             /\ UNCHANGED <<disk, guard, cooling, tried, cmd>>

\* A file that is written: an update, the update command's, or an installation.
Writes(s, file) ==
  /\ Written(s, file) /\ UNCHANGED <<ver, self, guard, cooling>>
  /\ \/ pc = "download" /\ s = self /\ file = Build(target) /\ UNCHANGED cmd
     \/ cmd # NoUpdate
     \/ /\ env.layout = "same" => s = "own"
        /\ Newer(disk[s].says, file.says) /\ file \in Installed(file.says) /\ UNCHANGED cmd

\* How a step treats the processes and the files they run from.
LEMMA FileSteps ==
  ASSUME TypeOK, Next
  PROVE  /\ UNCHANGED env
         /\ \/ Keeps
            \/ \E s \in Slots : Starts(s)
            \/ CatchUp
            \/ CatchUpFails
            \/ \E s \in Slots, file \in [says : Version, runs : Version] : Writes(s, file)
            \/ CooldownElapses
<1> USE DEF worldVars, policyVars, fileVars, procVars, histVars, Go
<1>0. UNCHANGED env BY PolicySteps
<1>1. CASE Launch
  BY <1>1 DEF Launch, Starts, Slots
<1>2. CASE Reexec
  BY <1>2 DEF Reexec, Starts, TypeOK
<1>3. CASE Refresh \/ OrgSays \/ CacheLost \/ Publish \/ Yank \/ Decide \/ IntervalElapses
  BY <1>3 DEF Refresh, OrgSays, CacheLost, Publish, Yank, Decide, IntervalElapses, Keeps
<1>4. ASSUME NEW s \in Slots, CheckManual(s) PROVE Keeps
  BY <1>4 DEF CheckManual, Event, Keeps
<1>5. CASE CatchNothing \/ CheckSkipped \/ CheckPinned \/ CheckLatest \/ FetchTag
           \/ FetchFailed \/ GateCloses \/ GateOpens \/ Ask \/ Accepted \/ Declined
  BY <1>5 DEF CatchNothing, CheckSkipped, CheckPinned, CheckLatest, FetchTag, FetchFailed,
              GateCloses, GateOpens, Ask, Accepted, Declined, Done, Stays, Keeps
<1>6. CASE DownloadFailed \/ ReexecFails \/ Tick \/ Crash
  BY <1>6 DEF DownloadFailed, ReexecFails, Tick, Crash, Done, Keeps
<1>7. CASE Swap
  <2>1. target \in releases /\ releases \subseteq Version BY <1>7 DEF Swap, TypeOK
  <2>2. Build(target) \in [says : Version, runs : Version] BY <2>1, BuildTyped
  <2>3. self \in Slots /\ Writes(self, Build(target)) BY <1>7 DEF Swap, Writes, TypeOK
  <2> QED BY <1>0, <2>2, <2>3
<1>8. CASE Install
  <2>1. PICK s \in Slots, v \in Version :
          /\ env.layout = "same" => s = "own"
          /\ Newer(disk[s].says, v)
          /\ \E file \in Installed(v) : Written(s, file)
    BY <1>8 DEF Install
  <2>2. PICK file \in Installed(v) : Written(s, file) BY <2>1
  <2>3. file \in [says : Version, runs : Version] /\ file.says = v
    BY UpdateAssumption DEF Installed, Build, Version
  <2>4. Writes(s, file) BY <1>8, <2>1, <2>2, <2>3 DEF Install, Writes
  <2> QED BY <1>0, <2>3, <2>4
<1>9. CASE ApplyManual
  <2>1. CASE cmd.to \in releases /\ Written(cmd.slot, Build(cmd.to))
    <3>1. cmd.slot \in Slots /\ cmd.to \in Version BY <2>1 DEF TypeOK
    <3>2. Build(cmd.to) \in [says : Version, runs : Version] BY <3>1, BuildTyped
    <3>3. Writes(cmd.slot, Build(cmd.to)) BY <1>9, <2>1 DEF ApplyManual, Writes
    <3> QED BY <1>0, <3>1, <3>2, <3>3
  <2>2. CASE UNCHANGED <<disk, probed, tried>>
    BY <1>9, <2>2 DEF ApplyManual, Keeps
  <2> QED BY <1>9, <2>1, <2>2 DEF ApplyManual
<1> QED BY <1>0, <1>1, <1>2, <1>3, <1>4, <1>5, <1>6, <1>7, <1>8, <1>9
        DEF Next, Catching, CheckSteps, Around

LEMMA ProbedStep ==
  ASSUME TypeOK, ProbedOld, Next
  PROVE  ProbedOld'
<1>0. \A s \in Probed : ~Newer(ver, disk[s].says) BY DEF Probed, ProbedOld
<1>1. CASE Keeps
  BY <1>0, <1>1 DEF Keeps, ProbedOld, Newer
<1>2. CASE (\E s \in Slots : Starts(s)) \/ CatchUp
  BY <1>2 DEF Starts, CatchUp, Begin, ProbedOld
<1>3. CASE CatchUpFails
  BY <1>0, <1>3 DEF CatchUpFails, Go, ProbedOld, Newer
<1>4. ASSUME NEW s \in Slots, NEW file, Writes(s, file) PROVE ProbedOld'
  <2>1. /\ probed' = probed \ {s} /\ UNCHANGED ver
        /\ \A r \in Slots \ {s} : disk'[r] = disk[r]
    BY <1>4 DEF Writes, Written, TypeOK
  <2>2. probed \subseteq Slots BY DEF TypeOK
  <2> QED BY <2>1, <2>2 DEF ProbedOld, Newer
<1>5. CASE CooldownElapses
  BY <1>5 DEF CooldownElapses, procVars, ProbedOld, Newer
<1> QED BY <1>1, <1>2, <1>3, <1>4, <1>5, FileSteps

LEMMA ForwardStep ==
  ASSUME TypeOK, Upward, FileForward, Next
  PROVE  FileForward' /\ (OnePath => ver' >= ver)
<1> SUFFICES ASSUME OnePath, self = "own", cmd = NoUpdate, disk["own"].says = disk["own"].runs,
                    ver <= disk["own"].runs
             PROVE  /\ self' = "own" /\ cmd' = NoUpdate /\ disk'["own"].says = disk'["own"].runs
                    /\ ver' <= disk'["own"].runs /\ ver' >= ver
  BY FileSteps DEF FileForward, OnePath, May
<1>0. /\ ver \in Nat /\ "own" \in Slots
      /\ disk["own"].says \in Nat /\ disk["own"].runs \in Nat
  BY UpdateAssumption DEF TypeOK, Version, Slots
<1>1. CASE Keeps
  BY <1>0, <1>1 DEF Keeps, OnePath
<1>2. CASE \E s \in Slots : Starts(s)
  BY <1>0, <1>2 DEF Starts, Begin
<1>3. CASE CatchUp
  BY <1>0, <1>3 DEF CatchUp, Begin, Candidates, OnePath
<1>4. CASE CatchUpFails
  BY <1>0, <1>4 DEF CatchUpFails, Go
<1>5. ASSUME NEW s \in Slots, NEW file \in [says : Version, runs : Version], Writes(s, file)
      PROVE  /\ self' = "own" /\ cmd' = NoUpdate /\ disk'["own"].says = disk'["own"].runs
             /\ ver' <= disk'["own"].runs /\ ver' >= ver
  <2>1. s = "own" /\ cmd' = NoUpdate BY <1>5 DEF Writes, OnePath
  <2>2. UNCHANGED <<ver, self>> /\ disk'["own"] = file
    BY <1>5, <2>1 DEF Writes, Written, TypeOK
  <2>3. file.says = file.runs BY <1>5 DEF Writes, OnePath, Installed, Build
  <2>4. file.runs >= ver
    <3>1. file.runs \in Nat BY UpdateAssumption DEF Version
    <3>2. CASE pc = "download" /\ file = Build(target)
      BY <1>0, <3>1, <3>2 DEF Upward, Newer, Build
    <3>3. CASE Newer(disk[s].says, file.says)
      BY <1>0, <2>1, <2>3, <3>1, <3>3 DEF Newer
    <3> QED BY <1>5, <3>2, <3>3 DEF Writes
  <2> QED BY <1>0, <2>1, <2>2, <2>3, <2>4
<1>6. CASE CooldownElapses
  BY <1>0, <1>6 DEF CooldownElapses, procVars
<1> QED BY <1>1, <1>2, <1>3, <1>4, <1>5, <1>6, FileSteps

\* A file that a catch-up starts has not been tried since the last cooldown: the one the
\* guard names is blocked, and any other has been left behind.
LEMMA Untried ==
  ASSUME TypeOK, ProbedOld, Guarding,
         NEW s \in Candidates, CatchTarget(s), ~Blocked(s)
  PROVE  /\ [slot |-> s, says |-> disk[s].says] \notin tried.targets
         /\ s = "own" => self = "own" /\ ~Current
         /\ s = "managed" => self = "managed" \/ Current
         /\ tried.targets # {} => guard.slot # s
<1>1. s \in Slots /\ self \in Slots /\ "own" \in Slots BY CatchTyped DEF TypeOK, Slots
<1>2. s = "own" => self = "own" BY DEF Candidates, Slots
<1>3. Interesting(s) /\ (s = self \/ ~Interesting(self)) BY DEF CatchTarget, Reached
<1>4. s = "own" => ~Current BY <1>3 DEF Interesting, Current
<1>5. s = "managed" /\ self = "own" => Current
  BY <1>3 DEF Interesting, Current, Candidates, ProbedOld
<1>6. tried.targets # {} => guard.slot # s
  <2> SUFFICES ASSUME tried.targets # {}, guard.slot = s PROVE FALSE
    OBVIOUS
  <2>1. cooling /\ guard \in tried.targets BY DEF Guarding
  <2>2. guard.says = disk[s].says BY <2>1 DEF Guarding
  <2>3. guard = [slot |-> s, says |-> disk[s].says] BY <2>2 DEF TypeOK
  <2> QED BY <2>1, <2>3 DEF Blocked
<1>7. [slot |-> s, says |-> disk[s].says] \notin tried.targets
  <2> SUFFICES ASSUME [slot |-> s, says |-> disk[s].says] \in tried.targets PROVE FALSE
    OBVIOUS
  <2>1. guard \in tried.targets /\ guard.slot # s BY <1>6 DEF Guarding
  <2>2. guard.slot \in Slots BY DEF TypeOK
  <2>3. s \in {t.slot : t \in tried.targets} /\ guard.slot \in {t.slot : t \in tried.targets}
    BY <2>1
  <2>4. {t.slot : t \in tried.targets} \subseteq Slots BY DEF TypeOK
  <2>5. Both BY <1>1, <2>1, <2>2, <2>3, <2>4 DEF Both, Slots
  <2>6. CASE s = "own"
    <3>1. guard.slot = "managed" BY <2>1, <2>2, <2>6 DEF Slots
    <3> QED BY <1>2, <1>4, <2>1, <2>5, <2>6, <3>1 DEF Guarding
  <2>7. CASE s = "managed"
    <3>1. guard.slot = "own" BY <2>1, <2>2, <2>7 DEF Slots
    <3> QED BY <1>5, <2>1, <2>5, <2>7, <3>1 DEF Guarding
  <2> QED BY <1>1, <2>6, <2>7 DEF Slots
<1> QED BY <1>1, <1>2, <1>4, <1>5, <1>6, <1>7 DEF Slots

\* What the guard then says.
LEMMA GuardNames ==
  ASSUME TypeOK, ProbedOld, Guarding, UNCHANGED disk,
         NEW s \in Candidates, CatchTarget(s), ~Blocked(s), Guarded(s)
  PROVE  /\ ~tried'.twice /\ \A t \in tried'.targets : t.says = disk'[t.slot].says
         /\ cooling' /\ guard' \in tried'.targets /\ guard'.slot = s
         /\ s = "own"     => (Both' => ~Honest)
         /\ s = "managed" => (Both' => Honest)
<1> DEFINE t == [slot |-> s, says |-> disk[s].says]
<1>1. guard' = t /\ cooling' = TRUE /\ tried'.targets = tried.targets \cup {t}
      /\ tried'.twice = (tried.twice \/ t \in tried.targets)
  BY DEF Guarded
<1>2. ~tried'.twice BY <1>1, Untried DEF Guarding
<1>3. \A u \in tried'.targets : u.says = disk'[u.slot].says BY <1>1 DEF Guarding
<1>4. s \in Slots BY CatchTyped
<1>5. ASSUME Both' PROVE guard.slot # s /\ guard.slot \in Slots /\ tried.targets # {}
  <2>1. PICK r \in Slots : r # s BY <1>4 DEF Slots
  <2>2. r \in {u.slot : u \in tried'.targets} BY <1>5, <2>1 DEF Both
  <2>3. PICK u \in tried'.targets : u.slot = r BY <2>2
  <2>4. u # t BY <2>1, <2>3
  <2>5. tried.targets # {} BY <1>1, <2>4
  <2> QED BY <2>5, Untried DEF TypeOK
<1>6. s = "own" => (Both' => ~Honest)
  BY <1>5, Untried DEF Guarding, Slots
<1>7. s = "managed" => (Both' => Honest)
  <2> SUFFICES ASSUME s = "managed", Both' PROVE Honest
    OBVIOUS
  <2>1. guard.slot = "own" /\ tried.targets # {} BY <1>5 DEF Slots
  <2>2. self = "own" /\ (Current => Honest) BY <2>1 DEF Guarding
  <2> QED BY <2>2, Untried
<1> QED BY <1>1, <1>2, <1>3, <1>6, <1>7

\* A process that begins from its own path has caught up with it where it is honest.
LEMMA BeginCurrent ==
  ASSUME TypeOK, NEW s \in Slots, Begin(s), UNCHANGED disk
  PROVE  /\ self' = s /\ (s = "own" => (Current' <=> Honest))
         /\ Honest' = Honest
<1>1. "own" \in Slots BY DEF Slots
<1>2. disk["own"].says \in Nat /\ disk["own"].runs \in Nat BY <1>1, UpdateAssumption DEF TypeOK
<1> QED BY <1>2 DEF Begin, Current, Honest, Newer

LEMMA GuardStep ==
  ASSUME TypeOK, ProbedOld, Guarding, Next
  PROVE  Guarding'
<1>1. CASE Keeps
  BY <1>1 DEF Keeps, Guarding, Both, Honest, Current, Newer
<1>2. ASSUME NEW s \in Slots, Starts(s) PROVE Guarding'
  <2>1. UNCHANGED <<disk, guard, cooling, tried>> /\ Begin(s) /\ s \in {"own", self}
    BY <1>2 DEF Starts
  <2>2. self' = s /\ (s = "own" => (Current' <=> Honest)) /\ Honest' = Honest
    BY <2>1, BeginCurrent
  <2>3. Both' = Both BY <2>1 DEF Both
  <2>4. ~tried'.twice /\ \A t \in tried'.targets : t.says = disk'[t.slot].says
    BY <2>1 DEF Guarding
  <2>5. ASSUME tried'.targets # {}, guard'.slot = "own"
        PROVE  self' = "own" /\ (Current' => Honest') /\ (Both' => ~Current' /\ ~Honest')
    BY <2>1, <2>2, <2>3, <2>5 DEF Guarding
  <2>6. ASSUME tried'.targets # {}, guard'.slot = "managed"
        PROVE  (Both' => Honest') /\ (self' = "own" /\ Honest' => Current')
    BY <2>1, <2>2, <2>3, <2>6 DEF Guarding
  <2> QED BY <2>1, <2>4, <2>5, <2>6 DEF Guarding
<1>3. ASSUME NEW s \in Candidates, CatchTarget(s), ~Blocked(s), Guarded(s), UNCHANGED disk,
             \/ Begin(s)
             \/ UNCHANGED <<ver, self>>
      PROVE  Guarding'
  <2>0. s \in Slots BY <1>3, CatchTyped
  <2>1. /\ ~tried'.twice /\ \A t \in tried'.targets : t.says = disk'[t.slot].says
        /\ cooling' /\ guard' \in tried'.targets /\ guard'.slot = s
        /\ s = "own"     => (Both' => ~Honest)
        /\ s = "managed" => (Both' => Honest)
    BY <1>3, GuardNames
  <2>2. /\ s = "own" => self = "own" /\ ~Current
        /\ s = "managed" => self = "managed" \/ Current
    BY <1>3, Untried
  <2>3. Honest' = Honest BY <1>3 DEF Honest
  <2>4. CASE Begin(s)
    <3>1. self' = s /\ (s = "own" => (Current' <=> Honest)) BY <1>3, <2>0, <2>4, BeginCurrent
    <3>2. s = "own" => /\ self' = "own" /\ (Current' => Honest')
                       /\ Both' => ~Current' /\ ~Honest'
      BY <2>1, <2>3, <3>1
    <3>3. s = "managed" => /\ Both' => Honest'
                           /\ self' = "own" /\ Honest' => Current'
      BY <2>1, <2>3, <3>1
    <3> QED BY <2>1, <3>2, <3>3 DEF Guarding
  <2>5. CASE UNCHANGED <<ver, self>>
    <3>1. Current' = Current BY <1>3, <2>5 DEF Current, Newer
    <3>2. s = "own" => /\ self' = "own" /\ (Current' => Honest')
                       /\ Both' => ~Current' /\ ~Honest'
      BY <2>1, <2>2, <2>3, <2>5, <3>1
    <3>3. s = "managed" => /\ Both' => Honest'
                           /\ self' = "own" /\ Honest' => Current'
      BY <2>1, <2>2, <2>3, <2>5, <3>1
    <3> QED BY <2>1, <3>2, <3>3 DEF Guarding
  <2> QED BY <1>3, <2>4, <2>5
<1>4. CASE CatchUp
  BY <1>3, <1>4 DEF CatchUp
<1>5. CASE CatchUpFails
  BY <1>3, <1>5 DEF CatchUpFails, Go
<1>6. CASE (\E s \in Slots, file \in [says : Version, runs : Version] : Writes(s, file))
           \/ CooldownElapses
  <2>1. tried'.targets = {} /\ tried'.twice = tried.twice
    BY <1>6 DEF Writes, Written, CooldownElapses, TypeOK
  <2> QED BY <2>1 DEF Guarding
<1> QED BY <1>1, <1>2, <1>4, <1>5, <1>6, FileSteps

-----------------------------------------------------------------------------
(* The theorems.                                                            *)

\* Only a start leads from a process that is down, or about to be replaced, to a catch-up.
LEMMA RestartSteps ==
  ASSUME Next, pc \in {"down", "exec"}, pc' = "catch"
  PROVE  Launch \/ Reexec
<1> USE DEF worldVars, policyVars, fileVars, procVars, histVars, Go
<1>1. ~(Catching \/ Tick)
  BY DEF Catching, CatchNothing, CatchUp, CatchUpFails, Tick
<1>2. ASSUME CheckSteps PROVE Reexec
  BY <1>2 DEF CheckSteps, CheckSkipped, CheckPinned, CheckLatest, FetchTag, FetchFailed,
              GateCloses, GateOpens, Ask, Accepted, Declined, DownloadFailed, Swap, ReexecFails
<1>3. ~(Refresh \/ IntervalElapses \/ CooldownElapses)
  BY DEF Refresh, IntervalElapses, CooldownElapses
<1>4. ~Around
  BY DEF Around, Publish, Yank, OrgSays, CacheLost, Install, Crash, CheckManual, ApplyManual,
         Decide
<1> QED BY <1>1, <1>2, <1>3, <1>4 DEF Next

LEMMA InvInit == Init => Inv
<1> SUFFICES ASSUME Init PROVE Inv
  OBVIOUS
<1>0. MaxVersion \in Nat \ {0} /\ env \in Environments /\ env \in EnvironmentType
  BY UpdateAssumption DEF Init
<1>1. TypeOK
  <2>1. 1 \in Version /\ 0 \in 0..MaxVersion /\ 1 \in 0..MaxVersion BY <1>0 DEF Version
  <2>2. disk \in [Slots -> [says : 0..MaxVersion, runs : 0..MaxVersion]]
    BY <2>1 DEF Init, NoFile, Build
  <2>3. mem \in [auto : BOOLEAN, known : BOOLEAN, pin : 0..MaxVersion]
    BY ResolvedType DEF Init
  <2>4. 0 \in 0..env.events BY <1>0 DEF EnvironmentType
  <2>5. /\ guard \in [slot : Slots, says : 0..MaxVersion]
        /\ cmd \in [slot : Slots, to : 0..MaxVersion]
        /\ tried \in [targets : SUBSET [slot : Slots, says : Version], twice : BOOLEAN]
    BY <2>1 DEF Init, NoGuard, NoUpdate, Slots
  <2>6. org \in Answer /\ self \in Slots /\ releases \in (SUBSET Version) \ {{}}
    BY <2>1, UnstatedType DEF Init, Slots
  <2> QED BY <2>1, <2>2, <2>3, <2>4, <2>5, <2>6 DEF Init, TypeOK
<1>2. Files
  <2>1. "own" \in Slots /\ Build(1).says = 1 BY DEF Slots, Build
  <2>2. \A s \in Slots : disk[s] \in {NoFile, Build(1)} BY DEF Init
  <2> QED BY <2>1, <2>2 DEF Init, Files, NoFile, Build
<1>3. Newest /\ ProbedOld /\ Upward /\ Guarding
  BY DEF Init, Newest, ProbedOld, Upward, Guarding
<1>4. IntentKept /\ NoPins
  BY DEF Init, IntentKept, NoPins, NoAnswer, Resolved
<1>5. AskedNewest BY DEF Init, AskedNewest
<1>6. FileForward
  BY DEF Init, FileForward, Build
<1> QED BY <1>1, <1>2, <1>3, <1>4, <1>5, <1>6 DEF Inv

LEMMA InvNext == Inv /\ [Next]_vars => Inv'
<1> SUFFICES ASSUME Inv, [Next]_vars PROVE Inv'
  OBVIOUS
<1>1. CASE Next
  BY <1>1, TypeStep, NewestStep, ProbedStep, UpwardStep, IntentStep, NoPinsStep, AskedStep,
     ForwardStep, GuardStep DEF Inv
<1>2. CASE UNCHANGED vars
  <2> USE <1>2 DEF vars, worldVars, policyVars, fileVars, procVars, histVars
  <2>1. TypeOK' BY DEF Inv, TypeOK
  <2>2. (Files /\ Newest /\ ProbedOld /\ Upward)'
    BY DEF Inv, Files, Newest, ProbedOld, Upward, May, Newer
  <2>3. (IntentKept /\ NoPins /\ AskedNewest)' BY DEF Inv, IntentKept, NoPins, AskedNewest, May
  <2>4. FileForward' BY DEF Inv, FileForward, OnePath, May
  <2>5. Guarding' BY DEF Inv, Guarding, Both, Honest, Current, Newer
  <2> QED BY <2>1, <2>2, <2>3, <2>4, <2>5 DEF Inv
<1> QED BY <1>1, <1>2

LEMMA InvAlways == Spec => []Inv
BY InvInit, InvNext, PTL DEF Spec

\* Every variable keeps its type, whatever happens around the daemon.
THEOREM TypeCorrect == Spec => []TypeOK
<1>1. Inv => TypeOK BY DEF Inv
<1> QED BY <1>1, InvAlways, PTL

\* Neither a dialog nor a restart is repeated: no release is offered twice, and no file is
\* exec'ed a second time before its cooldown has passed or another has been installed
\* (runAutoUpdate, catchUpToDisk).
THEOREM NothingRepeated == Spec => []NoRepeats
<1>1. Inv => NoRepeats BY DEF Inv, NoRepeats, AskedOnce, NoRestartLoop, AskedNewest, Guarding
<1> QED BY <1>1, InvAlways, PTL

\* A daemon that starts keeps to the last answer of the org, with one of the two files that
\* hold it lost or out of date (NewResolver).
THEOREM IntentSurvives == Spec => RestartKeepsIntent
<1>1. Inv /\ [Next]_vars
      => [OneFileKept /\ heard = "off" /\ pc \in {"down", "exec"} /\ pc' = "catch"
          => ~mem'.auto]_vars
  <2> SUFFICES ASSUME Inv, Next, OneFileKept, heard = "off", pc \in {"down", "exec"},
                      pc' = "catch"
               PROVE  ~mem'.auto
    OBVIOUS
  <2>1. Launch \/ Reexec BY RestartSteps
  <2>2. mem' = Resolved(cache, mirror) BY <2>1 DEF Launch, Reexec, Begin
  <2> QED BY <2>2, ResolvedKeeps DEF Inv
<1> QED BY <1>1, InvAlways, PTL DEF Spec, RestartKeepsIntent

\* One path never comes to run an older build, by an update, a catch-up or a restart.
THEOREM NeverBackward == Spec => RunsForward
<1>1. Inv /\ [Next]_vars => [OnePath => ver' >= ver]_vars
  BY ForwardStep DEF Inv
<1> QED BY <1>1, InvAlways, PTL DEF Spec, RunsForward

=============================================================================
