----------------------------- MODULE SelfUpdate -----------------------------
(***************************************************************************)
(* How a running daemon moves to another build: the check for a release    *)
(* (internal/selfupdate/selfupdate.go), the catch-up to a newer binary on  *)
(* disk (ondisk.go), the answers it needs (consent.go, asked.go), the      *)
(* org's policy with its cache and its mirror (internal/policy), and the   *)
(* update command beside it (manual.go, internal/cli/cmd_update.go).       *)
(*                                                                         *)
(* Versions are numbers.  A file says a version when it is asked for it    *)
(* and runs as a version; the two differ only where a wrapper or a stale   *)
(* link answers for something else.  Downloads and signatures are a step   *)
(* that fails or yields the release's binary.                              *)
(***************************************************************************)
EXTENDS Integers, FiniteSets

CONSTANTS
  MaxVersion,    \* bound on versions
  Environments   \* what a behaviour may meet, and its bound

ConditionKinds ==
  { "org",         \* the org states and changes its policy
    "silent",      \* the backend answers with neither autoUpdate nor a pin
    "cacheLost",   \* teams-policy.json is deleted or damaged
    "cacheFails",  \* it cannot be written
    "mirrorFails", \* update-intent.json cannot be written
    "network",     \* a request to the release host, or a download, fails
    "yank",        \* the newest release is deleted
    "execFails",   \* exec returns
    "misreport",   \* a file says a version it does not run as
    "readonly",    \* the directory the daemon was started from is not writable
    "installer",   \* somebody else puts newer binaries on the disk
    "update",      \* the engineer runs the update command
    "decide",      \* the engineer changes the stored answer
    "optOut",      \* --no-auto-update
    "crash" }      \* the daemon dies, and is started again

Version == 1..MaxVersion

\* The binary the daemon is started from, and the managed path.  In layout "same"
\* the first is the managed path, in "project" a lockfile pins it.
Slots == {"own", "managed"}
Layouts == {"same", "apart", "project"}

EnvironmentType == [may : SUBSET ConditionKinds, layout : Layouts, events : Nat]

ASSUME UpdateAssumption ==
  /\ MaxVersion \in Nat \ {0}
  /\ \A e \in Environments : e \in EnvironmentType

VARIABLES
  env,      \* one of Environments
  events,   \* what has happened around the daemon, at most env.events
  org,      \* what the backend answers: autoUpdate and the pin
  releases, \* the releases that can be downloaded
  top,      \* the newest release there has been
  disk,     \* disk[s]: the file in slot s
  \* Files of the state directory.
  cache, mirror,  \* teams-policy.json, update-intent.json
  consent, asked, \* auto-update-consent.json, update-asked.json
  guard,          \* last-catchup: slot and version
  cooling,        \* its age is below catchupCooldown
  due,            \* last-update-check is older than checkInterval
  \* The daemon.
  pc, ver, self,  \* where its update goroutine stands, its build, the slot of its file
  mem,            \* the Resolver: auto, known, pin
  target,         \* what checkAndApply is about to install
  probed,         \* slots whose present file was not newer when it was asked
  \* The update command.
  cmd,            \* what it is about to install where, or NoUpdate
  \* History.
  heard,    \* the last explicit autoUpdate this machine received
  offered,  \* versions a dialog has offered
  reoffered,
  tried     \* catch-up targets since the last cooldown or installation; did one come twice

worldVars  == <<env, events, org, releases, top>>
policyVars == <<mem, cache, mirror, heard>>
fileVars   == <<consent, asked, guard, cooling, due>>
procVars   == <<pc, ver, self, target, probed>>
histVars   == <<offered, reoffered, tried>>
vars       == <<worldVars, disk, policyVars, fileVars, procVars, cmd, histVars>>

May(c) == c \in env.may

\* At most env.events of these.
Event(c) == May(c) /\ events < env.events /\ events' = events + 1

Build(v) == [says |-> v, runs |-> v]
NoFile   == Build(0)
NoUpdate == [slot |-> "own", to |-> 0]
NoGuard  == [slot |-> "own", says |-> 0]

\* autoUpdate is "unset" where the answer omits it; pin 0 is no pin.
Unstated == [auto |-> "unset", pin |-> 0]
Answer   == [auto : {"unset", "on", "off"}, pin : 0..MaxVersion]
NoAnswer == [auto |-> "none", pin |-> 0]

Newer(a, b) == b > a        \* IsNewer

-----------------------------------------------------------------------------
(* The policy.                                                              *)

\* Mutant: a lost cache means that nothing was ever stated.
CacheOnly(c, m) ==
  LET a == IF c = NoAnswer THEN Unstated ELSE c
  IN  [auto |-> a.auto # "off", known |-> a.auto # "unset", pin |-> a.pin]

\* NewResolver: the mirror speaks where the cache is silent.
Resolved(c, m) ==
  LET a == IF c.auto \in {"none", "unset"} /\ m # NoAnswer THEN m.auto ELSE c.auto
  IN  [auto  |-> a # "off",
       known |-> a \in {"on", "off"},
       pin   |-> IF c.pin = 0 THEN m.pin ELSE c.pin]

Answers == {org} \cup (IF May("silent") THEN {Unstated} ELSE {})

\* The mirror is written first, and never by an answer that states nothing.
Recorded(a) ==
  /\ mirror' \in (IF a = Unstated THEN {mirror} ELSE {a})
                    \cup (IF May("mirrorFails") THEN {mirror} ELSE {})
  /\ cache' \in {a} \cup (IF May("cacheFails") THEN {cache} ELSE {})
  /\ heard' = IF a.auto = "unset" THEN heard ELSE a.auto

\* Refresh.  A failing fetch changes nothing.
Refresh ==
  /\ pc # "down"
  /\ \E a \in Answers : mem' = Resolved(a, NoAnswer) /\ Recorded(a)
  /\ UNCHANGED <<worldVars, disk, fileVars, procVars, cmd, histVars>>

\* OrgManaged.
Managed == mem.known \/ mem.pin # 0

-----------------------------------------------------------------------------
(* Processes.                                                               *)

\* A process starts from the file in slot s.  It checks at once, whenever the
\* last check was.
Begin(s) ==
  /\ pc' = "catch" /\ ver' = disk[s].runs /\ self' = s
  /\ target' = 0 /\ probed' = {}
  /\ mem' = Resolved(cache, mirror)
  /\ due' = TRUE

\* Mutant: the service runs the managed path, which may be absent.
LaunchManaged ==
  /\ pc = "down"
  /\ Begin("managed")
  /\ UNCHANGED <<worldVars, disk, cache, mirror, heard, consent, asked, guard, cooling, cmd, histVars>>

\* The service manager and start run the path they were given.
Launch ==
  /\ pc = "down"
  /\ Begin("own")
  /\ UNCHANGED <<worldVars, disk, cache, mirror, heard, consent, asked, guard, cooling, cmd, histVars>>

Go(p) == pc' = p /\ UNCHANGED <<ver, self>>

Init ==
  /\ env \in Environments /\ events = 0
  /\ org = Unstated /\ releases = {1} /\ top = 1
  /\ disk \in [Slots -> {NoFile, Build(1)}] /\ disk["own"] = Build(1)
  /\ env.layout = "same" => disk["managed"] = NoFile
  /\ cache = NoAnswer /\ mirror = NoAnswer
  /\ consent \in {"unknown", "granted", "denied", "ask"} /\ asked = 0
  /\ guard = NoGuard /\ cooling = FALSE /\ due = TRUE
  /\ pc = "down" /\ ver = 1 /\ self = "own" /\ target = 0 /\ probed = {}
  /\ mem = Resolved(NoAnswer, NoAnswer)
  /\ cmd = NoUpdate
  /\ heard = "unset"
  /\ offered = {} /\ reoffered = FALSE /\ tried = [targets |-> {}, twice |-> FALSE]

-----------------------------------------------------------------------------
(* catchUpToDisk.                                                           *)

Candidates == IF env.layout = "apart" /\ self = "own" THEN {"own", "managed"} ELSE {self}

\* Its own path comes first, and a file known not to be newer is not asked again.
Interesting(s) == s \in Candidates \ probed /\ Newer(ver, disk[s].says)
Reached(s)     == s = self \/ ~Interesting(self)
CatchTarget(s) == Interesting(s) /\ Reached(s)

Blocked(s) == cooling /\ guard = [slot |-> s, says |-> disk[s].says]

\* Mutant: the file to catch up with is remembered too.
ProbedAll == probed \cup {s \in Candidates : Reached(s) /\ disk[s] # NoFile}

\* Files found not newer before one that is are remembered.
Probed == probed \cup {s \in Candidates : /\ Reached(s) /\ disk[s] # NoFile
                                          /\ ~Newer(ver, disk[s].says)}

Checking == IF due THEN "check" ELSE "idle"

CatchNothing ==
  /\ pc = "catch"
  /\ \A s \in Candidates : CatchTarget(s) => Blocked(s)
  /\ probed' = Probed
  /\ Go(Checking)
  /\ UNCHANGED <<worldVars, disk, policyVars, fileVars, target, cmd, histVars>>

\* The guard is written before the exec.
Guarded(s) ==
  LET t == [slot |-> s, says |-> disk[s].says]
  IN  /\ guard' = t /\ cooling' = TRUE
      /\ tried' = [targets |-> tried.targets \cup {t}, twice |-> tried.twice \/ t \in tried.targets]

\* Mutant: the guard is written only when the exec has returned.
CatchUpUnguarded ==
  /\ pc = "catch"
  /\ \E s \in Candidates :
       /\ CatchTarget(s) /\ ~Blocked(s)
       /\ LET t == [slot |-> s, says |-> disk[s].says]
          IN  tried' = [targets |-> tried.targets \cup {t}, twice |-> tried.twice \/ t \in tried.targets]
       /\ Begin(s)
  /\ UNCHANGED <<worldVars, disk, cache, mirror, heard, consent, asked, guard, cooling, cmd, offered, reoffered>>

CatchUp ==
  /\ pc = "catch"
  /\ \E s \in Candidates : CatchTarget(s) /\ ~Blocked(s) /\ Guarded(s) /\ Begin(s)
  /\ UNCHANGED <<worldVars, disk, cache, mirror, heard, consent, asked, cmd, offered, reoffered>>

CatchUpFails ==
  /\ pc = "catch" /\ Event("execFails")
  /\ \E s \in Candidates : CatchTarget(s) /\ ~Blocked(s) /\ Guarded(s)
  /\ probed' = Probed
  /\ Go(Checking)
  /\ UNCHANGED <<env, org, releases, top, disk, policyVars, consent, asked, due, target,
                 cmd, offered, reoffered>>

-----------------------------------------------------------------------------
(* checkAndApply.                                                           *)

\* Whatever the outcome, last-update-check is written.
Done ==
  /\ Go("idle") /\ target' = 0 /\ due' = FALSE
  /\ UNCHANGED <<worldVars, disk, policyVars, consent, asked, guard, cooling, probed, cmd, histVars>>

Stays == UNCHANGED <<worldVars, disk, policyVars, consent, asked, guard, cooling, due, probed, cmd, histVars>>

CheckSkipped == pc = "check" /\ (May("optOut") \/ ~mem.auto) /\ Done

CheckPinned ==
  /\ pc = "check" /\ ~May("optOut") /\ mem.auto /\ mem.pin # 0
  /\ Go("gate") /\ target' = mem.pin /\ Stays

CheckLatest ==
  /\ pc = "check" /\ ~May("optOut") /\ mem.auto /\ mem.pin = 0
  /\ Go("fetch") /\ UNCHANGED target /\ Stays

\* Where releases/latest redirects to.
Latest == CHOOSE v \in releases : \A w \in releases : w <= v

FetchTag    == pc = "fetch" /\ Go("gate") /\ target' = Latest /\ Stays
FetchFailed == pc = "fetch" /\ May("network") /\ Done

\* Mutant: a pin or a release that differs is enough.
ReplaceableIfOther == /\ ver # target /\ target # 0
                      /\ env.layout # "project"
                      /\ May("readonly") => self = "managed"

Replaceable == /\ Newer(ver, target)
               /\ env.layout # "project"
               /\ May("readonly") => self = "managed"

\* Who answers is decided here, after the network.
Consenting == Managed \/ consent = "granted"
Asking     == ~Managed /\ consent = "ask" /\ asked # target

GateCloses == pc = "gate" /\ ~(Replaceable /\ (Consenting \/ Asking)) /\ Done

GateOpens == pc = "gate" /\ Replaceable /\ Consenting /\ Go("download") /\ UNCHANGED target /\ Stays

Offer == /\ offered' = offered \cup {target}
         /\ reoffered' = (reoffered \/ target \in offered)

\* askPerRelease: the version is recorded before the dialog opens.
Ask ==
  /\ pc = "gate" /\ Replaceable /\ Asking
  /\ asked' = target /\ Offer
  /\ Go("dialog")
  /\ UNCHANGED <<worldVars, disk, policyVars, consent, guard, cooling, due, target, probed, cmd, tried>>

Accepted == pc = "dialog" /\ Go("download") /\ UNCHANGED target /\ Stays
Declined == pc = "dialog" /\ Done

DownloadFailed == pc = "download" /\ (May("network") \/ target \notin releases) /\ Done

\* A write to a slot gives its file another stamp.
Written(s, file) == /\ disk' = [disk EXCEPT ![s] = file] /\ probed' = probed \ {s}
                    /\ tried' = [tried EXCEPT !.targets = {}]

\* swapInPlace.
Swap ==
  /\ pc = "download" /\ target \in releases
  /\ Written(self, Build(target))
  /\ Go("exec")
  /\ UNCHANGED <<worldVars, policyVars, fileVars, target, cmd, offered, reoffered>>

Reexec ==
  /\ pc = "exec"
  /\ Begin(self)
  /\ UNCHANGED <<worldVars, disk, cache, mirror, heard, consent, asked, guard, cooling, cmd, histVars>>

\* The code goes on with the old build, and records the check.
ReexecFails ==
  /\ pc = "exec" /\ Event("execFails")
  /\ Go("idle") /\ target' = 0 /\ due' = FALSE
  /\ UNCHANGED <<env, org, releases, top, disk, policyVars, consent, asked, guard, cooling,
                 probed, cmd, histVars>>

-----------------------------------------------------------------------------
(* runAutoUpdate: a poll tries to catch up, and checks when a check is due. *)

Tick ==
  /\ pc = "idle"
  /\ Go("catch")
  /\ UNCHANGED <<worldVars, disk, policyVars, fileVars, target, probed, cmd, histVars>>

IntervalElapses ==
  /\ ~due /\ due' = TRUE
  /\ UNCHANGED <<worldVars, disk, policyVars, consent, asked, guard, cooling, procVars, cmd, histVars>>

CooldownElapses ==
  /\ cooling /\ cooling' = FALSE
  /\ tried' = [tried EXCEPT !.targets = {}]
  /\ UNCHANGED <<worldVars, disk, policyVars, consent, asked, guard, due, procVars, cmd, offered, reoffered>>

-----------------------------------------------------------------------------
(* The update command, run from the file in a slot.  It asks the policy     *)
(* afresh, and the engineer may take any time to answer it.                 *)

Forbidden(m)    == ~m.auto /\ m.pin = 0
ManualTarget(m) == IF m.pin # 0 THEN m.pin ELSE Latest

Installable(s, m) == /\ ~Forbidden(m) /\ Newer(disk[s].runs, ManualTarget(m))
                     /\ env.layout = "project" => s = "managed"
                     /\ May("readonly") => s = "managed"

CheckManual(s) ==
  /\ Event("update") /\ cmd = NoUpdate /\ disk[s] # NoFile
  /\ \E a \in Answers \cup {NoAnswer} :
       LET m == IF a = NoAnswer THEN Resolved(cache, mirror) ELSE Resolved(a, NoAnswer)
       IN  /\ IF a = NoAnswer THEN UNCHANGED <<cache, mirror, heard>> ELSE Recorded(a)
           /\ cmd' = IF Installable(s, m) THEN [slot |-> s, to |-> ManualTarget(m)] ELSE NoUpdate
  /\ UNCHANGED <<env, org, releases, top, disk, mem, fileVars, procVars, histVars>>

ApplyManual ==
  /\ cmd # NoUpdate /\ cmd' = NoUpdate
  /\ \/ cmd.to \in releases /\ Written(cmd.slot, Build(cmd.to))
     \/ UNCHANGED <<disk, probed, tried>>
  /\ UNCHANGED <<worldVars, policyVars, fileVars, pc, ver, self, target, offered, reoffered>>

\* update --enable-auto, --ask-each, --disable-auto, and the question of login
\* and start.
Decide ==
  /\ Event("decide")
  /\ consent' \in {"granted", "ask", "denied"} \ {consent}
  /\ UNCHANGED <<env, org, releases, top, disk, policyVars, asked, guard, cooling, due,
                 procVars, cmd, histVars>>

-----------------------------------------------------------------------------
(* What happens around.                                                     *)

Publish ==
  /\ top < MaxVersion
  /\ top' = top + 1 /\ releases' = releases \cup {top + 1}
  /\ UNCHANGED <<env, events, org, disk, policyVars, fileVars, procVars, cmd, histVars>>

Yank ==
  /\ Event("yank")
  /\ Cardinality(releases) > 1 /\ releases' = releases \ {Latest}
  /\ UNCHANGED <<env, org, top, disk, policyVars, fileVars, procVars, cmd, histVars>>

\* An autoUpdate once stated is not taken back, only changed.
OrgSays ==
  /\ Event("org")
  /\ \E a \in Answer \ {org} : (org.auto # "unset" => a.auto # "unset") /\ org' = a
  /\ UNCHANGED <<env, releases, top, disk, policyVars, fileVars, procVars, cmd, histVars>>

CacheLost ==
  /\ Event("cacheLost") /\ cache' = NoAnswer
  /\ UNCHANGED <<env, org, releases, top, disk, mem, mirror, heard,
                 fileVars, procVars, cmd, histVars>>

\* npm, install.sh or an administrator; a wrapper says one version and runs another.
Installed(v) == {Build(v)} \cup (IF May("misreport") THEN {[says |-> v, runs |-> 1]} ELSE {})

Install ==
  /\ Event("installer")
  /\ \E s \in Slots, v \in Version :
       /\ env.layout = "same" => s = "own"
       /\ Newer(disk[s].says, v)
       /\ \E file \in Installed(v) : Written(s, file)
  /\ UNCHANGED <<env, org, releases, top, policyVars, fileVars, pc, ver, self, target, cmd,
                 offered, reoffered>>

Crash ==
  /\ Event("crash")
  /\ pc # "down"
  /\ Go("down") /\ target' = 0 /\ probed' = {}
  /\ UNCHANGED <<env, org, releases, top, disk, policyVars, fileVars, cmd, histVars>>

Catching == CatchNothing \/ CatchUp \/ CatchUpFails

CheckSteps == \/ CheckSkipped \/ CheckPinned \/ CheckLatest \/ FetchTag \/ FetchFailed
              \/ GateCloses \/ GateOpens \/ Ask \/ Accepted \/ Declined
              \/ DownloadFailed \/ Swap \/ Reexec \/ ReexecFails

Around == \/ Publish \/ Yank \/ OrgSays \/ CacheLost \/ Install \/ Crash
          \/ (\E s \in Slots : CheckManual(s)) \/ ApplyManual \/ Decide

Next == \/ Launch \/ Refresh \/ Catching \/ CheckSteps \/ Tick
        \/ IntervalElapses \/ CooldownElapses \/ Around

Spec == Init /\ [][Next]_vars

\* The goroutine keeps running, a dialog is answered or times out, and time passes.
Fairness == /\ WF_vars(Catching) /\ WF_vars(CheckSteps) /\ WF_vars(Tick)
            /\ WF_vars(CooldownElapses)

FairSpec == Spec /\ Fairness

-----------------------------------------------------------------------------
(* Properties.                                                              *)

TypeOK ==
  /\ env \in Environments /\ events \in 0..env.events
  /\ org \in Answer /\ top \in Version /\ releases \in (SUBSET Version) \ {{}}
  /\ disk \in [Slots -> [says : 0..MaxVersion, runs : 0..MaxVersion]]
  /\ cache \in Answer \cup {NoAnswer} /\ mirror \in Answer \cup {NoAnswer}
  /\ consent \in {"unknown", "granted", "denied", "ask"} /\ asked \in 0..MaxVersion
  /\ guard \in [slot : Slots, says : 0..MaxVersion] /\ cooling \in BOOLEAN /\ due \in BOOLEAN
  /\ pc \in {"down", "catch", "check", "fetch", "gate", "dialog", "download", "exec", "idle"}
  /\ ver \in Version /\ self \in Slots
  /\ mem \in [auto : BOOLEAN, known : BOOLEAN, pin : 0..MaxVersion]
  /\ target \in 0..MaxVersion /\ probed \subseteq Slots
  /\ cmd \in [slot : Slots, to : 0..MaxVersion] /\ heard \in {"unset", "on", "off"}
  /\ offered \subseteq Version /\ reoffered \in BOOLEAN
  /\ tried \in [targets : SUBSET [slot : Slots, says : Version], twice : BOOLEAN]

\* "Deleting or corrupting one cache file" does not turn updates on again: a
\* daemon that starts has them off where off is the last the machine was told,
\* after a lost cache, answers that state nothing and a mirror that could not
\* be written, as long as only one of the two files is out of date.
OneFileKept ==
  /\ ~May("cacheFails")
  /\ May("mirrorFails") => ~May("cacheLost") /\ ~May("silent")

RestartKeepsIntent ==
  [][ OneFileKept /\ heard = "off" /\ pc \in {"down", "exec"} /\ pc' = "catch"
      => ~mem'.auto ]_vars

\* A release is offered in one dialog, whatever becomes of the dialog and of the
\* daemon that opened it, while releases are not withdrawn and no pin comes and
\* goes: the one version remembered is then the newest that was offered.
AskedOnce == ~May("yank") /\ ~May("org") => ~reoffered

\* A file that keeps running as an older build than it says is exec'ed once per
\* cooldown and installation: the daemon does not restart in a loop.
NoRestartLoop == ~tried.twice

\* The daemon never comes to run an older build, by an update, a catch-up or a
\* restart: not for a withdrawn release, not for a pin that goes back, not for
\* an installation that races it.  A restart falls back on the file it was
\* started from, so this is about one path; and the update command installs what
\* it found newer when it asked, however long ago.
OnePath == env.layout = "same" /\ ~May("update") /\ ~May("misreport")

RunsForward == [][OnePath => ver' >= ver]_vars

\* A daemon left running ends up on a build no older than those on its disk, with
\* updates forbidden, declined or failing, and after an exec that returned.
CatchesUp ==
  ~May("misreport") /\ <>[](pc # "down")
    => <>[](\A s \in Candidates : disk[s].says <= ver)

\* "Reaching here means it said yes": an install goes on with the org's consent,
\* or where no org has an opinion with the engineer's.
Consented ==
  [][ pc = "gate" /\ pc' = "download"
      => IF Managed THEN mem.auto ELSE consent = "granted" ]_vars

\* Neither a dialog nor a restart is repeated (runAutoUpdate, catchUpToDisk).
NoRepeats == AskedOnce /\ NoRestartLoop
=============================================================================
