------------------------------ MODULE MCDaemon ------------------------------
(***************************************************************************)
(* Two terminals, two checkouts under the home directory, one of them      *)
(* outside the other, and up to five processes.                            *)
(***************************************************************************)
EXTENDS Daemon, TLC

CONSTANTS t1, t2, home, work, repo

MCTree   == (t1 :> work) @@ (t2 :> repo)
MCWithin == {<<home, home>>, <<work, work>>, <<repo, repo>>, <<work, home>>}

Case(conditions, before, a, b) ==
  [conditions |-> conditions, before |-> before, script |-> (t1 :> a) @@ (t2 :> b)]

MCEnvironments ==
  { Case({"mac", "installed", "crash"}, "service", <<"start">>, <<"stop">>),
    Case({"mac", "installed", "login"}, "service", <<"start">>, <<"stop">>),
    Case({"mac", "installed", "login", "unreachable"}, "nothing", <<"start", "stop">>, <<>>),
    Case({"mac", "installed"}, "service", <<"repair">>, <<"uninstall", "repair">>),
    Case({"mac", "unregistered"}, "start", <<"watch", "start">>, <<"start">>),
    Case({"mac", "crash", "reuse"}, "start", <<"start">>, <<"stop">>),
    Case({"mac", "crash", "unrecorded"}, "start", <<"start", "start">>, <<>>),
    Case({"linux", "installed"}, "watch", <<"start">>, <<"watch", "stop">>),
    Case({"linux", "installed", "update"}, "service", <<"stop">>, <<>>),
    Case({"linux"}, "watch", <<"enable", "repair", "disable">>, <<"start">>),
    Case({"windows", "installed", "update"}, "service", <<"start">>, <<"start">>),
    Case({"windows", "installed"}, "service", <<"start">>, <<"uninstall">>),
    Case({"windows", "update", "probe"}, "watch", <<>>, <<>>),
    Case({"linux", "probe"}, "nothing", <<"start">>, <<>>) }

\* The lock is probed while a first watcher is started.
Probed == { Case({"mac", "probe"}, "nothing", <<"watch">>, <<>>) }
\* The job is killed, and its pid given to another program.
Recycled == { Case({"mac", "installed", "crash", "reuse"}, "service", <<>>, <<>>) }
=============================================================================
