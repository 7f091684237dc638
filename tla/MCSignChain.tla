---------------------------- MODULE MCSignChain ----------------------------
(* Two sessions, segments of one line, an index of one entry; incomplete    *)
(* rebuilds apart from failing renames, for the size of the run only.       *)
EXTENDS SignChain

CONSTANTS s1, s2

MCSession == {s1, s2}

Routine == {"indexIO", "indexLost", "quiet"}

Faults == { Routine \cup {"crash", "dropIO", "renameIO", "tornWrite"},
            Routine \cup {"crash", "dropIO", "scanIO"} }
=============================================================================
