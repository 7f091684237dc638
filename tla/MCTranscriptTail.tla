-------------------------- MODULE MCTranscriptTail --------------------------
(* Transcripts of three to six records for model checking TranscriptTail.   *)
EXTENDS TranscriptTail

A(m, c) == [kind |-> "assistant", msg |-> m, call |-> c]
R(c)    == [kind |-> "result", call |-> c]
P       == [kind |-> "prompt"]
O       == [kind |-> "other"]

TwoMessages == {"m1", "m2"}
TwoCalls == {"c1", "c2"}
OneDiff == {"c1"}

Environment(scripts, conditions) ==
  {[script |-> s, allowed |-> c] : s \in scripts, c \in conditions}

\* Messages that are not interrupted: text, one call, two parallel calls whose
\* results come later, and a call whose result never comes.
Plain == { <<P, A("m1", NoCall), A("m1", "c1"), R("c1"), A("m2", NoCall), O>>,
           <<A("m1", "c1"), A("m1", "c2"), R("c2"), R("c1"), P>>,
           <<A("m1", "c1"), A("m2", "c2"), R("c2"), P, O>> }

\* A result lands between two lines of its message.
Split == { <<A("m1", "c1"), R("c1"), A("m1", "c2"), R("c2"), P>> }

\* The last message has no record after it.
Open == { <<P, A("m1", "c1"), R("c1"), A("m2", NoCall)>> }

\* What a transcript may begin with: the cwd at once, after a record without one,
\* or too late.
Heads == { <<O, A("m1", "c2"), R("c2")>>, <<O, O, O, P>>, <<P, A("m1", NoCall), P>> }

\* Full lanes alone, stale flushes alone, both, and every fault of the reading.
ReadFaults == {"full", "staleFlush", "evict", "exit", "crash", "aging"}
Faults   == {{"full", "aging"}, {"staleFlush", "aging"}, {"full"},
             {"full", "staleFlush", "aging"}, ReadFaults}
Unsaved  == {{"nosave", "staleFlush"}}

\* What decides whether it is read at all.
Admissions == {{"admit", "roots", "full"}, {"admit", "window", "stat", "crash"},
               {"admit", "roots", "window", "stat"}, {"admit", "upgrade", "window"},
               {"degrade", "staleFlush"}}

MCEnvironments == Environment(Plain \cup Split \cup Open, Faults) \cup Environment(Plain, Unsaved)
                  \cup Environment(Heads, Admissions)

FullOnly == Environment(Plain, {{"full"}})

Degraded == Environment({<<O, O, P, A("m1", "c2"), R("c2")>>}, {{"degrade"}})
=============================================================================
