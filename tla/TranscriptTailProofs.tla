----------------------- MODULE TranscriptTailProofs -----------------------
(***************************************************************************)
(* Theorems about TranscriptTail: first the sequences of events and the    *)
(* processor, then one invariant for each thing that the watcher may not   *)
(* lose, repeat or make up, then what a pass over the transcript yields,   *)
(* which the properties compare with.                                      *)
(***************************************************************************)
EXTENDS TranscriptTail, SequenceTheorems, NaturalsInduction, WellFoundedInduction, TLAPS

-----------------------------------------------------------------------------
(* Sequences and their elements.                                            *)

LEMMA LeastElement ==
  ASSUME NEW S \in SUBSET Nat, S # {}
  PROVE  \E p \in S : \A q \in S : p <= q
<1> DEFINE R == {ss \in Nat \X Nat : ss[1] < ss[2]}
<1>1. IsWellFoundedOn(R, Nat) BY NatLessThanWellFounded DEF OpToRel
<1>2. \A p, q \in Nat : q < p => <<q, p>> \in R
  <2> SUFFICES ASSUME NEW p \in Nat, NEW q \in Nat, q < p PROVE <<q, p>> \in R
    OBVIOUS
  <2>1. <<q, p>> \in Nat \X Nat OBVIOUS
  <2>2. <<q, p>>[1] = q /\ <<q, p>>[2] = p OBVIOUS
  <2> QED BY <2>1, <2>2
<1> HIDE DEF R
<1>3. PICK p \in S : \A q \in S : ~(<<q, p>> \in R) BY <1>1, WFMin
<1>4. \A q \in S : ~(q < p) BY <1>2, <1>3
<1> QED BY <1>4

LEMMA RangeIs ==
  ASSUME NEW S, NEW s \in Seq(S)
  PROVE  /\ Range(s) = {s[x] : x \in 1..Len(s)}
         /\ Range(s) \subseteq S
         /\ Len(s) \in Nat
<1>1. Len(s) \in Nat /\ DOMAIN s = 1..Len(s) BY LenProperties
<1>2. Range(s) = {s[x] : x \in 1..Len(s)} BY <1>1 DEF Range
<1> QED BY <1>1, <1>2, ElementOfSeq

LEMMA EmptyRange == Range(<<>>) = {}
BY DEF Range

LEMMA RangeOfOne ==
  ASSUME NEW e
  PROVE  Range(<<e>>) = {e} /\ <<e>> # <<>>
BY DEF Range

LEMMA RangeConcat ==
  ASSUME NEW S, NEW s \in Seq(S), NEW t \in Seq(S)
  PROVE  s \o t \in Seq(S) /\ Range(s \o t) = Range(s) \cup Range(t)
<1>1. /\ s \o t \in Seq(S) /\ Len(s \o t) = Len(s) + Len(t)
      /\ \A i \in 1..(Len(s) + Len(t)) : (s \o t)[i] = IF i <= Len(s) THEN s[i] ELSE t[i - Len(s)]
  BY ConcatProperties
<1>2. Len(s) \in Nat /\ Len(t) \in Nat BY LenProperties
<1>3. \A i \in 1..Len(s) : i \in 1..(Len(s) + Len(t)) /\ (s \o t)[i] = s[i] BY <1>1, <1>2
<1>4. \A i \in 1..Len(t) : Len(s) + i \in 1..(Len(s) + Len(t)) /\ (s \o t)[Len(s) + i] = t[i]
  <2> SUFFICES ASSUME NEW i \in 1..Len(t)
               PROVE  Len(s) + i \in 1..(Len(s) + Len(t)) /\ (s \o t)[Len(s) + i] = t[i]
    OBVIOUS
  <2>1. Len(s) + i \in 1..(Len(s) + Len(t)) /\ ~(Len(s) + i <= Len(s)) /\ (Len(s) + i) - Len(s) = i
    BY <1>2
  <2> QED BY <1>1, <2>1
<1>a. Range(s) = {s[x] : x \in 1..Len(s)} BY RangeIs
<1>b. Range(t) = {t[x] : x \in 1..Len(t)} BY RangeIs
<1>c. Range(s \o t) = {(s \o t)[x] : x \in 1..(Len(s) + Len(t))}
  <2>1. Range(s \o t) = {(s \o t)[x] : x \in 1..Len(s \o t)} BY <1>1, RangeIs
  <2> QED BY <1>1, <2>1
<1>5. ASSUME NEW e \in Range(s \o t) PROVE e \in Range(s) \cup Range(t)
  <2>1. PICK i \in 1..(Len(s) + Len(t)) : e = (s \o t)[i] BY <1>c, <1>5
  <2>2. CASE i <= Len(s)
    <3>1. i \in 1..Len(s) /\ e = s[i] BY <1>1, <1>2, <2>1, <2>2
    <3> QED BY <3>1, <1>a
  <2>3. CASE ~(i <= Len(s))
    <3>1. i - Len(s) \in 1..Len(t) /\ e = t[i - Len(s)] BY <1>1, <1>2, <2>1, <2>3
    <3> QED BY <3>1, <1>b
  <2> QED BY <2>2, <2>3
<1>6. \A i \in 1..Len(s) : s[i] \in Range(s \o t) BY <1>3, <1>c
<1>7. \A i \in 1..Len(t) : t[i] \in Range(s \o t) BY <1>4, <1>c
<1>8. Range(s) \subseteq Range(s \o t) /\ Range(t) \subseteq Range(s \o t) BY <1>6, <1>7, <1>a, <1>b
<1> QED BY <1>1, <1>5, <1>8

LEMMA RangeAppend ==
  ASSUME NEW S, NEW s \in Seq(S), NEW e \in S
  PROVE  Append(s, e) \in Seq(S) /\ Range(Append(s, e)) = Range(s) \cup {e}
<1>1. <<e>> \in Seq(S) OBVIOUS
<1>2. Append(s, e) = s \o <<e>> BY AppendIsConcat
<1>3. s \o <<e>> \in Seq(S) /\ Range(s \o <<e>>) = Range(s) \cup Range(<<e>>) BY <1>1, RangeConcat
<1> QED BY <1>2, <1>3, RangeOfOne

LEMMA HeadAndTail ==
  ASSUME NEW S, NEW s \in Seq(S), s # <<>>
  PROVE  /\ Head(s) \in S /\ Tail(s) \in Seq(S)
         /\ Head(s) = s[1] /\ 1 \in 1..Len(s)
         /\ Len(Tail(s)) = Len(s) - 1
         /\ \A x \in 1..Len(Tail(s)) : Tail(s)[x] = s[x + 1] /\ x + 1 \in 1..Len(s)
         /\ Range(s) = {Head(s)} \cup Range(Tail(s))
<1>1. /\ Head(s) \in S /\ Tail(s) \in Seq(S) /\ Len(Tail(s)) = Len(s) - 1
      /\ \A i \in 1..Len(Tail(s)) : Tail(s)[i] = s[i + 1]
  BY HeadTailProperties
<1>2. Len(s) \in Nat /\ Len(s) # 0 BY EmptySeq, SeqEqual
<1>3. Head(s) = s[1] OBVIOUS
<1>4. 1 \in 1..Len(s) BY <1>2
<1>5. \A x \in 1..Len(Tail(s)) : x + 1 \in 1..Len(s) BY <1>1, <1>2
<1>6. \A x \in 1..Len(s) : x = 1 \/ (x - 1 \in 1..Len(Tail(s)) /\ s[x] = Tail(s)[x - 1])
  <2> SUFFICES ASSUME NEW x \in 1..Len(s), x # 1
               PROVE  x - 1 \in 1..Len(Tail(s)) /\ s[x] = Tail(s)[x - 1]
    OBVIOUS
  <2>1. x - 1 \in 1..Len(Tail(s)) /\ (x - 1) + 1 = x BY <1>1, <1>2
  <2> QED BY <1>1, <2>1
<1>a. Range(s) = {s[x] : x \in 1..Len(s)} BY RangeIs
<1>b. Range(Tail(s)) = {Tail(s)[x] : x \in 1..Len(Tail(s))} BY <1>1, RangeIs
<1>7. \A x \in 1..Len(s) : s[x] \in {Head(s)} \cup Range(Tail(s)) BY <1>3, <1>6, <1>b
<1>8. \A x \in 1..Len(Tail(s)) : Tail(s)[x] \in Range(s) BY <1>1, <1>5, <1>a
<1>9. Range(s) = {Head(s)} \cup Range(Tail(s)) BY <1>3, <1>4, <1>7, <1>8, <1>a, <1>b
<1> QED BY <1>1, <1>3, <1>4, <1>5, <1>9

LEMMA WiderSeq ==
  ASSUME NEW m \in Nat, NEW n \in Nat, m <= n, NEW s \in Seq(1..m)
  PROVE  s \in Seq(1..n)
<1>1. 1..m \subseteq 1..n OBVIOUS
<1> QED BY <1>1, SeqMonotonic

-----------------------------------------------------------------------------
(* Records and events.                                                      *)

Records == 1..Len(script)

IsPrompt(i)    == script[i].kind = "prompt"
IsLine(i, m)   == script[i].kind = "assistant" /\ script[i].msg = m
IsCall(i, c)   == script[i].kind = "assistant" /\ script[i].call = c
IsResult(i, c) == script[i].kind = "result" /\ script[i].call = c

ScriptOK == script \in Seq(Record) /\ Len(script) \in Nat

ResponseId(m) == <<"ai_response", m>>
ToolId(c)     == <<IF c \in FileDiffs THEN "file_diff" ELSE "tool", c>>
PromptId(i)   == <<"prompt", i>>

LEMMA RecordIs ==
  ASSUME ScriptOK, NEW i \in Records
  PROVE  /\ script[i] \in Record
         /\ script[i].kind \in {"assistant", "result", "prompt", "other"}
         /\ script[i].kind = "assistant" => script[i].msg \in Messages /\ script[i].call \in Calls \cup {NoCall}
         /\ script[i].kind = "result" => script[i].call \in Calls
         /\ \A m : IsLine(i, m) => m \in Messages
         /\ \A c : IsResult(i, c) => c \in Calls
         /\ ~IsLine(i, NoMsg)
<1>1. script[i] \in Record BY ElementOfSeq DEF ScriptOK, Records
<1>2. NoMsg \notin Messages BY TailAssumption
<1>3. script[i].kind \in {"assistant", "result", "prompt", "other"} BY <1>1 DEF Record
<1>4. script[i].kind = "assistant" => script[i].msg \in Messages /\ script[i].call \in Calls \cup {NoCall}
  BY <1>1 DEF Record
<1>5. script[i].kind = "result" => script[i].call \in Calls BY <1>1 DEF Record
<1> QED BY <1>1, <1>2, <1>3, <1>4, <1>5 DEF IsLine, IsResult

\* The ids of the three kinds of events.
LEMMA IdsAre ==
  /\ \A a : Response(a).id = ResponseId(a.msg) /\ Response(a).body = a.lines
  /\ \A c : ToolEvent(c).id = ToolId(c) /\ ToolEvent(c).body = <<>>
  /\ \A i : Prompt(i).id = PromptId(i) /\ Prompt(i).body = <<i>>
BY DEF Response, ToolEvent, Prompt, ResponseId, ToolId, PromptId

LEMMA IdKinds ==
  /\ \A m : ResponseId(m)[1] = "ai_response" /\ ResponseId(m)[2] = m
  /\ \A c : ToolId(c)[1] = (IF c \in FileDiffs THEN "file_diff" ELSE "tool") /\ ToolId(c)[2] = c
  /\ \A i : PromptId(i)[1] = "prompt" /\ PromptId(i)[2] = i
BY DEF ResponseId, ToolId, PromptId

LEMMA IdsDiffer ==
  /\ \A m, c : ResponseId(m) # ToolId(c)
  /\ \A m, i : ResponseId(m) # PromptId(i)
  /\ \A c, i : ToolId(c) # PromptId(i)
  /\ \A m, n : ResponseId(m) = ResponseId(n) => m = n
  /\ \A c, d : ToolId(c) = ToolId(d) => c = d
  /\ \A i, j : PromptId(i) = PromptId(j) => i = j
BY IdKinds

\* Three kinds of events there are.
LEMMA EventIs ==
  ASSUME ScriptOK
  PROVE  /\ \A a : a.msg \in Messages /\ a.lines \in Seq(Records) => Response(a) \in Event
         /\ \A c \in Calls : ToolEvent(c) \in Event
         /\ \A i \in Records : Prompt(i) \in Event
         /\ \A e \in Event : \/ \E m \in Messages : e.id = ResponseId(m)
                             \/ \E c \in Calls : e.id = ToolId(c)
                             \/ \E i \in Records : e.id = PromptId(i)
<1>1. \A a : a.msg \in Messages /\ a.lines \in Seq(Records) => Response(a) \in Event
  BY DEF Response, Event, Records
<1>2. \A c \in Calls : ToolEvent(c) \in Event BY TailAssumption DEF ToolEvent, Event
<1>3. \A i \in Records : Prompt(i) \in Event BY DEF Event, Records
<1>4. ASSUME NEW e \in Event
      PROVE  \/ \E m \in Messages : e.id = ResponseId(m)
             \/ \E c \in Calls : e.id = ToolId(c)
             \/ \E i \in Records : e.id = PromptId(i)
  <2>1. CASE e \in [id : {"ai_response"} \X Messages, body : Seq(1..Len(script))]
    <3>1. e.id \in {"ai_response"} \X Messages BY <2>1
    <3> QED BY <3>1 DEF ResponseId
  <2>2. CASE e \in [id : ({"tool"} \X (Calls \ FileDiffs)) \cup ({"file_diff"} \X FileDiffs), body : {<<>>}]
    <3>1. e.id \in ({"tool"} \X (Calls \ FileDiffs)) \cup ({"file_diff"} \X FileDiffs) BY <2>2
    <3>2. PICK c \in Calls : e.id = ToolId(c) BY <3>1, TailAssumption DEF ToolId
    <3> QED BY <3>2
  <2>3. CASE e \in {Prompt(i) : i \in 1..Len(script)} BY <2>3, IdsAre DEF Records
  <2> QED BY <2>1, <2>2, <2>3 DEF Event
<1> QED BY <1>1, <1>2, <1>3, <1>4

-----------------------------------------------------------------------------
(* What the processor does with a record.                                   *)

Accums == [msg : Messages \cup {NoMsg}, lines : Seq(Records)]
Procs == [accum : Accums, pending : SUBSET Calls, emitted : SUBSET Messages, rewind : Nat]

Orderly(p) == p \in Procs /\ (p.accum.msg = NoMsg => p.accum = NoAccum)

FlushSet(p) == IF p.accum.msg \in p.emitted \cup {NoMsg} THEN {} ELSE {Response(p.accum)}

\* The events of record i.
Made(p, i) ==
  (IF IsLine(i, p.accum.msg) THEN {} ELSE FlushSet(p))
  \cup {ToolEvent(c) : c \in {x \in p.pending : IsResult(i, x)}}
  \cup (IF IsPrompt(i) THEN {Prompt(i)} ELSE {})

\* q is what becomes of p by record i.
PendingAfter(p, i, q) ==
  /\ \A c \in Calls : IsCall(i, c) => c \in q.pending
  /\ \A c \in Calls : IsResult(i, c) => c \notin q.pending
  /\ \A c \in Calls : ~IsCall(i, c) /\ ~IsResult(i, c) => (c \in q.pending <=> c \in p.pending)

EmittedAfter(p, i, q) ==
  q.emitted = IF IsLine(i, p.accum.msg) THEN p.emitted ELSE p.emitted \cup ({p.accum.msg} \ {NoMsg})

AccumAfter(p, i, q) ==
  /\ IsLine(i, p.accum.msg) => q.accum = [msg |-> p.accum.msg, lines |-> Append(p.accum.lines, i)]
  /\ \A m \in Messages : m # p.accum.msg /\ IsLine(i, m) /\ m \notin q.emitted
                         => q.accum = [msg |-> m, lines |-> <<i>>]
  /\ \A m \in Messages : m # p.accum.msg /\ IsLine(i, m) /\ m \in q.emitted => q.accum = NoAccum
  /\ script[i].kind # "assistant" => q.accum = NoAccum

Becomes(p, i, q) ==
  Orderly(q) /\ q.rewind = p.rewind /\ PendingAfter(p, i, q) /\ EmittedAfter(p, i, q) /\ AccumAfter(p, i, q)

LEMMA ProcFields ==
  ASSUME NEW p, Orderly(p)
  PROVE  /\ p.accum.msg \in Messages \cup {NoMsg} /\ p.accum.lines \in Seq(Records)
         /\ p.accum = [msg |-> p.accum.msg, lines |-> p.accum.lines]
         /\ p.pending \subseteq Calls /\ p.emitted \subseteq Messages /\ p.rewind \in Nat
         /\ p = [accum |-> p.accum, pending |-> p.pending, emitted |-> p.emitted, rewind |-> p.rewind]
         /\ p.accum.msg = NoMsg => p.accum = NoAccum
BY DEF Orderly, Procs, Accums

\* What makes a processor.
LEMMA NoAccumIs == NoAccum \in Accums /\ NoAccum.msg = NoMsg /\ NoAccum.lines = <<>>
BY EmptySeq DEF NoAccum, Accums

LEMMA EmptyIsOrderly == Orderly(EmptyProc) /\ ~HasBufferedState(EmptyProc)
BY NoAccumIs DEF EmptyProc, HasBufferedState, Orderly, Procs

LEMMA FlushedIs ==
  ASSUME NEW p, Orderly(p)
  PROVE  /\ Orderly(Flushed(p))
         /\ Flushed(p).accum = NoAccum /\ Flushed(p).pending = p.pending
         /\ Flushed(p).emitted = p.emitted \cup ({p.accum.msg} \ {NoMsg})
         /\ Flushed(p).rewind = p.rewind
<1>1. p \in Procs BY DEF Orderly
<1>2. /\ Flushed(p).accum = NoAccum /\ Flushed(p).pending = p.pending
      /\ Flushed(p).emitted = p.emitted \cup ({p.accum.msg} \ {NoMsg})
      /\ Flushed(p).rewind = p.rewind
  BY <1>1 DEF Flushed, Procs
<1>3. p.emitted \cup ({p.accum.msg} \ {NoMsg}) \in SUBSET Messages BY ProcFields
<1>4. Flushed(p) \in Procs
  <2> DEFINE E == p.emitted \cup ({p.accum.msg} \ {NoMsg})
  <2>1. Flushed(p) = [p EXCEPT !.accum = NoAccum, !.emitted = E] BY DEF Flushed
  <2>2. E \in SUBSET Messages /\ NoAccum \in Accums BY <1>3, NoAccumIs
  <2> HIDE DEF E
  <2> QED BY <1>1, <2>1, <2>2 DEF Procs
<1> QED BY <1>2, <1>4 DEF Orderly

LEMMA DiscardedIs ==
  ASSUME NEW p, Orderly(p)
  PROVE  /\ Orderly(DiscardBufferedState(p)) /\ ~HasBufferedState(DiscardBufferedState(p))
         /\ DiscardBufferedState(p).accum = NoAccum /\ DiscardBufferedState(p).pending = {}
         /\ DiscardBufferedState(p).emitted = {} /\ DiscardBufferedState(p).rewind = p.rewind
<1>1. p \in Procs BY DEF Orderly
<1>2. /\ DiscardBufferedState(p).accum = NoAccum /\ DiscardBufferedState(p).pending = {}
      /\ DiscardBufferedState(p).emitted = {} /\ DiscardBufferedState(p).rewind = p.rewind
  BY <1>1 DEF DiscardBufferedState, Procs
<1>3. DiscardBufferedState(p) \in Procs
  <2>1. {} \in SUBSET Calls /\ {} \in SUBSET Messages /\ NoAccum \in Accums BY NoAccumIs
  <2> QED BY <1>1, <2>1 DEF DiscardBufferedState, Procs
<1> QED BY <1>2, <1>3 DEF Orderly, HasBufferedState

\* The sequence of a flush.
LEMMA FlushOutIs ==
  ASSUME ScriptOK, NEW p, Orderly(p)
  PROVE  /\ FlushOut(p) \in Seq(Event)
         /\ Range(FlushOut(p)) = FlushSet(p)
         /\ FlushSet(p) = {} => FlushOut(p) = <<>>
         /\ FlushSet(p) # {} => FlushOut(p) = <<Response(p.accum)>>
<1>1. CASE p.accum.msg \in p.emitted \cup {NoMsg}
  BY <1>1, EmptyRange, EmptySeq DEF FlushOut, FlushSet
<1>2. CASE p.accum.msg \notin p.emitted \cup {NoMsg}
  <2>1. FlushOut(p) = <<Response(p.accum)>> /\ FlushSet(p) = {Response(p.accum)}
    BY <1>2 DEF FlushOut, FlushSet
  <2>2. Response(p.accum) \in Event BY <1>2, ProcFields, EventIs
  <2> QED BY <2>1, <2>2, RangeOfOne
<1> QED BY <1>1, <1>2

LEMMA WithPending ==
  ASSUME NEW p, Orderly(p), NEW b \in SUBSET Calls, NEW q, q = [p EXCEPT !.pending = b]
  PROVE  Orderly(q) /\ q.accum = p.accum /\ q.pending = b /\ q.emitted = p.emitted /\ q.rewind = p.rewind
BY DEF Orderly, Procs

LEMMA WithRewind ==
  ASSUME NEW p, Orderly(p), NEW n \in Nat, NEW q, q = [p EXCEPT !.rewind = n]
  PROVE  Orderly(q) /\ q.accum = p.accum /\ q.pending = p.pending /\ q.emitted = p.emitted /\ q.rewind = n
BY DEF Orderly, Procs

\* handleAssistant, when the record belongs to the open message.
LEMMA SameMessage ==
  ASSUME ScriptOK, NEW p, Orderly(p), NEW i \in Records, IsLine(i, p.accum.msg)
  PROVE  Becomes(p, i, Assistant(p, i, script[i]))
<1> DEFINE r == script[i]
           a == [msg |-> p.accum.msg, lines |-> Append(p.accum.lines, i)]
           b == p.pending \cup ({r.call} \ {NoCall})
<1>1. r.kind = "assistant" /\ r.msg = p.accum.msg /\ r.msg \in Messages /\ r.call \in Calls \cup {NoCall}
  BY RecordIs DEF IsLine
<1>2. p.accum \in Accums /\ p.accum.msg \in Messages /\ p.accum.lines \in Seq(Records) /\ p.accum.msg # NoMsg
  BY <1>1, TailAssumption DEF Orderly, Procs, Accums
<1>3. Append(p.accum.lines, i) \in Seq(Records) BY <1>2, RangeAppend
<1>4. a \in Accums /\ a.msg # NoMsg BY <1>2, <1>3 DEF Accums
<1>5. [p.accum EXCEPT !.lines = Append(p.accum.lines, i)] = a BY <1>2 DEF Accums
<1>6. b \in SUBSET Calls BY <1>1, ProcFields
<1>7. Assistant(p, i, r) = [p EXCEPT !.accum = a, !.pending = b]
  BY <1>1, <1>5 DEF Assistant
<1> DEFINE q == [p EXCEPT !.accum = a, !.pending = b]
<1>8. Orderly(q) /\ q.accum = a /\ q.pending = b /\ q.emitted = p.emitted /\ q.rewind = p.rewind
  <2>1. q = [p EXCEPT !.accum = a, !.pending = b] OBVIOUS
  <2> HIDE DEF q, a, b
  <2> QED BY <1>4, <1>6, <2>1 DEF Orderly, Procs
<1> HIDE DEF q
<1>9. PendingAfter(p, i, q)
  <2>1. \A c \in Calls : c # NoCall BY TailAssumption
  <2> QED BY <1>1, <1>8, <2>1 DEF PendingAfter, IsCall, IsResult
<1>10. EmittedAfter(p, i, q) BY <1>8 DEF EmittedAfter
<1>11. AccumAfter(p, i, q) BY <1>1, <1>8 DEF AccumAfter, IsLine
<1> QED BY <1>7, <1>8, <1>9, <1>10, <1>11 DEF Becomes, q

\* When it belongs to another one.
LEMMA OtherMessage ==
  ASSUME ScriptOK, NEW p, Orderly(p), NEW i \in Records,
         script[i].kind = "assistant", ~IsLine(i, p.accum.msg)
  PROVE  Becomes(p, i, Assistant(p, i, script[i]))
<1> DEFINE r == script[i]
           f == IF p.accum.msg \notin {NoMsg, r.msg} THEN Flushed(p) ELSE p
           a == IF r.msg \notin f.emitted THEN [msg |-> r.msg, lines |-> <<i>>] ELSE f.accum
           b == f.pending \cup ({r.call} \ {NoCall})
<1>1. r.msg # p.accum.msg /\ r.msg \in Messages /\ r.call \in Calls \cup {NoCall} BY RecordIs DEF IsLine
<1>2. NoMsg \notin Messages BY TailAssumption
<1>3. /\ Orderly(f) /\ f.accum = NoAccum /\ f.pending = p.pending /\ f.rewind = p.rewind
      /\ f.emitted = p.emitted \cup ({p.accum.msg} \ {NoMsg})
  <2>1. CASE p.accum.msg = NoMsg
    <3>1. f = p /\ p.accum = NoAccum BY <2>1, ProcFields
    <3> QED BY <2>1, <3>1
  <2>2. CASE p.accum.msg # NoMsg
    <3>1. f = Flushed(p) BY <1>1, <2>2
    <3> QED BY <3>1, FlushedIs
  <2> QED BY <2>1, <2>2
<1>4. f.accum.msg # r.msg BY <1>1, <1>2, <1>3, NoAccumIs
<1>5. a \in Accums /\ (a.msg = NoMsg => a = NoAccum)
  <2>1. <<i>> \in Seq(Records) OBVIOUS
  <2>2. [msg |-> r.msg, lines |-> <<i>>] \in Accums /\ r.msg # NoMsg BY <1>1, <1>2, <2>1 DEF Accums
  <2> QED BY <1>3, <2>2, NoAccumIs
<1>6. b \in SUBSET Calls BY <1>1, <1>3, ProcFields
<1>7. Assistant(p, i, r) = [f EXCEPT !.accum = a, !.pending = b]
  BY <1>4 DEF Assistant
<1> DEFINE q == [f EXCEPT !.accum = a, !.pending = b]
<1>8. Orderly(q) /\ q.accum = a /\ q.pending = b /\ q.emitted = f.emitted /\ q.rewind = f.rewind
  <2>1. q = [f EXCEPT !.accum = a, !.pending = b] OBVIOUS
  <2> HIDE DEF q, f, a, b
  <2>2. Orderly(f) BY <1>3
  <2> QED BY <1>5, <1>6, <2>1, <2>2 DEF Orderly, Procs
<1>9. q.emitted = f.emitted /\ q.pending = p.pending \cup ({r.call} \ {NoCall}) /\ q.rewind = p.rewind
  BY <1>3, <1>8
<1>10. q.accum = IF r.msg \notin q.emitted THEN [msg |-> r.msg, lines |-> <<i>>] ELSE NoAccum
  BY <1>3, <1>8
<1>11. Orderly(q) BY <1>8
<1> HIDE DEF q, a, b
<1>12. PendingAfter(p, i, q)
  <2>1. \A c \in Calls : c # NoCall BY TailAssumption
  <2> QED BY <1>1, <1>9, <2>1 DEF PendingAfter, IsCall, IsResult
<1>13. EmittedAfter(p, i, q) BY <1>3, <1>9 DEF EmittedAfter
<1>14. AccumAfter(p, i, q) BY <1>1, <1>10 DEF AccumAfter, IsLine
<1> QED BY <1>7, <1>9, <1>11, <1>12, <1>13, <1>14 DEF Becomes, q, a, b

LEMMA ProcessedIs ==
  ASSUME ScriptOK, NEW p, Orderly(p), NEW i \in Records
  PROVE  Becomes(p, i, Processed(p, i))
<1>1. CASE script[i].kind = "assistant"
  <2>1. Processed(p, i) = Assistant(p, i, script[i]) BY <1>1 DEF Processed
  <2> QED BY <1>1, <2>1, SameMessage, OtherMessage
<1>2. CASE script[i].kind # "assistant"
  <2> DEFINE f == Flushed(p)
             q == Processed(p, i)
  <2>1. /\ Orderly(f) /\ f.accum = NoAccum /\ f.pending = p.pending
        /\ f.emitted = p.emitted \cup ({p.accum.msg} \ {NoMsg}) /\ f.rewind = p.rewind
    BY FlushedIs
  <2> HIDE DEF f
  <2>2. /\ Orderly(q) /\ q.accum = NoAccum /\ q.emitted = f.emitted /\ q.rewind = f.rewind
        /\ q.pending = IF script[i].kind = "result" THEN f.pending \ {script[i].call} ELSE f.pending
    <3>1. CASE script[i].kind = "result"
      <4>1. q = [f EXCEPT !.pending = f.pending \ {script[i].call}] BY <3>1 DEF Processed, f
      <4>2. f.pending \ {script[i].call} \in SUBSET Calls BY <2>1, ProcFields
      <4> HIDE DEF q
      <4>3. /\ Orderly(q) /\ q.accum = f.accum /\ q.pending = f.pending \ {script[i].call}
            /\ q.emitted = f.emitted /\ q.rewind = f.rewind
        BY <2>1, <4>1, <4>2, WithPending
      <4> QED BY <2>1, <3>1, <4>3
    <3>2. CASE script[i].kind # "result"
      <4>1. q = f BY <1>2, <3>2 DEF Processed, f
      <4> QED BY <2>1, <3>2, <4>1
    <3> QED BY <3>1, <3>2
  <2> HIDE DEF q
  <2>3. PendingAfter(p, i, q) BY <1>2, <2>1, <2>2 DEF PendingAfter, IsCall, IsResult
  <2>4. EmittedAfter(p, i, q) BY <1>2, <2>1, <2>2 DEF EmittedAfter, IsLine
  <2>5. AccumAfter(p, i, q) BY <1>2, <2>1, <2>2 DEF AccumAfter, IsLine
  <2> QED BY <2>1, <2>2, <2>3, <2>4, <2>5 DEF Becomes, q
<1> QED BY <1>1, <1>2

LEMMA TwoElements ==
  ASSUME NEW a, NEW b
  PROVE  <<a>> \o <<b>> = <<a, b>>
<1> DEFINE S == {a, b}
<1>1. <<a>> \in Seq(S) /\ <<b>> \in Seq(S) /\ <<a, b>> \in Seq(S) OBVIOUS
<1>2. Len(<<a>>) = 1 /\ Len(<<b>>) = 1 /\ Len(<<a, b>>) = 2 OBVIOUS
<1>3. /\ <<a>> \o <<b>> \in Seq(S) /\ Len(<<a>> \o <<b>>) = 2
      /\ \A i \in 1..2 : (<<a>> \o <<b>>)[i] = IF i <= 1 THEN <<a>>[i] ELSE <<b>>[i - 1]
  BY <1>1, <1>2, ConcatProperties
<1>4. \A i \in 1..2 : (<<a>> \o <<b>>)[i] = <<a, b>>[i]
  <2>1. \A i \in 1..2 : i = 1 \/ i = 2 OBVIOUS
  <2> QED BY <1>3, <2>1
<1> QED BY <1>1, <1>2, <1>3, <1>4, SeqEqual

\* The events of a record, and how few they are.
LEMMA ProducedIs ==
  ASSUME ScriptOK, NEW p, Orderly(p), NEW i \in Records
  PROVE  /\ Produced(p, i) \in Seq(Event)
         /\ Range(Produced(p, i)) = Made(p, i)
         /\ \/ Produced(p, i) = <<>>
            \/ \E a \in Event : Produced(p, i) = <<a>>
            \/ \E a, b \in Event : Produced(p, i) = <<a, b>> /\ a \in FlushSet(p) /\ b \notin FlushSet(p)
<1> DEFINE r == script[i]
           F == FlushOut(p)
           P == Produced(p, i)
           Few(s) == \/ s = <<>>
                     \/ \E a \in Event : s = <<a>>
                     \/ \E a, b \in Event : s = <<a, b>> /\ a \in FlushSet(p) /\ b \notin FlushSet(p)
<1>1. F \in Seq(Event) /\ Range(F) = FlushSet(p) /\ Few(F)
  <2>1. FlushSet(p) = {} => F = <<>> BY FlushOutIs
  <2>2. FlushSet(p) # {} => F = <<Response(p.accum)>> /\ Response(p.accum) \in Range(F) BY FlushOutIs, RangeOfOne
  <2>3. F \in Seq(Event) /\ Range(F) = FlushSet(p) /\ Range(F) \subseteq Event BY FlushOutIs, RangeIs
  <2> QED BY <2>1, <2>2, <2>3
<1>2. \A e \in Event : ~(e \in FlushSet(p)) => Few(F \o <<e>>)
  <2> SUFFICES ASSUME NEW e \in Event, e \notin FlushSet(p) PROVE Few(F \o <<e>>) OBVIOUS
  <2>1. <<e>> \in Seq(Event) OBVIOUS
  <2>2. CASE FlushSet(p) = {}
    <3>1. F \o <<e>> = <<e>> BY <2>1, <2>2, FlushOutIs, ConcatEmptySeq
    <3> QED BY <3>1
  <2>3. CASE FlushSet(p) # {}
    <3>1. F = <<Response(p.accum)>> /\ Response(p.accum) \in FlushSet(p) /\ Response(p.accum) \in Event
      BY <1>1, <2>3, FlushOutIs, RangeOfOne, RangeIs
    <3>2. F \o <<e>> = <<Response(p.accum), e>> BY <3>1, TwoElements
    <3> QED BY <3>1, <3>2
  <2> QED BY <2>2, <2>3
<1>3. \A c : ToolEvent(c) \notin FlushSet(p) 
  <2>1. \A e \in FlushSet(p) : e.id = ResponseId(p.accum.msg) BY IdsAre DEF FlushSet
  <2> QED BY <2>1, IdsAre, IdsDiffer
<1>4. Prompt(i) \notin FlushSet(p)
  <2>1. \A e \in FlushSet(p) : e.id = ResponseId(p.accum.msg) BY IdsAre DEF FlushSet
  <2> QED BY <2>1, IdsAre, IdsDiffer
<1>5. CASE r.kind = "assistant"
  <2>1. IsLine(i, p.accum.msg) => P = <<>> BY <1>5 DEF Produced, IsLine
  <2>2. ~IsLine(i, p.accum.msg) => P = F BY <1>5 DEF Produced, IsLine
  <2>3. Made(p, i) = IF IsLine(i, p.accum.msg) THEN {} ELSE FlushSet(p)
    BY <1>5 DEF Made, IsResult, IsPrompt
  <2> QED BY <1>1, <2>1, <2>2, <2>3, EmptyRange, EmptySeq
<1>6. CASE r.kind = "result"
  <2>1. P = F \o (IF r.call \in p.pending THEN <<ToolEvent(r.call)>> ELSE <<>>) BY <1>6 DEF Produced
  <2>2. Made(p, i) = FlushSet(p) \cup (IF r.call \in p.pending THEN {ToolEvent(r.call)} ELSE {})
    BY <1>6 DEF Made, IsResult, IsPrompt, IsLine
  <2>3. CASE r.call \in p.pending
    <3>1. ToolEvent(r.call) \in Event BY <1>6, RecordIs, EventIs
    <3>2. <<ToolEvent(r.call)>> \in Seq(Event) BY <3>1
    <3>3. P = F \o <<ToolEvent(r.call)>> BY <2>1, <2>3
    <3>4. P \in Seq(Event) /\ Range(P) = Range(F) \cup Range(<<ToolEvent(r.call)>>)
      BY <1>1, <3>2, <3>3, RangeConcat
    <3>5. Few(P) BY <1>2, <1>3, <3>1, <3>3
    <3>6. Range(P) = Made(p, i) BY <1>1, <2>2, <2>3, <3>4, RangeOfOne
    <3> QED BY <3>4, <3>5, <3>6
  <2>4. CASE r.call \notin p.pending
    <3>1. P = F \o <<>> BY <2>1, <2>4
    <3>2. P = F BY <1>1, <3>1, ConcatEmptySeq
    <3> QED BY <1>1, <2>2, <2>4, <3>2
  <2> QED BY <2>3, <2>4
<1>7. CASE r.kind = "prompt"
  <2>1. P = Append(F, Prompt(i)) BY <1>7 DEF Produced
  <2>2. Made(p, i) = FlushSet(p) \cup {Prompt(i)}
    BY <1>7 DEF Made, IsResult, IsPrompt, IsLine
  <2>3. Prompt(i) \in Event BY EventIs
  <2>4. P \in Seq(Event) /\ Range(P) = Range(F) \cup {Prompt(i)} BY <1>1, <2>1, <2>3, RangeAppend
  <2>5. P = F \o <<Prompt(i)>> BY <1>1, <2>1, <2>3, AppendIsConcat
  <2>6. Few(P) BY <1>2, <1>4, <2>3, <2>5
  <2>7. Range(P) = Made(p, i) BY <1>1, <2>2, <2>4
  <2> QED BY <2>4, <2>6, <2>7
<1>8. CASE r.kind = "other"
  <2>1. P = F BY <1>8 DEF Produced
  <2>2. Made(p, i) = FlushSet(p) BY <1>8 DEF Made, IsResult, IsPrompt, IsLine
  <2> QED BY <1>1, <2>1, <2>2
<1> QED BY <1>5, <1>6, <1>7, <1>8, RecordIs

\* No two of them have one id.
LEMMA ProducedOnce ==
  ASSUME ScriptOK, NEW p, Orderly(p), NEW i \in Records
  PROVE  \A x, y \in 1..Len(Produced(p, i)) : Produced(p, i)[x].id = Produced(p, i)[y].id => x = y
<1> DEFINE P == Produced(p, i)
<1> SUFFICES \A x, y \in 1..Len(P) : P[x].id = P[y].id => x = y OBVIOUS
<1>1. CASE P = <<>>
  <2>1. 1..Len(P) = {} BY <1>1
  <2> HIDE DEF P
  <2> QED BY <2>1
<1>2. CASE \E a \in Event : P = <<a>>
  <2>1. Len(P) = 1 BY <1>2
  <2>2. \A x, y \in 1..1 : x = y OBVIOUS
  <2> HIDE DEF P
  <2> QED BY <2>1, <2>2
<1>3. ASSUME NEW a \in Event, NEW b \in Event, P = <<a, b>>, a \in FlushSet(p), b \notin FlushSet(p)
      PROVE  \A x, y \in 1..Len(P) : P[x].id = P[y].id => x = y
  <2>1. Len(P) = 2 /\ P[1] = a /\ P[2] = b BY <1>3
  <2>2. a.id = ResponseId(p.accum.msg) BY <1>3, IdsAre DEF FlushSet
  <2>3. b \in Made(p, i)
    <3>1. b \in Range(P) /\ Range(P) = Made(p, i)
      <4>1. P \in Seq(Event) /\ Range(P) = Made(p, i) BY ProducedIs
      <4>2. 2 \in 1..Len(P) BY <2>1
      <4>3. Range(P) = {P[x] : x \in 1..Len(P)} BY <4>1, RangeIs
      <4> HIDE DEF P
      <4> QED BY <2>1, <4>1, <4>2, <4>3
    <3> QED BY <3>1
  <2>4. (\E c : b = ToolEvent(c)) \/ b = Prompt(i) BY <1>3, <2>3 DEF Made
  <2>5. a.id # b.id BY <2>2, <2>4, IdsAre, IdsDiffer
  <2>6. \A x \in 1..2 : x = 1 \/ x = 2 OBVIOUS
  <2> HIDE DEF P
  <2> QED BY <2>1, <2>5, <2>6
<1> QED BY <1>1, <1>2, <1>3, ProducedIs

-----------------------------------------------------------------------------
(* Which steps change what.                                                 *)

LEMMA WhoMovesEnvironment ==
  ASSUME [Next]_vars
  PROVE  /\ script' = script /\ allowed' = allowed
         /\ avail' = avail \/ Grow
         /\ old' = old \/ LeaveWindow
         /\ age' = age \/ Age
         /\ inside' = inside \/ MoveRoots
         /\ full' = full \/ \E l \in Lanes : FillLane(l) \/ FreeLane(l)
         /\ base' = base \/ ClassifyOld \/ EndUnknown
BY DEF Next, Poll, Classify, Grow, Age, LeaveWindow, MoveRoots, FillLane, FreeLane, PollStart, ClassifyStops,
       ClassifyNo, ClassifyYes, ClassifyOld, EndUnknown, TailStart, ReadRecord, Read, QueueEvent, QueueRefused,
       RecordDone, StopReading, Checkpoint, FlushStale, NoFlush, Evict, SaveProgress, SaveFails, Exit, Crash, vars, env

LEMMA WhoMovesQueue ==
  ASSUME [Next]_vars
  PROVE  /\ UNCHANGED <<queued, repeated, claimed>> \/ QueueEvent \/ QueueRefused \/ FlushStale \/ Evict \/ Exit
         /\ out' = out \/ ReadRecord \/ QueueEvent \/ QueueRefused \/ Crash
         /\ proc' = proc \/ ReadRecord \/ QueueRefused \/ FlushStale \/ Evict \/ Exit \/ Crash
BY DEF Next, Poll, Classify, Grow, Age, LeaveWindow, MoveRoots, FillLane, FreeLane, PollStart, ClassifyStops,
       ClassifyNo, ClassifyYes, ClassifyOld, EndUnknown, TailStart, ReadRecord, Read, QueueEvent, QueueRefused,
       RecordDone, StopReading, Checkpoint, FlushStale, NoFlush, Evict, SaveProgress, SaveFails, Exit, Crash, vars, queue

LEMMA WhoMovesProgress ==
  ASSUME [Next]_vars
  PROVE  /\ disk' = disk \/ PollStart \/ Checkpoint \/ SaveProgress
         /\ pg' = pg \/ PollStart \/ Classify \/ QueueRefused \/ RecordDone \/ Crash
         /\ health' = health \/ PollStart \/ ReadRecord \/ RecordDone \/ FlushStale \/ Evict
                      \/ SaveProgress \/ SaveFails \/ Exit \/ Crash
BY DEF Next, Poll, Classify, Grow, Age, LeaveWindow, MoveRoots, FillLane, FreeLane, PollStart, ClassifyStops,
       ClassifyNo, ClassifyYes, ClassifyOld, EndUnknown, TailStart, ReadRecord, Read, QueueEvent, QueueRefused,
       RecordDone, StopReading, Checkpoint, FlushStale, NoFlush, Evict, SaveProgress, SaveFails, Exit, Crash, vars

\* How the poll goes on.
LEMMA WhoMovesPoll ==
  ASSUME [Next]_vars
  PROVE  \/ pc' = pc
         \/ PollStart \/ Classify \/ TailStart \/ ReadRecord \/ QueueRefused \/ RecordDone \/ StopReading
         \/ FlushStale \/ NoFlush \/ Evict \/ SaveProgress \/ SaveFails \/ Crash
BY DEF Next, Poll, Classify, Grow, Age, LeaveWindow, MoveRoots, FillLane, FreeLane, QueueEvent,
       Checkpoint, Exit, vars

-----------------------------------------------------------------------------
(* The types, and where the poll stands.                                    *)

Matches == {"none", "yes", "no"}
Places  == {"idle", "classify", "tail", "read", "queue", "flush", "save"}
Entries(n) == [v : 0..Schema, match : Matches, off : Unseen..n, cls : 0..n, fp : BOOLEAN]

Given == ScriptOK /\ allowed \subseteq ConditionKinds

EnvOK ==
  /\ avail \in 0..Len(script) /\ old \in 0..avail /\ base \in 0..avail /\ inside \in BOOLEAN
  /\ age \in {"live", "replay", "backfill"} /\ full \subseteq Lanes
  /\ full # {} => "full" \in allowed
PlaceOK == /\ pc \in Places
           /\ pc # "queue" => out = <<>>
           /\ pc = "queue" => Offset < avail
           /\ pc # "idle" => pg.v = Schema
           /\ pc \in {"tail", "read", "queue"} => pg.match = "yes"
ProgressOK == disk \in Entries(avail) /\ pg \in Entries(avail)
ProcOK == proc \in Processor /\ (proc.accum.msg = NoMsg => proc.accum = NoAccum)
Within(e) == Range(e.body) \subseteq 1..avail
QueueOK == /\ repeated \in BOOLEAN /\ claimed \subseteq FileDiffs
           /\ queued \subseteq Event /\ out \in Seq(Event)
           /\ \A e \in queued : Within(e)
           /\ \A e \in Range(out) : Within(e)
Healths(n) == [degraded : BOOLEAN, barren : 0..(DegradedAfter + 1), read : 0..n, parsed : BOOLEAN]
HealthOK == /\ health \in Healths(avail)
            /\ health.degraded => Watched
            /\ pc \in {"classify", "tail"} => health.read = 0
            /\ pc \in {"read", "queue"} => health.read <= Offset
            /\ ~Watched => health.read = 0

BaseInv == Given /\ EnvOK /\ PlaceOK /\ ProgressOK /\ ProcOK /\ QueueOK /\ HealthOK

LEMMA BaseHasTypes ==
  ASSUME BaseInv
  PROVE  TypeOK
<1>1. \A p \in {disk, pg} :
        p \in [v : 0..Schema, match : {"none", "yes", "no"}, off : Unseen..avail, cls : 0..avail, fp : BOOLEAN]
  BY DEF BaseInv, ProgressOK, Entries, Matches
<1>2. health \in [degraded : BOOLEAN, barren : 0..(DegradedAfter + 1), read : 0..avail, parsed : BOOLEAN]
  BY DEF BaseInv, HealthOK, Healths
<1>3. \A e \in queued \cup Range(out) : Range(e.body) \subseteq 1..avail BY DEF BaseInv, QueueOK, Within
<1> QED BY <1>1, <1>2, <1>3 DEF TypeOK, BaseInv, EnvOK, PlaceOK, ProcOK, QueueOK, Places

\* What the proofs use of it.
LEMMA BaseFacts ==
  ASSUME BaseInv
  PROVE  /\ ScriptOK /\ avail \in Nat /\ avail <= Len(script)
         /\ base \in Nat /\ base <= avail
         /\ Offset \in Nat /\ Offset <= avail /\ Saved \in Nat /\ Saved <= avail
         /\ Orderly(proc) /\ proc.accum.lines \in Seq(1..avail) /\ proc.rewind <= avail
<1>1. /\ ScriptOK /\ avail \in Nat /\ avail <= Len(script) /\ base \in Nat /\ base <= avail
  BY DEF BaseInv, Given, EnvOK, ScriptOK
<1>2. \A p \in Entries(avail) : p.off \in Int /\ p.off <= avail /\ (p.off # Unseen => p.off \in Nat)
  BY <1>1 DEF Entries, Unseen
<1>3. Offset \in Nat /\ Offset <= avail BY <1>1, <1>2 DEF BaseInv, ProgressOK, Offset
<1>4. Saved \in Nat /\ Saved <= avail BY <1>1, <1>2 DEF BaseInv, ProgressOK, Saved
<1>5. proc \in Processor BY DEF BaseInv, ProcOK
<1>6. 1..avail \subseteq Records BY <1>1 DEF ScriptOK, Records
<1>7. proc.accum \in Accums /\ proc.accum.lines \in Seq(1..avail)
  <2>1. proc.accum.msg \in Messages \cup {NoMsg} /\ proc.accum.lines \in Seq(1..avail)
    BY <1>5 DEF Processor
  <2>2. proc.accum.lines \in Seq(Records) BY <1>6, <2>1, SeqMonotonic
  <2>3. proc.accum = [msg |-> proc.accum.msg, lines |-> proc.accum.lines] BY <1>5 DEF Processor
  <2> QED BY <2>1, <2>2, <2>3 DEF Accums
<1>8. Orderly(proc) /\ proc.rewind <= avail
  <2>1. proc.pending \in SUBSET Calls /\ proc.emitted \in SUBSET Messages /\ proc.rewind \in Nat
        /\ proc.rewind <= avail
    BY <1>1, <1>5 DEF Processor
  <2>2. proc = [accum |-> proc.accum, pending |-> proc.pending, emitted |-> proc.emitted, rewind |-> proc.rewind]
    BY <1>5 DEF Processor
  <2>3. proc \in Procs BY <1>7, <2>1, <2>2 DEF Procs
  <2>4. proc.accum.msg = NoMsg => proc.accum = NoAccum BY DEF BaseInv, ProcOK
  <2> QED BY <2>1, <2>3, <2>4 DEF Orderly
<1> QED BY <1>1, <1>3, <1>4, <1>7, <1>8

\* A processor whose lines are on disk.
LEMMA MakesProcessor ==
  ASSUME NEW p, Orderly(p), NEW n \in Nat, p.accum.lines \in Seq(1..n), p.rewind <= n
  PROVE  p \in [accum : [msg : Messages \cup {NoMsg}, lines : Seq(1..n)],
                pending : SUBSET Calls, emitted : SUBSET Messages, rewind : 0..n]
<1>1. p \in Procs BY DEF Orderly
<1>2. p.accum \in Accums /\ p.pending \in SUBSET Calls /\ p.emitted \in SUBSET Messages /\ p.rewind \in 0..n
      /\ p = [accum |-> p.accum, pending |-> p.pending, emitted |-> p.emitted, rewind |-> p.rewind]
  BY <1>1 DEF Procs
<1>3. p.accum \in [msg : Messages \cup {NoMsg}, lines : Seq(1..n)]
  BY <1>2 DEF Accums
<1> QED BY <1>2, <1>3

LEMMA MigratedIs ==
  ASSUME NEW n \in Nat, NEW p \in Entries(n)
  PROVE  /\ Migrated(p) \in Entries(n) /\ Migrated(p).v = Schema /\ Migrated(p).fp = p.fp
         /\ Migrated(p).off = (IF p.v < Schema THEN Unseen ELSE p.off)
         /\ Migrated(p).cls = (IF p.v < Schema THEN 0 ELSE p.cls)
         /\ p.v < Schema => Migrated(p).match # "yes"
         /\ ~(p.v < Schema) => Migrated(p).match = p.match
<1> DEFINE one == IF p.v < 1 /\ p.match = "no" THEN [p EXCEPT !.match = "none"] ELSE p
           two == IF p.v < 2 THEN [one EXCEPT !.off = Unseen, !.cls = 0,
                                              !.match = IF one.match = "yes" THEN "none" ELSE one.match] ELSE one
<1>1. /\ p.v \in 0..2 /\ p.match \in Matches /\ p.off \in Unseen..n /\ p.cls \in 0..n /\ p.fp \in BOOLEAN
      /\ "none" \in Matches /\ Unseen \in Unseen..n /\ 0 \in 0..n
  BY DEF Entries, Schema, Matches, Unseen
<1>2. /\ one \in Entries(n) /\ one.v = p.v /\ one.fp = p.fp /\ one.off = p.off /\ one.cls = p.cls
      /\ ~(p.v < 2) => one.match = p.match
  BY <1>1 DEF Entries
<1> HIDE DEF one
<1>3. /\ two \in Entries(n) /\ two.v = p.v /\ two.fp = p.fp
      /\ two.off = (IF p.v < 2 THEN Unseen ELSE p.off)
      /\ two.cls = (IF p.v < 2 THEN 0 ELSE p.cls)
      /\ p.v < 2 => two.match # "yes"
      /\ ~(p.v < 2) => two.match = p.match
  <2>1. CASE p.v < 2
    <3> DEFINE m == IF one.match = "yes" THEN "none" ELSE one.match
    <3>1. m \in Matches /\ m # "yes" BY <1>1, <1>2 DEF Entries
    <3>2. two = [one EXCEPT !.off = Unseen, !.cls = 0, !.match = m] BY <2>1
    <3> HIDE DEF m, two
    <3> QED BY <1>1, <1>2, <2>1, <3>1, <3>2 DEF Entries
  <2>2. CASE ~(p.v < 2)
    <3>1. two = one BY <2>2
    <3> QED BY <1>2, <2>2, <3>1
  <2> QED BY <2>1, <2>2
<1>4. Migrated(p) = [two EXCEPT !.v = Schema] BY DEF Migrated, one
<1> HIDE DEF two
<1>5. Schema = 2 /\ 2 \in 0..Schema BY DEF Schema
<1> QED BY <1>1, <1>3, <1>4, <1>5 DEF Entries

LEMMA SyncedIs ==
  ASSUME NEW n \in Nat, NEW p \in Entries(n), inside \in BOOLEAN
  PROVE  /\ Synced(p) \in Entries(n) /\ Synced(p).v = p.v /\ Synced(p).off = p.off /\ Synced(p).cls = p.cls
         /\ Synced(p).fp = inside
         /\ p.fp = inside => Synced(p) = p
         /\ Synced(p).match = "yes" => p.match = "yes"
<1>1. "none" \in Matches BY DEF Matches
<1>2. CASE p.fp = inside BY <1>2 DEF Synced
<1>3. CASE p.fp # inside
  <2>1. Synced(p) = [p EXCEPT !.match = "none", !.fp = inside] BY <1>3 DEF Synced
  <2> QED BY <1>1, <1>3, <2>1 DEF Entries
<1> QED BY <1>2, <1>3

\* What the poll begins with.
LEMMA BeginsWith ==
  ASSUME BaseInv, PollStart
  PROVE  /\ pg' \in Entries(avail) /\ pg'.v = Schema
         /\ pg'.off = Migrated(disk).off /\ pg'.cls = Migrated(disk).cls
         /\ pg'.match = "yes" => Migrated(disk).match = "yes"
         /\ disk' = disk \/ disk' = pg'
         /\ Offset' = Saved /\ Saved' = Saved
<1>1. avail \in Nat /\ disk \in Entries(avail) /\ inside \in BOOLEAN
  BY BaseFacts DEF BaseInv, ProgressOK, EnvOK
<1>2. pg' = Synced(Migrated(disk)) /\ (disk' = disk \/ disk' = pg') BY DEF PollStart
<1>3. /\ Migrated(disk) \in Entries(avail) /\ Migrated(disk).v = Schema
      /\ Migrated(disk).off = (IF disk.v < Schema THEN Unseen ELSE disk.off)
  BY <1>1, MigratedIs
<1>4. /\ pg' \in Entries(avail) /\ pg'.v = Schema /\ pg'.off = Migrated(disk).off /\ pg'.cls = Migrated(disk).cls
      /\ (pg'.match = "yes" => Migrated(disk).match = "yes")
  BY <1>1, <1>2, <1>3, SyncedIs
<1>5. Offset' = Saved BY <1>3, <1>4 DEF Offset, Saved
<1>6. Saved' = Saved
  <2>1. disk' = pg' => Saved' = Saved
    <3>1. Schema \in Int /\ ~(Schema < Schema) BY DEF Schema
    <3> QED BY <1>3, <1>4, <3>1 DEF Saved
  <2>2. disk' = disk => Saved' = Saved BY DEF Saved
  <2> QED BY <1>2, <2>1, <2>2
<1> QED BY <1>2, <1>4, <1>5, <1>6

\* Of the entries only the fields that a step names change.
LEMMA WithOff ==
  ASSUME NEW n \in Nat, NEW p \in Entries(n), NEW k \in 0..n, NEW q, q = [p EXCEPT !.off = k]
  PROVE  q \in Entries(n) /\ q.v = p.v /\ q.match = p.match /\ q.off = k /\ q.cls = p.cls /\ q.fp = p.fp
<1>1. k \in Unseen..n BY DEF Unseen
<1> QED BY <1>1 DEF Entries

LEMMA WithCls ==
  ASSUME NEW n \in Nat, NEW p \in Entries(n), NEW k \in 0..n, NEW q, q = [p EXCEPT !.cls = k]
  PROVE  q \in Entries(n) /\ q.v = p.v /\ q.match = p.match /\ q.off = p.off /\ q.cls = k /\ q.fp = p.fp
BY DEF Entries

LEMMA DecidedIs ==
  ASSUME avail \in Nat, pg \in Entries(avail), NEW m \in Matches
  PROVE  /\ Decided(m) \in Entries(avail) /\ Decided(m).v = pg.v /\ Decided(m).match = m
         /\ Decided(m).off = pg.off /\ Decided(m).cls = 0 /\ Decided(m).fp = pg.fp
<1>1. 0 \in 0..avail OBVIOUS
<1> QED BY <1>1 DEF Decided, Entries

\* The classification decides the match, moves its cursor, or takes the end as offset.
LEMMA ClassifyIs ==
  ASSUME BaseInv, Classify
  PROVE  /\ pc = "classify" /\ pc' \in {"flush", "tail"}
         /\ pg' \in Entries(avail) /\ pg'.v = pg.v
         /\ pc' = "tail" => pg'.match = "yes"
         /\ \/ pg'.off = pg.off /\ Offset' = Offset
            \/ ClassifyOld /\ pg.off = Unseen /\ pg'.off = avail /\ Offset' = avail /\ base' = avail
<1>1. avail \in Nat /\ pg \in Entries(avail) BY BaseFacts DEF BaseInv, ProgressOK
<1>2. "yes" \in Matches /\ "no" \in Matches BY DEF Matches
<1>3. pc = "classify" BY DEF Classify, ClassifyStops, ClassifyNo, ClassifyYes, ClassifyOld, EndUnknown
<1>4. pg'.off = pg.off => Offset' = Offset BY DEF Offset
<1>5. CASE ClassifyStops
  <2>1. PICK k \in pg.cls..avail : pg' = [pg EXCEPT !.cls = k] BY <1>5 DEF ClassifyStops
  <2>2. k \in 0..avail BY <1>1 DEF Entries
  <2>3. pg' \in Entries(avail) /\ pg'.v = pg.v /\ pg'.off = pg.off BY <1>1, <2>1, <2>2, WithCls
  <2> QED BY <1>3, <1>4, <1>5, <2>3 DEF ClassifyStops
<1>6. CASE ClassifyNo
  <2>1. pg' = Decided("no") BY <1>6 DEF ClassifyNo
  <2>2. pg' \in Entries(avail) /\ pg'.v = pg.v /\ pg'.off = pg.off BY <1>1, <1>2, <2>1, DecidedIs
  <2> QED BY <1>3, <1>4, <1>6, <2>2 DEF ClassifyNo
<1>7. CASE ClassifyYes
  <2>1. pg' = Decided("yes") BY <1>7 DEF ClassifyYes
  <2>2. pg' \in Entries(avail) /\ pg'.v = pg.v /\ pg'.off = pg.off /\ pg'.match = "yes"
    BY <1>1, <1>2, <2>1, DecidedIs
  <2> QED BY <1>3, <1>4, <1>7, <2>2 DEF ClassifyYes
<1>8. CASE ClassifyOld
  <2> DEFINE d == Decided("yes")
             k == IF d.off = Unseen THEN avail ELSE d.off
  <2>1. d \in Entries(avail) /\ d.v = pg.v /\ d.match = "yes" /\ d.off = pg.off BY <1>1, <1>2, DecidedIs
  <2>2. pg' = [d EXCEPT !.off = k] BY <1>8 DEF ClassifyOld
  <2> HIDE DEF d
  <2>3. k \in 0..avail BY <1>1, <2>1 DEF Entries, Unseen
  <2> HIDE DEF k
  <2>4. pg' \in Entries(avail) /\ pg'.v = pg.v /\ pg'.match = "yes" /\ pg'.off = k
    BY <1>1, <2>1, <2>2, <2>3, WithOff
  <2>5. avail # Unseen BY <1>1 DEF Unseen
  <2>6. pg.off = Unseen => k = avail /\ Offset' = avail /\ base' = avail
    BY <1>8, <2>1, <2>4, <2>5 DEF k, Offset, ClassifyOld
  <2>7. pg.off # Unseen => k = pg.off BY <2>1 DEF k
  <2> QED BY <1>3, <1>4, <1>8, <2>4, <2>6, <2>7 DEF ClassifyOld
<1>9. CASE EndUnknown
  <2>1. pg' = [pg EXCEPT !.cls = 0] /\ 0 \in 0..avail BY <1>1, <1>9 DEF EndUnknown
  <2>2. pg' \in Entries(avail) /\ pg'.v = pg.v /\ pg'.off = pg.off BY <1>1, <2>1, WithCls
  <2> QED BY <1>3, <1>4, <1>9, <2>2 DEF EndUnknown
<1> QED BY <1>5, <1>6, <1>7, <1>8, <1>9 DEF Classify

\* The offset after a refusal and after a record.
LEMMA RefusedGoesBack ==
  ASSUME BaseInv, QueueRefused
  PROVE  /\ pg' \in Entries(avail) /\ pg'.v = pg.v /\ pg'.match = pg.match /\ pg'.cls = pg.cls
         /\ Offset' = (IF proc.rewind < Offset THEN proc.rewind ELSE Offset)
         /\ pg' = pg \/ pg'.off = proc.rewind
<1>1. avail \in Nat /\ pg \in Entries(avail) /\ proc.rewind \in 0..avail /\ proc.rewind # Unseen
  <2>1. avail \in Nat /\ Orderly(proc) /\ proc.rewind <= avail BY BaseFacts
  <2>2. proc.rewind \in Nat BY <2>1, ProcFields
  <2> QED BY <2>1, <2>2 DEF BaseInv, ProgressOK, Unseen
<1>2. CASE proc.rewind < Offset
  <2>1. pg' = [pg EXCEPT !.off = proc.rewind] BY <1>2 DEF QueueRefused
  <2>2. pg' \in Entries(avail) /\ pg'.v = pg.v /\ pg'.match = pg.match /\ pg'.cls = pg.cls /\ pg'.off = proc.rewind
    BY <1>1, <2>1, WithOff
  <2>3. Offset' = proc.rewind BY <1>1, <2>2 DEF Offset
  <2> QED BY <1>2, <2>2, <2>3
<1>3. CASE ~(proc.rewind < Offset)
  <2>1. pg' = pg BY <1>3 DEF QueueRefused
  <2> QED BY <1>1, <1>3, <2>1 DEF Offset
<1> QED BY <1>2, <1>3

LEMMA RecordGoesOn ==
  ASSUME BaseInv, RecordDone
  PROVE  /\ pg' \in Entries(avail) /\ pg'.v = pg.v /\ pg'.match = pg.match /\ pg'.cls = pg.cls
         /\ Offset' = Offset + 1 /\ pg'.off = Offset + 1
<1>1. avail \in Nat /\ pg \in Entries(avail) /\ Offset \in Nat /\ Offset < avail
  BY BaseFacts DEF BaseInv, ProgressOK, PlaceOK, RecordDone
<1>2. Offset + 1 \in 0..avail /\ Offset + 1 # Unseen BY <1>1 DEF Unseen
<1>3. pg' = [pg EXCEPT !.off = Offset + 1] BY DEF RecordDone
<1>4. pg' \in Entries(avail) /\ pg'.v = pg.v /\ pg'.match = pg.match /\ pg'.cls = pg.cls /\ pg'.off = Offset + 1
  BY <1>1, <1>2, <1>3, WithOff
<1>5. Offset' = Offset + 1 BY <1>2, <1>4 DEF Offset
<1> QED BY <1>4, <1>5

LEMMA GivenStep ==
  ASSUME BaseInv, [Next]_vars
  PROVE  Given'
<1>1. script' = script /\ allowed' = allowed BY WhoMovesEnvironment
<1> QED BY <1>1 DEF BaseInv, Given, ScriptOK

LEMMA EnvStep ==
  ASSUME BaseInv, [Next]_vars
  PROVE  EnvOK' /\ avail \in Nat /\ avail' \in Nat /\ avail <= avail'
<1>1. script' = script /\ allowed' = allowed /\ Len(script) \in Nat
  BY WhoMovesEnvironment DEF BaseInv, Given, ScriptOK
<1>2. EnvOK BY DEF BaseInv
<1>3. avail \in Nat /\ avail' \in 0..Len(script) /\ avail <= avail'
  <2>1. avail' = avail \/ Grow BY WhoMovesEnvironment
  <2> QED BY <1>1, <1>2, <2>1 DEF EnvOK, Grow
<1>4. old' \in 0..avail'
  <2>1. old' = old \/ LeaveWindow BY WhoMovesEnvironment
  <2>2. old' = old => old' \in 0..avail' BY <1>2, <1>3 DEF EnvOK
  <2>3. LeaveWindow => old' \in 0..avail' BY <1>2, <1>3 DEF EnvOK, LeaveWindow
  <2> QED BY <2>1, <2>2, <2>3
<1>5. base' \in 0..avail'
  <2>1. base' = base \/ ClassifyOld \/ EndUnknown BY WhoMovesEnvironment
  <2>2. ClassifyOld \/ EndUnknown => base' = avail \/ base' = base BY DEF ClassifyOld, EndUnknown
  <2> QED BY <1>2, <1>3, <2>1, <2>2 DEF EnvOK
<1>6. inside' \in BOOLEAN
  <2>1. inside' = inside \/ inside' = ~inside BY WhoMovesEnvironment DEF MoveRoots
  <2> QED BY <1>2, <2>1 DEF EnvOK
<1>7. age' \in {"live", "replay", "backfill"}
  <2>1. age' = age \/ age' = "replay" \/ age' = "backfill" BY WhoMovesEnvironment DEF Age
  <2> QED BY <1>2, <2>1 DEF EnvOK
<1>8. full' \subseteq Lanes /\ (full' # {} => "full" \in allowed)
  <2>1. \/ full' = full
        \/ \E l \in Lanes : "full" \in allowed /\ full' = full \cup {l}
        \/ \E l \in Lanes : l \in full /\ full' = full \ {l}
    BY WhoMovesEnvironment DEF FillLane, FreeLane
  <2> QED BY <1>2, <2>1 DEF EnvOK
<1> QED BY <1>1, <1>3, <1>4, <1>5, <1>6, <1>7, <1>8 DEF EnvOK

LEMMA ProgressStep ==
  ASSUME BaseInv, [Next]_vars
  PROVE  ProgressOK'
<1>1. avail \in Nat /\ avail' \in Nat /\ avail <= avail' BY EnvStep
<1>2. disk \in Entries(avail) /\ pg \in Entries(avail) BY DEF BaseInv, ProgressOK
<1>3. \A p \in Entries(avail) : p \in Entries(avail')
  <2>1. Unseen..avail \subseteq Unseen..avail' /\ 0..avail \subseteq 0..avail' BY <1>1 DEF Unseen
  <2> QED BY <2>1 DEF Entries
<1>4. pg' \in Entries(avail)
  <2>1. pg' = pg \/ PollStart \/ Classify \/ QueueRefused \/ RecordDone \/ Crash BY WhoMovesProgress
  <2>2. Crash => pg' = disk BY DEF Crash
  <2> QED BY <1>2, <2>1, <2>2, BeginsWith, ClassifyIs, RefusedGoesBack, RecordGoesOn
<1>5. disk' \in Entries(avail)
  <2>1. disk' = disk \/ PollStart \/ Checkpoint \/ SaveProgress BY WhoMovesProgress
  <2>2. Checkpoint \/ SaveProgress => disk' = pg BY DEF Checkpoint, SaveProgress
  <2> QED BY <1>2, <1>4, <2>1, <2>2, BeginsWith
<1> QED BY <1>3, <1>4, <1>5 DEF ProgressOK

LEMMA PlaceStep ==
  ASSUME BaseInv, [Next]_vars
  PROVE  PlaceOK'
<1>1. /\ PlaceOK /\ avail \in Nat /\ avail' \in Nat /\ avail <= avail' /\ Offset \in Nat
  BY BaseFacts, EnvStep DEF BaseInv
<1>2. pc' \in Places
  <2>1. PollStart \/ ReadRecord \/ QueueRefused \/ RecordDone \/ StopReading \/ FlushStale
        \/ NoFlush \/ Evict \/ SaveProgress \/ SaveFails \/ Crash \/ TailStart
        => pc' \in Places
    BY DEF Places, PollStart, TailStart, ReadRecord, Read, QueueRefused, RecordDone, StopReading, FlushStale,
           NoFlush, Evict, SaveProgress, SaveFails, Crash
  <2>2. Classify => pc' \in Places BY ClassifyIs DEF Places
  <2> QED BY <1>1, <2>1, <2>2, WhoMovesPoll DEF PlaceOK
<1>3. pc' # "queue" => out' = <<>>
  <2>1. out' = out \/ ReadRecord \/ QueueEvent \/ QueueRefused \/ Crash BY WhoMovesQueue
  <2>2. ReadRecord \/ QueueEvent => pc' = "queue" BY DEF ReadRecord, Read, QueueEvent
  <2>3. QueueRefused \/ Crash => out' = <<>> BY DEF QueueRefused, Crash
  <2>4. CASE out' = out
    <3>1. pc = "queue" /\ pc' # "queue" => RecordDone \/ QueueRefused \/ Crash
      <4>1. pc = "queue" => ~PollStart /\ ~TailStart /\ ~ReadRecord /\ ~StopReading /\ ~FlushStale
                            /\ ~NoFlush /\ ~Evict /\ ~SaveProgress /\ ~SaveFails
        BY DEF PollStart, TailStart, ReadRecord, Read, StopReading, FlushStale, NoFlush, Evict, SaveProgress, SaveFails
      <4>2. pc = "queue" => ~Classify
        BY DEF Classify, ClassifyStops, ClassifyNo, ClassifyYes, ClassifyOld, EndUnknown
      <4> QED BY <4>1, <4>2, WhoMovesPoll
    <3>2. RecordDone => out = <<>> BY DEF RecordDone
    <3> QED BY <1>1, <2>3, <2>4, <3>1, <3>2 DEF PlaceOK
  <2> QED BY <2>1, <2>2, <2>3, <2>4
<1>4. pc' = "queue" => Offset' < avail'
  <2>1. CASE ReadRecord
    <3>1. Offset < avail /\ pg' = pg BY <2>1 DEF ReadRecord, Read
    <3> QED BY <1>1, <3>1 DEF Offset
  <2>2. CASE pc' = "queue" /\ ~ReadRecord
    <3>1. pc' = pc
      <4>1. PollStart \/ QueueRefused \/ RecordDone \/ StopReading \/ FlushStale
            \/ NoFlush \/ Evict \/ SaveProgress \/ SaveFails \/ Crash \/ TailStart => pc' # "queue"
        BY DEF PollStart, TailStart, QueueRefused, RecordDone, StopReading, FlushStale, NoFlush, Evict,
               SaveProgress, SaveFails, Crash
      <4>2. Classify => pc' # "queue" BY ClassifyIs
      <4> QED BY <2>2, <4>1, <4>2, WhoMovesPoll
    <3>2. pg' = pg
      <4>1. PollStart \/ QueueRefused \/ RecordDone \/ Crash => pc' # "queue"
        BY DEF PollStart, QueueRefused, RecordDone, Crash
      <4>2. Classify => pc' # "queue" BY ClassifyIs
      <4> QED BY <2>2, <4>1, <4>2, WhoMovesProgress
    <3> QED BY <1>1, <2>2, <3>1, <3>2 DEF PlaceOK, Offset
  <2> QED BY <2>1, <2>2
<1>5. pc' # "idle" => pg'.v = Schema
  <2>1. CASE PollStart BY <2>1, BeginsWith
  <2>2. CASE Crash BY <2>2 DEF Crash
  <2>3. CASE ~PollStart /\ ~Crash
    <3>1. pg'.v = pg.v
      <4>1. pg' = pg \/ Classify \/ QueueRefused \/ RecordDone BY <2>3, WhoMovesProgress
      <4> QED BY <4>1, ClassifyIs, RefusedGoesBack, RecordGoesOn
    <3>2. pc' # "idle" => pc # "idle"
      <4>1. \/ pc' = pc
            \/ Classify \/ TailStart \/ ReadRecord \/ QueueRefused \/ RecordDone \/ StopReading
            \/ FlushStale \/ NoFlush \/ Evict \/ SaveProgress \/ SaveFails
        BY <2>3, WhoMovesPoll
      <4>2. Classify => pc # "idle" BY ClassifyIs
      <4>3. TailStart \/ ReadRecord \/ QueueRefused \/ RecordDone \/ StopReading \/ FlushStale \/ NoFlush \/ Evict
            \/ SaveProgress \/ SaveFails => pc # "idle"
        BY DEF TailStart, ReadRecord, Read, QueueRefused, RecordDone, StopReading, FlushStale, NoFlush, Evict,
               SaveProgress, SaveFails
      <4> QED BY <4>1, <4>2, <4>3
    <3> QED BY <1>1, <3>1, <3>2 DEF PlaceOK
  <2> QED BY <2>1, <2>2, <2>3
<1>6. pc' \in {"tail", "read", "queue"} => pg'.match = "yes"
  <2>1. CASE PollStart BY <2>1 DEF PollStart
  <2>2. CASE Classify BY <2>2, ClassifyIs
  <2>3. CASE Crash BY <2>3 DEF Crash
  <2>4. CASE ~PollStart /\ ~Classify /\ ~Crash
    <3>1. pg'.match = pg.match
      <4>1. pg' = pg \/ QueueRefused \/ RecordDone BY <2>4, WhoMovesProgress
      <4> QED BY <4>1, RefusedGoesBack, RecordGoesOn
    <3>2. pc' \in {"tail", "read", "queue"} => pc \in {"tail", "read", "queue"}
      <4>1. \/ pc' = pc \/ TailStart \/ ReadRecord \/ QueueRefused \/ RecordDone \/ StopReading
            \/ FlushStale \/ NoFlush \/ Evict \/ SaveProgress \/ SaveFails
        BY <2>4, WhoMovesPoll
      <4>2. QueueRefused \/ StopReading \/ FlushStale \/ NoFlush \/ Evict \/ SaveProgress \/ SaveFails
            => pc' \notin {"tail", "read", "queue"}
        BY DEF QueueRefused, StopReading, FlushStale, NoFlush, Evict, SaveProgress, SaveFails
      <4>3. TailStart \/ ReadRecord \/ RecordDone => pc \in {"tail", "read", "queue"}
        BY DEF TailStart, ReadRecord, Read, RecordDone
      <4> QED BY <4>1, <4>2, <4>3
    <3> QED BY <1>1, <3>1, <3>2 DEF PlaceOK
  <2> QED BY <2>1, <2>2, <2>3, <2>4
<1> QED BY <1>2, <1>3, <1>4, <1>5, <1>6 DEF PlaceOK

-----------------------------------------------------------------------------
(* The queue.                                                               *)

LEMMA FunnelIs ==
  ASSUME NEW e, Funnel(e)
  PROVE  /\ DryRun \/ Skipped(e) \/ Refused(e) => queued' = queued /\ repeated' = repeated
         /\ ~DryRun /\ ~Skipped(e) /\ ~Refused(e)
            => /\ queued' = queued \cup {e}
               /\ repeated' = (repeated \/ \E q \in queued : q.id = e.id)
         /\ ~DryRun /\ Claimable(e) => claimed' = claimed \cup {e.id[2]}
         /\ DryRun \/ ~Claimable(e) => claimed' = claimed
BY DEF Funnel, queue

LEMMA FunnelKeeps ==
  ASSUME ScriptOK, NEW e \in Event, Funnel(e), claimed \subseteq FileDiffs, repeated \in BOOLEAN
  PROVE  /\ claimed' \subseteq FileDiffs /\ repeated' \in BOOLEAN
         /\ queued' = queued \/ queued' = queued \cup {e}
<1>1. Claimable(e) => e.id[2] \in FileDiffs
  <2>1. \/ \E m \in Messages : e.id = ResponseId(m)
        \/ \E c \in Calls : e.id = ToolId(c)
        \/ \E i \in Records : e.id = PromptId(i)
    BY EventIs
  <2> QED BY <2>1, IdKinds DEF Claimable
<1>2. claimed' \subseteq FileDiffs BY <1>1, FunnelIs
<1>3. queued' = queued \/ queued' = queued \cup {e} BY FunnelIs
<1>4. repeated' = repeated \/ repeated' = (repeated \/ \E q \in queued : q.id = e.id) BY FunnelIs
<1>5. repeated' \in BOOLEAN BY <1>4
<1> QED BY <1>2, <1>3, <1>5

\* A response is not subject to claims.
LEMMA ResponseNotClaimable ==
  \A a : ~Claimable(Response(a)) /\ ~Skipped(Response(a))
BY IdsAre, IdKinds DEF Claimable, Skipped

\* A flush queues what the processor holds, unless the lane refuses it.
LEMMA ReleaseIs ==
  ASSUME BaseInv, Release
  PROVE  /\ claimed' = claimed /\ repeated' \in BOOLEAN
         /\ queued' = queued \/ queued' = queued \cup FlushSet(proc)
         /\ full = {} /\ ~DryRun => queued' = queued \cup FlushSet(proc)
         /\ FlushSet(proc) = {} \/ DryRun => queued' = queued /\ repeated' = repeated
         /\ \A e \in FlushSet(proc) : repeated' = repeated \/ repeated' = (repeated \/ \E q \in queued : q.id = e.id)
<1>1. ScriptOK /\ Orderly(proc) BY BaseFacts
<1>2. repeated \in BOOLEAN BY DEF BaseInv, QueueOK
<1>3. CASE FlushSet(proc) = {}
  <2>1. FlushOut(proc) = <<>> BY <1>1, <1>3, FlushOutIs
  <2>2. UNCHANGED queue BY <2>1 DEF Release
  <2> QED BY <1>2, <1>3, <2>2 DEF queue
<1>4. CASE FlushSet(proc) # {}
  <2> DEFINE e == Response(proc.accum)
  <2>1. FlushOut(proc) = <<e>> /\ FlushSet(proc) = {e} BY <1>1, <1>4, FlushOutIs DEF FlushSet
  <2>2. <<e>> # <<>> /\ <<e>>[1] = e OBVIOUS
  <2>3. Funnel(e) BY <2>1, <2>2 DEF Release
  <2>4. ~Claimable(e) /\ ~Skipped(e) BY ResponseNotClaimable
  <2>5. full = {} => ~Refused(e) BY DEF Refused
  <2> HIDE DEF e
  <2> QED BY <1>2, <2>1, <2>3, <2>4, <2>5, FunnelIs
<1> QED BY <1>3, <1>4

LEMMA FlushWithin ==
  ASSUME BaseInv
  PROVE  FlushSet(proc) \subseteq Event /\ \A e \in FlushSet(proc) : Within(e)
<1>1. ScriptOK /\ Orderly(proc) /\ proc.accum.lines \in Seq(1..avail) BY BaseFacts
<1>2. Range(proc.accum.lines) \subseteq 1..avail BY <1>1, RangeIs
<1>3. FlushSet(proc) \subseteq Event
  <2>1. FlushOut(proc) \in Seq(Event) /\ Range(FlushOut(proc)) = FlushSet(proc) BY <1>1, FlushOutIs
  <2> QED BY <2>1, RangeIs
<1> QED BY <1>2, <1>3, IdsAre DEF FlushSet, Within

LEMMA ReadWithin ==
  ASSUME BaseInv, ReadRecord
  PROVE  /\ pc = "read" /\ pc' = "queue" /\ Offset < avail /\ Offset + 1 \in Records /\ Offset + 1 \in 1..avail
         /\ \E p : /\ Orderly(p) /\ p.accum = proc.accum /\ p.pending = proc.pending /\ p.emitted = proc.emitted
                   /\ p.rewind = (IF HasBufferedState(proc) THEN proc.rewind ELSE Offset)
                   /\ proc' = Processed(p, Offset + 1) /\ out' = Produced(p, Offset + 1)
<1>1. pc = "read" /\ pc' = "queue" /\ Offset < avail BY DEF ReadRecord, Read
<1>2. avail \in Nat /\ avail <= Len(script) /\ Offset \in Nat /\ Orderly(proc) /\ ScriptOK BY BaseFacts
<1>3. Offset + 1 \in Records /\ Offset + 1 \in 1..avail BY <1>1, <1>2 DEF Records, ScriptOK
<1> DEFINE p == IF HasBufferedState(proc) THEN proc ELSE [proc EXCEPT !.rewind = Offset]
<1>4. proc' = Processed(p, Offset + 1) /\ out' = Produced(p, Offset + 1) BY DEF ReadRecord, Read
<1>5. /\ Orderly(p) /\ p.accum = proc.accum /\ p.pending = proc.pending /\ p.emitted = proc.emitted
      /\ p.rewind = (IF HasBufferedState(proc) THEN proc.rewind ELSE Offset)
  <2>1. CASE HasBufferedState(proc) BY <1>2, <2>1
  <2>2. CASE ~HasBufferedState(proc)
    <3>1. p = [proc EXCEPT !.rewind = Offset] BY <2>2
    <3> HIDE DEF p
    <3> QED BY <1>2, <2>2, <3>1, WithRewind
  <2> QED BY <2>1, <2>2
<1> HIDE DEF p
<1> QED BY <1>1, <1>3, <1>4, <1>5

LEMMA ProcStep ==
  ASSUME BaseInv, [Next]_vars
  PROVE  ProcOK'
<1>1. avail \in Nat /\ avail' \in Nat /\ avail <= avail' BY EnvStep
<1>2. ScriptOK /\ Orderly(proc) /\ proc.accum.lines \in Seq(1..avail) /\ proc.rewind <= avail BY BaseFacts
<1>3. Orderly(proc') /\ proc'.accum.lines \in Seq(1..avail) /\ proc'.rewind <= avail
  <2>1. CASE proc' = proc BY <1>2, <2>1
  <2>2. CASE ReadRecord
    <3>1. PICK p : /\ Orderly(p) /\ p.accum = proc.accum
                   /\ p.rewind = (IF HasBufferedState(proc) THEN proc.rewind ELSE Offset)
                   /\ proc' = Processed(p, Offset + 1)
      BY <2>2, ReadWithin
    <3>2. Offset < avail /\ Offset + 1 \in Records /\ Offset + 1 \in 1..avail BY <2>2, ReadWithin
    <3>3. Becomes(p, Offset + 1, proc') BY <1>2, <3>1, <3>2, ProcessedIs
    <3>4. Orderly(proc') /\ proc'.rewind = p.rewind BY <3>3 DEF Becomes
    <3>5. Offset <= avail /\ proc'.rewind <= avail BY <1>2, <3>1, <3>4, BaseFacts
    <3>6. proc'.accum.lines \in Seq(1..avail)
      <4>1. CASE IsLine(Offset + 1, p.accum.msg)
        <5>1. proc'.accum.lines = Append(proc.accum.lines, Offset + 1)
          BY <3>1, <3>3, <4>1 DEF Becomes, AccumAfter
        <5> QED BY <1>2, <3>2, <5>1, RangeAppend
      <4>2. CASE ~IsLine(Offset + 1, p.accum.msg) /\ script[Offset + 1].kind = "assistant"
        <5>1. PICK m \in Messages : IsLine(Offset + 1, m) /\ m # p.accum.msg
          BY <1>2, <3>2, <4>2, RecordIs DEF IsLine
        <5>2. proc'.accum.lines = <<Offset + 1>> \/ proc'.accum = NoAccum
          <6>1. m \notin proc'.emitted => proc'.accum = [msg |-> m, lines |-> <<Offset + 1>>]
            BY <3>3, <5>1 DEF Becomes, AccumAfter
          <6>2. m \in proc'.emitted => proc'.accum = NoAccum BY <3>3, <5>1 DEF Becomes, AccumAfter
          <6> QED BY <6>1, <6>2
        <5>3. <<Offset + 1>> \in Seq(1..avail) BY <3>2
        <5> QED BY <5>2, <5>3, NoAccumIs, EmptySeq
      <4>3. CASE script[Offset + 1].kind # "assistant"
        <5>1. proc'.accum = NoAccum BY <3>3, <4>3 DEF Becomes, AccumAfter
        <5> QED BY <5>1, NoAccumIs, EmptySeq
      <4> QED BY <4>1, <4>2, <4>3
    <3> QED BY <3>4, <3>5, <3>6
  <2>3. CASE QueueRefused
    <3>1. proc' = DiscardBufferedState(proc) BY <2>3 DEF QueueRefused
    <3>2. Orderly(proc') /\ proc'.accum = NoAccum /\ proc'.rewind = proc.rewind BY <1>2, <3>1, DiscardedIs
    <3> QED BY <1>2, <3>2, NoAccumIs, EmptySeq
  <2>4. CASE FlushStale
    <3>1. proc' = Flushed(proc) BY <2>4 DEF FlushStale
    <3>2. Orderly(proc') /\ proc'.accum = NoAccum /\ proc'.rewind = proc.rewind BY <1>2, <3>1, FlushedIs
    <3> QED BY <1>2, <3>2, NoAccumIs, EmptySeq
  <2>5. CASE Evict \/ Exit \/ Crash
    <3>1. proc' = EmptyProc BY <2>5 DEF Evict, Exit, Crash
    <3>2. EmptyProc.accum = NoAccum /\ EmptyProc.rewind = 0 BY DEF EmptyProc
    <3> QED BY <1>1, <3>1, <3>2, EmptyIsOrderly, NoAccumIs, EmptySeq
  <2> QED BY <2>1, <2>2, <2>3, <2>4, <2>5, WhoMovesQueue
<1>4. proc'.accum.lines \in Seq(1..avail') /\ proc'.rewind <= avail'
  <2>1. proc'.rewind \in Nat BY <1>3, ProcFields
  <2> QED BY <1>1, <1>3, <2>1, WiderSeq
<1>5. proc' \in [accum : [msg : Messages \cup {NoMsg}, lines : Seq(1..avail')],
                 pending : SUBSET Calls, emitted : SUBSET Messages, rewind : 0..avail']
  BY <1>1, <1>3, <1>4, MakesProcessor
<1>6. proc'.accum.msg = NoMsg => proc'.accum = NoAccum BY <1>3, ProcFields
<1> QED BY <1>5, <1>6 DEF ProcOK, Processor

LEMMA QueueStep ==
  ASSUME BaseInv, [Next]_vars
  PROVE  QueueOK'
<1>1. avail \in Nat /\ avail' \in Nat /\ avail <= avail' BY EnvStep
<1>2. ScriptOK /\ Orderly(proc) /\ QueueOK BY BaseFacts DEF BaseInv
<1>3. Event' = Event
  <2>1. script' = script BY WhoMovesEnvironment
  <2> QED BY <2>1 DEF Event
<1>4. /\ repeated' \in BOOLEAN /\ claimed' \subseteq FileDiffs
      /\ queued' \subseteq Event /\ \A e \in queued' : Within(e)
  <2>1. CASE UNCHANGED <<queued, repeated, claimed>> BY <1>2, <2>1 DEF QueueOK
  <2>2. CASE QueueEvent \/ QueueRefused
    <3>1. out # <<>> /\ Funnel(Head(out)) BY <2>2 DEF QueueEvent, QueueRefused
    <3>2. Head(out) \in Event /\ Within(Head(out))
      <4>1. Head(out) \in Event /\ Range(out) = {Head(out)} \cup Range(Tail(out))
        BY <1>2, <3>1, HeadAndTail DEF QueueOK
      <4> QED BY <1>2, <4>1 DEF QueueOK
    <3> QED BY <1>2, <3>1, <3>2, FunnelKeeps DEF QueueOK
  <2>3. CASE FlushStale \/ Evict \/ Exit
    <3>1. Release BY <2>3 DEF FlushStale, Evict, Exit
    <3>2. /\ claimed' = claimed /\ repeated' \in BOOLEAN
          /\ queued' = queued \/ queued' = queued \cup FlushSet(proc)
      BY <3>1, ReleaseIs
    <3> QED BY <1>2, <3>2, FlushWithin DEF QueueOK
  <2> QED BY <2>1, <2>2, <2>3, WhoMovesQueue
<1>5. out' \in Seq(Event) /\ \A e \in Range(out') : Within(e)
  <2>1. CASE out' = out BY <1>2, <2>1 DEF QueueOK
  <2>2. CASE ReadRecord
    <3>1. PICK p : Orderly(p) /\ p.accum = proc.accum /\ out' = Produced(p, Offset + 1)
      BY <2>2, ReadWithin
    <3>2. Offset + 1 \in Records /\ Offset + 1 \in 1..avail BY <2>2, ReadWithin
    <3>3. out' \in Seq(Event) /\ Range(out') = Made(p, Offset + 1) BY <1>2, <3>1, <3>2, ProducedIs
    <3>4. ASSUME NEW e \in Made(p, Offset + 1) PROVE Within(e)
      <4>1. Range(p.accum.lines) \subseteq 1..avail
        <5>1. proc.accum.lines \in Seq(1..avail) BY BaseFacts
        <5> QED BY <3>1, <5>1, RangeIs
      <4>2. CASE e \in FlushSet(p)
        <5>1. e.body = p.accum.lines BY <4>2, IdsAre DEF FlushSet
        <5> QED BY <4>1, <5>1 DEF Within
      <4>3. CASE \E c : e = ToolEvent(c)
        <5>1. e.body = <<>> BY <4>3, IdsAre
        <5> QED BY <5>1, EmptyRange DEF Within
      <4>4. CASE e = Prompt(Offset + 1)
        <5>1. Range(e.body) = {Offset + 1} BY <4>4, IdsAre, RangeOfOne
        <5> QED BY <3>2, <5>1 DEF Within
      <4> QED BY <3>4, <4>2, <4>3, <4>4 DEF Made
    <3> QED BY <3>3, <3>4
  <2>3. CASE QueueEvent
    <3>1. out' = Tail(out) /\ out # <<>> BY <2>3 DEF QueueEvent
    <3>2. out' \in Seq(Event) /\ Range(out') \subseteq Range(out) BY <1>2, <3>1, HeadAndTail DEF QueueOK
    <3> QED BY <1>2, <3>2 DEF QueueOK
  <2>4. CASE QueueRefused \/ Crash
    <3>1. out' = <<>> BY <2>4 DEF QueueRefused, Crash
    <3> QED BY <3>1, EmptyRange, EmptySeq
  <2> QED BY <2>1, <2>2, <2>3, <2>4, WhoMovesQueue
<1>6. \A e : Within(e) => Range(e.body) \subseteq 1..avail' BY <1>1 DEF Within
<1>7. (\A e \in queued' : Range(e.body) \subseteq 1..avail') /\ (\A e \in Range(out') : Range(e.body) \subseteq 1..avail')
  BY <1>4, <1>5, <1>6
<1>8. repeated' \in BOOLEAN /\ claimed' \subseteq FileDiffs /\ queued' \subseteq Event' /\ out' \in Seq(Event')
  BY <1>3, <1>4, <1>5
<1> QED BY <1>7, <1>8 DEF QueueOK, Within

-----------------------------------------------------------------------------
(* The health of the parser.                                                *)

LEMMA HealthChanges ==
  ASSUME BaseInv
  PROVE  /\ Reading \in Healths(avail) /\ Reading.degraded = health.degraded /\ Reading.read = 0
         /\ \A events : /\ Parsing(events) \in Healths(avail)
                        /\ Parsing(events).degraded = health.degraded
                        /\ Parsing(events).read = health.read
         /\ Offset < avail /\ health.read <= Offset
            => /\ Consumed \in Healths(avail) /\ Consumed.degraded = health.degraded
               /\ Consumed.read <= Offset + 1 /\ (~Watched => Consumed.read = 0)
         /\ Judged \in Healths(avail) /\ (Judged.degraded => Watched) /\ Judged.read = health.read
         /\ Healthy \in Healths(avail) /\ ~Healthy.degraded /\ Healthy.read = 0
<1> DEFINE D == 0..(DegradedAfter + 1)
           R == 0..avail
<1>1. /\ health \in [degraded : BOOLEAN, barren : D, read : R, parsed : BOOLEAN]
      /\ health.degraded => Watched
      /\ ~Watched => health.read = 0
  BY DEF BaseInv, HealthOK, Healths
<1>2. avail \in Nat /\ Offset \in Nat /\ DegradedAfter \in Nat BY BaseFacts, TailAssumption
<1>3. 0 \in D /\ 0 \in R BY <1>2
<1>4. health.barren \in D /\ health.read \in R /\ health.degraded \in BOOLEAN BY <1>1
<1>5. Reading \in Healths(avail) /\ Reading.degraded = health.degraded /\ Reading.read = 0
  <2> HIDE DEF D, R
  <2> QED BY <1>1, <1>3 DEF Reading, Healths, D, R
<1>6. \A events : /\ Parsing(events) \in Healths(avail)
                  /\ Parsing(events).degraded = health.degraded
                  /\ Parsing(events).read = health.read
  BY <1>1 DEF Parsing, Healths
<1>7. Offset < avail /\ health.read <= Offset
      => /\ Consumed \in Healths(avail) /\ Consumed.degraded = health.degraded
         /\ Consumed.read <= Offset + 1 /\ (~Watched => Consumed.read = 0)
  <2> SUFFICES ASSUME Offset < avail, health.read <= Offset
               PROVE  /\ Consumed \in Healths(avail) /\ Consumed.degraded = health.degraded
                      /\ Consumed.read <= Offset + 1 /\ (~Watched => Consumed.read = 0)
    OBVIOUS
  <2>1. CASE Watched
    <3> DEFINE n == health.read + 1
    <3>1. Consumed = [health EXCEPT !.read = n] BY <2>1 DEF Consumed
    <3>2. n \in R /\ n <= Offset + 1 BY <1>2, <1>4
    <3> HIDE DEF n, D, R
    <3> QED BY <1>1, <2>1, <3>1, <3>2 DEF Healths, D, R
  <2>2. CASE ~Watched
    <3>1. Consumed = health BY <2>2 DEF Consumed
    <3>2. 0 <= Offset + 1 BY <1>2
    <3> QED BY <1>1, <2>2, <3>1, <3>2 DEF Healths
  <2> QED BY <2>1, <2>2
<1>8. Judged \in Healths(avail) /\ (Judged.degraded => Watched) /\ Judged.read = health.read
  <2>1. CASE ~Watched BY <1>1, <2>1 DEF Judged, Healths
  <2>2. CASE Watched /\ health.parsed
    <3>1. Judged = [health EXCEPT !.degraded = FALSE, !.barren = 0] BY <2>2 DEF Judged
    <3> HIDE DEF D, R
    <3> QED BY <1>1, <1>3, <2>2, <3>1 DEF Healths, D, R
  <2>3. CASE Watched /\ ~health.parsed
    <3> DEFINE n == Least(health.barren + health.read, DegradedAfter + 1)
               g == health.degraded \/ n > DegradedAfter
    <3>1. n \in D BY <1>2, <1>4 DEF Least
    <3>2. g \in BOOLEAN OBVIOUS
    <3>3. Judged = [health EXCEPT !.degraded = g, !.barren = n] BY <2>3 DEF Judged
    <3> HIDE DEF n, g, D, R
    <3> QED BY <1>1, <2>3, <3>1, <3>2, <3>3 DEF Healths, D, R
  <2> QED BY <2>1, <2>2, <2>3
<1>9. Healthy \in Healths(avail) /\ ~Healthy.degraded /\ Healthy.read = 0
  BY <1>3 DEF Healthy, Healths
<1> QED BY <1>5, <1>6, <1>7, <1>8, <1>9

LEMMA HealthStep ==
  ASSUME BaseInv, [Next]_vars
  PROVE  HealthOK'
<1>1. avail \in Nat /\ avail' \in Nat /\ avail <= avail' BY EnvStep
<1>2. (Watched' <=> Watched)
  <2>1. allowed' = allowed BY WhoMovesEnvironment
  <2> QED BY <2>1 DEF Watched
<1>3. HealthOK /\ Offset \in Nat BY BaseFacts DEF BaseInv
<1>4. SUFFICES /\ health' \in Healths(avail)
               /\ health'.degraded => Watched
               /\ pc' \in {"classify", "tail"} => health'.read = 0
               /\ pc' \in {"read", "queue"} => health'.read <= Offset'
               /\ ~Watched => health'.read = 0
  <2>1. \A h \in Healths(avail) : h \in Healths(avail')
    <3>1. 0..avail \subseteq 0..avail' BY <1>1
    <3> QED BY <3>1 DEF Healths
  <2> QED BY <1>2, <1>4, <2>1 DEF HealthOK
<1>5. CASE health' = health
  <2>1. pc' \in {"classify", "tail"} => health.read = 0
    <3>1. CASE pc' = pc BY <1>3, <3>1 DEF HealthOK
    <3>2. CASE Classify
      <4>1. pc = "classify" BY <3>2, ClassifyIs
      <4> QED BY <1>3, <4>1 DEF HealthOK
    <3>3. CASE PollStart BY <1>5, <3>3, HealthChanges DEF PollStart
    <3>4. TailStart \/ ReadRecord \/ QueueRefused \/ RecordDone \/ StopReading
          \/ FlushStale \/ NoFlush \/ Evict \/ SaveProgress \/ SaveFails \/ Crash => pc' \notin {"classify", "tail"}
      BY DEF TailStart, ReadRecord, Read, QueueRefused, RecordDone, StopReading, FlushStale, NoFlush, Evict,
             SaveProgress, SaveFails, Crash
    <3> QED BY <3>1, <3>2, <3>3, <3>4, WhoMovesPoll
  <2>2. pc' \in {"read", "queue"} => health.read <= Offset'
    <3>1. CASE PollStart
      <4>1. health'.read = 0 BY <3>1, HealthChanges DEF PollStart
      <4>2. Offset' \in Nat BY <3>1, BeginsWith, BaseFacts
      <4> QED BY <1>5, <4>1, <4>2
    <3>2. CASE TailStart
      <4>1. health.read = 0 BY <1>3, <3>2 DEF HealthOK, TailStart
      <4>2. Offset' = Offset BY <3>2 DEF TailStart, Offset
      <4> QED BY <1>3, <4>1, <4>2
    <3>3. CASE RecordDone
      <4>1. health.read <= Offset BY <1>3, <3>3 DEF HealthOK, RecordDone
      <4>2. Offset' = Offset + 1 BY <3>3, RecordGoesOn
      <4>3. health.read \in Nat BY <1>1, <1>3 DEF HealthOK, Healths
      <4> QED BY <1>3, <4>1, <4>2, <4>3
    <3>4. CASE ~PollStart /\ ~TailStart /\ ~RecordDone /\ pc' \in {"read", "queue"}
      <4>1. ~Classify /\ ~QueueRefused /\ ~Crash
        <5>1. Classify => pc' \notin {"read", "queue"} BY ClassifyIs
        <5> QED BY <3>4, <5>1 DEF QueueRefused, Crash
      <4>2. pg' = pg BY <3>4, <4>1, WhoMovesProgress
      <4>3. pc \in {"read", "queue"}
        <5>1. StopReading \/ FlushStale \/ NoFlush \/ Evict \/ SaveProgress \/ SaveFails => pc' \notin {"read", "queue"}
          BY DEF StopReading, FlushStale, NoFlush, Evict, SaveProgress, SaveFails
        <5>2. ReadRecord => pc = "read" BY DEF ReadRecord, Read
        <5> QED BY <3>4, <4>1, <5>1, <5>2, WhoMovesPoll
      <4> QED BY <1>3, <4>2, <4>3 DEF HealthOK, Offset
    <3> QED BY <3>1, <3>2, <3>3, <3>4
  <2> QED BY <1>3, <1>5, <2>1, <2>2 DEF HealthOK
<1>6. CASE PollStart
  <2>1. health' = Reading BY <1>6 DEF PollStart
  <2>2. Offset' \in Nat BY <1>6, BeginsWith, BaseFacts
  <2> QED BY <1>3, <2>1, <2>2, HealthChanges DEF HealthOK
<1>7. CASE ReadRecord
  <2>1. health' = Parsing(out') /\ pc = "read" /\ pc' = "queue" /\ pg' = pg BY <1>7 DEF ReadRecord, Read
  <2>2. Offset' = Offset BY <2>1 DEF Offset
  <2> QED BY <1>3, <2>1, <2>2, HealthChanges DEF HealthOK
<1>8. CASE RecordDone
  <2>1. health' = Consumed /\ pc = "queue" /\ pc' = "read" BY <1>8 DEF RecordDone
  <2>2. Offset' = Offset + 1 BY <1>8, RecordGoesOn
  <2>3. Offset < avail BY <2>1 DEF BaseInv, PlaceOK
  <2> QED BY <1>3, <2>1, <2>2, <2>3, HealthChanges DEF HealthOK
<1>9. CASE FlushStale \/ Evict
  <2>1. health' = Parsing(FlushOut(proc)) /\ pc' = "save" BY <1>9 DEF FlushStale, Evict
  <2> QED BY <1>3, <2>1, HealthChanges DEF HealthOK
<1>10. CASE SaveProgress \/ SaveFails
  <2>1. health' = Judged /\ pc' = "idle" BY <1>10 DEF SaveProgress, SaveFails
  <2> QED BY <1>3, <2>1, HealthChanges DEF HealthOK
<1>11. CASE Exit \/ Crash
  <2>1. health' = Healthy /\ pc' = "idle" BY <1>11 DEF Exit, Crash
  <2> QED BY <2>1, HealthChanges
<1> QED BY <1>5, <1>6, <1>7, <1>8, <1>9, <1>10, <1>11, WhoMovesProgress

-----------------------------------------------------------------------------
(* The start.                                                               *)

LEMMA OldProgressIs ==
  ASSUME avail \in Nat, inside \in BOOLEAN, NEW d \in OldProgress
  PROVE  d \in Entries(avail) /\ d.v < Schema /\ d.cls = 0
<1> DEFINE E == [v : 0..(Schema - 1), match : {"none", "yes", "no"}, off : Unseen..avail, cls : {0}, fp : {inside}]
<1>1. PICK e \in E \X E : d = Folded(e[1], e[2]) BY DEF OldProgress
<1> DEFINE p == e[1]
           q == e[2]
           k == IF q.off > p.off THEN q.off ELSE p.off
           m == IF p.match = "yes" \/ q.match = "none" THEN p.match ELSE q.match
<1>2. p \in E /\ q \in E /\ d = [p EXCEPT !.off = k, !.match = m] BY <1>1 DEF Folded
<1>3. k \in Unseen..avail /\ m \in Matches BY <1>2 DEF Matches
<1>4. p.v \in 0..(Schema - 1) /\ p.cls = 0 /\ p.fp \in BOOLEAN BY <1>2
<1> HIDE DEF k, m
<1>5. /\ d.v = p.v /\ d.cls = p.cls
      /\ d \in [v : 0..(Schema - 1), match : Matches, off : Unseen..avail, cls : {0}, fp : {inside}]
  BY <1>2, <1>3 DEF Matches
<1>6. p.v \in 0..Schema /\ p.v < Schema BY <1>4 DEF Schema
<1>7. 0..(Schema - 1) \subseteq 0..Schema /\ {0} \subseteq 0..avail BY DEF Schema
<1>8. d \in Entries(avail) BY <1>5, <1>7 DEF Entries
<1> QED BY <1>4, <1>5, <1>6, <1>8

\* The entry the progress has of the transcript to begin with.
LEMMA FirstEntry ==
  ASSUME Init
  PROVE  /\ Given /\ avail \in 0..Len(script)
         /\ disk \in Entries(avail) /\ disk.cls = 0 /\ pg = disk
         /\ disk.v < Schema => avail \in Nat
         /\ ~(disk.v < Schema) => disk.off = Unseen
<1>1. PICK e \in Environments : allowed = e.allowed /\ script = e.script BY DEF Init
<1>2. Given
  <2>1. script \in Seq(Record) /\ allowed \subseteq ConditionKinds BY <1>1, TailAssumption
  <2> QED BY <2>1, LenProperties DEF Given, ScriptOK
<1>3. avail \in 0..Len(script) /\ avail \in Nat
  <2>1. Len(script) \in Nat BY <1>2 DEF Given, ScriptOK
  <2>2. avail \in 0..Len(script) BY <2>1 DEF Init
  <2> QED BY <2>1, <2>2
<1>4. inside \in BOOLEAN /\ pg = disk BY DEF Init
<1>5. CASE "upgrade" \in allowed
  <2>1. disk \in OldProgress BY <1>5 DEF Init
  <2> QED BY <1>2, <1>3, <1>4, <2>1, OldProgressIs
<1>6. CASE "upgrade" \notin allowed
  <2> DEFINE m == IF "admit" \in allowed THEN "none" ELSE "yes"
  <2>1. disk = [v |-> Schema, match |-> m, off |-> Unseen, cls |-> 0, fp |-> TRUE] BY <1>6 DEF Init
  <2>2. m \in Matches BY DEF Matches
  <2> HIDE DEF m
  <2>3. Schema \in 0..Schema /\ Unseen \in Unseen..avail /\ 0 \in 0..avail /\ ~(Schema < Schema)
    BY <1>3 DEF Schema, Unseen
  <2> QED BY <1>2, <1>3, <1>4, <2>1, <2>2, <2>3 DEF Entries
<1> QED BY <1>5, <1>6

LEMMA BaseInit ==
  ASSUME Init
  PROVE  BaseInv
<1>1. Given /\ avail \in 0..Len(script) /\ disk \in Entries(avail) /\ pg = disk BY FirstEntry
<1>2. Len(script) \in Nat /\ avail \in Nat BY <1>1 DEF Given, ScriptOK
<1>3. EnvOK BY <1>1, <1>2 DEF Init, EnvOK
<1>4. PlaceOK BY DEF Init, PlaceOK, Places
<1>5. ProgressOK BY <1>1 DEF ProgressOK
<1>6. ProcOK
  <2>1. proc = EmptyProc BY DEF Init
  <2>2. Orderly(proc) /\ proc.accum = NoAccum /\ proc.rewind = 0 BY <2>1, EmptyIsOrderly DEF EmptyProc
  <2>3. proc.accum.lines \in Seq(1..avail) /\ proc.rewind <= avail BY <1>2, <2>2, NoAccumIs, EmptySeq
  <2> QED BY <1>2, <2>2, <2>3, MakesProcessor DEF ProcOK, Processor
<1>7. QueueOK
  <2>1. queued = {} /\ out = <<>> /\ repeated = FALSE /\ claimed = {} BY DEF Init
  <2>2. out \in Seq(Event) /\ Range(out) = {} BY <2>1, EmptyRange, EmptySeq
  <2> QED BY <2>1, <2>2 DEF QueueOK
<1>8. HealthOK
  <2>1. health = Healthy /\ pc = "idle" BY DEF Init
  <2>2. DegradedAfter \in Nat BY TailAssumption
  <2>3. 0 \in 0..(DegradedAfter + 1) /\ 0 \in 0..avail BY <1>2, <2>2
  <2>4. Healthy \in Healths(avail) BY <2>3 DEF Healthy, Healths
  <2> QED BY <2>1, <2>4 DEF HealthOK, Healthy
<1> QED BY <1>1, <1>3, <1>4, <1>5, <1>6, <1>7, <1>8 DEF BaseInv

LEMMA BaseStep ==
  ASSUME BaseInv, [Next]_vars
  PROVE  BaseInv'
BY GivenStep, EnvStep, PlaceStep, ProgressStep, ProcStep, QueueStep, HealthStep DEF BaseInv

\* TypeOK: the progress, the processor and the events are what they should be, and no
\* event holds a record that is not on disk (readTranscriptRecords leaves a partial one).
THEOREM TypesHold == Spec => []TypeOK
<1>1. Init => BaseInv BY BaseInit
<1>2. BaseInv /\ [Next]_vars => BaseInv' BY BaseStep
<1>3. BaseInv => TypeOK BY BaseHasTypes
<1> QED BY <1>1, <1>2, <1>3, PTL DEF Spec

-----------------------------------------------------------------------------
(* Events that are queued stay queued.                                      *)

Sent(id) == \E e \in queued : e.id = id
Coming(id) == \E e \in Range(out) : e.id = id
Safe(id) == Sent(id) \/ Coming(id)

LEMMA QueuedGrows ==
  ASSUME BaseInv, [Next]_vars
  PROVE  queued \subseteq queued'
<1>1. CASE UNCHANGED <<queued, repeated, claimed>> BY <1>1
<1>2. CASE QueueEvent \/ QueueRefused
  <2>1. Funnel(Head(out)) BY <1>2 DEF QueueEvent, QueueRefused
  <2> QED BY <2>1, FunnelIs
<1>3. CASE FlushStale \/ Evict \/ Exit
  <2>1. Release BY <1>3 DEF FlushStale, Evict, Exit
  <2> QED BY <2>1, ReleaseIs
<1> QED BY <1>1, <1>2, <1>3, WhoMovesQueue

LEMMA SentStays ==
  ASSUME BaseInv, [Next]_vars, NEW id, Sent(id)
  PROVE  Sent(id)'
<1>1. PICK e \in queued : e.id = id BY DEF Sent
<1>2. e \in queued' BY QueuedGrows
<1> QED BY <1>1, <1>2 DEF Sent

\* What is taken from out is queued, or counted only, or has been claimed.
LEMMA QueuesHead ==
  ASSUME BaseInv, QueueEvent
  PROVE  /\ out # <<>> /\ out \in Seq(Event) /\ Head(out) \in Range(out)
         /\ Range(out) = {Head(out)} \cup Range(out')
         /\ ~DryRun /\ ~Skipped(Head(out)) => queued' = queued \cup {Head(out)}
         /\ DryRun \/ Skipped(Head(out)) => queued' = queued
         /\ queued \subseteq queued'
         /\ pc = "queue" /\ pc' = "queue" /\ pg' = pg /\ proc' = proc /\ base' = base /\ disk' = disk
         /\ Offset' = Offset
<1>1. out # <<>> /\ ~Refused(Head(out)) /\ Funnel(Head(out)) /\ out' = Tail(out) BY DEF QueueEvent
<1>2. out \in Seq(Event) BY DEF BaseInv, QueueOK
<1>3. Range(out) = {Head(out)} \cup Range(out') BY <1>1, <1>2, HeadAndTail
<1>4. pc = "queue" /\ pc' = "queue" /\ pg' = pg /\ proc' = proc /\ base' = base /\ disk' = disk BY DEF QueueEvent
<1>5. Offset' = Offset BY <1>4 DEF Offset
<1> QED BY <1>1, <1>2, <1>3, <1>4, <1>5, FunnelIs

LEMMA SafeWhileQueued ==
  ASSUME BaseInv, QueueEvent, NEW id, Safe(id), ~DryRun,
         \A e : e.id = id => ~Skipped(e) \/ Sent(id)
  PROVE  Safe(id)'
<1>1. CASE Sent(id)
  <2>1. PICK e \in queued : e.id = id BY <1>1 DEF Sent
  <2>2. e \in queued' BY QueuesHead
  <2> QED BY <2>1, <2>2 DEF Safe, Sent
<1>2. CASE Coming(id) /\ ~Sent(id)
  <2>1. PICK e \in Range(out) : e.id = id BY <1>2 DEF Coming
  <2>2. CASE e = Head(out)
    <3>1. e \in queued' BY <1>2, <2>1, <2>2, QueuesHead
    <3> QED BY <2>1, <3>1 DEF Safe, Sent
  <2>3. CASE e \in Range(out') BY <2>1, <2>3 DEF Safe, Coming
  <2> QED BY <2>2, <2>3, QueuesHead
<1> QED BY <1>1, <1>2 DEF Safe

LEMMA OnlyFileDiffsSkipped ==
  /\ \A e, i : e.id = PromptId(i) => ~Skipped(e)
  /\ \A e, m : e.id = ResponseId(m) => ~Skipped(e)
  /\ \A e, c : e.id = ToolId(c) /\ c \notin FileDiffs => ~Skipped(e)
BY IdKinds DEF Skipped, Claimable

\* The same numbers after a step.
LEMMA NumbersAfter ==
  ASSUME BaseInv, [Next]_vars
  PROVE  /\ BaseInv' /\ avail' \in Nat /\ base' \in Nat /\ base' <= avail'
         /\ Offset' \in Nat /\ Offset' <= avail' /\ Saved' \in Nat /\ Saved' <= avail'
         /\ avail \in Nat /\ avail <= avail'
<1>1. avail \in Nat /\ avail' \in Nat /\ avail <= avail' /\ base' \in 0..avail' BY EnvStep DEF EnvOK
<1>2. disk' \in Entries(avail') /\ pg' \in Entries(avail') BY ProgressStep DEF ProgressOK
<1>3. \A p \in Entries(avail') : p.off \in Int /\ p.off <= avail' /\ (p.off # Unseen => p.off \in Nat)
  BY <1>1 DEF Entries, Unseen
<1>4. Offset' \in Nat /\ Offset' <= avail' BY <1>1, <1>2, <1>3 DEF Offset
<1>5. Saved' \in Nat /\ Saved' <= avail' BY <1>1, <1>2, <1>3 DEF Saved
<1> QED BY <1>1, <1>4, <1>5, BaseStep

LEMMA OffsetSteps ==
  ASSUME BaseInv, [Next]_vars
  PROVE  /\ base <= base'
         /\ base' = base \/ (base' = avail /\ avail' = avail)
         /\ \/ Saved' = Saved
            \/ pc # "idle" /\ Saved' = Offset
         /\ pc' # "idle" =>
              \/ pc = "idle" /\ Offset' = Saved
              \/ pc # "idle" /\ Offset' <= Offset
              \/ RecordDone /\ pc # "idle" /\ Offset' = Offset + 1
              \/ base' = avail /\ avail' = avail
<1>1. base \in Nat /\ base <= avail /\ Offset \in Nat BY BaseFacts
<1>2. base' = base \/ (base' = avail /\ avail' = avail)
  <2>1. base' = base \/ ClassifyOld \/ EndUnknown BY WhoMovesEnvironment
  <2> QED BY <2>1 DEF ClassifyOld, EndUnknown, env
<1>3. Saved' = Saved \/ (pc # "idle" /\ Saved' = Offset)
  <2>1. CASE disk' = disk BY <2>1 DEF Saved
  <2>2. CASE PollStart BY <2>2, BeginsWith
  <2>3. CASE Checkpoint \/ SaveProgress
    <3>1. disk' = pg /\ pc # "idle" BY <2>3 DEF Checkpoint, SaveProgress
    <3>2. pg.v = Schema BY <3>1 DEF BaseInv, PlaceOK
    <3>3. ~(Schema < Schema) BY DEF Schema
    <3> QED BY <3>1, <3>2, <3>3 DEF Saved, Offset
  <2> QED BY <2>1, <2>2, <2>3, WhoMovesProgress
<1>4. ASSUME pc' # "idle"
      PROVE  \/ pc = "idle" /\ Offset' = Saved
             \/ pc # "idle" /\ Offset' <= Offset
             \/ RecordDone /\ pc # "idle" /\ Offset' = Offset + 1
             \/ base' = avail /\ avail' = avail
  <2>1. CASE PollStart
    <3>1. pc = "idle" BY <2>1 DEF PollStart
    <3> QED BY <2>1, <3>1, BeginsWith
  <2>2. CASE ~PollStart
    <3>1. pc # "idle"
      <4>1. TailStart \/ ReadRecord \/ QueueRefused \/ RecordDone \/ StopReading \/ FlushStale
            \/ NoFlush \/ Evict \/ SaveProgress \/ SaveFails => pc # "idle"
        BY DEF TailStart, ReadRecord, Read, QueueRefused, RecordDone, StopReading, FlushStale, NoFlush, Evict,
               SaveProgress, SaveFails
      <4>2. Classify => pc # "idle" BY ClassifyIs
      <4>3. Crash => pc' = "idle" BY DEF Crash
      <4> QED BY <1>4, <2>2, <4>1, <4>2, <4>3, WhoMovesPoll
    <3>2. CASE pg' = pg BY <1>1, <3>1, <3>2 DEF Offset
    <3>3. CASE Classify
      <4>1. ClassifyOld => avail' = avail BY DEF ClassifyOld, env
      <4> QED BY <1>1, <3>1, <3>3, <4>1, ClassifyIs
    <3>4. CASE QueueRefused
      <4>1. Offset' = (IF proc.rewind < Offset THEN proc.rewind ELSE Offset) BY <3>4, RefusedGoesBack
      <4>2. proc.rewind \in Nat
        <5>1. Orderly(proc) BY BaseFacts
        <5> QED BY <5>1, ProcFields
      <4> QED BY <1>1, <3>1, <4>1, <4>2
    <3>5. CASE RecordDone BY <3>1, <3>5, RecordGoesOn
    <3>6. CASE Crash BY <1>4, <3>6 DEF Crash
    <3> QED BY <2>2, <3>2, <3>3, <3>4, <3>5, <3>6, WhoMovesProgress
  <2> QED BY <2>1, <2>2
<1> QED BY <1>1, <1>2, <1>3, <1>4

-----------------------------------------------------------------------------
(* A prompt before the offset has been queued, whatever happens.            *)

PromptKept(i) ==
  /\ i <= Saved => Sent(PromptId(i))
  /\ pc # "idle" /\ i <= Offset => Sent(PromptId(i))
  /\ pc = "queue" /\ i = Offset + 1 => Safe(PromptId(i))

PromptsInv == ~Watched => \A i \in Records : IsPrompt(i) /\ base < i => PromptKept(i)

LEMMA PromptsInit ==
  ASSUME Init
  PROVE  PromptsInv
<1>1. disk.v < Schema \/ disk.off = Unseen BY FirstEntry
<1>2. Saved = 0 BY <1>1 DEF Saved
<1>3. pc = "idle" BY DEF Init
<1>4. \A i \in Records : ~(i <= 0) BY DEF Records
<1> QED BY <1>2, <1>3, <1>4 DEF PromptsInv, PromptKept

LEMMA PromptsStep ==
  ASSUME BaseInv, PromptsInv, [Next]_vars
  PROVE  PromptsInv'
<1>1. script' = script /\ (Watched' <=> Watched)
  <2>1. script' = script /\ allowed' = allowed BY WhoMovesEnvironment
  <2> QED BY <2>1 DEF Watched
<1>0. SUFFICES ASSUME ~Watched, NEW i \in Records, IsPrompt(i), base' < i
               PROVE  PromptKept(i)'
  <2>1. Records' = Records /\ \A i \in Records : IsPrompt(i)' <=> IsPrompt(i) BY <1>1 DEF Records, IsPrompt
  <2> QED BY <1>0, <1>1, <2>1 DEF PromptsInv
<1>2. /\ i \in Nat /\ base \in Nat /\ base' \in Nat /\ Offset \in Nat /\ Offset' \in Nat /\ Saved \in Nat
      /\ Saved' \in Nat /\ Saved' <= avail' /\ Offset' <= avail' /\ avail \in Nat /\ avail' \in Nat
  <2>1. i \in Nat BY DEF Records
  <2> QED BY <2>1, NumbersAfter, BaseFacts
<1>3. base < i BY <1>0, <1>2, OffsetSteps
<1>4. PromptKept(i) BY <1>0, <1>3 DEF PromptsInv
<1>5. ~DryRun BY <1>0 DEF BaseInv, HealthOK, DryRun
<1>6. base' = base \/ (~(i <= Saved') /\ ~(i <= Offset') /\ ~(i = Offset' + 1 /\ Offset' < avail'))
  <2>1. base' = base \/ (base' = avail /\ avail' = avail) BY OffsetSteps
  <2>2. base' = avail /\ avail' = avail => avail' < i BY <1>0, <1>2
  <2>3. avail' < i => ~(i <= Saved') /\ ~(i <= Offset') /\ ~(i = Offset' + 1 /\ Offset' < avail')
    <3>1. \A n, k, x, y \in Nat : n < k /\ x <= n /\ y <= n => ~(k <= x) /\ ~(k <= y) /\ ~(k = y + 1 /\ y < n)
      OBVIOUS
    <3> QED BY <1>2, <3>1
  <2> QED BY <2>1, <2>2, <2>3
<1>7. CASE base' # base
  <2>1. pc' = "queue" => Offset' < avail' BY PlaceStep DEF PlaceOK
  <2> QED BY <1>6, <1>7, <2>1 DEF PromptKept
<1>8. CASE base' = base
  <2>1. i <= Saved' => Sent(PromptId(i))'
    <3> SUFFICES ASSUME i <= Saved' PROVE Sent(PromptId(i)) BY SentStays
    <3> QED BY <1>4, OffsetSteps DEF PromptKept
  <2>2. pc' # "idle" /\ i <= Offset' => Sent(PromptId(i))'
    <3> SUFFICES ASSUME pc' # "idle", i <= Offset' PROVE Sent(PromptId(i)) BY SentStays
    <3>1. \/ pc = "idle" /\ Offset' = Saved
          \/ pc # "idle" /\ Offset' <= Offset
          \/ RecordDone /\ pc # "idle" /\ Offset' = Offset + 1
      <4>1. ~(base' = avail /\ avail' = avail) BY <1>0, <1>2
      <4> QED BY <4>1, OffsetSteps
    <3>2. RecordDone /\ i = Offset + 1 => Sent(PromptId(i))
      <4>1. RecordDone => pc = "queue" /\ out = <<>> BY DEF RecordDone
      <4> QED BY <1>4, <4>1, EmptyRange DEF PromptKept, Safe, Coming
    <3> QED BY <1>2, <1>4, <3>1, <3>2 DEF PromptKept
  <2>3. pc' = "queue" /\ i = Offset' + 1 => Safe(PromptId(i))'
    <3> SUFFICES ASSUME pc' = "queue", i = Offset' + 1 PROVE Safe(PromptId(i))' OBVIOUS
    <3>1. CASE ReadRecord
      <4>1. PICK p : Orderly(p) /\ out' = Produced(p, Offset + 1) BY <3>1, ReadWithin
      <4>2. pg' = pg /\ Offset + 1 \in Records BY <3>1, ReadWithin DEF ReadRecord, Read
      <4>3. i = Offset + 1 BY <4>2 DEF Offset
      <4>4. Range(out') = Made(p, i) BY <4>1, <4>2, <4>3, ProducedIs, BaseFacts
      <4>5. Prompt(i) \in Range(out') BY <1>0, <4>4 DEF Made
      <4> QED BY <4>5, IdsAre DEF Safe, Coming
    <3>2. CASE QueueEvent
      <4>1. pc = "queue" /\ Offset' = Offset BY <3>2, QueuesHead
      <4>2. Safe(PromptId(i)) BY <1>4, <4>1 DEF PromptKept
      <4> QED BY <1>5, <3>2, <4>2, SafeWhileQueued, OnlyFileDiffsSkipped
    <3>3. CASE ~ReadRecord /\ ~QueueEvent
      <4>1. pc = "queue" /\ pg' = pg
        <5>1. PollStart \/ QueueRefused \/ RecordDone \/ StopReading \/ FlushStale
              \/ NoFlush \/ Evict \/ SaveProgress \/ SaveFails \/ Crash \/ TailStart => pc' # "queue"
          BY DEF PollStart, TailStart, QueueRefused, RecordDone, StopReading, FlushStale, NoFlush, Evict,
                 SaveProgress, SaveFails, Crash
        <5>2. Classify => pc' # "queue" BY ClassifyIs
        <5>3. pc' = pc BY <3>3, <5>1, <5>2, WhoMovesPoll
        <5>4. pg' = pg BY <5>1, <5>2, WhoMovesProgress
        <5> QED BY <5>3, <5>4
      <4>2. Safe(PromptId(i))
        <5>1. Offset' = Offset BY <4>1 DEF Offset
        <5> QED BY <1>4, <4>1, <5>1 DEF PromptKept
      <4>3. out' = out
        <5>1. QueueRefused \/ Crash => pc' # "queue" BY DEF QueueRefused, Crash
        <5> QED BY <3>3, <5>1, WhoMovesQueue
      <4>4. Sent(PromptId(i)) => Sent(PromptId(i))' BY SentStays
      <4> QED BY <4>2, <4>3, <4>4 DEF Safe, Coming
    <3> QED BY <3>1, <3>2, <3>3
  <2> QED BY <2>1, <2>2, <2>3 DEF PromptKept
<1> QED BY <1>7, <1>8


-----------------------------------------------------------------------------
(* The position up to which the records are dealt with, and the steps as    *)
(* far as they concern it, the events and the processor.                    *)

Here == IF pc = "idle" THEN Saved ELSE IF pc = "queue" THEN Offset + 1 ELSE Offset

Holding == pc = "queue" \/ HasBufferedState(proc)

Quiet ==
  /\ UNCHANGED <<queued, repeated, claimed, out, proc, base>>
  /\ Here' = Here /\ (pc' = "queue" => pc = "queue")

Rebased ==
  /\ UNCHANGED <<queued, repeated, claimed, out, proc>>
  /\ base' = avail /\ Here <= Here' /\ Here' <= avail
  /\ pc # "queue" /\ pc' # "queue" /\ old # 0

LEMMA HereIs ==
  ASSUME BaseInv
  PROVE  Here \in Nat /\ Here <= avail /\ Here <= Len(script)
<1>1. avail \in Nat /\ avail <= Len(script) /\ Len(script) \in Nat /\ Offset \in Nat /\ Offset <= avail /\ Saved \in Nat /\ Saved <= avail
  BY BaseFacts DEF ScriptOK
<1>2. pc = "queue" => Offset < avail BY DEF BaseInv, PlaceOK
<1>3. Here \in Nat /\ Here <= avail BY <1>1, <1>2 DEF Here
<1> QED BY <1>1, <1>3

LEMMA HereAfter ==
  ASSUME BaseInv, [Next]_vars
  PROVE  Here' \in Nat
<1>1. Offset' \in Nat /\ Saved' \in Nat BY NumbersAfter
<1>2. \A n \in Nat : n + 1 \in Nat OBVIOUS
<1>3. Here' = IF pc' = "idle" THEN Saved' ELSE IF pc' = "queue" THEN Offset' + 1 ELSE Offset' BY DEF Here
<1> QED BY <1>1, <1>2, <1>3

LEMMA EnvironmentIsQuiet ==
  ASSUME BaseInv, UNCHANGED <<queue, disk, pc, pg, proc, out, base>>
  PROVE  Quiet
<1>1. Here' = Here BY DEF Here, Offset, Saved
<1> QED BY <1>1 DEF Quiet, queue

\* The offset that a save makes the saved one.
LEMMA SavedIs ==
  ASSUME BaseInv, disk' = pg, pc # "idle"
  PROVE  Saved' = Offset
<1>1. pg.v = Schema BY DEF BaseInv, PlaceOK
<1>2. ~(Schema < Schema) BY DEF Schema
<1> QED BY <1>1, <1>2 DEF Saved, Offset

LEMMA ClassifyKind ==
  ASSUME BaseInv, Classify
  PROVE  Quiet \/ Rebased
<1>1. /\ pc = "classify" /\ pc' \in {"flush", "tail"}
      /\ \/ Offset' = Offset
         \/ ClassifyOld /\ pg.off = Unseen /\ Offset' = avail /\ base' = avail
  BY ClassifyIs
<1>2. Here = Offset /\ Here' = Offset' BY <1>1 DEF Here
<1>3. UNCHANGED <<queued, repeated, claimed, out, proc>>
  BY DEF Classify, ClassifyStops, ClassifyNo, ClassifyYes, ClassifyOld, EndUnknown, queue
<1>4. Offset \in Nat /\ Offset <= avail /\ avail \in Nat BY BaseFacts
<1>5. old # 0
      \/ base' = base
  <2>1. (ClassifyOld \/ EndUnknown) => \E i \in 1..avail : i <= old BY DEF ClassifyOld, EndUnknown
  <2>2. (\E i \in 1..avail : i <= old) => old # 0 BY <1>4
  <2>3. ClassifyStops \/ ClassifyNo \/ ClassifyYes => base' = base BY DEF ClassifyStops, ClassifyNo, ClassifyYes
  <2> QED BY <2>1, <2>2, <2>3 DEF Classify
<1>6. base' = base \/ base' = avail BY DEF Classify, ClassifyStops, ClassifyNo, ClassifyYes, ClassifyOld, EndUnknown
<1>7. CASE Offset' = Offset /\ base' = base BY <1>1, <1>2, <1>3, <1>7 DEF Quiet
<1>8. CASE Offset' = Offset /\ base' # base
  <2>1. Here <= Here' /\ Here' <= avail BY <1>2, <1>4, <1>8
  <2> QED BY <1>1, <1>3, <1>5, <1>6, <1>8, <2>1 DEF Rebased
<1>9. CASE ClassifyOld /\ Offset' = avail /\ base' = avail
  <2>1. Here <= Here' /\ Here' <= avail BY <1>2, <1>4, <1>9
  <2>2. old # 0
    <3>1. \E i \in 1..avail : i <= old BY <1>9 DEF ClassifyOld
    <3> QED BY <1>4, <3>1
  <2> QED BY <1>1, <1>3, <1>9, <2>1, <2>2 DEF Rebased
<1> QED BY <1>1, <1>7, <1>8, <1>9

LEMMA StepKinds ==
  ASSUME BaseInv, [Next]_vars
  PROVE  \/ Quiet \/ Rebased \/ ReadRecord \/ QueueEvent \/ QueueRefused \/ FlushStale \/ Evict
         \/ SaveFails \/ Exit \/ Crash
<1>1. CASE \/ Grow \/ Age \/ LeaveWindow \/ MoveRoots \/ (\E l \in Lanes : FillLane(l) \/ FreeLane(l))
           \/ UNCHANGED vars
  <2>1. UNCHANGED <<queue, disk, pc, pg, proc, out, base>>
    BY <1>1 DEF Grow, Age, LeaveWindow, MoveRoots, FillLane, FreeLane, vars
  <2> QED BY <2>1, EnvironmentIsQuiet
<1>2. CASE PollStart
  <2>1. Offset' = Saved /\ pc = "idle" /\ pc' \in {"flush", "read", "classify"}
    BY <1>2, BeginsWith DEF PollStart
  <2>2. Here' = Here BY <2>1 DEF Here
  <2> QED BY <1>2, <2>1, <2>2 DEF PollStart, Quiet, queue
<1>3. CASE Classify BY <1>3, ClassifyKind
<1>4. CASE TailStart \/ StopReading \/ NoFlush
  <2>1. /\ UNCHANGED <<queue, disk, pg, proc, out, base>>
        /\ pc \in {"tail", "read", "flush"} /\ pc' \in {"flush", "read", "save"}
    BY <1>4 DEF TailStart, StopReading, NoFlush
  <2>2. Here' = Here BY <2>1 DEF Here, Offset
  <2> QED BY <2>1, <2>2 DEF Quiet, queue
<1>5. CASE RecordDone
  <2>1. Offset' = Offset + 1 /\ pc = "queue" /\ pc' = "read" BY <1>5, RecordGoesOn DEF RecordDone
  <2>2. Here' = Here BY <2>1 DEF Here
  <2> QED BY <1>5, <2>1, <2>2 DEF RecordDone, Quiet, queue
<1>6. CASE Checkpoint \/ SaveProgress
  <2>1. /\ disk' = pg /\ pg' = pg /\ pc # "idle" /\ pc # "queue" /\ (pc' = pc \/ pc' = "idle")
        /\ UNCHANGED <<queue, proc, out, base>>
    BY <1>6 DEF Checkpoint, SaveProgress
  <2>2. Saved' = Offset /\ Offset' = Offset BY <2>1, SavedIs DEF Offset
  <2>3. Here' = Here BY <2>1, <2>2 DEF Here
  <2> QED BY <2>1, <2>3 DEF Quiet, queue
<1> QED BY <1>1, <1>2, <1>3, <1>4, <1>5, <1>6 DEF Next, Poll

-----------------------------------------------------------------------------
(* What the other steps do.                                                 *)

LEMMA ReadIs ==
  ASSUME BaseInv, ReadRecord
  PROVE  /\ UNCHANGED <<queued, repeated, claimed, base>>
         /\ out = <<>> /\ Range(out) = {} /\ pc = "read" /\ pc' = "queue"
         /\ Here = Offset /\ Here' = Here + 1 /\ Here + 1 \in Records /\ Here + 1 \in 1..avail
         /\ \E p : /\ Orderly(p) /\ p.accum = proc.accum /\ p.pending = proc.pending /\ p.emitted = proc.emitted
                   /\ p.rewind = (IF HasBufferedState(proc) THEN proc.rewind ELSE Here)
                   /\ Becomes(p, Here + 1, proc') /\ out' = Produced(p, Here + 1)
                   /\ out' \in Seq(Event) /\ Range(out') = Made(p, Here + 1)
<1>1. ScriptOK /\ Offset \in Nat BY BaseFacts
<1>2. UNCHANGED <<queued, repeated, claimed, base>> /\ pg' = pg BY DEF ReadRecord, Read, queue
<1>3. pc = "read" /\ pc' = "queue" /\ Offset + 1 \in Records /\ Offset + 1 \in 1..avail BY ReadWithin
<1>4. Here = Offset /\ Here' = Here + 1
  <2>1. Offset' = Offset BY <1>2 DEF Offset
  <2> QED BY <1>3, <2>1 DEF Here
<1>5. out = <<>> /\ Range(out) = {} BY <1>3, EmptyRange DEF BaseInv, PlaceOK
<1>6. PICK p : /\ Orderly(p) /\ p.accum = proc.accum /\ p.pending = proc.pending /\ p.emitted = proc.emitted
               /\ p.rewind = (IF HasBufferedState(proc) THEN proc.rewind ELSE Offset)
               /\ proc' = Processed(p, Offset + 1) /\ out' = Produced(p, Offset + 1)
  BY ReadWithin
<1>7. Becomes(p, Offset + 1, proc') BY <1>1, <1>3, <1>6, ProcessedIs
<1>8. out' \in Seq(Event) /\ Range(out') = Made(p, Offset + 1) BY <1>1, <1>3, <1>6, ProducedIs
<1> QED BY <1>2, <1>3, <1>4, <1>5, <1>6, <1>7, <1>8

LEMMA QueuesIs ==
  ASSUME BaseInv, QueueEvent
  PROVE  /\ pc = "queue" /\ pc' = "queue" /\ proc' = proc /\ base' = base /\ Here' = Here
         /\ Range(out') \subseteq Range(out) /\ queued \subseteq queued'
<1>1. /\ pc = "queue" /\ pc' = "queue" /\ pg' = pg /\ proc' = proc /\ base' = base /\ Offset' = Offset
      /\ Range(out) = {Head(out)} \cup Range(out') /\ queued \subseteq queued'
  BY QueuesHead
<1>2. Here' = Here BY <1>1 DEF Here
<1> QED BY <1>1, <1>2

LEMMA RefusesIs ==
  ASSUME BaseInv, QueueRefused
  PROVE  /\ queued' = queued /\ repeated' = repeated /\ base' = base /\ out' = <<>> /\ Range(out') = {}
         /\ pc = "queue" /\ pc' = "flush" /\ full # {} /\ ~DryRun
         /\ proc'.accum = NoAccum /\ proc'.pending = {} /\ proc'.emitted = {} /\ ~HasBufferedState(proc')
         /\ Here' = (IF proc.rewind < Offset THEN proc.rewind ELSE Offset)
         /\ proc.rewind \in Nat /\ Offset \in Nat
<1>1. Orderly(proc) /\ Offset \in Nat BY BaseFacts
<1>2. proc.rewind \in Nat BY <1>1, ProcFields
<1>3. /\ pc = "queue" /\ pc' = "flush" /\ out' = <<>> /\ proc' = DiscardBufferedState(proc)
      /\ Refused(Head(out)) /\ Funnel(Head(out)) /\ base' = base
  BY DEF QueueRefused
<1>4. queued' = queued /\ repeated' = repeated BY <1>3, FunnelIs
<1>5. full # {} /\ ~DryRun BY <1>3 DEF Refused
<1>6. Here' = Offset' BY <1>3 DEF Here
<1> QED BY <1>1, <1>2, <1>3, <1>4, <1>5, <1>6, RefusedGoesBack, DiscardedIs, EmptyRange

LEMMA FlushesIs ==
  ASSUME BaseInv, FlushStale
  PROVE  /\ Release /\ pc = "flush" /\ pc' = "save" /\ base' = base /\ Here' = Here
         /\ out = <<>> /\ out' = <<>> /\ Range(out) = {} /\ Range(out') = {}
         /\ proc'.accum = NoAccum /\ proc'.pending = proc.pending /\ proc'.rewind = proc.rewind
         /\ proc'.emitted = proc.emitted \cup ({proc.accum.msg} \ {NoMsg})
         /\ HasBufferedState(proc') => HasBufferedState(proc)
         /\ "staleFlush" \in allowed
<1>1. Orderly(proc) BY BaseFacts
<1>2. /\ Release /\ pc = "flush" /\ pc' = "save" /\ base' = base /\ pg' = pg /\ out' = out
      /\ proc' = Flushed(proc) /\ "staleFlush" \in allowed
  BY DEF FlushStale
<1>3. out = <<>> /\ Range(out) = {} BY <1>2, EmptyRange DEF BaseInv, PlaceOK
<1>4. Here' = Here
  <2>1. Offset' = Offset BY <1>2 DEF Offset
  <2> QED BY <1>2, <2>1 DEF Here
<1>5. /\ proc'.accum = NoAccum /\ proc'.pending = proc.pending /\ proc'.rewind = proc.rewind
      /\ proc'.emitted = proc.emitted \cup ({proc.accum.msg} \ {NoMsg})
  BY <1>1, <1>2, FlushedIs
<1> QED BY <1>2, <1>3, <1>4, <1>5 DEF HasBufferedState

LEMMA ReopensIs ==
  ASSUME BaseInv, SaveFails
  PROVE  /\ UNCHANGED <<queued, repeated, claimed, out, proc, base>>
         /\ pc = "save" /\ pc' = "idle" /\ Here = Offset /\ Here' = Saved /\ out = <<>> /\ "nosave" \in allowed
<1>1. /\ UNCHANGED <<queued, repeated, claimed, out, proc, base, disk>> /\ pc = "save" /\ pc' = "idle"
      /\ "nosave" \in allowed
  BY DEF SaveFails, queue
<1>2. out = <<>> BY <1>1 DEF BaseInv, PlaceOK
<1>3. Here = Offset /\ Here' = Saved
  <2>1. Saved' = Saved BY <1>1 DEF Saved
  <2> QED BY <1>1, <2>1 DEF Here
<1> QED BY <1>1, <1>2, <1>3

-----------------------------------------------------------------------------
(* The conditions under which something is promised.                        *)

Delays == {"full", "aging"} \cup Admission
StaleDelays == {"full", "staleFlush", "aging"} \cup Admission
Rereads == {"staleFlush", "nosave", "aging"}
Undelayed == {"staleFlush", "aging", "degrade"} \cup Admission

LEMMA OnlyMeans ==
  /\ Only(Delays) => Only(StaleDelays) /\ "staleFlush" \notin allowed
  /\ Only(StaleDelays) => /\ "evict" \notin allowed /\ "exit" \notin allowed /\ "crash" \notin allowed
                          /\ "nosave" \notin allowed /\ "degrade" \notin allowed
  /\ Only(Rereads) => /\ "evict" \notin allowed /\ "exit" \notin allowed /\ "crash" \notin allowed
                      /\ "full" \notin allowed /\ "degrade" \notin allowed /\ "window" \notin allowed
  /\ Only(Undelayed) => /\ "evict" \notin allowed /\ "exit" \notin allowed /\ "crash" \notin allowed
                        /\ "full" \notin allowed /\ "nosave" \notin allowed
BY DEF Only, Delays, StaleDelays, Rereads, Undelayed, Admission

LEMMA OnlyStays ==
  ASSUME [Next]_vars
  PROVE  /\ \A S : Only(S)' <=> Only(S)
         /\ allowed' = allowed /\ script' = script /\ Records' = Records
<1>1. allowed' = allowed /\ script' = script BY WhoMovesEnvironment
<1> QED BY <1>1 DEF Only, Records

LEMMA NeverHappens ==
  /\ "evict" \notin allowed => ~Evict
  /\ "exit" \notin allowed => ~Exit
  /\ "crash" \notin allowed => ~Crash
  /\ "nosave" \notin allowed => ~SaveFails
  /\ "staleFlush" \notin allowed => ~FlushStale
BY DEF Evict, Exit, Crash, SaveFails, FlushStale

LEMMA LanesStayFree ==
  ASSUME BaseInv, "full" \notin allowed
  PROVE  full = {} /\ ~QueueRefused /\ \A e : ~Refused(e)
<1>1. full = {} BY DEF BaseInv, EnvOK
<1> QED BY <1>1 DEF QueueRefused, Refused

LEMMA NotDry ==
  ASSUME BaseInv, "degrade" \notin allowed
  PROVE  ~DryRun
BY DEF BaseInv, HealthOK, DryRun, Watched

\* A claimed file_diff has been sent, unless the lane refused it or nothing is sent.
ClaimsSent == "full" \notin allowed /\ "degrade" \notin allowed => \A c \in claimed : Sent(ToolId(c))

LEMMA ClaimsStep ==
  ASSUME BaseInv, ClaimsSent, [Next]_vars
  PROVE  ClaimsSent'
<1>1. allowed' = allowed BY OnlyStays
<1>0. SUFFICES ASSUME "full" \notin allowed, "degrade" \notin allowed, NEW c \in claimed'
               PROVE  Sent(ToolId(c))'
  BY <1>1 DEF ClaimsSent
<1>2. c \in claimed => Sent(ToolId(c)) BY <1>0 DEF ClaimsSent
<1>3. CASE c \in claimed BY <1>2, <1>3, SentStays
<1>4. CASE c \notin claimed
  <2>1. QueueEvent
    <3>1. ~UNCHANGED <<queued, repeated, claimed>> BY <1>4, <1>0
    <3>2. ~QueueRefused BY <1>0, LanesStayFree
    <3>3. ~Release BY <1>4, <1>0, ReleaseIs
    <3> QED BY <3>1, <3>2, <3>3, WhoMovesQueue DEF FlushStale, Evict, Exit
  <2> DEFINE e == Head(out)
  <2>2. Funnel(e) BY <2>1 DEF QueueEvent
  <2>3. ~DryRun /\ ~Refused(e) BY <1>0, NotDry, LanesStayFree
  <2>4. Claimable(e) /\ c = e.id[2] BY <1>0, <1>4, <2>2, <2>3, FunnelIs
  <2>5. ~Skipped(e) BY <1>4, <2>4 DEF Skipped
  <2>6. e \in queued' BY <2>2, <2>3, <2>5, FunnelIs
  <2>7. e.id = ToolId(c)
    <3>1. e \in Event
      <4>1. out \in Seq(Event) /\ e \in Range(out) BY <2>1, QueuesHead
      <4> QED BY <4>1, RangeIs
    <3>2. ScriptOK BY BaseFacts
    <3>3. \/ \E m \in Messages : e.id = ResponseId(m)
          \/ \E d \in Calls : e.id = ToolId(d)
          \/ \E i \in Records : e.id = PromptId(i)
      BY <3>1, <3>2, EventIs
    <3>4. e.id[1] = "file_diff" BY <2>4 DEF Claimable
    <3> QED BY <2>4, <3>3, <3>4, IdKinds
  <2> HIDE DEF e
  <2> QED BY <2>6, <2>7 DEF Sent
<1> QED BY <1>3, <1>4

\* Where no lane fills up and nothing is admitted, the saved offset is not past the
\* one that is read at.
Forward == Only(Rereads) => (pc # "idle" => Saved <= Offset)

LEMMA ForwardStep ==
  ASSUME BaseInv, Forward, [Next]_vars
  PROVE  Forward'
<1>0. SUFFICES ASSUME Only(Rereads), pc' # "idle" PROVE Saved' <= Offset'
  BY OnlyStays DEF Forward
<1>1. Offset \in Nat /\ Saved \in Nat /\ avail \in Nat /\ Offset <= avail /\ Saved <= avail BY BaseFacts
<1>2. "crash" \notin allowed /\ "full" \notin allowed BY <1>0, OnlyMeans
<1>3. CASE PollStart BY <1>1, <1>3, BeginsWith
<1>4. CASE Checkpoint \/ SaveProgress
  <2>1. disk' = pg /\ pg' = pg /\ pc # "idle" BY <1>4 DEF Checkpoint, SaveProgress
  <2>2. Saved' = Offset /\ Offset' = Offset BY <2>1, SavedIs DEF Offset
  <2> QED BY <1>1, <2>2
<1>5. CASE ~PollStart /\ ~Checkpoint /\ ~SaveProgress
  <2>1. disk' = disk /\ Saved' = Saved BY <1>5, WhoMovesProgress DEF Saved
  <2>2. pc # "idle"
    <3>1. TailStart \/ ReadRecord \/ QueueRefused \/ RecordDone \/ StopReading \/ FlushStale
          \/ NoFlush \/ Evict \/ SaveProgress \/ SaveFails => pc # "idle"
      BY DEF TailStart, ReadRecord, Read, QueueRefused, RecordDone, StopReading, FlushStale, NoFlush, Evict,
             SaveProgress, SaveFails
    <3>2. Classify => pc # "idle" BY ClassifyIs
    <3>3. ~Crash BY <1>2, NeverHappens
    <3> QED BY <1>0, <1>5, <3>1, <3>2, <3>3, WhoMovesPoll
  <2>3. Saved <= Offset BY <1>0, <2>2 DEF Forward
  <2>4. Offset <= Offset' /\ Offset' \in Nat
    <3>1. ~QueueRefused /\ ~Crash BY <1>2, LanesStayFree, NeverHappens
    <3>2. CASE pg' = pg BY <1>1, <3>2 DEF Offset
    <3>3. CASE Classify BY <1>1, <3>3, ClassifyIs
    <3>4. CASE RecordDone BY <1>1, <3>4, RecordGoesOn
    <3> QED BY <1>5, <3>1, <3>2, <3>3, <3>4, WhoMovesProgress
  <2> QED BY <1>1, <2>1, <2>3, <2>4
<1> QED BY <1>3, <1>4, <1>5

LEMMA ForwardInit ==
  ASSUME Init
  PROVE  Forward /\ ClaimsSent
BY DEF Init, Forward, ClaimsSent

-----------------------------------------------------------------------------
(* What comes of the records after a position.                              *)

LineAfter(m, n)   == \E i \in Records : n < i /\ IsLine(i, m)
ResultAfter(c, n) == \E i \in Records : n < i /\ IsResult(i, c)
PairAfter(c, n)   == \E i, j \in Records : n < i /\ i < j /\ IsCall(i, c) /\ IsResult(j, c)

\* p and the records after n still give the event of call c, and that of message m.
ToolComes(p, c, n)     == (c \in p.pending /\ ResultAfter(c, n)) \/ PairAfter(c, n)
ResponseComes(p, m, n) == m \notin p.emitted /\ (p.accum.msg = m \/ LineAfter(m, n))

LEMMA AfterIsEarlier ==
  ASSUME ScriptOK, NEW n \in Nat, NEW k \in Nat, k <= n
  PROVE  /\ \A m : LineAfter(m, n) => LineAfter(m, k)
         /\ \A c : ResultAfter(c, n) => ResultAfter(c, k)
         /\ \A c : PairAfter(c, n) => PairAfter(c, k)
<1>1. \A i \in Records : i \in Nat BY DEF Records
<1>2. \A i \in Records : n < i => k < i BY <1>1
<1> QED BY <1>2 DEF LineAfter, ResultAfter, PairAfter

\* Over one record.
LEMMA ToolGoesOn ==
  ASSUME ScriptOK, NEW p, NEW q, NEW n \in Nat, n + 1 \in Records, Becomes(p, n + 1, q),
         NEW c \in Calls, ToolComes(p, c, n)
  PROVE  ToolEvent(c) \in Made(p, n + 1) \/ ToolComes(q, c, n + 1)
<1>1. \A i \in Records : i \in Nat BY DEF Records
<1>2. \A i \in Records : n < i => i = n + 1 \/ n + 1 < i BY <1>1
<1>3. \A i \in Records : ~(IsCall(i, c) /\ IsResult(i, c)) BY DEF IsCall, IsResult
<1>4. /\ IsCall(n + 1, c) => c \in q.pending
      /\ ~IsCall(n + 1, c) /\ ~IsResult(n + 1, c) => (c \in q.pending <=> c \in p.pending)
  BY DEF Becomes, PendingAfter
<1>5. CASE c \in p.pending /\ ResultAfter(c, n)
  <2>1. PICK j \in Records : n < j /\ IsResult(j, c) BY <1>5 DEF ResultAfter
  <2>2. CASE IsResult(n + 1, c) BY <1>5, <2>2 DEF Made
  <2>3. CASE ~IsResult(n + 1, c)
    <3>1. n + 1 < j BY <1>2, <2>1, <2>3
    <3>2. c \in q.pending BY <1>4, <1>5, <2>3
    <3> QED BY <2>1, <3>1, <3>2 DEF ToolComes, ResultAfter
  <2> QED BY <2>2, <2>3
<1>6. CASE PairAfter(c, n)
  <2>1. PICK i, j \in Records : n < i /\ i < j /\ IsCall(i, c) /\ IsResult(j, c) BY <1>6 DEF PairAfter
  <2>2. CASE i = n + 1
    <3>1. c \in q.pending /\ n + 1 < j BY <1>4, <2>1, <2>2
    <3> QED BY <2>1, <3>1 DEF ToolComes, ResultAfter
  <2>3. CASE n + 1 < i BY <2>1, <2>3 DEF ToolComes, PairAfter
  <2> QED BY <1>2, <2>1, <2>2, <2>3
<1> QED BY <1>5, <1>6 DEF ToolComes

LEMMA ResponseGoesOn ==
  ASSUME ScriptOK, NEW p, Orderly(p), NEW q, NEW n \in Nat, n + 1 \in Records, Becomes(p, n + 1, q),
         NEW m \in Messages, ResponseComes(p, m, n)
  PROVE  (\E e \in Made(p, n + 1) : e.id = ResponseId(m)) \/ ResponseComes(q, m, n + 1)
<1>1. \A i \in Records : i \in Nat BY DEF Records
<1>2. \A i \in Records : n < i => i = n + 1 \/ n + 1 < i BY <1>1
<1>3. m # NoMsg BY TailAssumption
<1>4. q.emitted = IF IsLine(n + 1, p.accum.msg) THEN p.emitted ELSE p.emitted \cup ({p.accum.msg} \ {NoMsg})
  BY DEF Becomes, EmittedAfter
<1>5. m \notin p.emitted BY DEF ResponseComes
<1>6. CASE p.accum.msg = m /\ IsLine(n + 1, m)
  <2>1. q.emitted = p.emitted BY <1>4, <1>6
  <2>2. q.accum.msg = m BY <1>6 DEF Becomes, AccumAfter
  <2> QED BY <1>5, <2>1, <2>2 DEF ResponseComes
<1>7. CASE p.accum.msg = m /\ ~IsLine(n + 1, m)
  <2>1. Response(p.accum) \in Made(p, n + 1) BY <1>3, <1>5, <1>7 DEF Made, FlushSet
  <2> QED BY <1>7, <2>1, IdsAre
<1>8. CASE p.accum.msg # m
  <2>1. m \notin q.emitted BY <1>4, <1>5, <1>8
  <2>2. PICK j \in Records : n < j /\ IsLine(j, m) BY <1>8 DEF ResponseComes, LineAfter
  <2>3. CASE j = n + 1
    <3>1. q.accum = [msg |-> m, lines |-> <<n + 1>>] BY <1>8, <2>1, <2>2, <2>3 DEF Becomes, AccumAfter
    <3> QED BY <2>1, <3>1 DEF ResponseComes
  <2>4. CASE n + 1 < j BY <2>1, <2>2, <2>4 DEF ResponseComes, LineAfter
  <2> QED BY <1>2, <2>2, <2>3, <2>4
<1> QED BY <1>6, <1>7, <1>8

\* Nothing that the watcher has to forget is needed for the event of a call.
ToolKept(c) ==
  /\ Safe(ToolId(c)) \/ ToolComes(proc, c, Here)
  /\ Holding => Sent(ToolId(c)) \/ PairAfter(c, proc.rewind)

ToolsInv ==
  Only(StaleDelays) \/ Only(Rereads) =>
    \A c \in Calls : (c \notin FileDiffs \/ Only(Rereads)) /\ PairAfter(c, base) => ToolKept(c)

\* Nor for the response of a message.
ResponseKept(m) ==
  /\ Safe(ResponseId(m)) \/ ResponseComes(proc, m, Here)
  /\ Holding => Sent(ResponseId(m)) \/ LineAfter(m, proc.rewind)

ResponsesInv ==
  Only(Delays) \/ Only(Rereads) =>
    \A m \in Messages : /\ m \in proc.emitted => Safe(ResponseId(m))
                        /\ LineAfter(m, base) => ResponseKept(m)

LEMMA KeptInit ==
  ASSUME Init
  PROVE  ToolsInv /\ ResponsesInv
<1>1. pc = "idle" /\ proc = EmptyProc /\ base = 0 BY DEF Init
<1>2. EmptyProc.emitted = {} BY DEF EmptyProc
<1>3. Here = 0
  <2>1. disk.v < Schema \/ disk.off = Unseen BY FirstEntry
  <2> QED BY <1>1, <2>1 DEF Here, Saved
<1>4. ~Holding BY <1>1, EmptyIsOrderly DEF Holding
<1> QED BY <1>1, <1>2, <1>3, <1>4
    DEF ToolsInv, ResponsesInv, ToolKept, ResponseKept, ToolComes, ResponseComes

\* What is safe before a step that queues nothing, and after it.
LEMMA SafeWithoutQueue ==
  ASSUME BaseInv, [Next]_vars, out' = out \/ out = <<>>, NEW id, Safe(id)
  PROVE  Safe(id)'
<1>1. Sent(id) => Sent(id)' BY SentStays
<1>2. out = <<>> => ~Coming(id) BY EmptyRange DEF Coming
<1>3. out' = out => (Coming(id) => Coming(id)') BY DEF Coming
<1> QED BY <1>1, <1>2, <1>3 DEF Safe

LEMMA AfterStays ==
  ASSUME [Next]_vars
  PROVE  \A x, n : /\ LineAfter(x, n)' <=> LineAfter(x, n)
                   /\ ResultAfter(x, n)' <=> ResultAfter(x, n)
                   /\ PairAfter(x, n)' <=> PairAfter(x, n)
<1>1. script' = script /\ Records' = Records BY OnlyStays
<1> QED BY <1>1 DEF LineAfter, ResultAfter, PairAfter, IsLine, IsCall, IsResult

LEMMA ToolsStep ==
  ASSUME BaseInv, ToolsInv, ClaimsSent, Forward, [Next]_vars
  PROVE  ToolsInv'
<1>0. SUFFICES ASSUME Only(StaleDelays) \/ Only(Rereads), NEW c \in Calls,
                      c \notin FileDiffs \/ Only(Rereads), PairAfter(c, base')
               PROVE  /\ Safe(ToolId(c))' \/ ToolComes(proc', c, Here')
                      /\ Holding' => Sent(ToolId(c))' \/ PairAfter(c, proc'.rewind)
  <2>1. (ToolsInv)' <=> (Only(StaleDelays) \/ Only(Rereads) =>
            \A c \in Calls : (c \notin FileDiffs \/ Only(Rereads)) /\ PairAfter(c, base') =>
               /\ Safe(ToolId(c))' \/ ToolComes(proc', c, Here')
               /\ Holding' => Sent(ToolId(c))' \/ PairAfter(c, proc'.rewind))
    BY OnlyStays, AfterStays DEF ToolsInv, ToolKept, ToolComes
  <2> QED BY <1>0, <2>1
<1>1. /\ ScriptOK /\ Here \in Nat /\ Here' \in Nat /\ base \in Nat /\ base' \in Nat /\ base <= base'
      /\ Orderly(proc) /\ proc.rewind \in Nat /\ proc.rewind <= avail /\ avail \in Nat
      /\ Offset \in Nat /\ Saved \in Nat /\ Offset' \in Nat /\ Saved' \in Nat
  <2>1. Orderly(proc) BY BaseFacts
  <2>2. proc.rewind \in Nat BY <2>1, ProcFields
  <2>3. Offset' \in Nat /\ Saved' \in Nat BY NumbersAfter
  <2> QED BY <2>1, <2>2, <2>3, BaseFacts, HereIs, HereAfter, NumbersAfter, OffsetSteps
<1>2. ~DryRun /\ ~Evict /\ ~Exit /\ ~Crash BY <1>0, OnlyMeans, NeverHappens, NotDry
<1>3. ToolKept(c)
  <2>1. PairAfter(c, base) BY <1>0, <1>1, AfterIsEarlier
  <2> QED BY <1>0, <2>1 DEF ToolsInv
<1>4. Sent(ToolId(c)) => Sent(ToolId(c))' BY SentStays
<1>5. ASSUME out' = out \/ out = <<>>, proc' = proc, Here' = Here, pc' = "queue" => pc = "queue"
      PROVE  /\ Safe(ToolId(c))' \/ ToolComes(proc', c, Here')
             /\ Holding' => Sent(ToolId(c))' \/ PairAfter(c, proc'.rewind)
  <2>1. Safe(ToolId(c)) => Safe(ToolId(c))' BY <1>5, SafeWithoutQueue
  <2>2. Holding' => Holding BY <1>5 DEF Holding
  <2> QED BY <1>3, <1>4, <1>5, <2>1, <2>2 DEF ToolKept
<1>6. CASE Quiet BY <1>5, <1>6 DEF Quiet
<1>7. CASE Rebased
  <2>1. base' = avail /\ Here' <= avail /\ proc' = proc BY <1>7 DEF Rebased
  <2>2. PairAfter(c, Here') /\ PairAfter(c, proc'.rewind) BY <1>0, <1>1, <2>1, AfterIsEarlier
  <2> QED BY <2>2 DEF ToolComes
<1>8. CASE ReadRecord
  <2>1. /\ out = <<>> /\ pc = "read" /\ Here' = Here + 1 /\ Here + 1 \in Records
    BY <1>8, ReadIs
  <2>2. PICK p : /\ Orderly(p) /\ p.pending = proc.pending
                 /\ p.rewind = (IF HasBufferedState(proc) THEN proc.rewind ELSE Here)
                 /\ Becomes(p, Here + 1, proc') /\ Range(out') = Made(p, Here + 1)
    BY <1>8, ReadIs
  <2>3. ~Coming(ToolId(c)) BY <2>1, EmptyRange DEF Coming
  <2>4. ToolComes(proc, c, Here) => Safe(ToolId(c))' \/ ToolComes(proc', c, Here')
    <3> SUFFICES ASSUME ToolComes(proc, c, Here)
                 PROVE  Safe(ToolId(c))' \/ ToolComes(proc', c, Here')
      OBVIOUS
    <3>1. ToolComes(p, c, Here) BY <2>2 DEF ToolComes
    <3>2. ToolEvent(c) \in Made(p, Here + 1) \/ ToolComes(proc', c, Here + 1)
      BY <1>1, <2>1, <2>2, <3>1, ToolGoesOn
    <3>3. ToolEvent(c) \in Range(out') => Safe(ToolId(c))' BY IdsAre DEF Safe, Coming
    <3> QED BY <2>1, <2>2, <3>2, <3>3
  <2>5. Safe(ToolId(c))' \/ ToolComes(proc', c, Here')
    <3>1. Sent(ToolId(c)) => Safe(ToolId(c))' BY <1>4 DEF Safe
    <3> QED BY <1>3, <2>3, <2>4, <3>1 DEF ToolKept, Safe
  <2>6. Sent(ToolId(c))' \/ PairAfter(c, proc'.rewind)
    <3>1. proc'.rewind = p.rewind BY <2>2 DEF Becomes
    <3>2. CASE HasBufferedState(proc) BY <1>3, <1>4, <2>2, <3>1, <3>2 DEF ToolKept, Holding
    <3>3. CASE ~HasBufferedState(proc)
      <4>1. c \notin proc.pending BY <3>3 DEF HasBufferedState
      <4> QED BY <1>3, <1>4, <2>2, <2>3, <3>1, <3>3, <4>1 DEF ToolKept, ToolComes, Safe
    <3> QED BY <3>2, <3>3
  <2> QED BY <2>5, <2>6
<1>9. CASE QueueEvent
  <2>1. pc = "queue" /\ pc' = "queue" /\ proc' = proc /\ Here' = Here BY <1>9, QueuesIs
  <2>2. Safe(ToolId(c)) => Safe(ToolId(c))'
    <3>1. ASSUME NEW e, e.id = ToolId(c), Skipped(e) PROVE Sent(ToolId(c))
      <4>1. c \in claimed /\ c \in FileDiffs BY <3>1, IdKinds DEF Skipped, Claimable
      <4>2. Only(Rereads) BY <1>0, <4>1
      <4> QED BY <4>1, <4>2, OnlyMeans DEF ClaimsSent
    <3> QED BY <1>2, <1>9, <3>1, SafeWhileQueued
  <2>3. Holding BY <2>1 DEF Holding
  <2> QED BY <1>3, <1>4, <2>1, <2>2, <2>3 DEF ToolKept
<1>10. CASE QueueRefused
  <2>1. /\ pc = "queue" /\ pc' = "flush" /\ ~HasBufferedState(proc')
        /\ Here' = (IF proc.rewind < Offset THEN proc.rewind ELSE Offset)
    BY <1>10, RefusesIs
  <2>2. Here' <= proc.rewind BY <1>1, <2>1
  <2>3. Sent(ToolId(c)) \/ PairAfter(c, proc.rewind) BY <1>3, <2>1 DEF ToolKept, Holding
  <2>4. PairAfter(c, proc.rewind) => PairAfter(c, Here') BY <1>1, <2>2, AfterIsEarlier
  <2>5. ~Holding' BY <2>1 DEF Holding
  <2> QED BY <1>4, <2>3, <2>4, <2>5 DEF Safe, ToolComes
<1>11. CASE FlushStale
  <2>1. /\ out = <<>> /\ Here' = Here /\ proc'.pending = proc.pending /\ proc'.rewind = proc.rewind
        /\ pc' = "save" /\ (HasBufferedState(proc') => HasBufferedState(proc))
    BY <1>11, FlushesIs
  <2>2. Safe(ToolId(c)) => Safe(ToolId(c))' BY <2>1, SafeWithoutQueue
  <2>3. Holding' => Holding BY <2>1 DEF Holding
  <2> QED BY <1>3, <1>4, <2>1, <2>2, <2>3 DEF ToolKept, ToolComes
<1>12. CASE SaveFails
  <2>1. /\ proc' = proc /\ out = <<>> /\ pc = "save" /\ pc' = "idle" /\ Here = Offset /\ Here' = Saved
        /\ "nosave" \in allowed
    BY <1>12, ReopensIs
  <2>2. Here' <= Here
    <3>1. Only(Rereads) BY <1>0, <2>1, OnlyMeans
    <3> QED BY <2>1, <3>1 DEF Forward
  <2>3. ToolComes(proc, c, Here) => ToolComes(proc, c, Here') BY <1>1, <2>2, AfterIsEarlier DEF ToolComes
  <2>4. Safe(ToolId(c)) => Safe(ToolId(c))' BY <2>1, SafeWithoutQueue
  <2>5. Holding' => Holding BY <2>1 DEF Holding
  <2> QED BY <1>3, <1>4, <2>1, <2>3, <2>4, <2>5 DEF ToolKept
<1> QED BY <1>2, <1>6, <1>7, <1>8, <1>9, <1>10, <1>11, <1>12, StepKinds

LEMMA ResponsesStep ==
  ASSUME BaseInv, ResponsesInv, Forward, [Next]_vars
  PROVE  ResponsesInv'
<1>0. SUFFICES ASSUME Only(Delays) \/ Only(Rereads), NEW m \in Messages
               PROVE  /\ m \in proc'.emitted => Safe(ResponseId(m))'
                      /\ LineAfter(m, base') =>
                           /\ Safe(ResponseId(m))' \/ ResponseComes(proc', m, Here')
                           /\ Holding' => Sent(ResponseId(m))' \/ LineAfter(m, proc'.rewind)
  <2>1. (ResponsesInv)' <=> (Only(Delays) \/ Only(Rereads) =>
            \A m \in Messages :
               /\ m \in proc'.emitted => Safe(ResponseId(m))'
               /\ LineAfter(m, base') =>
                    /\ Safe(ResponseId(m))' \/ ResponseComes(proc', m, Here')
                    /\ Holding' => Sent(ResponseId(m))' \/ LineAfter(m, proc'.rewind))
    BY OnlyStays, AfterStays DEF ResponsesInv, ResponseKept, ResponseComes
  <2> QED BY <1>0, <2>1
<1>1. /\ ScriptOK /\ Here \in Nat /\ Here' \in Nat /\ base \in Nat /\ base' \in Nat /\ base <= base'
      /\ Orderly(proc) /\ proc.rewind \in Nat /\ proc.rewind <= avail /\ avail \in Nat
      /\ Offset \in Nat /\ Saved \in Nat /\ Offset' \in Nat /\ Saved' \in Nat
  <2>1. Orderly(proc) BY BaseFacts
  <2>2. proc.rewind \in Nat BY <2>1, ProcFields
  <2>3. Offset' \in Nat /\ Saved' \in Nat BY NumbersAfter
  <2> QED BY <2>1, <2>2, <2>3, BaseFacts, HereIs, HereAfter, NumbersAfter, OffsetSteps
<1>2. ~DryRun /\ ~Evict /\ ~Exit /\ ~Crash
  <2>1. Only(Delays) => Only(StaleDelays) BY OnlyMeans
  <2> QED BY <1>0, <2>1, OnlyMeans, NeverHappens, NotDry
<1>3. /\ m \in proc.emitted => Safe(ResponseId(m))
      /\ LineAfter(m, base') => ResponseKept(m)
  <2>1. LineAfter(m, base') => LineAfter(m, base) BY <1>1, AfterIsEarlier
  <2> QED BY <1>0, <2>1 DEF ResponsesInv
<1>4. Sent(ResponseId(m)) => Sent(ResponseId(m))' BY SentStays
<1>5. m # NoMsg BY TailAssumption
<1> DEFINE Goal == /\ m \in proc'.emitted => Safe(ResponseId(m))'
                   /\ LineAfter(m, base') =>
                        /\ Safe(ResponseId(m))' \/ ResponseComes(proc', m, Here')
                        /\ Holding' => Sent(ResponseId(m))' \/ LineAfter(m, proc'.rewind)
<1>6. ASSUME Safe(ResponseId(m)) => Safe(ResponseId(m))', proc' = proc, Here' = Here, Holding' => Holding
      PROVE  Goal
  BY <1>3, <1>4, <1>6 DEF ResponseKept
<1>7. CASE Quiet
  <2>1. Safe(ResponseId(m)) => Safe(ResponseId(m))' BY <1>7, SafeWithoutQueue DEF Quiet
  <2> QED BY <1>6, <1>7, <2>1 DEF Quiet, Holding
<1>8. CASE Rebased
  <2>1. base' = avail /\ Here' <= avail /\ proc' = proc /\ out' = out BY <1>8 DEF Rebased
  <2>2. Safe(ResponseId(m)) => Safe(ResponseId(m))' BY <2>1, SafeWithoutQueue
  <2>3. LineAfter(m, base') => LineAfter(m, Here') /\ LineAfter(m, proc'.rewind) BY <1>1, <2>1, AfterIsEarlier
  <2> QED BY <1>3, <2>1, <2>2, <2>3 DEF ResponseComes
<1>9. CASE ReadRecord
  <2>1. /\ out = <<>> /\ pc = "read" /\ Here' = Here + 1 /\ Here + 1 \in Records
    BY <1>9, ReadIs
  <2>2. PICK p : /\ Orderly(p) /\ p.accum = proc.accum /\ p.emitted = proc.emitted
                 /\ p.rewind = (IF HasBufferedState(proc) THEN proc.rewind ELSE Here)
                 /\ Becomes(p, Here + 1, proc') /\ Range(out') = Made(p, Here + 1)
    BY <1>9, ReadIs
  <2>3. ~Coming(ResponseId(m)) BY <2>1, EmptyRange DEF Coming
  <2>4. Sent(ResponseId(m)) => Safe(ResponseId(m))' BY <1>4 DEF Safe
  <2>5. \A e \in Made(p, Here + 1) : e.id = ResponseId(m) => Safe(ResponseId(m))'
    BY <2>2 DEF Safe, Coming
  <2>6. m \in proc'.emitted => Safe(ResponseId(m))'
    <3>1. CASE m \in proc.emitted BY <1>3, <2>3, <2>4, <3>1 DEF Safe
    <3>2. CASE m \notin proc.emitted /\ m \in proc'.emitted
      <4>1. m = p.accum.msg /\ ~IsLine(Here + 1, p.accum.msg) /\ m \notin p.emitted
        BY <2>2, <3>2 DEF Becomes, EmittedAfter
      <4>2. Response(p.accum) \in Made(p, Here + 1) BY <1>5, <4>1 DEF Made, FlushSet
      <4> QED BY <2>5, <4>1, <4>2, IdsAre
    <3> QED BY <3>1, <3>2
  <2>7. ResponseComes(proc, m, Here) => Safe(ResponseId(m))' \/ ResponseComes(proc', m, Here')
    <3> SUFFICES ASSUME ResponseComes(proc, m, Here)
                 PROVE  Safe(ResponseId(m))' \/ ResponseComes(proc', m, Here')
      OBVIOUS
    <3>1. ResponseComes(p, m, Here) BY <2>2 DEF ResponseComes
    <3>2. (\E e \in Made(p, Here + 1) : e.id = ResponseId(m)) \/ ResponseComes(proc', m, Here + 1)
      BY <1>1, <2>1, <2>2, <3>1, ResponseGoesOn
    <3> QED BY <2>1, <2>5, <3>2
  <2>8. LineAfter(m, base') => Sent(ResponseId(m))' \/ LineAfter(m, proc'.rewind)
    <3>1. proc'.rewind = p.rewind BY <2>2 DEF Becomes
    <3>2. CASE HasBufferedState(proc) BY <1>3, <1>4, <2>2, <3>1, <3>2 DEF ResponseKept, Holding
    <3>3. CASE ~HasBufferedState(proc)
      <4>1. proc.accum.msg # m BY <1>5, <3>3, NoAccumIs DEF HasBufferedState
      <4> QED BY <1>3, <1>4, <2>2, <2>3, <3>1, <3>3, <4>1 DEF ResponseKept, ResponseComes, Safe
    <3> QED BY <3>2, <3>3
  <2> QED BY <1>3, <2>3, <2>4, <2>6, <2>7, <2>8 DEF ResponseKept, Safe
<1>10. CASE QueueEvent
  <2>1. pc = "queue" /\ pc' = "queue" /\ proc' = proc /\ Here' = Here BY <1>10, QueuesIs
  <2>2. Safe(ResponseId(m)) => Safe(ResponseId(m))' BY <1>2, <1>10, SafeWhileQueued, OnlyFileDiffsSkipped
  <2> QED BY <1>6, <2>1, <2>2 DEF Holding
<1>11. CASE QueueRefused
  <2>1. /\ pc = "queue" /\ pc' = "flush" /\ ~HasBufferedState(proc') /\ proc'.emitted = {}
        /\ Here' = (IF proc.rewind < Offset THEN proc.rewind ELSE Offset)
    BY <1>11, RefusesIs
  <2>2. Here' <= proc.rewind BY <1>1, <2>1
  <2>3. LineAfter(m, base') => Sent(ResponseId(m)) \/ LineAfter(m, proc.rewind)
    BY <1>3, <2>1 DEF ResponseKept, Holding
  <2>4. LineAfter(m, proc.rewind) => LineAfter(m, Here') BY <1>1, <2>2, AfterIsEarlier
  <2>5. ~Holding' BY <2>1 DEF Holding
  <2> QED BY <1>4, <2>1, <2>3, <2>4, <2>5 DEF Safe, ResponseComes
<1>12. CASE FlushStale
  <2>1. /\ Release /\ out = <<>> /\ Here' = Here /\ proc'.rewind = proc.rewind /\ pc' = "save"
        /\ proc'.emitted = proc.emitted \cup ({proc.accum.msg} \ {NoMsg})
        /\ (HasBufferedState(proc') => HasBufferedState(proc)) /\ "staleFlush" \in allowed
    BY <1>12, FlushesIs
  <2>2. Safe(ResponseId(m)) => Safe(ResponseId(m))' BY <2>1, SafeWithoutQueue
  <2>3. Holding' => Holding BY <2>1 DEF Holding
  <2>4. full = {}
    <3>1. "full" \notin allowed BY <1>0, <2>1, OnlyMeans
    <3> QED BY <3>1, LanesStayFree
  <2>5. queued' = queued \cup FlushSet(proc) BY <1>2, <2>1, <2>4, ReleaseIs
  <2>6. m \in proc'.emitted => Safe(ResponseId(m))'
    <3>1. CASE m \in proc.emitted BY <1>3, <2>2, <3>1
    <3>2. CASE m \notin proc.emitted /\ m = proc.accum.msg
      <4>1. Response(proc.accum) \in queued' BY <1>5, <2>5, <3>2 DEF FlushSet
      <4> QED BY <3>2, <4>1, IdsAre DEF Safe, Sent
    <3> QED BY <2>1, <3>1, <3>2
  <2>7. ResponseComes(proc, m, Here) => Safe(ResponseId(m))' \/ ResponseComes(proc', m, Here')
    <3>1. CASE m \in proc'.emitted BY <2>6, <3>1
    <3>2. CASE m \notin proc'.emitted BY <1>5, <2>1, <3>2 DEF ResponseComes
    <3> QED BY <3>1, <3>2
  <2> QED BY <1>3, <1>4, <2>1, <2>2, <2>3, <2>6, <2>7 DEF ResponseKept
<1>13. CASE SaveFails
  <2>1. /\ proc' = proc /\ out = <<>> /\ pc = "save" /\ pc' = "idle" /\ Here = Offset /\ Here' = Saved
        /\ "nosave" \in allowed
    BY <1>13, ReopensIs
  <2>2. Here' <= Here
    <3>0. Only(Delays) => Only(StaleDelays) BY OnlyMeans
    <3>1. Only(Rereads) BY <1>0, <2>1, <3>0, OnlyMeans
    <3> QED BY <2>1, <3>1 DEF Forward
  <2>3. ResponseComes(proc, m, Here) => ResponseComes(proc, m, Here') BY <1>1, <2>2, AfterIsEarlier DEF ResponseComes
  <2>4. Safe(ResponseId(m)) => Safe(ResponseId(m))' BY <2>1, SafeWithoutQueue
  <2>5. Holding' => Holding BY <2>1 DEF Holding
  <2> QED BY <1>3, <1>4, <2>1, <2>3, <2>4, <2>5 DEF ResponseKept
<1> QED BY <1>2, <1>7, <1>8, <1>9, <1>10, <1>11, <1>12, <1>13, StepKinds

-----------------------------------------------------------------------------
(* An event is queued once.                                                 *)

Called(c, n) == \E j \in Records : j <= n /\ IsCall(j, c)

\* A processor q that has dealt with the records up to n will not give e again.
KnownTo(e, q, n) ==
  \/ \E i \in Records : e.id = PromptId(i) /\ i <= n
  \/ \E m \in q.emitted : e.id = ResponseId(m)
  \/ \E c \in Calls : e.id = ToolId(c) /\ c \notin q.pending /\ Called(c, n)

Distinct(s) == \A x, y \in 1..Len(s) : s[x].id = s[y].id => x = y

OnceInv ==
  CallsOnce /\ Only(Undelayed) =>
    /\ ~repeated
    /\ \A e \in queued : KnownTo(e, proc, Here)
    /\ \A e \in Range(out) : KnownTo(e, proc, Here)
    /\ \A c \in proc.pending : Called(c, Here)
    /\ \A e \in queued : \A f \in Range(out) : e.id # f.id
    /\ Distinct(out)

LEMMA DistinctEmpty == Distinct(<<>>)
<1>1. Len(<<>>) = 0 OBVIOUS
<1> QED BY <1>1 DEF Distinct

LEMMA OnceInit ==
  ASSUME Init
  PROVE  OnceInv
<1>1. queued = {} /\ out = <<>> /\ ~repeated /\ proc.pending = {} BY DEF Init, EmptyProc
<1> QED BY <1>1, EmptyRange, DistinctEmpty DEF OnceInv

LEMMA CalledLater ==
  ASSUME NEW k \in Nat, NEW n \in Nat, k <= n
  PROVE  /\ \A c : Called(c, k) => Called(c, n)
         /\ \A e, q : KnownTo(e, q, k) => KnownTo(e, q, n)
<1>1. \A j \in Records : j <= k => j <= n BY DEF Records
<1>2. \A c : Called(c, k) => Called(c, n) BY <1>1 DEF Called
<1> QED BY <1>1, <1>2 DEF KnownTo

\* A record makes nothing that is known, and what it makes is known.
LEMMA KnownAfter ==
  ASSUME ScriptOK, CallsOnce, NEW p, Orderly(p), NEW q, NEW n \in Nat, n + 1 \in Records, Becomes(p, n + 1, q),
         \A c \in p.pending : Called(c, n)
  PROVE  /\ \A e : KnownTo(e, p, n) => KnownTo(e, q, n + 1)
         /\ \A e \in Made(p, n + 1) : KnownTo(e, q, n + 1)
         /\ \A e, f : KnownTo(e, p, n) /\ f \in Made(p, n + 1) => e.id # f.id
         /\ \A c \in q.pending : Called(c, n + 1)
<1>0. \A i \in Records : i \in Nat BY DEF Records
<1>1. \A i \in Records : i <= n => i <= n + 1 /\ i # n + 1 BY <1>0
<1>2. /\ \A c \in Calls : IsResult(n + 1, c) => c \notin q.pending
      /\ \A c \in Calls : ~IsCall(n + 1, c) /\ ~IsResult(n + 1, c) => (c \in q.pending <=> c \in p.pending)
      /\ q.emitted = IF IsLine(n + 1, p.accum.msg) THEN p.emitted ELSE p.emitted \cup ({p.accum.msg} \ {NoMsg})
  BY DEF Becomes, PendingAfter, EmittedAfter
<1>3. \A c \in Calls : \A j \in Records : IsCall(j, c) /\ IsCall(n + 1, c) => j = n + 1
  <2>1. NoCall \notin Calls BY TailAssumption
  <2> QED BY <2>1 DEF CallsOnce, IsCall, Records
<1>4. q.pending \subseteq Calls /\ p.pending \subseteq Calls /\ p.emitted \subseteq Messages
  BY ProcFields DEF Becomes
<1>5. ASSUME NEW e, KnownTo(e, p, n) PROVE KnownTo(e, q, n + 1)
  <2>1. CASE \E i \in Records : e.id = PromptId(i) /\ i <= n BY <1>1, <2>1 DEF KnownTo
  <2>2. CASE \E m \in p.emitted : e.id = ResponseId(m) BY <1>2, <2>2 DEF KnownTo
  <2>3. ASSUME NEW c \in Calls, e.id = ToolId(c), c \notin p.pending, Called(c, n) PROVE KnownTo(e, q, n + 1)
    <3>1. PICK j \in Records : j <= n /\ IsCall(j, c) BY <2>3 DEF Called
    <3>2. ~IsCall(n + 1, c) BY <1>1, <1>3, <3>1
    <3>3. c \notin q.pending BY <1>2, <2>3, <3>2
    <3>4. Called(c, n + 1) BY <1>1, <3>1 DEF Called
    <3> QED BY <2>3, <3>3, <3>4 DEF KnownTo
  <2> QED BY <1>5, <2>1, <2>2, <2>3 DEF KnownTo
<1>6. \A c \in q.pending : Called(c, n + 1)
  <2> SUFFICES ASSUME NEW c \in q.pending PROVE Called(c, n + 1) OBVIOUS
  <2>1. CASE IsCall(n + 1, c)
    <3>1. n + 1 <= n + 1 OBVIOUS
    <3> QED BY <2>1, <3>1 DEF Called
  <2>2. CASE ~IsCall(n + 1, c)
    <3>1. c \in p.pending BY <1>2, <1>4, <2>2
    <3> QED BY <1>1, <3>1 DEF Called
  <2> QED BY <2>1, <2>2
<1>7. ASSUME NEW f \in FlushSet(p), ~IsLine(n + 1, p.accum.msg)
      PROVE  f.id = ResponseId(p.accum.msg) /\ p.accum.msg \notin p.emitted /\ p.accum.msg \in q.emitted
  BY <1>2, <1>7, IdsAre DEF FlushSet
<1>8. ASSUME NEW c \in p.pending, IsResult(n + 1, c)
      PROVE  c \in Calls /\ c \notin q.pending /\ Called(c, n + 1)
  BY <1>1, <1>2, <1>4, <1>8 DEF Called
<1>9. ASSUME NEW f \in Made(p, n + 1) PROVE KnownTo(f, q, n + 1)
  <2>1. CASE f \in FlushSet(p) /\ ~IsLine(n + 1, p.accum.msg) BY <1>7, <2>1 DEF KnownTo
  <2>2. CASE \E c \in p.pending : IsResult(n + 1, c) /\ f = ToolEvent(c) BY <1>8, <2>2, IdsAre DEF KnownTo
  <2>3. CASE f = Prompt(n + 1)
    <3>1. n + 1 <= n + 1 OBVIOUS
    <3> QED BY <2>3, <3>1, IdsAre DEF KnownTo
  <2> QED BY <1>9, <2>1, <2>2, <2>3 DEF Made
<1>10. ASSUME NEW e, KnownTo(e, p, n), NEW f \in Made(p, n + 1) PROVE e.id # f.id
  <2>1. CASE f \in FlushSet(p) /\ ~IsLine(n + 1, p.accum.msg)
    <3>1. f.id = ResponseId(p.accum.msg) /\ p.accum.msg \notin p.emitted BY <1>7, <2>1
    <3> QED BY <1>10, <3>1, IdsDiffer DEF KnownTo
  <2>2. CASE \E c \in p.pending : IsResult(n + 1, c) /\ f = ToolEvent(c)
    <3>1. PICK c \in p.pending : f.id = ToolId(c) BY <2>2, IdsAre
    <3> QED BY <1>10, <3>1, IdsDiffer DEF KnownTo
  <2>3. CASE f = Prompt(n + 1)
    <3>1. f.id = PromptId(n + 1) BY <2>3, IdsAre
    <3> QED BY <1>1, <1>10, <3>1, IdsDiffer DEF KnownTo
  <2> QED BY <1>10, <2>1, <2>2, <2>3 DEF Made
<1> QED BY <1>5, <1>6, <1>9, <1>10

LEMMA DistinctTail ==
  ASSUME NEW S, NEW s \in Seq(S), s # <<>>, Distinct(s)
  PROVE  Distinct(Tail(s)) /\ \A f \in Range(Tail(s)) : f.id # Head(s).id
<1>1. /\ Head(s) = s[1] /\ 1 \in 1..Len(s) /\ Tail(s) \in Seq(S)
      /\ \A x \in 1..Len(Tail(s)) : Tail(s)[x] = s[x + 1] /\ x + 1 \in 1..Len(s)
  BY HeadAndTail
<1>2. Len(Tail(s)) \in Nat BY <1>1, LenProperties
<1>3. \A x, y \in 1..Len(Tail(s)) : x + 1 = y + 1 => x = y OBVIOUS
<1>4. Distinct(Tail(s)) BY <1>1, <1>3 DEF Distinct
<1>5. \A x \in 1..Len(Tail(s)) : Tail(s)[x].id # Head(s).id
  <2>1. \A x \in 1..Len(Tail(s)) : x + 1 # 1 BY <1>2
  <2> QED BY <1>1, <2>1 DEF Distinct
<1>6. Range(Tail(s)) = {Tail(s)[x] : x \in 1..Len(Tail(s))} BY <1>1, RangeIs
<1> QED BY <1>4, <1>5, <1>6

LEMMA OnceStep ==
  ASSUME BaseInv, OnceInv, [Next]_vars
  PROVE  OnceInv'
<1>1. /\ (CallsOnce)' <=> CallsOnce
      /\ \A c, n : Called(c, n)' <=> Called(c, n)
      /\ \A e, q, n : KnownTo(e, q, n)' <=> KnownTo(e, q, n)
  <2>1. script' = script /\ Records' = Records BY OnlyStays
  <2> QED BY <2>1 DEF CallsOnce, Called, KnownTo, IsCall
<1> DEFINE Goal == /\ ~repeated'
                   /\ \A e \in queued' : KnownTo(e, proc', Here')
                   /\ \A e \in Range(out') : KnownTo(e, proc', Here')
                   /\ \A c \in proc'.pending : Called(c, Here')
                   /\ \A e \in queued' : \A f \in Range(out') : e.id # f.id
                   /\ Distinct(out')
<1>0. SUFFICES ASSUME CallsOnce, Only(Undelayed) PROVE Goal
  <2>1. (OnceInv)' <=> ((CallsOnce)' /\ Only(Undelayed)' => Goal)
    BY <1>1 DEF OnceInv, KnownTo, Called, Distinct
  <2> QED BY <1>0, <1>1, <2>1, OnlyStays
<1>2. /\ ~repeated
      /\ \A e \in queued : KnownTo(e, proc, Here)
      /\ \A e \in Range(out) : KnownTo(e, proc, Here)
      /\ \A c \in proc.pending : Called(c, Here)
      /\ \A e \in queued : \A f \in Range(out) : e.id # f.id
      /\ Distinct(out)
  BY <1>0 DEF OnceInv
<1>3. ScriptOK /\ Orderly(proc) /\ Here \in Nat /\ Here' \in Nat BY BaseFacts, HereIs, HereAfter
<1>4. ~Evict /\ ~Exit /\ ~Crash /\ ~SaveFails /\ ~QueueRefused /\ (\A e : ~Refused(e))
  BY <1>0, OnlyMeans, NeverHappens, LanesStayFree
<1>5. CASE Quiet \/ Rebased
  <2>1. Here <= Here' BY <1>3, <1>5 DEF Quiet, Rebased
  <2>2. UNCHANGED <<queued, repeated, out, proc>> BY <1>5 DEF Quiet, Rebased
  <2>3. /\ \A c : Called(c, Here) => Called(c, Here')
        /\ \A e, q : KnownTo(e, q, Here) => KnownTo(e, q, Here')
    BY <1>3, <2>1, CalledLater
  <2> QED BY <1>2, <2>2, <2>3
<1>6. CASE ReadRecord
  <2>1. /\ queued' = queued /\ repeated' = repeated
        /\ out = <<>> /\ Here' = Here + 1 /\ Here + 1 \in Records
    BY <1>6, ReadIs
  <2>2. PICK p : /\ Orderly(p) /\ p.accum = proc.accum /\ p.pending = proc.pending /\ p.emitted = proc.emitted
                 /\ Becomes(p, Here + 1, proc')
                 /\ out' = Produced(p, Here + 1) /\ Range(out') = Made(p, Here + 1)
    BY <1>6, ReadIs
  <2>3. \A c \in p.pending : Called(c, Here) BY <1>2, <2>2
  <2>4. \A e \in queued : KnownTo(e, p, Here) BY <1>2, <2>2 DEF KnownTo
  <2>5. /\ \A e : KnownTo(e, p, Here) => KnownTo(e, proc', Here + 1)
        /\ \A e \in Made(p, Here + 1) : KnownTo(e, proc', Here + 1)
        /\ \A e, f : KnownTo(e, p, Here) /\ f \in Made(p, Here + 1) => e.id # f.id
        /\ \A c \in proc'.pending : Called(c, Here + 1)
    BY <1>0, <1>3, <2>1, <2>2, <2>3, KnownAfter
  <2>6. Distinct(out') BY <1>3, <2>1, <2>2, ProducedOnce DEF Distinct
  <2> QED BY <1>2, <2>1, <2>2, <2>4, <2>5, <2>6
<1>7. CASE QueueEvent
  <2> DEFINE e == Head(out)
  <2>1. /\ out # <<>> /\ out \in Seq(Event) /\ e \in Range(out) /\ Range(out) = {e} \cup Range(out')
        /\ out' = Tail(out) /\ proc' = proc /\ Here' = Here /\ Funnel(e)
    BY <1>7, QueuesHead, QueuesIs DEF QueueEvent
  <2>2. Distinct(out') /\ \A f \in Range(out') : f.id # e.id BY <1>2, <2>1, DistinctTail
  <2> HIDE DEF e
  <2>3. \/ queued' = queued /\ repeated' = repeated
        \/ queued' = queued \cup {e} /\ repeated' = (repeated \/ \E q \in queued : q.id = e.id)
    <3>1. CASE DryRun \/ Skipped(e) BY <2>1, <3>1, FunnelIs
    <3>2. CASE ~DryRun /\ ~Skipped(e)
      <4>1. ~Refused(e) BY <1>4
      <4> QED BY <2>1, <3>2, <4>1, FunnelIs
    <3> QED BY <3>1, <3>2
  <2>4. ~repeated' BY <1>2, <2>1, <2>3
  <2> QED BY <1>2, <2>1, <2>2, <2>3, <2>4
<1>8. CASE FlushStale
  <2>1. /\ Release /\ Here' = Here /\ out' = <<>> /\ Range(out') = {}
        /\ proc'.pending = proc.pending
        /\ proc'.emitted = proc.emitted \cup ({proc.accum.msg} \ {NoMsg})
    BY <1>8, FlushesIs
  <2>2. \A e : KnownTo(e, proc, Here) => KnownTo(e, proc', Here') BY <2>1 DEF KnownTo
  <2>3. \A e \in FlushSet(proc) : /\ e.id = ResponseId(proc.accum.msg) /\ proc.accum.msg \notin proc.emitted
                                  /\ proc.accum.msg \in proc'.emitted
    BY <2>1, IdsAre DEF FlushSet
  <2>4. \A e \in FlushSet(proc) : KnownTo(e, proc', Here') BY <2>3 DEF KnownTo
  <2>5. \A e \in FlushSet(proc) : \A q \in queued : q.id # e.id BY <1>2, <2>3, IdsDiffer DEF KnownTo
  <2>6. queued' = queued \/ queued' = queued \cup FlushSet(proc) BY <2>1, ReleaseIs
  <2>7. ~repeated'
    <3>1. CASE FlushSet(proc) = {} BY <1>2, <2>1, <3>1, ReleaseIs
    <3>2. CASE FlushSet(proc) # {}
      <4>1. PICK e \in FlushSet(proc) : TRUE BY <3>2
      <4>2. repeated' = repeated \/ repeated' = (repeated \/ \E q \in queued : q.id = e.id)
        BY <2>1, <4>1, ReleaseIs
      <4> QED BY <1>2, <2>5, <4>2
    <3> QED BY <3>1, <3>2
  <2> QED BY <1>2, <2>1, <2>2, <2>4, <2>6, <2>7, DistinctEmpty
<1> QED BY <1>4, <1>5, <1>6, <1>7, <1>8, StepKinds

-----------------------------------------------------------------------------
(* What was there before the admission of an old session is not sent.       *)

Bare(i) == ~HasCwd(script[i]) /\ i <= MaxScans

\* The record that decides about the transcript is older than the window.
Past == \E i \in 1..old : ~Bare(i) /\ \A j \in 1..(i - 1) : Bare(j)

\* An entry from which no record up to b is read: those are behind its offset, or it
\* has still to be classified.
Ahead(p, b) ==
  /\ p.off # Unseen => b <= p.off
  /\ p.off = Unseen /\ b # 0 => p.match # "yes"

LaterOnly ==
  /\ \A i \in Range(proc.accum.lines) : base < i
  /\ \A e \in Range(out) : \A i \in Range(e.body) : base < i

Scanned == (\A j \in 1..disk.cls : Bare(j)) /\ (\A j \in 1..pg.cls : Bare(j))

AheadOK ==
  /\ Ahead(Migrated(disk), base)
  /\ pc # "idle" => Ahead(pg, base)
  /\ pc # "idle" /\ Migrated(disk).off # Unseen => pg.off # Unseen
  /\ pc = "classify" => pg.match # "yes" /\ Migrated(disk).match # "yes"

\* As long as nothing has been read the processor holds nothing.
UnreadIsEmpty ==
  /\ pc = "idle" /\ Migrated(disk).off = Unseen => ~HasBufferedState(proc)
  /\ pc \notin {"idle", "queue"} /\ pg.off = Unseen => ~HasBufferedState(proc)

GoInv ==
  "nosave" \notin allowed =>
    /\ LaterOnly /\ Scanned
    /\ base # 0 => Past
    /\ AheadOK
    /\ Holding => base <= proc.rewind
    /\ UnreadIsEmpty

LEMMA GoInit ==
  ASSUME Init
  PROVE  GoInv
<1>1. /\ base = 0 /\ pc = "idle" /\ proc = EmptyProc /\ out = <<>> /\ pg = disk
      /\ disk.cls = 0 /\ disk \in Entries(avail) /\ avail \in Nat
  <2>1. disk \in Entries(avail) /\ disk.cls = 0 /\ pg = disk /\ avail \in 0..Len(script) /\ Given BY FirstEntry
  <2>2. avail \in Nat BY <2>1 DEF Given, ScriptOK
  <2> QED BY <2>1, <2>2 DEF Init
<1>2. /\ ~HasBufferedState(EmptyProc) /\ EmptyProc.accum.lines = <<>> BY EmptyIsOrderly, NoAccumIs DEF EmptyProc
<1>3. LaterOnly BY <1>1, <1>2, EmptyRange DEF LaterOnly
<1>4. Scanned BY <1>1 DEF Scanned
<1>5. AheadOK
  <2>1. Migrated(disk) \in Entries(avail) BY <1>1, MigratedIs
  <2>2. Migrated(disk).off # Unseen => 0 <= Migrated(disk).off BY <1>1, <2>1 DEF Entries, Unseen
  <2> QED BY <1>1, <2>2 DEF AheadOK, Ahead
<1>6. ~Holding /\ UnreadIsEmpty BY <1>1, <1>2 DEF Holding, UnreadIsEmpty
<1> QED BY <1>1, <1>3, <1>4, <1>5, <1>6 DEF GoInv

\* An entry of this build is not migrated.
LEMMA MigratedSame ==
  ASSUME NEW n \in Nat, NEW p \in Entries(n), p.v = Schema
  PROVE  Migrated(p).off = p.off /\ Migrated(p).match = p.match /\ Migrated(p).cls = p.cls
<1>1. ~(p.v < Schema) BY DEF Schema
<1> QED BY <1>1, MigratedIs

\* What is read is past the base.
LEMMA ReadsAfterBase ==
  ASSUME BaseInv, AheadOK, pc \in {"read", "queue"}
  PROVE  base <= Offset
<1>1. Offset \in Nat /\ base \in Nat BY BaseFacts
<1>2. pg.match = "yes" BY DEF BaseInv, PlaceOK
<1>3. Ahead(pg, base) BY DEF AheadOK
<1>4. CASE pg.off = Unseen BY <1>1, <1>2, <1>3, <1>4 DEF Ahead, Offset
<1>5. CASE pg.off # Unseen BY <1>1, <1>3, <1>5 DEF Ahead, Offset
<1> QED BY <1>4, <1>5

LEMMA LaterStep ==
  ASSUME BaseInv, LaterOnly, AheadOK, UnreadIsEmpty, [Next]_vars
  PROVE  LaterOnly'
<1>1. ScriptOK /\ Orderly(proc) /\ base \in Nat /\ Offset \in Nat BY BaseFacts
<1>2. CASE ClassifyOld \/ EndUnknown
  <2>1. pc = "classify" /\ UNCHANGED <<proc, out>> BY <1>2 DEF ClassifyOld, EndUnknown
  <2>2. out = <<>> /\ Range(out') = {} BY <2>1, EmptyRange DEF BaseInv, PlaceOK
  <2>3. CASE base' = base BY <2>1, <2>3 DEF LaterOnly
  <2>4. CASE base' # base
    <3>1. pg.off = Unseen BY <1>2, <2>4 DEF ClassifyOld, EndUnknown
    <3>2. ~HasBufferedState(proc) BY <2>1, <3>1 DEF UnreadIsEmpty
    <3>3. Range(proc'.accum.lines) = {} BY <2>1, <3>2, EmptyRange, NoAccumIs DEF HasBufferedState
    <3> QED BY <2>2, <3>3 DEF LaterOnly
  <2> QED BY <2>3, <2>4
<1>3. CASE base' = base
  <2>1. CASE proc' = proc /\ (out' = out \/ QueueEvent)
    <3>1. Range(out') \subseteq Range(out) BY <2>1, QueuesIs
    <3> QED BY <1>3, <2>1, <3>1 DEF LaterOnly
  <2>2. CASE ReadRecord
    <3>1. Here = Offset /\ pc = "read" /\ Here + 1 \in Records BY <2>2, ReadIs
    <3>2. PICK p : /\ Orderly(p) /\ p.accum = proc.accum
                   /\ Becomes(p, Here + 1, proc') /\ Range(out') = Made(p, Here + 1)
      BY <2>2, ReadIs
    <3>3. base < Here + 1
      <4>1. base <= Offset BY <3>1, ReadsAfterBase
      <4> QED BY <1>1, <3>1, <4>1
    <3>4. \A i \in Range(proc'.accum.lines) : base < i
      <4>1. CASE IsLine(Here + 1, p.accum.msg)
        <5>1. proc'.accum.lines = Append(proc.accum.lines, Here + 1)
          BY <3>2, <4>1 DEF Becomes, AccumAfter
        <5>2. proc.accum.lines \in Seq(Records) BY <1>1, ProcFields
        <5>3. Range(proc'.accum.lines) = Range(proc.accum.lines) \cup {Here + 1} BY <3>1, <5>1, <5>2, RangeAppend
        <5> QED BY <3>3, <5>3 DEF LaterOnly
      <4>2. CASE ~IsLine(Here + 1, p.accum.msg)
        <5>1. proc'.accum.lines = <<Here + 1>> \/ proc'.accum = NoAccum
          <6>1. CASE script[Here + 1].kind # "assistant" BY <3>2, <6>1 DEF Becomes, AccumAfter
          <6>2. CASE script[Here + 1].kind = "assistant"
            <7>1. PICK m \in Messages : IsLine(Here + 1, m) /\ m # p.accum.msg
              BY <1>1, <3>1, <4>2, <6>2, RecordIs DEF IsLine
            <7>2. m \notin proc'.emitted => proc'.accum = [msg |-> m, lines |-> <<Here + 1>>]
              BY <3>2, <7>1 DEF Becomes, AccumAfter
            <7>3. m \in proc'.emitted => proc'.accum = NoAccum BY <3>2, <7>1 DEF Becomes, AccumAfter
            <7> QED BY <7>2, <7>3
          <6> QED BY <6>1, <6>2
        <5>2. Range(<<Here + 1>>) = {Here + 1} BY RangeOfOne
        <5> QED BY <3>3, <5>1, <5>2, NoAccumIs, EmptyRange
      <4> QED BY <4>1, <4>2
    <3>5. ASSUME NEW e \in Made(p, Here + 1), NEW i \in Range(e.body) PROVE base < i
      <4>1. CASE e \in FlushSet(p)
        <5>1. e.body = proc.accum.lines BY <3>2, <4>1, IdsAre DEF FlushSet
        <5> QED BY <3>5, <5>1 DEF LaterOnly
      <4>2. CASE \E c : e = ToolEvent(c)
        <5>1. e.body = <<>> BY <4>2, IdsAre
        <5> QED BY <3>5, <5>1, EmptyRange
      <4>3. CASE e = Prompt(Here + 1)
        <5>1. Range(e.body) = {Here + 1} BY <4>3, IdsAre, RangeOfOne
        <5> QED BY <3>3, <3>5, <5>1
      <4> QED BY <3>5, <4>1, <4>2, <4>3 DEF Made
    <3> QED BY <1>3, <3>2, <3>4, <3>5 DEF LaterOnly
  <2>3. CASE QueueRefused
    <3>1. proc'.accum = NoAccum /\ Range(out') = {} BY <2>3, RefusesIs
    <3> QED BY <3>1, EmptyRange, NoAccumIs DEF LaterOnly
  <2>4. CASE FlushStale
    <3>1. proc'.accum = NoAccum /\ Range(out') = {} BY <2>4, FlushesIs
    <3> QED BY <3>1, EmptyRange, NoAccumIs DEF LaterOnly
  <2>5. CASE Evict \/ Exit \/ Crash
    <3>1. proc' = EmptyProc /\ (out' = out \/ out' = <<>>) BY <2>5 DEF Evict, Exit, Crash
    <3>2. Range(proc'.accum.lines) = {} BY <3>1, EmptyRange, NoAccumIs DEF EmptyProc
    <3>3. Range(out') \subseteq Range(out) BY <3>1, EmptyRange
    <3> QED BY <1>3, <3>2, <3>3 DEF LaterOnly
  <2>6. QueueEvent => proc' = proc BY QueuesIs
  <2> QED BY <2>1, <2>2, <2>3, <2>4, <2>5, <2>6, WhoMovesQueue
<1> QED BY <1>2, <1>3, WhoMovesEnvironment

LEMMA ScannedStep ==
  ASSUME BaseInv, Scanned, [Next]_vars
  PROVE  Scanned'
<1>1. script' = script BY OnlyStays
<1>2. avail \in Nat /\ disk \in Entries(avail) /\ pg \in Entries(avail) BY BaseFacts DEF BaseInv, ProgressOK
<1>0. SUFFICES (\A j \in 1..disk'.cls : Bare(j)) /\ (\A j \in 1..pg'.cls : Bare(j))
  BY <1>1 DEF Scanned, Bare
<1>3. \A p \in Entries(avail) : p.cls \in Nat BY <1>2 DEF Entries
<1>4. (\A j \in 1..disk.cls : Bare(j)) /\ (\A j \in 1..pg.cls : Bare(j)) BY DEF Scanned
<1>5. \A j \in 1..0 : Bare(j) OBVIOUS
<1>6. \A j \in 1..Migrated(disk).cls : Bare(j)
  <2>1. Migrated(disk).cls = disk.cls \/ Migrated(disk).cls = 0 BY <1>2, MigratedIs
  <2> QED BY <1>4, <1>5, <2>1
<1>7. \A j \in 1..pg'.cls : Bare(j)
  <2>1. CASE PollStart BY <1>6, <2>1, BeginsWith
  <2>2. CASE ClassifyStops
    <3>1. PICK n \in pg.cls..avail : /\ \A i \in (pg.cls + 1)..n : ~HasCwd(script[i]) /\ i <= MaxScans
                                     /\ pg' = [pg EXCEPT !.cls = n]
      BY <2>2 DEF ClassifyStops
    <3>2. pg.cls \in Nat /\ n \in Nat /\ n \in 0..avail BY <1>2, <1>3, <3>1
    <3>3. pg'.cls = n BY <1>2, <3>1, <3>2, WithCls
    <3>4. \A j \in 1..n : j \in 1..pg.cls \/ j \in (pg.cls + 1)..n BY <3>2
    <3> QED BY <1>4, <3>1, <3>3, <3>4 DEF Bare
  <2>3. CASE ClassifyNo \/ ClassifyYes
    <3>1. PICK m \in Matches : pg' = Decided(m) BY <2>3 DEF ClassifyNo, ClassifyYes, Matches
    <3> QED BY <1>2, <1>5, <3>1, DecidedIs
  <2>4. CASE ClassifyOld
    <3> DEFINE d == Decided("yes")
               k == IF d.off = Unseen THEN avail ELSE d.off
    <3>1. d \in Entries(avail) /\ d.cls = 0 BY <1>2, DecidedIs DEF Matches
    <3>2. pg' = [d EXCEPT !.off = k] BY <2>4 DEF ClassifyOld
    <3> HIDE DEF d
    <3>3. k \in 0..avail BY <1>2, <3>1 DEF Entries, Unseen
    <3> HIDE DEF k
    <3>4. pg'.cls = 0 BY <1>2, <3>1, <3>2, <3>3, WithOff
    <3> QED BY <1>5, <3>4
  <2>5. CASE EndUnknown
    <3>1. pg' = [pg EXCEPT !.cls = 0] /\ 0 \in 0..avail BY <1>2, <2>5 DEF EndUnknown
    <3>2. pg'.cls = 0 BY <1>2, <3>1, WithCls
    <3> QED BY <1>5, <3>2
  <2>6. CASE QueueRefused BY <1>4, <2>6, RefusedGoesBack
  <2>7. CASE RecordDone BY <1>4, <2>7, RecordGoesOn
  <2>8. CASE Crash BY <1>4, <2>8 DEF Crash
  <2>9. CASE pg' = pg BY <1>4, <2>9
  <2> QED BY <2>1, <2>2, <2>3, <2>4, <2>5, <2>6, <2>7, <2>8, <2>9, WhoMovesProgress DEF Classify
<1>8. \A j \in 1..disk'.cls : Bare(j)
  <2>1. disk' = disk \/ PollStart \/ Checkpoint \/ SaveProgress BY WhoMovesProgress
  <2>2. PollStart => disk' = disk \/ disk' = pg' BY BeginsWith
  <2>3. Checkpoint \/ SaveProgress => disk' = pg BY DEF Checkpoint, SaveProgress
  <2> QED BY <1>4, <1>7, <2>1, <2>2, <2>3
<1> QED BY <1>7, <1>8

\* The first record that is not bare.
LEMMA DecidesFirst ==
  ASSUME BaseInv, Scanned, NEW i \in 1..avail, Decides(i)
  PROVE  ~Bare(i) /\ \A j \in 1..(i - 1) : Bare(j)
<1>1. avail \in Nat /\ pg.cls \in Nat BY BaseFacts DEF BaseInv, ProgressOK, Entries
<1>2. MaxScans \in Nat BY TailAssumption
<1>3. i \in (pg.cls + 1)..avail /\ (HasCwd(script[i]) \/ i > MaxScans) BY DEF Decides
<1>4. ~Bare(i) BY <1>1, <1>2, <1>3 DEF Bare
<1>5. \A j \in (pg.cls + 1)..(i - 1) : Bare(j) BY DEF Decides, Bare
<1>6. \A j \in 1..(i - 1) : j \in 1..pg.cls \/ j \in (pg.cls + 1)..(i - 1) BY <1>1, <1>3
<1> QED BY <1>4, <1>5, <1>6 DEF Scanned

LEMMA PastStep ==
  ASSUME BaseInv, Scanned, base # 0 => Past, [Next]_vars, base' # 0
  PROVE  Past'
<1>1. script' = script BY OnlyStays
<1>2. old \in Nat /\ old' \in Nat /\ old <= old' /\ avail \in Nat
  <2>1. avail \in Nat /\ old \in 0..avail /\ avail' \in Nat /\ old' \in 0..avail'
    BY BaseFacts, EnvStep DEF BaseInv, EnvOK
  <2>2. old' = old \/ old' = old + 1 BY WhoMovesEnvironment DEF LeaveWindow
  <2> QED BY <2>1, <2>2
<1>3. \A i \in 1..old : i \in 1..old' BY <1>2
<1>4. SUFFICES Past
  BY <1>1, <1>3 DEF Past, Bare
<1>5. CASE base' = base BY <1>5
<1>6. CASE base' # base
  <2>1. PICK i \in 1..avail : Decides(i) /\ i <= old BY <1>6, WhoMovesEnvironment DEF ClassifyOld, EndUnknown
  <2>2. i \in 1..old BY <1>2, <2>1
  <2> QED BY <2>1, <2>2, DecidesFirst DEF Past
<1> QED BY <1>5, <1>6

\* A transcript whose deciding record is within the window has no base.
LEMMA YesHasNoBase ==
  ASSUME BaseInv, Scanned, base # 0 => Past, ClassifyYes
  PROVE  base = 0
<1>1. SUFFICES ASSUME Past PROVE FALSE OBVIOUS
<1>2. PICK i \in 1..avail : Decides(i) /\ i > old BY DEF ClassifyYes
<1>3. ~Bare(i) /\ \A j \in 1..(i - 1) : Bare(j) BY <1>2, DecidesFirst
<1>4. PICK k \in 1..old : ~Bare(k) BY <1>1 DEF Past
<1>5. old \in Nat /\ avail \in Nat BY BaseFacts DEF BaseInv, EnvOK
<1>6. k \in 1..(i - 1) BY <1>2, <1>4, <1>5
<1> QED BY <1>3, <1>4, <1>6

LEMMA AheadStep ==
  ASSUME BaseInv, AheadOK, Scanned, base # 0 => Past, Holding => base <= proc.rewind, [Next]_vars
  PROVE  AheadOK'
<1>1. /\ avail \in Nat /\ disk \in Entries(avail) /\ pg \in Entries(avail) /\ base \in Nat /\ base <= avail
      /\ Offset \in Nat /\ Orderly(proc) /\ inside \in BOOLEAN
  BY BaseFacts DEF BaseInv, ProgressOK, EnvOK
<1>2. /\ Ahead(Migrated(disk), base)
      /\ pc # "idle" => Ahead(pg, base)
      /\ pc # "idle" /\ Migrated(disk).off # Unseen => pg.off # Unseen
      /\ pc = "classify" => pg.match # "yes" /\ Migrated(disk).match # "yes"
  BY DEF AheadOK
<1>3. \A p, q, b : p.off = q.off /\ p.match = q.match /\ Ahead(p, b) => Ahead(q, b) BY DEF Ahead
<1>4. CASE PollStart
  <2>1. /\ pg' \in Entries(avail) /\ pg'.v = Schema /\ pg'.off = Migrated(disk).off
        /\ (pg'.match = "yes" => Migrated(disk).match = "yes") /\ (disk' = disk \/ disk' = pg')
    BY <1>4, BeginsWith
  <2>2. base' = base /\ (pc' = "classify" => pg'.match # "yes") BY <1>4 DEF PollStart
  <2>3. Ahead(pg', base) BY <1>2, <2>1 DEF Ahead
  <2>4. Migrated(pg').off = pg'.off /\ Migrated(pg').match = pg'.match BY <1>1, <2>1, MigratedSame
  <2>5. CASE disk' = pg'
    <3>1. Ahead(Migrated(pg'), base) BY <1>3, <2>3, <2>4
    <3>2. /\ Ahead(Migrated(disk'), base') /\ Ahead(pg', base')
          /\ (Migrated(disk').off # Unseen => pg'.off # Unseen)
          /\ (pc' = "classify" => pg'.match # "yes" /\ Migrated(disk').match # "yes")
      BY <2>2, <2>3, <2>4, <2>5, <3>1
    <3> QED BY <3>2 DEF AheadOK
  <2>6. CASE disk' = disk /\ disk' # pg'
    <3>1. disk.fp = inside BY <1>4, <2>6 DEF PollStart
    <3>2. Migrated(disk) \in Entries(avail) /\ Migrated(disk).fp = inside BY <1>1, <3>1, MigratedIs
    <3>3. pg' = Migrated(disk) BY <1>1, <1>4, <3>2, SyncedIs DEF PollStart
    <3>4. /\ Ahead(Migrated(disk'), base') /\ Ahead(pg', base')
          /\ (Migrated(disk').off # Unseen => pg'.off # Unseen)
          /\ (pc' = "classify" => pg'.match # "yes" /\ Migrated(disk').match # "yes")
      BY <1>2, <2>1, <2>2, <2>3, <2>6, <3>3
    <3> QED BY <3>4 DEF AheadOK
  <2> QED BY <2>1, <2>5, <2>6
<1>5. CASE Classify
  <2>1. pc = "classify" /\ pc' \in {"flush", "tail"} /\ disk' = disk
    BY <1>5, ClassifyIs DEF Classify, ClassifyStops, ClassifyNo, ClassifyYes, ClassifyOld, EndUnknown
  <2>2. SUFFICES /\ Ahead(Migrated(disk), base') /\ Ahead(pg', base')
                 /\ (Migrated(disk).off # Unseen => pg'.off # Unseen)
    BY <2>1 DEF AheadOK
  <2>3. Ahead(pg, base) /\ pg.match # "yes" BY <1>2, <2>1
  <2>4. CASE ClassifyStops
    <3>1. PICK k \in pg.cls..avail : pg' = [pg EXCEPT !.cls = k] BY <2>4 DEF ClassifyStops
    <3>2. k \in 0..avail BY <1>1 DEF Entries
    <3>3. pg'.off = pg.off /\ pg'.match = pg.match BY <1>1, <3>1, <3>2, WithCls
    <3>4. base' = base BY <2>4 DEF ClassifyStops
    <3> QED BY <1>2, <1>3, <2>1, <2>3, <3>3, <3>4
  <2>5. CASE ClassifyNo
    <3>1. pg'.off = pg.off /\ pg'.match = "no" BY <1>1, <2>5, DecidedIs DEF ClassifyNo, Matches
    <3>2. base' = base BY <2>5 DEF ClassifyNo
    <3> QED BY <1>2, <2>1, <2>3, <3>1, <3>2 DEF Ahead
  <2>6. CASE ClassifyYes
    <3>1. pg'.off = pg.off BY <1>1, <2>6, DecidedIs DEF ClassifyYes, Matches
    <3>2. base' = base /\ base = 0 BY <2>6, YesHasNoBase DEF ClassifyYes
    <3> QED BY <1>2, <2>1, <2>3, <3>1, <3>2 DEF Ahead
  <2>7. CASE ClassifyOld
    <3> DEFINE d == Decided("yes")
               k == IF d.off = Unseen THEN avail ELSE d.off
    <3>1. d \in Entries(avail) /\ d.off = pg.off BY <1>1, DecidedIs DEF Matches
    <3>2. pg' = [d EXCEPT !.off = k] BY <2>7 DEF ClassifyOld
    <3> HIDE DEF d
    <3>3. k \in 0..avail BY <1>1, <3>1 DEF Entries, Unseen
    <3> HIDE DEF k
    <3>4. pg'.off = k BY <1>1, <3>1, <3>2, <3>3, WithOff
    <3>5. k # Unseen BY <3>3 DEF Unseen
    <3>6. CASE pg.off = Unseen
      <4>1. base' = avail /\ k = avail BY <2>7, <3>1, <3>6 DEF ClassifyOld, k
      <4>2. Ahead(pg', base') BY <1>1, <3>4, <3>5, <4>1 DEF Ahead
      <4>3. Ahead(Migrated(disk), base') BY <1>2, <2>1, <3>6 DEF Ahead
      <4> QED BY <3>4, <3>5, <4>2, <4>3
    <3>7. CASE pg.off # Unseen
      <4>1. base' = base /\ k = pg.off BY <2>7, <3>1, <3>7 DEF ClassifyOld, k
      <4>2. Ahead(pg', base') BY <2>3, <3>4, <3>7, <4>1 DEF Ahead
      <4> QED BY <1>2, <3>4, <3>5, <4>1, <4>2
    <3> QED BY <3>6, <3>7
  <2>8. CASE EndUnknown
    <3>1. pg' = [pg EXCEPT !.cls = 0] /\ 0 \in 0..avail /\ pg.off = Unseen BY <1>1, <2>8 DEF EndUnknown
    <3>2. pg'.off = Unseen /\ pg'.match = pg.match BY <1>1, <3>1, WithCls
    <3>3. Ahead(pg', base') BY <2>3, <3>2 DEF Ahead
    <3>4. Ahead(Migrated(disk), base') BY <1>2, <2>1, <3>1 DEF Ahead
    <3> QED BY <1>2, <2>1, <3>1, <3>3, <3>4
  <2> QED BY <1>5, <2>4, <2>5, <2>6, <2>7, <2>8 DEF Classify
<1>6. CASE QueueRefused
  <2>1. pc = "queue" /\ pc' = "flush" /\ disk' = disk /\ base' = base BY <1>6 DEF QueueRefused
  <2>2. pg'.match = pg.match /\ (pg' = pg \/ pg'.off = proc.rewind) BY <1>6, RefusedGoesBack
  <2>3. base <= proc.rewind /\ proc.rewind # Unseen
    <3>1. proc.rewind \in Nat BY <1>1, ProcFields
    <3> QED BY <2>1, <3>1 DEF Holding, Unseen
  <2>4. Ahead(pg', base) /\ (Migrated(disk).off # Unseen => pg'.off # Unseen) BY <1>2, <2>1, <2>2, <2>3 DEF Ahead
  <2> QED BY <1>2, <2>1, <2>4 DEF AheadOK
<1>7. CASE RecordDone
  <2>1. pc = "queue" /\ pc' = "read" /\ disk' = disk /\ base' = base BY <1>7 DEF RecordDone
  <2>2. pg'.off = Offset + 1 BY <1>7, RecordGoesOn
  <2>3. base <= Offset BY <2>1, ReadsAfterBase
  <2>4. base <= Offset + 1 /\ Offset + 1 # Unseen BY <1>1, <2>3 DEF Unseen
  <2> QED BY <1>2, <2>1, <2>2, <2>4 DEF AheadOK, Ahead
<1>8. CASE Checkpoint \/ SaveProgress
  <2>1. disk' = pg /\ pg' = pg /\ base' = base /\ pc # "idle" /\ pc' # "classify"
    BY <1>8 DEF Checkpoint, SaveProgress
  <2>2. pg.v = Schema BY <2>1 DEF BaseInv, PlaceOK
  <2>3. Migrated(pg).off = pg.off /\ Migrated(pg).match = pg.match BY <1>1, <2>2, MigratedSame
  <2>4. Ahead(pg, base) BY <1>2, <2>1
  <2>5. Ahead(Migrated(pg), base) BY <1>3, <2>3, <2>4
  <2>6. /\ Ahead(Migrated(disk'), base') /\ Ahead(pg', base')
        /\ (Migrated(disk').off # Unseen => pg'.off # Unseen)
    BY <2>1, <2>3, <2>4, <2>5
  <2> QED BY <2>1, <2>6 DEF AheadOK
<1>9. CASE Crash
  <2>1. pc' = "idle" /\ disk' = disk /\ base' = base BY <1>9 DEF Crash
  <2> QED BY <1>2, <2>1 DEF AheadOK
<1>10. CASE disk' = disk /\ pg' = pg /\ ~PollStart /\ ~Classify /\ ~Crash
  <2>1. base' = base BY <1>10, WhoMovesEnvironment DEF Classify
  <2>2. (pc' # "idle" => pc # "idle") /\ (pc' = "classify" => pc = "classify")
    <3>1. TailStart \/ ReadRecord \/ QueueRefused \/ RecordDone \/ StopReading \/ FlushStale
          \/ NoFlush \/ Evict \/ SaveProgress \/ SaveFails => pc # "idle" /\ pc' # "classify"
      BY DEF TailStart, ReadRecord, Read, QueueRefused, RecordDone, StopReading, FlushStale, NoFlush, Evict,
             SaveProgress, SaveFails
    <3> QED BY <1>10, <3>1, WhoMovesPoll
  <2> QED BY <1>2, <1>10, <2>1, <2>2 DEF AheadOK
<1> QED BY <1>4, <1>5, <1>6, <1>7, <1>8, <1>9, <1>10, WhoMovesProgress

LEMMA RewindStep ==
  ASSUME BaseInv, Holding => base <= proc.rewind, AheadOK, UnreadIsEmpty, [Next]_vars
  PROVE  Holding' => base' <= proc'.rewind
<1>1. CASE Quiet BY <1>1 DEF Quiet, Holding
<1>2. CASE Rebased
  <2>1. proc' = proc /\ pc' # "queue" BY <1>2 DEF Rebased
  <2>2. Holding' => HasBufferedState(proc) BY <2>1 DEF Holding
  <2>3. CASE base' = base BY <2>1, <2>2, <2>3 DEF Holding
  <2>4. CASE base' # base
    <3>1. pc = "classify" /\ pg.off = Unseen BY <2>4, WhoMovesEnvironment DEF ClassifyOld, EndUnknown
    <3> QED BY <2>2, <3>1 DEF UnreadIsEmpty
  <2> QED BY <2>3, <2>4
<1>3. CASE ReadRecord
  <2>1. Here = Offset /\ pc = "read" /\ base' = base BY <1>3, ReadIs
  <2>2. PICK p : /\ p.rewind = (IF HasBufferedState(proc) THEN proc.rewind ELSE Here)
                 /\ Becomes(p, Here + 1, proc')
    BY <1>3, ReadIs
  <2>3. proc'.rewind = p.rewind BY <2>2 DEF Becomes
  <2>4. base <= Offset BY <2>1, ReadsAfterBase
  <2> QED BY <2>1, <2>2, <2>3, <2>4 DEF Holding
<1>4. CASE QueueEvent BY <1>4, QueuesIs DEF Holding
<1>5. CASE QueueRefused BY <1>5, RefusesIs DEF Holding
<1>6. CASE FlushStale BY <1>6, FlushesIs DEF Holding
<1>7. CASE Evict \/ Exit \/ Crash
  <2>1. proc' = EmptyProc /\ pc' # "queue" BY <1>7 DEF Evict, Exit, Crash
  <2> QED BY <2>1, EmptyIsOrderly DEF Holding
<1>8. CASE SaveFails BY <1>8, ReopensIs DEF Holding
<1> QED BY <1>1, <1>2, <1>3, <1>4, <1>5, <1>6, <1>7, <1>8, StepKinds

LEMMA UnreadStep ==
  ASSUME BaseInv, "nosave" \notin allowed, UnreadIsEmpty, [Next]_vars
  PROVE  UnreadIsEmpty'
<1>1. avail \in Nat /\ pg \in Entries(avail) /\ Offset \in Nat BY BaseFacts DEF BaseInv, ProgressOK
<1>2. CASE UNCHANGED <<pc, pg, disk, proc>> BY <1>2 DEF UnreadIsEmpty
<1>3. CASE PollStart
  <2>1. pc = "idle" /\ pc' # "idle" /\ proc' = proc /\ pg'.off = Migrated(disk).off
    BY <1>3, BeginsWith DEF PollStart
  <2> QED BY <2>1 DEF UnreadIsEmpty
<1>4. CASE SaveProgress \/ Checkpoint
  <2>1. /\ disk' = pg /\ pg' = pg /\ proc' = proc /\ pc \notin {"idle", "queue"}
        /\ (pc' = "idle" \/ pc' = pc)
    BY <1>4 DEF SaveProgress, Checkpoint
  <2>2. pg.v = Schema BY <2>1 DEF BaseInv, PlaceOK
  <2>3. Migrated(pg).off = pg.off BY <1>1, <2>2, MigratedSame
  <2>4. Migrated(disk').off = pg.off BY <2>1, <2>3
  <2> QED BY <2>1, <2>4 DEF UnreadIsEmpty
<1>5. CASE Classify
  <2>1. /\ pc = "classify" /\ pc' \in {"flush", "tail"} /\ (pg'.off = pg.off \/ pg.off = Unseen)
    BY <1>5, ClassifyIs
  <2>2. proc' = proc BY <1>5 DEF Classify, ClassifyStops, ClassifyNo, ClassifyYes, ClassifyOld, EndUnknown
  <2> QED BY <2>1, <2>2 DEF UnreadIsEmpty
<1>6. CASE TailStart \/ StopReading \/ NoFlush
  <2>1. /\ pc \in {"tail", "read", "flush"} /\ pc' # "idle" /\ pg' = pg /\ proc' = proc
    BY <1>6 DEF TailStart, StopReading, NoFlush
  <2> QED BY <2>1 DEF UnreadIsEmpty
<1>7. CASE ReadRecord \/ QueueEvent
  <2>1. pc' = "queue" BY <1>7 DEF ReadRecord, Read, QueueEvent
  <2> QED BY <2>1 DEF UnreadIsEmpty
<1>8. CASE QueueRefused BY <1>8, RefusesIs DEF UnreadIsEmpty
<1>9. CASE RecordDone
  <2>1. pc' = "read" /\ pg'.off = Offset + 1 BY <1>9, RecordGoesOn DEF RecordDone
  <2>2. Offset + 1 # Unseen BY <1>1 DEF Unseen
  <2> QED BY <2>1, <2>2 DEF UnreadIsEmpty
<1>10. CASE FlushStale
  <2>1. pc = "flush" /\ pc' = "save" /\ pg' = pg /\ (HasBufferedState(proc') => HasBufferedState(proc))
    BY <1>10, FlushesIs DEF FlushStale
  <2> QED BY <2>1 DEF UnreadIsEmpty
<1>11. CASE Evict \/ Exit \/ Crash
  <2>1. proc' = EmptyProc BY <1>11 DEF Evict, Exit, Crash
  <2> QED BY <2>1, EmptyIsOrderly DEF UnreadIsEmpty
<1>12. CASE \/ Grow \/ Age \/ LeaveWindow \/ MoveRoots \/ (\E l \in Lanes : FillLane(l) \/ FreeLane(l))
            \/ UNCHANGED vars
  BY <1>2, <1>12 DEF Grow, Age, LeaveWindow, MoveRoots, FillLane, FreeLane, vars
<1>13. ~SaveFails BY NeverHappens
<1> QED BY <1>3, <1>4, <1>5, <1>6, <1>7, <1>8, <1>9, <1>10, <1>11, <1>12, <1>13 DEF Next, Poll

LEMMA GoStep ==
  ASSUME BaseInv, GoInv, [Next]_vars
  PROVE  GoInv'
<1>1. SUFFICES ASSUME "nosave" \notin allowed
               PROVE  /\ LaterOnly' /\ Scanned' /\ (base' # 0 => Past') /\ AheadOK'
                      /\ (Holding' => base' <= proc'.rewind) /\ UnreadIsEmpty'
  BY OnlyStays DEF GoInv
<1>2. /\ LaterOnly /\ Scanned /\ (base # 0 => Past) /\ AheadOK
      /\ (Holding => base <= proc.rewind) /\ UnreadIsEmpty
  BY <1>1 DEF GoInv
<1> QED BY <1>1, <1>2, LaterStep, ScannedStep, PastStep, AheadStep, RewindStep, UnreadStep

\* Only events of records after the base are queued.
LEMMA GoesForward ==
  ASSUME BaseInv, GoInv, [Next]_vars, "nosave" \notin allowed, NEW e \in queued' \ queued, NEW i \in Range(e.body)
  PROVE  i > base'
<1>1. LaterOnly BY DEF GoInv
<1>2. base \in Nat /\ Range(proc.accum.lines) \subseteq Nat
  <2>1. Orderly(proc) BY BaseFacts
  <2>2. proc.accum.lines \in Seq(Records) BY <2>1, ProcFields
  <2>3. Range(proc.accum.lines) \subseteq Records BY <2>2, RangeIs
  <2> QED BY <2>3, BaseFacts DEF Records
<1>3. base' = base
  <2>1. ClassifyOld \/ EndUnknown => queued' = queued BY DEF ClassifyOld, EndUnknown, queue
  <2> QED BY <2>1, WhoMovesEnvironment
<1>4. i \in Int /\ base < i
  <2>1. CASE QueueEvent \/ QueueRefused
    <3>1. out # <<>> /\ out \in Seq(Event) /\ Funnel(Head(out)) 
      BY <2>1 DEF QueueEvent, QueueRefused, BaseInv, QueueOK
    <3>2. Head(out) \in Event /\ Head(out) \in Range(out) BY <3>1, HeadAndTail
    <3>3. e = Head(out)
      <4>1. PICK h : h = Head(out) OBVIOUS
      <4>2. Funnel(h) BY <3>1, <4>1
      <4>3. queued' = queued \/ queued' = queued \cup {h}
        <5>1. CASE DryRun \/ Skipped(h) \/ Refused(h) BY <4>2, <5>1, FunnelIs
        <5>2. CASE ~DryRun /\ ~Skipped(h) /\ ~Refused(h) BY <4>2, <5>2, FunnelIs
        <5> QED BY <5>1, <5>2
      <4> QED BY <4>1, <4>3
    <3>4. Within(e)
      <4>1. \A f \in Range(out) : Within(f) BY DEF BaseInv, QueueOK
      <4> QED BY <3>2, <3>3, <4>1
    <3>5. i \in 1..avail BY <3>4 DEF Within
    <3> QED
      <4>1. base < i BY <1>1, <3>2, <3>3 DEF LaterOnly
      <4>2. i \in Int BY <3>5
      <4> QED BY <4>1, <4>2
  <2>2. CASE FlushStale \/ Evict \/ Exit
    <3>1. Release BY <2>2 DEF FlushStale, Evict, Exit
    <3>2. e \in FlushSet(proc) BY <3>1, ReleaseIs
    <3>3. e.body = proc.accum.lines BY <3>2, IdsAre DEF FlushSet
    <3> QED BY <1>1, <1>2, <3>3 DEF LaterOnly
  <2> QED BY <2>1, <2>2, WhoMovesQueue
<1> QED BY <1>2, <1>3, <1>4

-----------------------------------------------------------------------------
(* A pass over the records after a position.                                *)

Stepped(s, k) == [proc |-> Processed(s.proc, k), events |-> s.events \o Produced(s.proc, k)]

\* f[k] is what processor p has become, and has produced, after the records n + 1 to k.
IsRun(f, p, n) ==
  /\ f[n] = [proc |-> p, events |-> <<>>]
  /\ \A k \in (n + 1)..Len(script) : f[k] = Stepped(f[k - 1], k)

LEMMA PassIsRun ==
  ASSUME ScriptOK, NEW n \in Nat, n <= Len(script), NEW p
  PROVE  \E f : IsRun(f, p, n) /\ Pass(p, n) = f[Len(script)]
<1> DEFINE first == [proc |-> p, events |-> <<>>]
           Steps(f, j) == f = [k \in n..j |-> IF k = n THEN first ELSE Stepped(f[k - 1], k)]
           Bad == {j \in n..Len(script) : ~ \E f : Steps(f, j)}
<1>1. PICK N \in Nat : N = Len(script) BY DEF ScriptOK
<1>2. Pass(p, n) = (CHOOSE f : Steps(f, N))[N] BY <1>1 DEF Pass, Stepped
<1> HIDE DEF first
<1>3. Bad = {}
  <2> SUFFICES ASSUME Bad # {} PROVE FALSE OBVIOUS
  <2>1. PICK j \in Bad : \A q \in Bad : j <= q
    <3>1. Bad \in SUBSET Nat BY <1>1
    <3> QED BY <3>1, LeastElement
  <2>2. j \in n..N /\ ~ \E f : Steps(f, j) BY <1>1
  <2>3. j # n
    <3> DEFINE F == [k \in n..n |-> first]
    <3>1. Steps(F, n)
      <4>1. \A k \in n..n : k = n OBVIOUS
      <4> QED BY <4>1
    <3> QED BY <2>2, <3>1
  <2>4. j - 1 \in n..N /\ j - 1 \notin Bad BY <2>1, <2>2, <2>3
  <2>5. PICK f : Steps(f, j - 1) BY <1>1, <2>4
  <2> DEFINE F == [k \in n..j |-> IF k = j THEN Stepped(f[j - 1], j) ELSE f[k]]
  <2>6. \A k \in n..(j - 1) : F[k] = f[k] /\ f[k] = IF k = n THEN first ELSE Stepped(f[k - 1], k)
    <3> SUFFICES ASSUME NEW k \in n..(j - 1)
                 PROVE  F[k] = f[k] /\ f[k] = IF k = n THEN first ELSE Stepped(f[k - 1], k)
      OBVIOUS
    <3>1. k \in n..j /\ k # j BY <2>2
    <3> QED BY <2>5, <3>1
  <2>7. Steps(F, j)
    <3> SUFFICES ASSUME NEW k \in n..j PROVE F[k] = IF k = n THEN first ELSE Stepped(F[k - 1], k) OBVIOUS
    <3>1. CASE k = j
      <4>1. F[k] = Stepped(f[j - 1], j) BY <3>1
      <4>2. j - 1 \in n..(j - 1) BY <2>2, <2>3
      <4> QED BY <2>3, <2>6, <3>1, <4>1, <4>2
    <3>2. CASE k # j
      <4>1. k \in n..(j - 1) BY <2>2, <3>2
      <4>2. k # n => k - 1 \in n..(j - 1) BY <2>2, <4>1
      <4> QED BY <2>6, <4>1, <4>2
    <3> QED BY <3>1, <3>2
  <2> QED BY <2>2, <2>7
<1>4. \E f : Steps(f, N)
  <2>1. N \in n..Len(script) BY <1>1
  <2> QED BY <1>3, <2>1
<1>5. PICK f : f = CHOOSE g : Steps(g, N) OBVIOUS
<1>6. Steps(f, N) BY <1>4, <1>5
<1>7. \A k \in n..N : f[k] = IF k = n THEN first ELSE Stepped(f[k - 1], k) BY <1>6
<1>8. f[n] = first
  <2>1. n \in n..N BY <1>1
  <2> QED BY <1>7, <2>1
<1>9. \A k \in (n + 1)..N : f[k] = Stepped(f[k - 1], k)
  <2>1. \A k \in (n + 1)..N : k \in n..N /\ k # n OBVIOUS
  <2> QED BY <1>7, <2>1
<1> QED BY <1>1, <1>2, <1>5, <1>8, <1>9 DEF IsRun, first

\* A run keeps its processor orderly and makes events, record by record.
LEMMA RunStep ==
  ASSUME ScriptOK, NEW f, NEW p, NEW n \in Nat, IsRun(f, p, n), NEW k \in Nat, n <= k, k < Len(script),
         Orderly(f[k].proc), f[k].events \in Seq(Event)
  PROVE  /\ k + 1 \in Records
         /\ Orderly(f[k + 1].proc) /\ f[k + 1].events \in Seq(Event)
         /\ Becomes(f[k].proc, k + 1, f[k + 1].proc)
         /\ Range(f[k + 1].events) = Range(f[k].events) \cup Made(f[k].proc, k + 1)
<1>1. Len(script) \in Nat BY DEF ScriptOK
<1>2. k + 1 \in Records /\ k + 1 \in (n + 1)..Len(script) /\ (k + 1) - 1 = k BY <1>1 DEF Records
<1>3. f[k + 1] = Stepped(f[k], k + 1) BY <1>2 DEF IsRun
<1>4. f[k + 1].proc = Processed(f[k].proc, k + 1) /\ f[k + 1].events = f[k].events \o Produced(f[k].proc, k + 1)
  <2>1. \A s, j : /\ Stepped(s, j).proc = Processed(s.proc, j)
                  /\ Stepped(s, j).events = s.events \o Produced(s.proc, j)
    BY DEF Stepped
  <2> QED BY <1>3, <2>1
<1>5. Becomes(f[k].proc, k + 1, f[k + 1].proc) BY <1>2, <1>4, ProcessedIs
<1>6. Produced(f[k].proc, k + 1) \in Seq(Event) /\ Range(Produced(f[k].proc, k + 1)) = Made(f[k].proc, k + 1)
  BY <1>2, ProducedIs
<1>7. /\ f[k + 1].events \in Seq(Event)
      /\ Range(f[k + 1].events) = Range(f[k].events) \cup Made(f[k].proc, k + 1)
  BY <1>4, <1>6, RangeConcat
<1> QED BY <1>2, <1>5, <1>7 DEF Becomes

LEMMA RunStart ==
  ASSUME NEW f, NEW p, Orderly(p), NEW n, IsRun(f, p, n)
  PROVE  f[n].proc = p /\ f[n].events = <<>> /\ f[n].events \in Seq(Event) /\ Range(f[n].events) = {}
<1>1. f[n].proc = p /\ f[n].events = <<>> BY DEF IsRun
<1> QED BY <1>1, EmptyRange, EmptySeq

LEMMA Upward ==
  ASSUME NEW L \in Nat, NEW n \in Nat, NEW S, n \in S, \A k \in n..L : k < L /\ k \in S => k + 1 \in S
  PROVE  \A k \in n..L : k \in S
<1> DEFINE Bad == {k \in n..L : k \notin S}
<1>1. SUFFICES ASSUME Bad # {} PROVE FALSE OBVIOUS
<1>2. PICK k \in Bad : \A q \in Bad : k <= q
  <2>1. Bad \in SUBSET Nat OBVIOUS
  <2> QED BY <1>1, <2>1, LeastElement
<1>3. k # n BY <1>2
<1>4. k - 1 \in n..L /\ k - 1 < L /\ (k - 1) + 1 = k /\ k - 1 < k BY <1>2, <1>3
<1>5. k - 1 \in S BY <1>2, <1>4
<1>6. k \in S BY <1>4, <1>5
<1> QED BY <1>2, <1>6

LEMMA RunIsOrderly ==
  ASSUME ScriptOK, NEW f, NEW p, Orderly(p), NEW n \in Nat, n <= Len(script), IsRun(f, p, n)
  PROVE  \A k \in n..Len(script) : Orderly(f[k].proc) /\ f[k].events \in Seq(Event)
<1> DEFINE Good == {k \in n..Len(script) : Orderly(f[k].proc) /\ f[k].events \in Seq(Event)}
<1>1. Len(script) \in Nat BY DEF ScriptOK
<1>2. n \in Good BY <1>1, RunStart
<1>3. \A k \in n..Len(script) : k < Len(script) /\ k \in Good => k + 1 \in Good
  <2> SUFFICES ASSUME NEW k \in n..Len(script), k < Len(script), k \in Good PROVE k + 1 \in Good OBVIOUS
  <2>1. k \in Nat /\ n <= k /\ k + 1 \in n..Len(script) BY <1>1
  <2> QED BY <2>1, RunStep
<1> HIDE DEF Good
<1>4. \A k \in n..Len(script) : k \in Good BY <1>1, <1>2, <1>3, Upward
<1> QED BY <1>4 DEF Good

\* There is one run.
LEMMA RunsAgree ==
  ASSUME ScriptOK, NEW f, NEW g, NEW p, NEW n \in Nat, n <= Len(script), IsRun(f, p, n), IsRun(g, p, n)
  PROVE  \A k \in n..Len(script) : f[k] = g[k]
<1> DEFINE Good == {k \in n..Len(script) : f[k] = g[k]}
<1>1. Len(script) \in Nat BY DEF ScriptOK
<1>2. n \in Good BY <1>1 DEF IsRun
<1>3. \A k \in n..Len(script) : k < Len(script) /\ k \in Good => k + 1 \in Good
  <2> SUFFICES ASSUME NEW k \in n..Len(script), k < Len(script), k \in Good PROVE k + 1 \in Good OBVIOUS
  <2>1. k + 1 \in (n + 1)..Len(script) /\ k + 1 \in n..Len(script) /\ (k + 1) - 1 = k BY <1>1
  <2>2. f[k + 1] = Stepped(f[k], k + 1) /\ g[k + 1] = Stepped(g[k], k + 1) BY <2>1 DEF IsRun
  <2>3. f[k + 1] = g[k + 1] BY <2>2
  <2> QED BY <2>1, <2>3
<1> HIDE DEF Good
<1>4. \A k \in n..Len(script) : k \in Good BY <1>1, <1>2, <1>3, Upward
<1> QED BY <1>4 DEF Good

\* What it yields.
LEMMA FutureIs ==
  ASSUME ScriptOK, NEW n \in Nat, n <= Len(script), NEW p, Orderly(p), NEW f, IsRun(f, p, n)
  PROVE  Future(p, n) = Range(f[Len(script)].events) \cup FlushSet(f[Len(script)].proc)
<1>1. Len(script) \in n..Len(script) BY DEF ScriptOK
<1>2. PICK g : IsRun(g, p, n) /\ Pass(p, n) = g[Len(script)] BY PassIsRun
<1>3. Pass(p, n) = f[Len(script)] BY <1>1, <1>2, RunsAgree
<1> DEFINE s == f[Len(script)]
<1>4. Orderly(s.proc) /\ s.events \in Seq(Event) BY <1>1, RunIsOrderly
<1>5. FlushOut(s.proc) \in Seq(Event) /\ Range(FlushOut(s.proc)) = FlushSet(s.proc) BY <1>4, FlushOutIs
<1>6. Range(s.events \o FlushOut(s.proc)) = Range(s.events) \cup FlushSet(s.proc) BY <1>4, <1>5, RangeConcat
<1> QED BY <1>3, <1>6 DEF Future

\* What it is sure to give.
LEMMA FutureHas ==
  ASSUME ScriptOK, NEW n \in Nat, n <= Len(script), NEW p, Orderly(p)
  PROVE  /\ \A i \in Records : n < i /\ IsPrompt(i) => \E e \in Future(p, n) : e.id = PromptId(i)
         /\ \A m \in Messages : ResponseComes(p, m, n) => \E e \in Future(p, n) : e.id = ResponseId(m)
         /\ \A c \in Calls : ToolComes(p, c, n) => \E e \in Future(p, n) : e.id = ToolId(c)
<1>1. PICK L \in Nat : L = Len(script) BY DEF ScriptOK
<1>2. PICK f : IsRun(f, p, n) BY PassIsRun
<1>3. Future(p, n) = Range(f[L].events) \cup FlushSet(f[L].proc) BY <1>1, <1>2, FutureIs
<1>4. \A k \in n..L : Orderly(f[k].proc) /\ f[k].events \in Seq(Event) BY <1>1, <1>2, RunIsOrderly
<1>5. \A k \in n..L : k < L => /\ k \in Nat /\ k + 1 \in n..L /\ k + 1 \in Records
                               /\ Becomes(f[k].proc, k + 1, f[k + 1].proc)
                               /\ Range(f[k + 1].events) = Range(f[k].events) \cup Made(f[k].proc, k + 1)
  <2> SUFFICES ASSUME NEW k \in n..L, k < L
               PROVE  /\ k \in Nat /\ k + 1 \in n..L /\ k + 1 \in Records
                      /\ Becomes(f[k].proc, k + 1, f[k + 1].proc)
                      /\ Range(f[k + 1].events) = Range(f[k].events) \cup Made(f[k].proc, k + 1)
    OBVIOUS
  <2>1. k \in Nat /\ n <= k /\ k + 1 \in n..L OBVIOUS
  <2> QED BY <1>1, <1>2, <1>4, <2>1, RunStep
<1>6. n \in n..L /\ L \in n..L BY <1>1
<1>7. f[n].proc = p BY <1>2, RunStart
<1>8. \A i \in Records : i \in Nat /\ ~(L < i) BY <1>1 DEF Records
<1>9. ASSUME NEW i \in Records, n < i, IsPrompt(i) PROVE \E e \in Future(p, n) : e.id = PromptId(i)
  <2> DEFINE S == {k \in n..L : (\E e \in Range(f[k].events) : e.id = PromptId(i)) \/ k < i}
  <2>1. n \in S BY <1>6, <1>9
  <2>2. \A k \in n..L : k < L /\ k \in S => k + 1 \in S
    <3> SUFFICES ASSUME NEW k \in n..L, k < L, k \in S PROVE k + 1 \in S OBVIOUS
    <3>1. k + 1 \in n..L /\ Range(f[k + 1].events) = Range(f[k].events) \cup Made(f[k].proc, k + 1) BY <1>5
    <3>2. CASE \E e \in Range(f[k].events) : e.id = PromptId(i) BY <3>1, <3>2
    <3>3. CASE k < i /\ k + 1 # i
      <4>1. k + 1 < i BY <1>8, <3>3
      <4> QED BY <3>1, <4>1
    <3>4. CASE k + 1 = i
      <4>1. Prompt(i) \in Made(f[k].proc, k + 1) BY <1>9, <3>4 DEF Made
      <4>2. Prompt(i) \in Range(f[k + 1].events) BY <3>1, <4>1
      <4> QED BY <3>1, <4>2, IdsAre
    <3> QED BY <3>2, <3>3, <3>4
  <2> HIDE DEF S
  <2>3. L \in S BY <1>6, <2>1, <2>2, Upward
  <2> QED BY <1>3, <1>8, <2>3 DEF S
<1>10. ASSUME NEW m \in Messages, ResponseComes(p, m, n) PROVE \E e \in Future(p, n) : e.id = ResponseId(m)
  <2> DEFINE S == {k \in n..L : (\E e \in Range(f[k].events) : e.id = ResponseId(m)) \/ ResponseComes(f[k].proc, m, k)}
  <2>1. n \in S BY <1>6, <1>7, <1>10
  <2>2. \A k \in n..L : k < L /\ k \in S => k + 1 \in S
    <3> SUFFICES ASSUME NEW k \in n..L, k < L, k \in S PROVE k + 1 \in S OBVIOUS
    <3>1. /\ k \in Nat /\ k + 1 \in n..L /\ k + 1 \in Records
          /\ Becomes(f[k].proc, k + 1, f[k + 1].proc) /\ Orderly(f[k].proc)
          /\ Range(f[k + 1].events) = Range(f[k].events) \cup Made(f[k].proc, k + 1)
      BY <1>4, <1>5
    <3>2. CASE \E e \in Range(f[k].events) : e.id = ResponseId(m) BY <3>1, <3>2
    <3>3. CASE ResponseComes(f[k].proc, m, k)
      <4>1. (\E e \in Made(f[k].proc, k + 1) : e.id = ResponseId(m)) \/ ResponseComes(f[k + 1].proc, m, k + 1)
        BY <3>1, <3>3, ResponseGoesOn
      <4> QED BY <3>1, <4>1
    <3> QED BY <3>2, <3>3
  <2> HIDE DEF S
  <2>3. L \in S BY <1>6, <2>1, <2>2, Upward
  <2>4. CASE \E e \in Range(f[L].events) : e.id = ResponseId(m) BY <1>3, <2>4
  <2>5. CASE ResponseComes(f[L].proc, m, L)
    <3>1. ~LineAfter(m, L) BY <1>8 DEF LineAfter
    <3>2. m \notin f[L].proc.emitted /\ f[L].proc.accum.msg = m /\ m # NoMsg
      BY <2>5, <3>1, TailAssumption DEF ResponseComes
    <3>3. Response(f[L].proc.accum) \in FlushSet(f[L].proc) BY <3>2 DEF FlushSet
    <3> QED BY <1>3, <3>2, <3>3, IdsAre
  <2> QED BY <2>3, <2>4, <2>5 DEF S
<1>11. ASSUME NEW c \in Calls, ToolComes(p, c, n) PROVE \E e \in Future(p, n) : e.id = ToolId(c)
  <2> DEFINE S == {k \in n..L : (\E e \in Range(f[k].events) : e.id = ToolId(c)) \/ ToolComes(f[k].proc, c, k)}
  <2>1. n \in S BY <1>6, <1>7, <1>11
  <2>2. \A k \in n..L : k < L /\ k \in S => k + 1 \in S
    <3> SUFFICES ASSUME NEW k \in n..L, k < L, k \in S PROVE k + 1 \in S OBVIOUS
    <3>1. /\ k \in Nat /\ k + 1 \in n..L /\ k + 1 \in Records
          /\ Becomes(f[k].proc, k + 1, f[k + 1].proc)
          /\ Range(f[k + 1].events) = Range(f[k].events) \cup Made(f[k].proc, k + 1)
      BY <1>5
    <3>2. CASE \E e \in Range(f[k].events) : e.id = ToolId(c) BY <3>1, <3>2
    <3>3. CASE ToolComes(f[k].proc, c, k)
      <4>1. ToolEvent(c) \in Made(f[k].proc, k + 1) \/ ToolComes(f[k + 1].proc, c, k + 1)
        BY <3>1, <3>3, ToolGoesOn
      <4>2. ToolEvent(c).id = ToolId(c) BY IdsAre
      <4> QED BY <3>1, <4>1, <4>2
    <3> QED BY <3>2, <3>3
  <2> HIDE DEF S
  <2>3. L \in S BY <1>6, <2>1, <2>2, Upward
  <2>4. ~ToolComes(f[L].proc, c, L) BY <1>8 DEF ToolComes, ResultAfter, PairAfter
  <2> QED BY <1>3, <2>3, <2>4 DEF S
<1> QED BY <1>9, <1>10, <1>11

\* And nothing else, from a processor that holds nothing.
FromAfter(e, n) ==
  \/ \E i \in Records : n < i /\ IsPrompt(i) /\ e.id = PromptId(i)
  \/ \E m \in Messages : LineAfter(m, n) /\ e.id = ResponseId(m)
  \/ \E c \in Calls : PairAfter(c, n) /\ e.id = ToolId(c)

HoldsAfter(p, n, k) ==
  /\ p.accum.msg # NoMsg => LineAfter(p.accum.msg, n)
  /\ \A c \in p.pending : \E i \in Records : n < i /\ i <= k /\ IsCall(i, c)

LEMMA FlushedAfter ==
  ASSUME NEW p, Orderly(p), NEW n, NEW k, HoldsAfter(p, n, k)
  PROVE  \A e \in FlushSet(p) : FromAfter(e, n)
<1> SUFFICES ASSUME NEW e \in FlushSet(p) PROVE FromAfter(e, n) OBVIOUS
<1>1. e = Response(p.accum) /\ p.accum.msg # NoMsg BY DEF FlushSet
<1>2. p.accum.msg \in Messages /\ e.id = ResponseId(p.accum.msg) BY <1>1, ProcFields, IdsAre
<1>3. LineAfter(p.accum.msg, n) BY <1>1 DEF HoldsAfter
<1> QED BY <1>2, <1>3 DEF FromAfter

LEMMA HoldsOn ==
  ASSUME ScriptOK, NEW p, Orderly(p), NEW q, NEW n \in Nat, NEW k \in Nat, n <= k, k + 1 \in Records,
         Becomes(p, k + 1, q), HoldsAfter(p, n, k)
  PROVE  HoldsAfter(q, n, k + 1) /\ \A e \in Made(p, k + 1) : FromAfter(e, n)
<1>1. \A i \in Records : i \in Nat /\ (i <= k => i <= k + 1 /\ i < k + 1) BY DEF Records
<1>2. n < k + 1 /\ k + 1 <= k + 1 OBVIOUS
<1>3. Orderly(q) BY DEF Becomes
<1>4. q.accum.msg # NoMsg => LineAfter(q.accum.msg, n)
  <2>1. SUFFICES ASSUME q.accum.msg # NoMsg PROVE LineAfter(q.accum.msg, n) OBVIOUS
  <2>2. IsLine(k + 1, q.accum.msg)
    <3>1. script[k + 1].kind = "assistant"
      <4>1. NoAccum.msg = NoMsg BY NoAccumIs
      <4> QED BY <2>1, <4>1 DEF Becomes, AccumAfter
    <3>2. script[k + 1].msg \in Messages BY <3>1, RecordIs
    <3>3. PICK m \in Messages : IsLine(k + 1, m) BY <3>1, <3>2 DEF IsLine
    <3>4. CASE m = p.accum.msg BY <3>3, <3>4 DEF Becomes, AccumAfter
    <3>5. CASE m # p.accum.msg
      <4>1. m \notin q.emitted => q.accum = [msg |-> m, lines |-> <<k + 1>>] BY <3>3, <3>5 DEF Becomes, AccumAfter
      <4>2. m \in q.emitted => q.accum = NoAccum BY <3>3, <3>5 DEF Becomes, AccumAfter
      <4> QED BY <2>1, <3>3, <4>1, <4>2, NoAccumIs
    <3> QED BY <3>4, <3>5
  <2> QED BY <1>2, <2>2 DEF LineAfter
<1>5. \A c \in q.pending : \E i \in Records : n < i /\ i <= k + 1 /\ IsCall(i, c)
  <2> SUFFICES ASSUME NEW c \in q.pending PROVE \E i \in Records : n < i /\ i <= k + 1 /\ IsCall(i, c) OBVIOUS
  <2>1. c \in Calls BY <1>3, ProcFields
  <2>2. CASE IsCall(k + 1, c) BY <1>2, <2>2
  <2>3. CASE ~IsCall(k + 1, c)
    <3>1. c \in p.pending BY <2>1, <2>3 DEF Becomes, PendingAfter
    <3> QED BY <1>1, <3>1 DEF HoldsAfter
  <2> QED BY <2>2, <2>3
<1>6. ASSUME NEW e \in Made(p, k + 1) PROVE FromAfter(e, n)
  <2>1. CASE e \in FlushSet(p) BY <2>1, FlushedAfter
  <2>2. CASE \E c \in p.pending : IsResult(k + 1, c) /\ e = ToolEvent(c)
    <3>1. PICK c \in p.pending : IsResult(k + 1, c) /\ e = ToolEvent(c) BY <2>2
    <3>2. PICK i \in Records : n < i /\ i <= k /\ IsCall(i, c) BY DEF HoldsAfter
    <3>3. PairAfter(c, n) BY <1>1, <3>1, <3>2 DEF PairAfter
    <3>4. c \in Calls BY ProcFields
    <3> QED BY <3>1, <3>3, <3>4, IdsAre DEF FromAfter
  <2>3. CASE IsPrompt(k + 1) /\ e = Prompt(k + 1) BY <1>2, <2>3, IdsAre DEF FromAfter
  <2> QED BY <2>1, <2>2, <2>3 DEF Made
<1> QED BY <1>4, <1>5, <1>6 DEF HoldsAfter

LEMMA FutureIsFrom ==
  ASSUME ScriptOK, NEW n \in Nat, n <= Len(script)
  PROVE  \A e \in Future(EmptyProc, n) : FromAfter(e, n)
<1>1. PICK L \in Nat : L = Len(script) BY DEF ScriptOK
<1>2. PICK f : IsRun(f, EmptyProc, n) BY PassIsRun
<1>0. Orderly(EmptyProc) BY EmptyIsOrderly
<1>3. Future(EmptyProc, n) = Range(f[L].events) \cup FlushSet(f[L].proc) BY <1>0, <1>1, <1>2, FutureIs
<1>4. \A k \in n..L : Orderly(f[k].proc) /\ f[k].events \in Seq(Event) BY <1>0, <1>1, <1>2, RunIsOrderly
<1>6. n \in n..L /\ L \in n..L BY <1>1
<1>7. f[n].proc = EmptyProc /\ Range(f[n].events) = {} BY <1>0, <1>2, RunStart
<1> DEFINE S == {k \in n..L : HoldsAfter(f[k].proc, n, k) /\ \A e \in Range(f[k].events) : FromAfter(e, n)}
<1>8. n \in S
  <2>1. HoldsAfter(EmptyProc, n, n) BY NoAccumIs DEF HoldsAfter, EmptyProc
  <2> QED BY <1>6, <1>7, <2>1
<1>9. \A k \in n..L : k < L /\ k \in S => k + 1 \in S
  <2> SUFFICES ASSUME NEW k \in n..L, k < L, k \in S PROVE k + 1 \in S OBVIOUS
  <2>1. k \in Nat /\ n <= k /\ k + 1 \in n..L OBVIOUS
  <2>2. /\ k + 1 \in Records /\ Becomes(f[k].proc, k + 1, f[k + 1].proc)
        /\ Range(f[k + 1].events) = Range(f[k].events) \cup Made(f[k].proc, k + 1)
    BY <1>1, <1>2, <1>4, <2>1, RunStep
  <2>3. HoldsAfter(f[k + 1].proc, n, k + 1) /\ \A e \in Made(f[k].proc, k + 1) : FromAfter(e, n)
    <3>1. HoldsAfter(f[k].proc, n, k) /\ Orderly(f[k].proc) BY <1>4
    <3> QED BY <2>1, <2>2, <3>1, HoldsOn
  <2> QED BY <2>1, <2>2, <2>3
<1> HIDE DEF S
<1>10. L \in S BY <1>6, <1>8, <1>9, Upward
<1>11. \A e \in FlushSet(f[L].proc) : FromAfter(e, n) BY <1>4, <1>6, <1>10, FlushedAfter DEF S
<1> QED BY <1>3, <1>10, <1>11 DEF S

-----------------------------------------------------------------------------
(* Between polls.                                                           *)

\* What is to come of a processor and of the records after a position, by the id.
StillComes(id) == Sent(id) \/ \E x \in Future(proc, Saved) : x.id = id

LEMMA KeptIs ==
  ASSUME NEW kinds,
         pc = "idle" => \A e \in Reference : e.id[1] \in kinds => StillComes(e.id)
  PROVE  Kept(kinds)
<1> SUFFICES ASSUME pc = "idle", NEW id \in IdsOf(Reference, kinds)
             PROVE  id \in IdsOf(queued \cup Future(proc, Saved), kinds)
  BY DEF Kept
<1>1. PICK e \in Reference : e.id[1] \in kinds /\ id = e.id BY DEF IdsOf
<1>2. PICK x \in queued \cup Future(proc, Saved) : x.id = id BY <1>1 DEF StillComes, Sent
<1> QED BY <1>1, <1>2 DEF IdsOf

LEMMA AtRest ==
  ASSUME BaseInv, pc = "idle"
  PROVE  /\ Here = Saved /\ Saved \in Nat /\ Saved <= Len(script) /\ base \in Nat /\ base <= Len(script)
         /\ Orderly(proc) /\ ScriptOK /\ out = <<>>
         /\ \A id : Safe(id) <=> Sent(id)
<1>1. Here = Saved BY DEF Here
<1>2. out = <<>> BY DEF BaseInv, PlaceOK
<1>3. \A id : ~Coming(id) BY <1>2, EmptyRange DEF Coming
<1>4. /\ base \in Nat /\ base <= avail /\ avail \in Nat /\ avail <= Len(script) /\ Len(script) \in Nat
      /\ Orderly(proc) /\ ScriptOK
  BY BaseFacts DEF ScriptOK
<1>5. base <= Len(script) BY <1>4
<1> QED BY <1>1, <1>2, <1>3, <1>4, <1>5, HereIs DEF Safe

LEMMA PromptsKept ==
  ASSUME BaseInv, PromptsInv, pc = "idle", ~Watched, NEW i \in Records, IsPrompt(i), base < i
  PROVE  StillComes(PromptId(i))
<1>1. PromptKept(i) BY DEF PromptsInv
<1>2. CASE i <= Saved BY <1>1, <1>2 DEF PromptKept, StillComes
<1>3. CASE Saved < i
  <2>1. \E x \in Future(proc, Saved) : x.id = PromptId(i) BY <1>3, AtRest, FutureHas
  <2> QED BY <2>1 DEF StillComes
<1>4. i \in Nat /\ Saved \in Nat BY AtRest DEF Records
<1> QED BY <1>2, <1>3, <1>4

LEMMA ResponsesKept ==
  ASSUME BaseInv, ResponsesInv, pc = "idle", Only(Delays) \/ Only(Rereads),
         NEW m \in Messages, LineAfter(m, base)
  PROVE  StillComes(ResponseId(m))
<1>1. Safe(ResponseId(m)) \/ ResponseComes(proc, m, Here) BY DEF ResponsesInv, ResponseKept
<1>2. ResponseComes(proc, m, Saved) => \E x \in Future(proc, Saved) : x.id = ResponseId(m) BY AtRest, FutureHas
<1> QED BY <1>1, <1>2, AtRest DEF StillComes

LEMMA ToolsKept ==
  ASSUME BaseInv, ToolsInv, pc = "idle", Only(StaleDelays) \/ Only(Rereads),
         NEW c \in Calls, c \notin FileDiffs \/ Only(Rereads), PairAfter(c, base)
  PROVE  StillComes(ToolId(c))
<1>1. Safe(ToolId(c)) \/ ToolComes(proc, c, Here) BY DEF ToolsInv, ToolKept
<1>2. ToolComes(proc, c, Saved) => \E x \in Future(proc, Saved) : x.id = ToolId(c) BY AtRest, FutureHas
<1> QED BY <1>1, <1>2, AtRest DEF StillComes

LEMMA AllKept ==
  ASSUME BaseInv, PromptsInv, ResponsesInv, ToolsInv, NEW kinds,
         "prompt" \in kinds => ~Watched,
         "ai_response" \in kinds => Only(Delays) \/ Only(Rereads),
         "tool" \in kinds => Only(StaleDelays) \/ Only(Rereads),
         "file_diff" \in kinds => Only(Rereads)
  PROVE  Kept(kinds)
<1>1. SUFFICES ASSUME pc = "idle", NEW e \in Reference, e.id[1] \in kinds
               PROVE  StillComes(e.id)
  BY KeptIs
<1>2. FromAfter(e, base) BY <1>1, AtRest, FutureIsFrom DEF Reference
<1>3. ASSUME NEW i \in Records, base < i, IsPrompt(i), e.id = PromptId(i) PROVE StillComes(e.id)
  <2>1. "prompt" \in kinds BY <1>1, <1>3, IdKinds
  <2> QED BY <1>1, <1>3, <2>1, PromptsKept
<1>4. ASSUME NEW m \in Messages, LineAfter(m, base), e.id = ResponseId(m) PROVE StillComes(e.id)
  <2>1. "ai_response" \in kinds BY <1>1, <1>4, IdKinds
  <2> QED BY <1>1, <1>4, <2>1, ResponsesKept
<1>5. ASSUME NEW c \in Calls, PairAfter(c, base), e.id = ToolId(c) PROVE StillComes(e.id)
  <2>1. CASE c \in FileDiffs
    <3>1. "file_diff" \in kinds BY <1>1, <1>5, <2>1, IdKinds
    <3> QED BY <1>1, <1>5, <3>1, ToolsKept
  <2>2. CASE c \notin FileDiffs
    <3>1. "tool" \in kinds BY <1>1, <1>5, <2>2, IdKinds
    <3> QED BY <1>1, <1>5, <2>2, <3>1, ToolsKept
  <2> QED BY <2>1, <2>2
<1> QED BY <1>2, <1>3, <1>4, <1>5 DEF FromAfter

LEMMA DelaysOnly ==
  ASSUME BaseInv, PromptsInv, ResponsesInv, ToolsInv
  PROVE  FullLaneDelays
<1>1. ASSUME Only({"full", "aging"} \cup Admission) PROVE Kept({"ai_response", "tool", "prompt"})
  <2>1. Only(Delays) /\ Only(StaleDelays) BY <1>1, OnlyMeans DEF Delays
  <2>2. ~Watched BY <2>1, OnlyMeans DEF Watched
  <2>3. "file_diff" \notin {"ai_response", "tool", "prompt"} OBVIOUS
  <2> QED BY <2>1, <2>2, <2>3, AllKept
<1>2. ASSUME Only({"staleFlush", "nosave", "aging"}) PROVE NoLoss
  <2>1. Only(Rereads) BY <1>2 DEF Rereads
  <2>2. ~Watched BY <2>1, OnlyMeans DEF Watched
  <2> QED BY <2>1, <2>2, AllKept DEF NoLoss
<1>3. ASSUME Only({"full", "staleFlush", "aging"}) PROVE Kept({"tool", "prompt"})
  <2>1. Only(StaleDelays) BY <1>3 DEF Only, StaleDelays
  <2>2. ~Watched BY <2>1, OnlyMeans DEF Watched
  <2>3. "file_diff" \notin {"tool", "prompt"} /\ "ai_response" \notin {"tool", "prompt"} OBVIOUS
  <2> QED BY <2>1, <2>2, <2>3, AllKept
<1>4. ASSUME "degrade" \notin allowed PROVE Kept({"prompt"})
  <2>1. ~Watched BY <1>4 DEF Watched
  <2>2. "file_diff" \notin {"prompt"} /\ "ai_response" \notin {"prompt"} /\ "tool" \notin {"prompt"} OBVIOUS
  <2> QED BY <2>1, <2>2, AllKept
<1> QED BY <1>1, <1>2, <1>3, <1>4 DEF FullLaneDelays

-----------------------------------------------------------------------------
(* The watcher that rewinds against the one that reads in one go.           *)

\* What a reading in one go holds after record k.
InOneGo(p, k) ==
  /\ \A m \in Messages : p.accum.msg = m => k \in Records /\ IsLine(k, m) /\ m \notin p.emitted
  /\ \A m \in p.emitted : ~LineAfter(m, k)

LEMMA OneGoOn ==
  ASSUME ScriptOK, Contiguous, NEW p, Orderly(p), NEW q, NEW k \in Nat, k + 1 \in Records,
         Becomes(p, k + 1, q), InOneGo(p, k)
  PROVE  InOneGo(q, k + 1)
<1>1. \A i \in Records : i \in Nat /\ i \in 1..Len(script) /\ (k + 1 < i => k < i) BY DEF Records
<1>2. NoMsg \notin Messages /\ ~IsLine(k + 1, NoMsg) BY TailAssumption, RecordIs
<1>3. p.accum.msg \in Messages \cup {NoMsg} /\ p.emitted \subseteq Messages /\ q.emitted \subseteq Messages
  BY ProcFields DEF Becomes
<1>4. q.emitted = IF IsLine(k + 1, p.accum.msg) THEN p.emitted ELSE p.emitted \cup ({p.accum.msg} \ {NoMsg})
  BY DEF Becomes, EmittedAfter
<1>5. ASSUME NEW m \in Messages, q.accum.msg = m
      PROVE  IsLine(k + 1, m) /\ m \notin q.emitted
  <2>1. script[k + 1].kind = "assistant"
    <3>1. NoAccum.msg = NoMsg BY NoAccumIs
    <3> QED BY <1>2, <1>5, <3>1 DEF Becomes, AccumAfter
  <2>2. script[k + 1].msg \in Messages BY <2>1, RecordIs
  <2>3. PICK l \in Messages : IsLine(k + 1, l) BY <2>1, <2>2 DEF IsLine
  <2>4. CASE l = p.accum.msg
    <3>1. q.accum.msg = l BY <2>3, <2>4 DEF Becomes, AccumAfter
    <3>2. q.emitted = p.emitted BY <1>4, <2>3, <2>4
    <3>3. l \notin p.emitted BY <2>3, <2>4 DEF InOneGo
    <3> QED BY <1>5, <2>3, <3>1, <3>2, <3>3
  <2>5. CASE l # p.accum.msg
    <3>1. l \notin q.emitted => q.accum = [msg |-> l, lines |-> <<k + 1>>] BY <2>3, <2>5 DEF Becomes, AccumAfter
    <3>2. l \in q.emitted => q.accum = NoAccum BY <2>3, <2>5 DEF Becomes, AccumAfter
    <3> QED BY <1>2, <1>5, <2>3, <3>1, <3>2, NoAccumIs
  <2> QED BY <2>4, <2>5
<1>6. ASSUME NEW m \in q.emitted PROVE ~LineAfter(m, k + 1)
  <2>1. CASE m \in p.emitted
    <3>1. ~LineAfter(m, k) BY <2>1 DEF InOneGo
    <3> QED BY <1>1, <3>1 DEF LineAfter
  <2>2. CASE m = p.accum.msg /\ m \in Messages /\ ~IsLine(k + 1, m)
    <3>1. k \in Records /\ IsLine(k, m) BY <2>2 DEF InOneGo
    <3>2. SUFFICES ASSUME NEW j \in Records, k + 1 < j, IsLine(j, m) PROVE FALSE BY DEF LineAfter
    <3>3. k < k + 1 OBVIOUS
    <3>4. script[k + 1].kind = "assistant" /\ script[k + 1].msg = script[k].msg
      <4>1. k \in 1..Len(script) /\ k + 1 \in 1..Len(script) /\ j \in 1..Len(script) BY <3>1 DEF Records
      <4>2. /\ script[k].kind = "assistant" /\ script[j].kind = "assistant"
            /\ script[k].msg = script[j].msg
        BY <3>1, <3>2 DEF IsLine
      <4> QED BY <3>2, <3>3, <4>1, <4>2 DEF Contiguous
    <3> QED BY <2>2, <3>1, <3>4 DEF IsLine
  <2> QED BY <1>3, <1>4, <2>1, <2>2
<1> QED BY <1>5, <1>6 DEF InOneGo

LEMMA OneGo ==
  ASSUME ScriptOK, Contiguous, NEW f, IsRun(f, EmptyProc, 0)
  PROVE  \A k \in 0..Len(script) : InOneGo(f[k].proc, k) /\ Orderly(f[k].proc) /\ f[k].events \in Seq(Event)
<1>1. PICK L \in Nat : L = Len(script) BY DEF ScriptOK
<1>2. 0 \in Nat /\ 0 <= L OBVIOUS
<1>3. Orderly(EmptyProc) BY EmptyIsOrderly
<1>4. \A k \in 0..L : Orderly(f[k].proc) /\ f[k].events \in Seq(Event) BY <1>1, <1>2, <1>3, RunIsOrderly
<1> DEFINE S == {k \in 0..L : InOneGo(f[k].proc, k)}
<1>5. 0 \in S
  <2>1. f[0].proc = EmptyProc BY <1>3, RunStart
  <2>2. EmptyProc.accum.msg = NoMsg /\ EmptyProc.emitted = {} BY NoAccumIs DEF EmptyProc
  <2>3. InOneGo(f[0].proc, 0) BY <2>1, <2>2, TailAssumption DEF InOneGo
  <2> QED BY <2>3
<1>6. \A k \in 0..L : k < L /\ k \in S => k + 1 \in S
  <2> SUFFICES ASSUME NEW k \in 0..L, k < L, k \in S PROVE k + 1 \in S OBVIOUS
  <2>1. k \in Nat /\ 0 <= k /\ k + 1 \in 0..L OBVIOUS
  <2>2. k + 1 \in Records /\ Becomes(f[k].proc, k + 1, f[k + 1].proc) BY <1>1, <1>2, <1>4, <2>1, RunStep
  <2>3. InOneGo(f[k].proc, k) /\ Orderly(f[k].proc) BY <1>4
  <2>4. InOneGo(f[k + 1].proc, k + 1) BY <2>1, <2>2, <2>3, OneGoOn
  <2> QED BY <2>1, <2>4
<1> HIDE DEF S
<1>7. \A k \in 0..L : k \in S BY <1>2, <1>5, <1>6, Upward
<1> QED BY <1>1, <1>4, <1>7 DEF S

LEMMA RunGrows ==
  ASSUME ScriptOK, NEW f, IsRun(f, EmptyProc, 0), NEW k \in Nat, k <= Len(script)
  PROVE  Range(f[k].events) \subseteq Range(f[Len(script)].events)
<1>1. PICK L \in Nat : L = Len(script) BY DEF ScriptOK
<1>2. 0 \in Nat /\ 0 <= L OBVIOUS
<1>3. Orderly(EmptyProc) BY EmptyIsOrderly
<1>4. \A j \in 0..L : Orderly(f[j].proc) /\ f[j].events \in Seq(Event) BY <1>1, <1>2, <1>3, RunIsOrderly
<1> DEFINE S == {j \in k..L : Range(f[k].events) \subseteq Range(f[j].events)}
<1>5. k \in S /\ L \in k..L BY <1>1
<1>6. \A j \in k..L : j < L /\ j \in S => j + 1 \in S
  <2> SUFFICES ASSUME NEW j \in k..L, j < L, j \in S PROVE j + 1 \in S OBVIOUS
  <2>1. j \in Nat /\ 0 <= j /\ j \in 0..L /\ j + 1 \in k..L OBVIOUS
  <2>2. Range(f[j + 1].events) = Range(f[j].events) \cup Made(f[j].proc, j + 1) BY <1>1, <1>2, <1>4, <2>1, RunStep
  <2> QED BY <2>1, <2>2
<1> HIDE DEF S
<1>7. L \in S BY <1>5, <1>6, Upward
<1> QED BY <1>1, <1>7 DEF S

WhollyRead(f) == Range(f[Len(script)].events) \cup FlushSet(f[Len(script)].proc)

\* The watcher holds what the reading f in one go holds at the same record, and where
\* it may go back to, f held nothing.
Follows(f) ==
  /\ queued \subseteq WhollyRead(f) /\ Range(out) \subseteq WhollyRead(f)
  /\ proc.accum = f[Here].proc.accum /\ proc.pending = f[Here].proc.pending
  /\ proc.emitted \subseteq f[Here].proc.emitted
  /\ Holding => /\ proc.rewind <= Here /\ (pc = "queue" => proc.rewind < Here)
                /\ ~HasBufferedState(f[proc.rewind].proc)

Slow == {"full", "aging"}

FollowsInv ==
  Contiguous /\ Only(Slow) => base = 0 /\ old = 0 /\ \E f : IsRun(f, EmptyProc, 0) /\ Follows(f)

LEMMA OnlySlow ==
  ASSUME Only(Slow)
  PROVE  /\ ~FlushStale /\ ~Evict /\ ~SaveFails /\ ~Exit /\ ~Crash /\ ~LeaveWindow
<1>1. /\ "staleFlush" \notin allowed /\ "evict" \notin allowed /\ "nosave" \notin allowed /\ "exit" \notin allowed
      /\ "crash" \notin allowed /\ "window" \notin allowed
  BY DEF Only, Slow
<1> QED BY <1>1, NeverHappens DEF LeaveWindow

LEMMA FollowsInit ==
  ASSUME Init
  PROVE  FollowsInv
<1>1. ScriptOK BY FirstEntry DEF Given, ScriptOK
<1>2. PICK f : IsRun(f, EmptyProc, 0)
  <2>1. 0 \in Nat /\ 0 <= Len(script) BY <1>1 DEF ScriptOK
  <2> QED BY <1>1, <2>1, PassIsRun
<1>3. f[0].proc = EmptyProc BY <1>2, EmptyIsOrderly, RunStart
<1>4. pc = "idle" /\ proc = EmptyProc /\ queued = {} /\ out = <<>> /\ base = 0 /\ old = 0 BY DEF Init
<1>5. Here = 0
  <2>1. disk.v < Schema \/ disk.off = Unseen BY FirstEntry
  <2> QED BY <1>4, <2>1 DEF Here, Saved
<1>6. ~Holding BY <1>4, EmptyIsOrderly DEF Holding
<1>7. Follows(f) BY <1>3, <1>4, <1>5, <1>6, EmptyRange DEF Follows
<1> QED BY <1>2, <1>4, <1>7 DEF FollowsInv

\* The step of the reading in one go that belongs to ReadRecord.
LEMMA ReadFollows ==
  ASSUME BaseInv, Contiguous, ReadRecord, NEW f, IsRun(f, EmptyProc, 0), Follows(f)
  PROVE  /\ Range(out') \subseteq WhollyRead(f)
         /\ proc'.accum = f[Here + 1].proc.accum /\ proc'.pending = f[Here + 1].proc.pending
         /\ proc'.emitted \subseteq f[Here + 1].proc.emitted
         /\ proc'.rewind <= Here /\ ~HasBufferedState(f[proc'.rewind].proc)
<1>1. /\ Here \in Nat /\ Here + 1 \in Records /\ pc = "read" /\ ScriptOK /\ Len(script) \in Nat /\ Here <= Len(script)
      /\ Orderly(proc)
  BY ReadIs, HereIs, BaseFacts DEF ScriptOK
<1>2. PICK k \in Nat : k = Here BY <1>1
<1>3. PICK i \in Records : i = k + 1 BY <1>1, <1>2
<1>4. PICK p : /\ Orderly(p) /\ p.accum = proc.accum /\ p.pending = proc.pending /\ p.emitted = proc.emitted
               /\ p.rewind = (IF HasBufferedState(proc) THEN proc.rewind ELSE k)
               /\ Becomes(p, i, proc') /\ Range(out') = Made(p, i)
  BY <1>2, <1>3, ReadIs
<1>5. PICK s : s = f[k].proc OBVIOUS
<1>6. PICK t : t = f[i].proc OBVIOUS
<1>7. InOneGo(s, k) /\ Orderly(s)
  <2>1. k \in 0..Len(script) BY <1>1, <1>2
  <2> QED BY <1>1, <1>5, <2>1, OneGo
<1>8. Becomes(s, i, t) /\ Made(s, i) \subseteq WhollyRead(f)
  <2>1. f[k].events \in Seq(Event) /\ k < Len(script) /\ 0 <= k
    <3>1. k \in 0..Len(script) BY <1>1, <1>2
    <3>2. k < Len(script) BY <1>1, <1>2, <1>3 DEF Records
    <3> QED BY <1>1, <3>1, <3>2, OneGo
  <2>2. /\ Becomes(f[k].proc, k + 1, f[k + 1].proc)
        /\ Range(f[k + 1].events) = Range(f[k].events) \cup Made(f[k].proc, k + 1)
    BY <1>1, <1>5, <1>7, <2>1, RunStep
  <2>3. i \in Nat /\ i <= Len(script) BY <1>1 DEF Records
  <2>4. Range(f[i].events) \subseteq Range(f[Len(script)].events) BY <1>1, <2>3, RunGrows
  <2> QED BY <1>3, <1>5, <1>6, <2>2, <2>4 DEF WhollyRead
<1>9. p.accum = s.accum /\ p.pending = s.pending /\ p.emitted \subseteq s.emitted
  BY <1>2, <1>4, <1>5 DEF Follows
<1>10. Orderly(proc') /\ Orderly(t) BY <1>4, <1>8 DEF Becomes
<1>11. proc'.pending = t.pending
  <2>1. proc'.pending \subseteq Calls /\ t.pending \subseteq Calls BY <1>10, ProcFields
  <2>2. \A c \in Calls : c \in proc'.pending <=> c \in t.pending
    <3> SUFFICES ASSUME NEW c \in Calls PROVE (c \in proc'.pending <=> c \in t.pending) OBVIOUS
    <3>1. /\ IsCall(i, c) => c \in proc'.pending /\ c \in t.pending
          /\ IsResult(i, c) => c \notin proc'.pending /\ c \notin t.pending
          /\ ~IsCall(i, c) /\ ~IsResult(i, c) => (c \in proc'.pending <=> c \in p.pending)
          /\ ~IsCall(i, c) /\ ~IsResult(i, c) => (c \in t.pending <=> c \in s.pending)
      BY <1>4, <1>8 DEF Becomes, PendingAfter
    <3> QED BY <1>9, <3>1
  <2> QED BY <2>1, <2>2
<1>12. proc'.emitted \subseteq t.emitted
  <2>1. /\ proc'.emitted = IF IsLine(i, p.accum.msg) THEN p.emitted ELSE p.emitted \cup ({p.accum.msg} \ {NoMsg})
        /\ t.emitted = IF IsLine(i, s.accum.msg) THEN s.emitted ELSE s.emitted \cup ({s.accum.msg} \ {NoMsg})
    BY <1>4, <1>8 DEF Becomes, EmittedAfter
  <2> QED BY <1>9, <2>1
<1>13. proc'.accum = t.accum
  <2>1. CASE script[i].kind # "assistant"
    <3>1. proc'.accum = NoAccum BY <1>4, <2>1 DEF Becomes, AccumAfter
    <3>2. t.accum = NoAccum BY <1>8, <2>1 DEF Becomes, AccumAfter
    <3> QED BY <3>1, <3>2
  <2>2. CASE script[i].kind = "assistant"
    <3>1. PICK m \in Messages : IsLine(i, m) BY <1>1, <2>2, RecordIs DEF IsLine
    <3>2. CASE m = p.accum.msg
      <4>1. proc'.accum = [msg |-> p.accum.msg, lines |-> Append(p.accum.lines, i)]
        BY <1>4, <3>1, <3>2 DEF Becomes, AccumAfter
      <4>2. t.accum = [msg |-> s.accum.msg, lines |-> Append(s.accum.lines, i)]
        BY <1>8, <1>9, <3>1, <3>2 DEF Becomes, AccumAfter
      <4> QED BY <1>9, <4>1, <4>2
    <3>3. CASE m # p.accum.msg
      <4>1. m \notin t.emitted
        <5>1. LineAfter(m, k)
          <6>1. k < i BY <1>3
          <6> QED BY <3>1, <6>1 DEF LineAfter
        <5>2. m \notin s.emitted BY <1>7, <5>1 DEF InOneGo
        <5> QED BY <1>8, <1>9, <3>3, <5>2 DEF Becomes, EmittedAfter
      <4>2. t.accum = [msg |-> m, lines |-> <<i>>] BY <1>8, <1>9, <3>1, <3>3, <4>1 DEF Becomes, AccumAfter
      <4>3. m \notin proc'.emitted BY <1>12, <4>1
      <4>4. proc'.accum = [msg |-> m, lines |-> <<i>>] BY <1>4, <3>1, <3>3, <4>3 DEF Becomes, AccumAfter
      <4> QED BY <4>2, <4>4
    <3> QED BY <3>2, <3>3
  <2> QED BY <2>1, <2>2
<1>14. Made(p, i) \subseteq Made(s, i)
  <2>1. FlushSet(p) \subseteq FlushSet(s)
    <3>1. s.accum.msg \in Messages => s.accum.msg \notin s.emitted BY <1>7 DEF InOneGo
    <3>2. s.accum.msg \in Messages \cup {NoMsg} BY <1>7, ProcFields
    <3> QED BY <1>9, <3>1, <3>2 DEF FlushSet
  <2> QED BY <1>9, <2>1 DEF Made
<1>15. proc'.rewind <= k /\ ~HasBufferedState(f[proc'.rewind].proc)
  <2>1. proc'.rewind = (IF HasBufferedState(proc) THEN proc.rewind ELSE k) BY <1>4 DEF Becomes
  <2>2. CASE HasBufferedState(proc)
    <3>1. Holding BY <2>2 DEF Holding
    <3> QED BY <1>2, <2>1, <2>2, <3>1 DEF Follows
  <2>3. CASE ~HasBufferedState(proc)
    <3>1. ~HasBufferedState(s) BY <1>4, <1>9, <2>3 DEF HasBufferedState
    <3>2. k <= k OBVIOUS
    <3> QED BY <1>5, <2>1, <2>3, <3>1, <3>2
  <2> QED BY <2>2, <2>3
<1> QED BY <1>2, <1>3, <1>4, <1>6, <1>8, <1>11, <1>12, <1>13, <1>14, <1>15

LEMMA FollowsStep ==
  ASSUME BaseInv, FollowsInv, [Next]_vars
  PROVE  FollowsInv'
<1>1. script' = script /\ (Only(Slow)' <=> Only(Slow)) /\ (Contiguous' <=> Contiguous)
  <2>1. script' = script BY OnlyStays
  <2> QED BY <2>1, OnlyStays DEF Contiguous
<1>2. ASSUME Contiguous, Only(Slow)
      PROVE  base' = 0 /\ old' = 0 /\ \E f : IsRun(f, EmptyProc, 0)' /\ Follows(f)'
  <2>1. PICK f : IsRun(f, EmptyProc, 0) /\ Follows(f) BY <1>2 DEF FollowsInv
  <2>2. base = 0 /\ old = 0 BY <1>2 DEF FollowsInv
  <2>3. ~FlushStale /\ ~Evict /\ ~SaveFails /\ ~Exit /\ ~Crash /\ ~LeaveWindow /\ ~Rebased
    BY <1>2, <2>2, OnlySlow DEF Rebased
  <2>4. old' = 0 BY <2>2, <2>3, WhoMovesEnvironment
  <2>5. IsRun(f, EmptyProc, 0)' BY <1>1, <2>1 DEF IsRun, Stepped, Processed, Produced
  <2>6. WhollyRead(f)' = WhollyRead(f) BY <1>1 DEF WhollyRead
  <2>7. base' = 0 /\ Follows(f)'
    <3>1. SUFFICES /\ base' = 0 /\ queued' \subseteq WhollyRead(f) /\ Range(out') \subseteq WhollyRead(f)
                   /\ proc'.accum = f[Here'].proc.accum /\ proc'.pending = f[Here'].proc.pending
                   /\ proc'.emitted \subseteq f[Here'].proc.emitted
                   /\ Holding' => /\ proc'.rewind <= Here' /\ (pc' = "queue" => proc'.rewind < Here')
                                  /\ ~HasBufferedState(f[proc'.rewind].proc)
      BY <2>6 DEF Follows
    <3>2. /\ queued \subseteq WhollyRead(f) /\ Range(out) \subseteq WhollyRead(f)
          /\ proc.accum = f[Here].proc.accum /\ proc.pending = f[Here].proc.pending
          /\ proc.emitted \subseteq f[Here].proc.emitted
          /\ Holding => /\ proc.rewind <= Here /\ (pc = "queue" => proc.rewind < Here)
                        /\ ~HasBufferedState(f[proc.rewind].proc)
      BY <2>1 DEF Follows
    <3>3. CASE Quiet
      <4>1. UNCHANGED <<queued, out, proc, base>> /\ Here' = Here /\ (pc' = "queue" => pc = "queue")
        BY <3>3 DEF Quiet
      <4>2. Holding' => Holding BY <4>1 DEF Holding
      <4> QED BY <2>2, <3>2, <4>1, <4>2
    <3>4. CASE ReadRecord
      <4>1. /\ Range(out') \subseteq WhollyRead(f)
            /\ proc'.accum = f[Here + 1].proc.accum /\ proc'.pending = f[Here + 1].proc.pending
            /\ proc'.emitted \subseteq f[Here + 1].proc.emitted
            /\ proc'.rewind <= Here /\ ~HasBufferedState(f[proc'.rewind].proc)
        BY <1>2, <2>1, <3>4, ReadFollows
      <4>2. queued' = queued /\ base' = base /\ Here' = Here + 1 BY <3>4, ReadIs
      <4>3. proc'.rewind <= Here + 1 /\ proc'.rewind < Here + 1
        <5>1. proc'.rewind \in Nat
          <6>1. Orderly(proc') BY <3>4, ReadIs DEF Becomes
          <6> QED BY <6>1, ProcFields
        <5>2. Here \in Nat BY HereIs
        <5> QED BY <4>1, <5>1, <5>2
      <4> QED BY <2>2, <3>2, <4>1, <4>2, <4>3
    <3>5. CASE QueueEvent
      <4>1. pc = "queue" /\ proc' = proc /\ base' = base /\ Here' = Here /\ Range(out') \subseteq Range(out)
        BY <3>5, QueuesIs
      <4>2. queued' \subseteq queued \cup Range(out) BY <3>5, QueuesHead
      <4>3. Holding BY <4>1 DEF Holding
      <4> QED BY <2>2, <3>2, <4>1, <4>2, <4>3
    <3>6. CASE QueueRefused
      <4>1. /\ queued' = queued /\ base' = base /\ Range(out') = {} /\ pc = "queue" /\ pc' = "flush"
            /\ proc'.accum = NoAccum /\ proc'.pending = {} /\ proc'.emitted = {} /\ ~HasBufferedState(proc')
            /\ Here' = (IF proc.rewind < Offset THEN proc.rewind ELSE Offset)
            /\ proc.rewind \in Nat /\ Offset \in Nat
        BY <3>6, RefusesIs
      <4>2. Holding /\ Here = Offset + 1 BY <4>1 DEF Holding, Here
      <4>3. proc.rewind < Offset + 1 /\ ~HasBufferedState(f[proc.rewind].proc) BY <3>2, <4>1, <4>2
      <4>4. Here' = proc.rewind BY <4>1, <4>3
      <4>5. ~Holding' BY <4>1 DEF Holding
      <4>6. f[Here'].proc.accum = NoAccum /\ f[Here'].proc.pending = {} BY <4>3, <4>4 DEF HasBufferedState
      <4> QED BY <2>2, <3>2, <4>1, <4>5, <4>6
    <3> QED BY <2>3, <3>3, <3>4, <3>5, <3>6, StepKinds
  <2> QED BY <2>4, <2>5, <2>7
<1> QED BY <1>1, <1>2 DEF FollowsInv

LEMMA MakesUpNothingNow ==
  ASSUME BaseInv, FollowsInv, OnceInv
  PROVE  MakesUpNothing
<1>1. ASSUME Contiguous, Only({"full", "aging"}) PROVE queued \subseteq Reference
  <2>1. Only(Slow) BY <1>1 DEF Slow
  <2>2. PICK f : IsRun(f, EmptyProc, 0) /\ Follows(f) BY <1>1, <2>1 DEF FollowsInv
  <2>3. base = 0 BY <1>1, <2>1 DEF FollowsInv
  <2>4. ScriptOK /\ 0 \in Nat /\ 0 <= Len(script) BY BaseFacts DEF ScriptOK
  <2>5. Future(EmptyProc, 0) = WhollyRead(f) BY <2>2, <2>4, EmptyIsOrderly, FutureIs DEF WhollyRead
  <2> QED BY <2>2, <2>3, <2>5 DEF Follows, Reference
<1>2. ASSUME CallsOnce, Only({"staleFlush", "aging", "degrade"} \cup Admission) PROVE ~repeated
  <2>1. Only(Undelayed) BY <1>2 DEF Undelayed
  <2> QED BY <1>2, <2>1 DEF OnceInv
<1> QED BY <1>1, <1>2 DEF MakesUpNothing

-----------------------------------------------------------------------------
(* The theorems.                                                            *)

Inv == /\ BaseInv /\ PromptsInv /\ ClaimsSent /\ Forward /\ ToolsInv /\ ResponsesInv
       /\ OnceInv /\ FollowsInv /\ GoInv

LEMMA InvInit ==
  ASSUME Init
  PROVE  Inv
BY BaseInit, PromptsInit, ForwardInit, KeptInit, OnceInit, FollowsInit, GoInit DEF Inv

LEMMA InvStep ==
  ASSUME Inv, [Next]_vars
  PROVE  Inv'
<1>1. /\ BaseInv /\ PromptsInv /\ ClaimsSent /\ Forward /\ ToolsInv /\ ResponsesInv
      /\ OnceInv /\ FollowsInv /\ GoInv
  BY DEF Inv
<1>2. BaseInv' /\ PromptsInv' /\ ClaimsSent' /\ Forward' BY <1>1, BaseStep, PromptsStep, ClaimsStep, ForwardStep
<1>3. ToolsInv' /\ ResponsesInv' BY <1>1, ToolsStep, ResponsesStep
<1>4. OnceInv' /\ FollowsInv' /\ GoInv' BY <1>1, OnceStep, FollowsStep, GoStep
<1> QED BY <1>2, <1>3, <1>4 DEF Inv

\* FullLaneDelays: between polls every event of the transcript that the conditions do
\* not explain away is queued or still comes of what the processor holds and of the
\* records after the saved offset (the rewind after ErrQueueFull, flushAccum and the
\* save of pollClaudeTranscripts), for every transcript.
THEOREM NothingIsLost == Spec => []FullLaneDelays
<1>1. Init => Inv BY InvInit
<1>2. Inv /\ [Next]_vars => Inv' BY InvStep
<1>3. Inv => FullLaneDelays BY DelaysOnly DEF Inv
<1> QED BY <1>1, <1>2, <1>3, PTL DEF Spec

\* MakesUpNothing: what a watcher queues that rewinds is what one uninterrupted reading
\* gives, and where no lane fills up and it keeps running each event is queued once
\* (flushAccum, RewindOffset and DiscardBufferedState of the processor).
THEOREM NothingIsMadeUp == Spec => []MakesUpNothing
<1>1. Init => Inv BY InvInit
<1>2. Inv /\ [Next]_vars => Inv' BY InvStep
<1>3. Inv => MakesUpNothing BY MakesUpNothingNow DEF Inv
<1> QED BY <1>1, <1>2, <1>3, PTL DEF Spec

\* GoForward: an event that gets queued is made of records after the end at which a
\* session from before the history window was admitted (claudeMatchYesPreexisting in
\* pollClaudeTranscripts).
THEOREM OnlyForward == Spec => GoForward
<1>1. Init => Inv BY InvInit
<1>2. Inv /\ [Next]_vars => Inv' BY InvStep
<1>3. Inv /\ [Next]_vars => ["nosave" \notin allowed =>
                              \A e \in queued' \ queued : \A i \in Range(e.body) : i > base']_vars
  <2>1. Inv => BaseInv /\ GoInv BY DEF Inv
  <2> QED BY <2>1, GoesForward
<1> QED BY <1>1, <1>2, <1>3, PTL DEF Spec, GoForward

\* Faithful: the lanes carry what the transcript says, neither less nor more than the
\* conditions explain, and nothing that the history window had let go of
\* (pollClaudeTranscripts).
THEOREM LanesAreFaithful == Spec => Faithful
BY NothingIsLost, NothingIsMadeUp, OnlyForward, PTL DEF Faithful
=============================================================================
