-------------------------- MODULE OutboxLaneProofs --------------------------
(***************************************************************************)
(* Theorems about OutboxLane, for every set of events, every line length,  *)
(* every cap, batch size and compaction threshold: its types; only         *)
(* answered events are settled; no accepted event is lost, so that a lane  *)
(* implements the at-least-once queue of DeliveryQueue.                    *)
(***************************************************************************)
EXTENDS OutboxLane, SequenceTheorems, NaturalsInduction, WellFoundedInduction, TLAPS

-----------------------------------------------------------------------------
(* Offsets and lines.                                                       *)

\* A non-empty set of natural numbers has a least element.
LEMMA LeastElement ==
  ASSUME NEW S \in SUBSET Nat, S # {}
  PROVE  \E p \in S : \A q \in S : p <= q
<1> DEFINE R == {ss \in Nat \X Nat : ss[1] < ss[2]}
<1>1. IsWellFoundedOn(R, Nat) BY NatLessThanWellFounded DEF OpToRel
<1>2. \A p, q \in Nat : q < p => <<q, p>> \in R
  <2> SUFFICES ASSUME NEW p \in Nat, NEW q \in Nat, q < p PROVE <<q, p>> \in R
    OBVIOUS
  <2>1. <<q, p>> \in Nat \X Nat OBVIOUS
  <2>2. <<q, p>>[1] = q /\ <<q, p>>[2] = p OBVIOUS
  <2> QED BY <2>1, <2>2
<1> HIDE DEF R
<1>3. PICK p \in S : \A q \in S : ~(<<q, p>> \in R) BY <1>1, WFMin
<1>4. \A q \in S : ~(q < p) BY <1>2, <1>3
<1> QED BY <1>4

\* Where HasLine says a line can be read, LineEnd is its newline and the only
\* one it contains.
LEMMA LineEndIsLeast ==
  ASSUME file \in Seq(Cell), NEW r \in Nat, HasLine(r)
  PROVE  /\ LineEnd(r) \in (r+1)..Len(file)
         /\ IsNewline(LineEnd(r))
         /\ \A m \in (r+1)..(LineEnd(r)-1) : ~IsNewline(m)
<1> DEFINE N == {n \in (r+1)..Len(file) : IsNewline(n)}
<1>1. Len(file) \in Nat BY LenProperties
<1>2. N \in SUBSET Nat /\ N # {} BY <1>1 DEF HasLine
<1>3. PICK p \in N : \A q \in N : p <= q BY <1>2, LeastElement
<1>4. p \in (r+1)..Len(file) /\ IsNewline(p) /\ \A m \in (r+1)..(p-1) : ~IsNewline(m)
  BY <1>1, <1>3
<1> QED BY <1>4 DEF LineEnd

\* A newline ahead means that a line can be read, and that it ends there or
\* before.
LEMMA LineEndBefore ==
  ASSUME file \in Seq(Cell), NEW r \in Nat, NEW t \in Nat, r < t, IsNewline(t)
  PROVE  /\ HasLine(r)
         /\ LineEnd(r) \in (r+1)..t
         /\ IsNewline(LineEnd(r))
         /\ \A m \in (r+1)..(LineEnd(r)-1) : ~IsNewline(m)
<1>1. Len(file) \in Nat /\ t <= Len(file) BY LenProperties DEF IsNewline
<1>2. HasLine(r) BY <1>1 DEF HasLine
<1>3. /\ LineEnd(r) \in (r+1)..Len(file)
      /\ IsNewline(LineEnd(r))
      /\ \A m \in (r+1)..(LineEnd(r)-1) : ~IsNewline(m)
  BY <1>2, LineEndIsLeast
<1>4. LineEnd(r) <= t BY <1>1, <1>3
<1> QED BY <1>1, <1>2, <1>3, <1>4

\* A line that parses ends with a newline.
LEMMA SendableHasLine ==
  ASSUME file \in Seq(Cell), NEW r \in Nat, Sendable(r)
  PROVE  EventAt(r) \in Event /\ HasLine(r) /\ IsNewline(r + Size[EventAt(r)])
<1> DEFINE e == file[r+1][1]
<1>1. Len(file) \in Nat /\ r + 1 \in 1..Len(file) BY LenProperties DEF Sendable
<1>2. file[r+1] \in Cell BY <1>1, ElementOfSeq
<1>3. e \in Event BY <1>2 DEF Cell
<1>4. Size[e] \in Nat \ {0} BY <1>3, SizeAssumption
<1>5. r + Size[e] \in (r+1)..Len(file) BY <1>1, <1>4 DEF Sendable
<1>6. file[r + Size[e]] = <<e, Size[e]>> BY <1>4 DEF Sendable
<1>7. IsNewline(r + Size[e])
  <2>1. <<e, Size[e]>>[1] = e /\ <<e, Size[e]>>[2] = Size[e] OBVIOUS
  <2>2. file[r + Size[e]][2] = Size[file[r + Size[e]][1]] BY <2>1, <1>6
  <2> QED BY <2>2, <1>1, <1>4, <1>5 DEF IsNewline
<1> QED BY <1>3, <1>5, <1>7 DEF HasLine, EventAt

\* The events of a range of lines are events.
LEMMA EventsTyped ==
  ASSUME file \in Seq(Cell), NEW a \in Nat, NEW b \in Int
  PROVE  Members(a, b) \subseteq a..(b-1) /\ EventsIn(a, b) \subseteq Event
<1>1. Members(a, b) \subseteq a..(b-1) BY DEF Members, LineStarts
<1>2. \A p \in Members(a, b) : p \in Nat /\ Sendable(p) BY <1>1 DEF Members
<1>3. \A p \in Members(a, b) : EventAt(p) \in Event BY <1>2, SendableHasLine
<1> QED BY <1>1, <1>3 DEF EventsIn

\* The cells of a line, and what any part of them is.
LEMMA LineTyped ==
  ASSUME NEW e \in Event, NEW m \in Nat \ {0}, NEW n \in 0..Size[e]
  PROVE  /\ SubSeq(Line(e), m, n) \in Seq(Cell)
         /\ Len(SubSeq(Line(e), m, n)) = IF m <= n THEN n - m + 1 ELSE 0
         /\ \A i \in 1..(n - m + 1) : SubSeq(Line(e), m, n)[i] = <<e, m + i - 1>>
<1>1. Size[e] \in Nat BY SizeAssumption
<1>2. \A i \in m..n : Line(e)[i] = <<e, i>> BY <1>1 DEF Line
<1>3. \A i \in m..n : <<e, i>> \in Cell BY <1>1 DEF Cell
<1>4. \A i \in m..n : Line(e)[i] \in Cell BY <1>2, <1>3
<1>5. m \in Int /\ n \in Int BY <1>1
<1>6. /\ SubSeq(Line(e), m, n) \in Seq(Cell)
      /\ Len(SubSeq(Line(e), m, n)) = IF m <= n THEN n - m + 1 ELSE 0
      /\ \A i \in 1..(n - m + 1) : SubSeq(Line(e), m, n)[i] = Line(e)[m + i - 1]
  BY <1>4, <1>5, SubSeqProperties
<1>7. \A i \in 1..(n - m + 1) : m + i - 1 \in m..n BY <1>5
<1> QED BY <1>2, <1>6, <1>7

\* A part of a line, cell by cell.
LEMMA LinePrefix ==
  ASSUME NEW e \in Event, NEW k \in Nat \ {0}, k <= Size[e]
  PROVE  /\ SubSeq(Line(e), 1, k) \in Seq(Cell)
         /\ Len(SubSeq(Line(e), 1, k)) = k
         /\ \A i \in 1..k : SubSeq(Line(e), 1, k)[i] = <<e, i>>
<1>1. 1 \in Nat \ {0} /\ k \in 0..Size[e] BY SizeAssumption
<1>2. /\ SubSeq(Line(e), 1, k) \in Seq(Cell)
      /\ Len(SubSeq(Line(e), 1, k)) = IF 1 <= k THEN k - 1 + 1 ELSE 0
      /\ \A i \in 1..(k - 1 + 1) : SubSeq(Line(e), 1, k)[i] = <<e, 1 + i - 1>>
  BY <1>1, LineTyped
<1>3. 1 <= k /\ k - 1 + 1 = k /\ \A i \in 1..k : 1 + i - 1 = i OBVIOUS
<1> QED BY <1>2, <1>3

\* g is f with something appended.
Extends(f, g) == Len(f) <= Len(g) /\ \A n \in 1..Len(f) : g[n] = f[n]

\* The file only gets longer.
Grows == file' \in Seq(Cell) /\ Extends(file, file')

\* Every step of AppendTo leaves the cells that are there and adds typed ones.
LEMMA AppendGrows ==
  ASSUME file \in Seq(Cell), NEW s \in Seq(Cell), file' = file \o s
  PROVE  Grows /\ Len(file') = Len(file) + Len(s)
               /\ \A i \in 1..Len(s) : file'[Len(file) + i] = s[i]
<1>1. Len(file) \in Nat /\ Len(s) \in Nat BY LenProperties
<1>2. /\ file' \in Seq(Cell)
      /\ Len(file') = Len(file) + Len(s)
      /\ \A i \in 1..Len(file) + Len(s) : file'[i] = IF i <= Len(file) THEN file[i]
                                                     ELSE s[i - Len(file)]
  BY ConcatProperties
<1> QED BY <1>1, <1>2 DEF Grows, Extends

\* An append leaves the newlines there are, and adds none before the end.
LEMMA GrowsNewline ==
  ASSUME file \in Seq(Cell), Grows, NEW n \in Int
  PROVE  /\ IsNewline(n) => IsNewline(n)'
         /\ n <= Len(file) => (IsNewline(n) <=> IsNewline(n)')
<1>1. Len(file) \in Nat /\ Len(file') \in Nat BY LenProperties DEF Grows, Extends
<1>2. n \in 1..Len(file) => n \in 1..Len(file') /\ file'[n] = file[n] BY <1>1 DEF Grows, Extends
<1>3. IsNewline(n)' <=> n \in 1..Len(file') /\ file'[n][2] = Size[file'[n][1]] BY DEF IsNewline
<1> QED BY <1>1, <1>2, <1>3 DEF IsNewline

-----------------------------------------------------------------------------
(* Type correctness.                                                        *)

InHand == {"sendChunk", "commitChunk", "sendLine", "commitLine"}

\* While lines are in hand, they end with a newline the file still has.
LinesInHand == dpc \in InHand => from < to /\ IsNewline(to)

\* While compact changes the file or the cursor, it holds the lane lock.
CompactLocked == dpc \in {"truncated", "tailCopied", "renaming"} => lock = "drain"

TypeInv == TypeOK /\ LinesInHand /\ CompactLocked

\* advanceOver stays within the lines in hand.
LEMMA AdvanceTyped ==
  ASSUME TypeInv, dpc = "sendChunk", NEW proven
  PROVE  AdvanceEnd(proven) \in from..to
<1> USE DEF TypeInv, TypeOK, LinesInHand, InHand
<1> DEFINE open == Members(from, to) \ proven
<1>1. open \subseteq from..(to-1) BY EventsTyped
<1>2. CASE open = {} BY <1>2 DEF AdvanceEnd
<1>3. CASE open # {}
  <2>1. open \in SUBSET Nat BY <1>1
  <2>2. PICK p \in open : \A q \in open : p <= q BY <2>1, <1>3, LeastElement
  <2>3. AdvanceEnd(proven) \in open BY <2>2, <1>3 DEF AdvanceEnd
  <2> QED BY <2>3, <1>1
<1> QED BY <1>2, <1>3

\* AppendTo keeps the types and the bounds of the part it has written.
LEMMA TypeAppend ==
  TypeInv /\ Append1 => TypeInv'
<1> SUFFICES ASSUME TypeInv, Append1 PROVE TypeInv'
  OBVIOUS
<1> USE DEF TypeInv, TypeOK, CompactLocked
<1>1. ASSUME NEW e \in Event, AppendRefused(e) PROVE TypeInv'
  BY <1>1 DEF AppendRefused, LinesInHand, IsNewline, diskVars, lockVars, drainVars, lineVars
<1>2. ASSUME NEW e \in Event, AppendBegin(e) PROVE TypeInv'
  BY <1>2 DEF AppendBegin, LinesInHand, IsNewline, diskVars, drainVars, lineVars, histVars
<1>3. ASSUME Grows, UNCHANGED drainVars PROVE LinesInHand'
  BY <1>3, GrowsNewline DEF LinesInHand, InHand, drainVars, lineVars
<1>4. CASE AppendPart
  <2>1. PICK k \in 1..(Size[app] - 1) : file' = file \o SubSeq(Line(app), 1, k) /\ part' = k
    BY <1>4 DEF AppendPart
  <2>2. app \in Event /\ Size[app] \in Nat BY <1>4, SizeAssumption DEF AppendPart
  <2>3. k \in 0..Size[app] BY <2>2
  <2>4. SubSeq(Line(app), 1, k) \in Seq(Cell) BY <2>2, <2>3, LineTyped
  <2>5. Grows BY <2>1, <2>4, AppendGrows
  <2>6. LinesInHand' BY <1>3, <1>4, <2>5 DEF AppendPart
  <2> QED BY <1>4, <2>1, <2>2, <2>5, <2>6
          DEF AppendPart, Grows, Extends, drainVars, lineVars, histVars
<1>5. CASE AppendDone
  <2>1. app \in Event /\ Size[app] \in Nat BY <1>5, SizeAssumption DEF AppendDone
  <2>2. SubSeq(Line(app), part + 1, Size[app]) \in Seq(Cell) BY <2>1, LineTyped
  <2>3. Grows BY <1>5, <2>2, AppendGrows DEF AppendDone
  <2>4. LinesInHand' BY <1>3, <1>5, <2>3 DEF AppendDone
  <2> QED BY <1>5, <2>1, <2>3, <2>4
          DEF AppendDone, ReleaseAppend, Grows, Extends, drainVars, lineVars
<1>6. CASE AppendFails
  BY <1>6 DEF AppendFails, ReleaseAppend, LinesInHand, IsNewline, diskVars, drainVars, lineVars
<1> QED BY <1>1, <1>2, <1>4, <1>5, <1>6 DEF Append1

\* Reading keeps the types and hands over lines of the file.
LEMMA TypeRead ==
  TypeInv /\ DrainRead => TypeInv'
<1> SUFFICES ASSUME TypeInv, DrainRead PROVE TypeInv'
  OBVIOUS
<1> USE DEF TypeInv, TypeOK, LinesInHand, InHand, CompactLocked
<1>1. CASE Rewind
  BY <1>1 DEF Rewind, IsNewline, lockVars, drainVars, lineVars, histVars
<1>2. CASE StartPass
  BY <1>2 DEF StartPass, LoopTops, IsNewline, diskVars, lockVars, lineVars, histVars
<1>3. CASE ReadChunk
  <2>1. PICK t \in {n \in (rpos+1)..Len(file) : IsNewline(n)} :
          /\ rpos' \in {t, Len(file), LineEnd(t)}
          /\ rpos' = LineEnd(t) => rpos' \in {t, Len(file)} \/ Sendable(t)
          /\ desynced' \in BOOLEAN
          /\ from' = rpos /\ to' = t
    BY <1>3 DEF ReadChunk
  <2>2. Len(file) \in Nat /\ t \in Nat BY <2>1, LenProperties
  <2>3. Sendable(t) => LineEnd(t) \in Nat
    BY <2>2, SendableHasLine, LineEndIsLeast
  <2>4. rpos' \in Nat BY <2>1, <2>2, <2>3
  <2>5. from' < to' /\ IsNewline(to)'
    BY <1>3, <2>1, <2>2 DEF ReadChunk, IsNewline, diskVars
  <2> QED BY <1>3, <2>1, <2>2, <2>4, <2>5 DEF ReadChunk, diskVars, lockVars, histVars
<1>4. CASE ReadNoChunk
  BY <1>4, LenProperties DEF ReadNoChunk, IsNewline, diskVars, lockVars, lineVars, histVars
<1>5. CASE ReadLine
  <2>1. LineEnd(rpos) \in (rpos+1)..Len(file) /\ IsNewline(LineEnd(rpos))
    BY <1>5, LineEndIsLeast DEF ReadLine
  <2>2. Len(file) \in Nat BY LenProperties
  <2>3. from' < to' /\ IsNewline(to)'
    BY <1>5, <2>1, <2>2 DEF ReadLine, IsNewline, diskVars
  <2> QED BY <1>5, <2>1, <2>2, <2>3 DEF ReadLine, diskVars, lockVars, histVars
<1>6. CASE ReadNoLine
  BY <1>6 DEF ReadNoLine, IsNewline, diskVars, lockVars, lineVars, histVars
<1> QED BY <1>1, <1>2, <1>3, <1>4, <1>5, <1>6 DEF DrainRead

\* Delivering keeps the types; the advance stays within the lines in hand.
LEMMA TypeSend ==
  TypeInv /\ DrainSend => TypeInv'
<1> SUFFICES ASSUME TypeInv, DrainSend PROVE TypeInv'
  OBVIOUS
<1> USE DEF TypeInv, TypeOK, LinesInHand, InHand, CompactLocked
<1>1. CASE ChunkFellBack
  BY <1>1 DEF ChunkFellBack, IsNewline, diskVars, lockVars, histVars
<1>2. CASE LineUnsendable
  BY <1>2 DEF LineUnsendable, IsNewline, diskVars, lockVars, lineVars, histVars
<1>3. CASE LineAnswered
  <2>1. EventAt(from) \in Event BY <1>3, SendableHasLine DEF LineAnswered
  <2> QED BY <1>3, <2>1 DEF LineAnswered, IsNewline, diskVars, lockVars, lineVars
<1>4. ASSUME NEW proven \in SUBSET Members(from, to), ChunkAnswered(proven) PROVE TypeInv'
  <2>1. AdvanceEnd(proven) \in from..to BY <1>4, AdvanceTyped DEF ChunkAnswered
  <2>2. adv' \in Nat BY <1>4, <2>1 DEF ChunkAnswered
  <2>3. {EventAt(p) : p \in proven} \subseteq Event
    <3>1. {EventAt(p) : p \in proven} \subseteq EventsIn(from, to) BY <1>4 DEF EventsIn
    <3> QED BY <3>1, EventsTyped
  <2>4. answered' \subseteq Event BY <1>4, <2>3 DEF ChunkAnswered
  <2> QED BY <1>4, <2>2, <2>4 DEF ChunkAnswered, IsNewline, diskVars, lockVars
<1> QED BY <1>1, <1>2, <1>3, <1>4 DEF DrainSend

\* Committing keeps the types.
LEMMA TypeCommit ==
  TypeInv /\ DrainCommit => TypeInv'
<1> SUFFICES ASSUME TypeInv, DrainCommit PROVE TypeInv'
  OBVIOUS
<1> USE DEF TypeInv, TypeOK, LinesInHand, InHand, CompactLocked
<1>1. CASE CommitChunk
  <2>1. settled' \subseteq Event
    <3>1. EventsIn(cursor, cur + adv) \subseteq Event BY EventsTyped
    <3> QED BY <1>1, <3>1 DEF CommitChunk, MoveCursor
  <2>2. cursor' \in Nat BY <1>1 DEF CommitChunk, MoveCursor
  <2>3. UNCHANGED <<file, lock, app, part, acked, failed, refused, answered>>
    BY <1>1 DEF CommitChunk, lockVars
  <2>4. from' = 0 /\ to' = 0 /\ adv' = 0 /\ desynced' = FALSE /\ shrunk' = FALSE
        /\ back' = "readLine" /\ dpc' \in {"idle", "readBatch", "readLine"}
    BY <1>1 DEF CommitChunk, EndPass, DropLines, LoopTops
  <2>5. cur' \in Nat /\ rpos' \in Nat
    BY <1>1 DEF CommitChunk, EndPass
  <2> QED BY <1>1, <2>1, <2>2, <2>3, <2>4, <2>5 DEF CommitChunk
<1>2. CASE CommitLine
  <2>1. LineEnd(from) \in (from+1)..to
    BY <1>2, LineEndBefore DEF CommitLine, IsNewline
  <2>2. cur + LineEnd(from) - from \in Nat BY <2>1
  <2>3. settled' \subseteq Event
    <3>1. EventsIn(cursor, cur + LineEnd(from) - from) \subseteq Event BY <2>2, EventsTyped
    <3> QED BY <1>2, <3>1 DEF CommitLine, MoveCursor
  <2>4. CASE LineEnd(from) < to
    BY <1>2, <2>1, <2>2, <2>3, <2>4
       DEF CommitLine, MoveCursor, IsNewline, lockVars
  <2>5. CASE ~(LineEnd(from) < to)
    <3>1. cursor' \in Nat /\ cur' \in Nat /\ rpos' \in Nat
      BY <1>2, <2>2 DEF CommitLine, MoveCursor
    <3>2. UNCHANGED <<file, lock, app, part, acked, failed, refused, answered>>
      BY <1>2 DEF CommitLine, lockVars
    <3>3. from' = 0 /\ to' = 0 /\ adv' = 0 /\ desynced' = FALSE /\ shrunk' = FALSE
          /\ back' = "readLine" /\ dpc' \in {"readBatch", "readLine"}
      BY <1>2, <2>5 DEF CommitLine, DropLines, LoopTops
    <3> QED BY <1>2, <2>3, <3>1, <3>2, <3>3 DEF CommitLine
  <2> QED BY <2>4, <2>5
<1>3. CASE CommitFails
  BY <1>3 DEF CommitFails, EndPass, DropLines, IsNewline, diskVars, lockVars, histVars
<1> QED BY <1>1, <1>2, <1>3 DEF DrainCommit

\* Compacting, and dying at any point, keep the types.
LEMMA TypeCompact ==
  TypeInv /\ (Compact \/ Crash) => TypeInv'
<1> SUFFICES ASSUME TypeInv, Compact \/ Crash PROVE TypeInv'
  OBVIOUS
<1> USE DEF TypeInv, TypeOK, LinesInHand, InHand, CompactLocked
<1>1. CASE CompactNothing
  BY <1>1 DEF CompactNothing, EndPass, DropLines, diskVars, lockVars, histVars
<1>2. CASE CompactTruncate
  BY <1>2, EmptySeq DEF CompactTruncate, lineVars, histVars
<1>3. CASE TruncateZero
  BY <1>3 DEF TruncateZero, EndPass, DropLines, histVars
<1>4. CASE TailCopy
  BY <1>4 DEF TailCopy, diskVars, lineVars, histVars
<1>5. CASE TailZero
  BY <1>5 DEF TailZero, lockVars, lineVars, histVars
<1>6. CASE TailRename
  <2>1. Len(file) \in Nat BY LenProperties
  <2>2. \A i \in (cur+1)..Len(file) : file[i] \in Cell BY <2>1, ElementOfSeq
  <2>3. SubSeq(file, cur + 1, Len(file)) \in Seq(Cell) BY <2>1, <2>2, SubSeqProperties
  <2> QED BY <1>6, <2>3 DEF TailRename, EndPass, DropLines, histVars
<1>7. CASE TailFails
  BY <1>7 DEF TailFails, EndPass, DropLines, diskVars, histVars
<1>8. CASE Crash
  BY <1>8 DEF Crash, EndPass, DropLines, diskVars, histVars
<1> QED BY <1>1, <1>2, <1>3, <1>4, <1>5, <1>6, <1>7, <1>8 DEF Compact

\* The inductive form of type correctness.
LEMMA TypeInvariant == Spec => []TypeInv
<1>1. Init => TypeInv
  <2>1. <<>> \in Seq(Cell) BY EmptySeq
  <2> SUFFICES ASSUME Init PROVE TypeInv
    OBVIOUS
  <2>2. TypeOK BY <2>1 DEF Init, TypeOK
  <2>3. LinesInHand /\ CompactLocked BY DEF Init, LinesInHand, InHand, CompactLocked
  <2> QED BY <2>2, <2>3 DEF TypeInv
<1>2. TypeInv /\ [Next]_vars => TypeInv'
  <2> SUFFICES ASSUME TypeInv, [Next]_vars PROVE TypeInv'
    OBVIOUS
  <2>1. CASE Next
    BY <2>1, TypeAppend, TypeRead, TypeSend, TypeCommit, TypeCompact DEF Next
  <2>2. CASE UNCHANGED vars
    BY <2>2 DEF vars, diskVars, lockVars, drainVars, lineVars, histVars,
                TypeInv, TypeOK, LinesInHand, CompactLocked, IsNewline
  <2> QED BY <2>1, <2>2
<1> QED BY <1>1, <1>2, PTL DEF Spec

\* Type correctness, whatever the environment does.
THEOREM TypeCorrect == Spec => []TypeOK
<1>1. TypeInv => TypeOK BY DEF TypeInv
<1> QED BY <1>1, TypeInvariant, PTL
-----------------------------------------------------------------------------
(* The cursor passes answered events only.                                  *)

\* A reader in batch mode must not see half an append, and a chunk the byte cap
\* has cut must not fall back to delivery line by line.
ReaderSafe == Batch => /\ "splitWrite" \notin Conditions
                       /\ ~({"byteCap", "fallback"} \subseteq Conditions)

\* Between lines the reader stands at the cursor.
ReaderAtCursor ==
  dpc \in {"readBatch", "readLine"} => rpos = cur /\ cur = cursor /\ cur <= Len(file)

\* The lines in hand begin at the cursor; the reader stands at their end, or
\* behind it when a chunk was cut.
HandAtCursor ==
  dpc \in InHand => /\ from = cur /\ cur = cursor
                    /\ to <= rpos /\ rpos <= Len(file)
                    /\ desynced \/ rpos = to

CutChunk == desynced => "byteCap" \in Conditions /\ dpc \in {"sendChunk", "commitChunk"}

BatchStates == dpc \in {"readBatch", "sendChunk", "commitChunk"} => Batch

WholeLines == Batch => part = 0 /\ (Len(file) = 0 \/ IsNewline(Len(file)))

ChunkProven ==
  dpc = "commitChunk" => from + adv <= to /\ EventsIn(from, from + adv) \subseteq answered

LineProven == dpc = "commitLine" /\ Sendable(from) => EventAt(from) \in answered

SettleInv == /\ ReaderAtCursor /\ HandAtCursor
             /\ CutChunk /\ BatchStates /\ WholeLines
             /\ ChunkProven /\ LineProven
             /\ OnlyAnsweredSettled

\* The operators on lines, with the file as a parameter.
NewlineOf(f, n) == n \in 1..Len(f) /\ f[n][2] = Size[f[n][1]]
SendableOf(f, r) == /\ r < Len(f)
                    /\ LET e == f[r+1][1]
                       IN  /\ r + Size[e] <= Len(f)
                           /\ \A k \in 1..Size[e] : f[r+k] = <<e, k>>
MembersOf(f, a, b) == {p \in a..(b-1) : (p = a \/ NewlineOf(f, p)) /\ SendableOf(f, p)}
EventsOf(f, a, b)  == {f[p+1][1] : p \in MembersOf(f, a, b)}

\* The operators on file, with the file as an argument.
LEMMA ExplicitFile ==
  /\ \A n : IsNewline(n) <=> NewlineOf(file, n)
  /\ \A r : Sendable(r) <=> SendableOf(file, r)
  /\ \A a, b : Members(a, b) = MembersOf(file, a, b)
  /\ \A a, b : EventsIn(a, b) = EventsOf(file, a, b)
<1>1. \A n : IsNewline(n) <=> NewlineOf(file, n) BY DEF IsNewline, NewlineOf
<1>2. \A r : Sendable(r) <=> SendableOf(file, r) BY DEF Sendable, SendableOf
<1>3. \A a, b : Members(a, b) = MembersOf(file, a, b)
  BY <1>1, <1>2 DEF Members, LineStarts, MembersOf
<1>4. \A a, b : EventsIn(a, b) = EventsOf(file, a, b)
  BY <1>3 DEF EventsIn, EventsOf, EventAt
<1> QED BY <1>1, <1>2, <1>3, <1>4

\* A newline in front of the end settles what the lines before it are: an
\* append does not change them, although a line may be unfinished.
LEMMA SendableStable ==
  ASSUME NEW f \in Seq(Cell), NEW g \in Seq(Cell), Extends(f, g),
         NEW t \in Nat, NewlineOf(f, t), NEW p \in 0..(t-1)
  PROVE  SendableOf(g, p) <=> SendableOf(f, p)
<1>1. Len(f) \in Nat /\ Len(g) \in Nat BY LenProperties
<1>2. t \in 1..Len(f) /\ p + 1 \in 1..Len(f) BY <1>1 DEF NewlineOf
<1> DEFINE e == f[p+1][1]
<1>3. g[p+1] = f[p+1] BY <1>2 DEF Extends
<1>4. f[p+1] \in Cell BY <1>2, ElementOfSeq
<1>5. e \in Event /\ Size[e] \in Nat \ {0} BY <1>4, SizeAssumption DEF Cell
<1>6. SendableOf(g, p) <=> p + Size[e] <= Len(g) /\ \A k \in 1..Size[e] : g[p+k] = <<e, k>>
  BY <1>1, <1>2, <1>3 DEF SendableOf, Extends
<1>7. SendableOf(f, p) <=> p + Size[e] <= Len(f) /\ \A k \in 1..Size[e] : f[p+k] = <<e, k>>
  BY <1>1, <1>2 DEF SendableOf
<1> HIDE DEF e
<1>8. p + Size[e] <= Len(f) => (\A k \in 1..Size[e] : p + k \in 1..Len(f))
  BY <1>1, <1>5
<1>9. p + Size[e] <= Len(f) => (SendableOf(g, p) <=> SendableOf(f, p))
  <2> SUFFICES ASSUME p + Size[e] <= Len(f) PROVE SendableOf(g, p) <=> SendableOf(f, p)
    OBVIOUS
  <2>1. \A k \in 1..Size[e] : g[p+k] = f[p+k] BY <1>8 DEF Extends
  <2>2. p + Size[e] <= Len(g) BY <1>1, <1>5 DEF Extends
  <2> QED BY <2>1, <2>2, <1>6, <1>7
<1>10. SendableOf(g, p) => p + Size[e] <= t
  <2> SUFFICES ASSUME SendableOf(g, p), ~(p + Size[e] <= t) PROVE FALSE
    OBVIOUS
  <2>1. t - p \in 1..Size[e] /\ t - p # Size[e] BY <1>5
  <2>2. g[p + (t - p)] = <<e, t - p>> BY <2>1, <1>6
  <2>3. p + (t - p) = t BY <1>5
  <2>4. f[t] = <<e, t - p>> BY <2>2, <2>3, <1>2 DEF Extends
  <2>5. f[t][1] = e /\ f[t][2] = t - p BY <2>4
  <2> QED BY <2>1, <2>5 DEF NewlineOf
<1> QED BY <1>1, <1>2, <1>5, <1>7, <1>9, <1>10

\* The members of a range of whole lines outlive an append.
LEMMA MembersStable ==
  ASSUME NEW f \in Seq(Cell), NEW g \in Seq(Cell), Extends(f, g),
         NEW t \in Nat, NewlineOf(f, t), NEW a \in Nat, NEW b \in Int, b <= t
  PROVE  MembersOf(g, a, b) = MembersOf(f, a, b) /\ EventsOf(g, a, b) = EventsOf(f, a, b)
<1>1. Len(f) \in Nat /\ Len(g) \in Nat /\ t <= Len(f) BY LenProperties DEF NewlineOf
<1>2. \A p \in a..(b-1) : p \in 0..(t-1) OBVIOUS
<1>3. \A p \in a..(b-1) : SendableOf(g, p) <=> SendableOf(f, p)
  BY <1>2, SendableStable
<1>4. \A p \in a..(b-1) : NewlineOf(g, p) <=> NewlineOf(f, p)
  BY <1>1, <1>2 DEF NewlineOf, Extends
<1>5. \A p \in a..(b-1) : g[p+1] = f[p+1] BY <1>1, <1>2 DEF Extends
<1>6. MembersOf(g, a, b) = MembersOf(f, a, b) BY <1>3, <1>4 DEF MembersOf
<1>7. MembersOf(f, a, b) \subseteq a..(b-1) BY DEF MembersOf
<1> QED BY <1>5, <1>6, <1>7 DEF EventsOf

\* What the drain knows of the lines in hand outlives an append.
LEMMA HandStable ==
  ASSUME TypeInv, Grows, dpc \in InHand, UNCHANGED <<from, to, adv>>
  PROVE  /\ Sendable(from)' <=> Sendable(from)
         /\ EventAt(from)' = EventAt(from)
         /\ from + adv <= to => EventsIn(from, from + adv)' = EventsIn(from, from + adv)
<1> USE DEF TypeInv, TypeOK, LinesInHand, Grows
<1>1. NewlineOf(file, to) /\ from < to BY DEF IsNewline, NewlineOf
<1>2. Sendable(from)' <=> SendableOf(file', from) BY DEF Sendable, SendableOf
<1>3. SendableOf(file', from) <=> SendableOf(file, from) BY <1>1, SendableStable
<1>4. Len(file) \in Nat /\ from + 1 \in 1..Len(file) BY <1>1, LenProperties DEF NewlineOf
<1>5. EventAt(from)' = EventAt(from) BY <1>4 DEF EventAt, Extends
<1>6. EventsIn(from, from + adv)' = EventsOf(file', from, from + adv)
  BY DEF EventsIn, EventsOf, Members, MembersOf, LineStarts, IsNewline, NewlineOf,
         Sendable, SendableOf, EventAt
<1>7. from + adv <= to
      => EventsOf(file', from, from + adv) = EventsOf(file, from, from + adv)
  BY <1>1, MembersStable
<1> QED BY <1>2, <1>3, <1>5, <1>6, <1>7, ExplicitFile

\* An append that leaves the drain alone only has to leave whole lines behind.
LEMMA SettleGrows ==
  ASSUME TypeInv, SettleInv, Grows, UNCHANGED <<cursor, drainVars, answered, settled>>,
         WholeLines'
  PROVE  SettleInv'
<1> USE DEF SettleInv, drainVars, lineVars
<1>1. Len(file) \in Nat /\ Len(file') \in Nat /\ Len(file) <= Len(file')
  BY LenProperties DEF TypeInv, TypeOK, Grows, Extends
<1>2. ReaderAtCursor' BY <1>1 DEF ReaderAtCursor, TypeInv, TypeOK
<1>3. HandAtCursor' BY <1>1 DEF HandAtCursor, TypeInv, TypeOK
<1>4. CutChunk' /\ BatchStates' BY DEF CutChunk, BatchStates
<1>5. ChunkProven' BY HandStable DEF ChunkProven, InHand
<1>6. LineProven' BY HandStable DEF LineProven, InHand
<1>7. OnlyAnsweredSettled' BY DEF OnlyAnsweredSettled
<1> QED BY <1>2, <1>3, <1>4, <1>5, <1>6, <1>7

\* AppendTo leaves the drain's knowledge of the lines in hand true.
LEMMA SettleAppend ==
  ASSUME ReaderSafe, TypeInv, SettleInv, Append1
  PROVE  SettleInv'
<1> USE DEF TypeInv, TypeOK
<1>1. UNCHANGED file => Grows BY LenProperties DEF Grows, Extends
<1>2. ASSUME NEW e \in Event, AppendRefused(e) PROVE SettleInv'
  BY <1>1, <1>2, SettleGrows
     DEF AppendRefused, diskVars, lockVars, SettleInv, WholeLines, IsNewline
<1>3. ASSUME NEW e \in Event, AppendBegin(e) PROVE SettleInv'
  BY <1>1, <1>3, SettleGrows
     DEF AppendBegin, diskVars, histVars, SettleInv, WholeLines, IsNewline
<1>4. CASE AppendPart
  <2>1. PICK k \in 1..(Size[app] - 1) : file' = file \o SubSeq(Line(app), 1, k) /\ part' = k
    BY <1>4 DEF AppendPart
  <2>2. app \in Event /\ Size[app] \in Nat BY <1>4, SizeAssumption DEF AppendPart
  <2>3. k \in 0..Size[app] BY <2>2
  <2>4. SubSeq(Line(app), 1, k) \in Seq(Cell) BY <2>2, <2>3, LineTyped
  <2>5. Grows BY <2>1, <2>4, AppendGrows
  <2>6. ~Batch BY <1>4 DEF AppendPart, ReaderSafe
  <2> QED BY <1>4, <2>5, <2>6, SettleGrows DEF AppendPart, histVars, WholeLines
<1>5. CASE AppendDone
  <2> DEFINE rest == SubSeq(Line(app), part + 1, Size[app])
  <2>1. app \in Event /\ Size[app] \in Nat \ {0} BY <1>5, SizeAssumption DEF AppendDone
  <2>2. rest \in Seq(Cell) BY <2>1, LineTyped
  <2>3. Grows BY <1>5, <2>2, AppendGrows DEF AppendDone
  <2>4. WholeLines'
    <3> SUFFICES ASSUME Batch PROVE part' = 0 /\ IsNewline(Len(file))'
      BY DEF WholeLines
    <3>1. part = 0 /\ part' = 0 BY <1>5 DEF AppendDone, ReleaseAppend, SettleInv, WholeLines
    <3>2. Len(rest) = Size[app] /\ rest[Size[app]] = <<app, Size[app]>>
      <4>1. rest = SubSeq(Line(app), 1, Size[app]) BY <3>1
      <4>2. Size[app] <= Size[app] /\ Size[app] \in 1..Size[app] BY <2>1
      <4> QED BY <2>1, <4>1, <4>2, LinePrefix
    <3>3. /\ Len(file') = Len(file) + Size[app]
          /\ file'[Len(file) + Size[app]] = <<app, Size[app]>>
      BY <1>5, <2>1, <2>2, <3>2, AppendGrows DEF AppendDone
    <3>4. Len(file) \in Nat /\ Size[app] \in Nat /\ Size[app] > 0 BY <2>1, LenProperties, SMTT(30) DEF SettleInv
    <3>5. Len(file') \in 1..Len(file') BY <3>3, <3>4
    <3>6. file'[Len(file')][1] = app /\ file'[Len(file')][2] = Size[app] BY <3>3
    <3>7. IsNewline(Len(file))' BY <3>5, <3>6 DEF IsNewline
    <3> QED BY <3>1, <3>7
  <2> QED BY <1>5, <2>3, <2>4, SettleGrows DEF AppendDone
<1>6. CASE AppendFails
  BY <1>1, <1>6, SettleGrows
     DEF AppendFails, ReleaseAppend, diskVars, SettleInv, WholeLines, IsNewline
<1> QED BY <1>2, <1>3, <1>4, <1>5, <1>6 DEF Append1

\* In batch mode the reader finds nothing behind the last whole line.
LEMMA NoPartialLine ==
  ASSUME TypeInv, WholeLines, Batch, NEW r \in Nat, r <= Len(file), ~HasLine(r)
  PROVE  r = Len(file)
<1>1. Len(file) \in Nat BY LenProperties DEF TypeInv, TypeOK
<1>2. r < Len(file) => Len(file) \in (r+1)..Len(file) /\ IsNewline(Len(file))
  BY <1>1 DEF WholeLines
<1> QED BY <1>1, <1>2 DEF HasLine

\* Steps that leave the file alone keep the whole lines.
LEMMA SameWholeLines ==
  ASSUME WholeLines, UNCHANGED <<file, part>>
  PROVE  WholeLines'
BY DEF WholeLines, IsNewline

\* The reader hands over the lines that start at the cursor.
LEMMA SettleRead ==
  ASSUME TypeInv, SettleInv, DrainRead
  PROVE  SettleInv'
<1> USE DEF TypeInv, TypeOK, SettleInv, InHand
<1>1. CASE Rewind
  BY <1>1, SameWholeLines
     DEF Rewind, lockVars, drainVars, lineVars, histVars, ReaderAtCursor, HandAtCursor,
         CutChunk, BatchStates, ChunkProven, LineProven, OnlyAnsweredSettled
<1>2. CASE StartPass
  BY <1>2, SameWholeLines
     DEF StartPass, LoopTops, diskVars, lockVars, lineVars, histVars, ReaderAtCursor,
         HandAtCursor, CutChunk, BatchStates, ChunkProven, LineProven, OnlyAnsweredSettled
<1>3. CASE ReadChunk
  <2>1. PICK t \in {n \in (rpos+1)..Len(file) : IsNewline(n)} :
          /\ \/ rpos' = t /\ desynced' = FALSE
             \/ ~HasLine(t) /\ rpos' = Len(file) /\ desynced' = FALSE
             \/ "byteCap" \in Conditions /\ Sendable(t) /\ rpos' = LineEnd(t) /\ desynced' = TRUE
          /\ from' = rpos /\ to' = t
    BY <1>3 DEF ReadChunk
  <2>2. Batch BY <1>3 DEF ReadChunk, BatchStates
  <2>3. Len(file) \in Nat /\ t \in Nat /\ t <= Len(file) BY <2>1, LenProperties
  <2>4. ~HasLine(t) => t = Len(file) BY <2>2, <2>3, NoPartialLine
  <2>5. Sendable(t) => LineEnd(t) \in (t+1)..Len(file)
    BY <2>3, SendableHasLine, LineEndIsLeast
  <2>6. to' <= rpos' /\ rpos' <= Len(file) /\ (desynced' \/ rpos' = to')
        /\ (desynced' => "byteCap" \in Conditions)
    BY <2>1, <2>3, <2>4, <2>5
  <2>7. HandAtCursor' /\ CutChunk'
    BY <1>3, <2>1, <2>6 DEF ReadChunk, diskVars, HandAtCursor, CutChunk, ReaderAtCursor
  <2>8. ReaderAtCursor' /\ BatchStates' /\ ChunkProven' /\ LineProven'
    BY <1>3, <2>2 DEF ReadChunk, ReaderAtCursor, BatchStates, ChunkProven, LineProven
  <2>9. WholeLines' /\ OnlyAnsweredSettled'
    BY <1>3, SameWholeLines DEF ReadChunk, diskVars, lockVars, histVars, OnlyAnsweredSettled
  <2> QED BY <2>7, <2>8, <2>9
<1>4. CASE ReadNoChunk
  <2>1. Batch /\ rpos <= Len(file) BY <1>4 DEF ReadNoChunk, BatchStates, ReaderAtCursor
  <2>2. rpos' = rpos BY <1>4, <2>1, NoPartialLine DEF ReadNoChunk
  <2>3. ReaderAtCursor' BY <1>4, <2>2 DEF ReadNoChunk, ReaderAtCursor, diskVars
  <2> QED BY <1>4, <2>3, SameWholeLines
          DEF ReadNoChunk, diskVars, lockVars, lineVars, histVars, HandAtCursor,
              CutChunk, BatchStates, ChunkProven, LineProven, OnlyAnsweredSettled
<1>5. CASE ReadLine
  <2>1. LineEnd(rpos) \in (rpos+1)..Len(file) BY <1>5, LineEndIsLeast DEF ReadLine
  <2>2. Len(file) \in Nat BY LenProperties
  <2>3. HandAtCursor' BY <1>5, <2>1, <2>2 DEF ReadLine, HandAtCursor, ReaderAtCursor, diskVars
  <2>4. CutChunk' /\ BatchStates' /\ ReaderAtCursor' /\ ChunkProven' /\ LineProven'
    BY <1>5 DEF ReadLine, CutChunk, BatchStates, ReaderAtCursor, ChunkProven, LineProven
  <2> QED BY <1>5, <2>3, <2>4, SameWholeLines
          DEF ReadLine, diskVars, lockVars, histVars, OnlyAnsweredSettled
<1>6. CASE ReadNoLine
  BY <1>6, SameWholeLines
     DEF ReadNoLine, diskVars, lockVars, lineVars, histVars, ReaderAtCursor, HandAtCursor,
         CutChunk, BatchStates, ChunkProven, LineProven, OnlyAnsweredSettled
<1> QED BY <1>1, <1>2, <1>3, <1>4, <1>5, <1>6 DEF DrainRead

\* advanceOver passes no member the backend has not answered for.
LEMMA AdvanceProven ==
  ASSUME TypeInv, dpc = "sendChunk", NEW proven \in SUBSET Members(from, to)
  PROVE  EventsIn(from, AdvanceEnd(proven)) \subseteq {EventAt(p) : p \in proven}
<1> USE DEF TypeInv, TypeOK
<1> DEFINE open == Members(from, to) \ proven
<1> DEFINE end == AdvanceEnd(proven)
<1>1. end \in from..to BY AdvanceTyped
<1>2. Members(from, end) \subseteq Members(from, to) /\ Members(from, end) \subseteq from..(end-1)
  BY <1>1 DEF Members, LineStarts
<1>3. \A p \in open : end <= p
  <2> SUFFICES ASSUME open # {} PROVE \A p \in open : end <= p
    OBVIOUS
  <2>1. open \in SUBSET Nat BY EventsTyped
  <2>2. PICK p \in open : \A q \in open : p <= q BY <2>1, LeastElement
  <2> QED BY <2>2 DEF AdvanceEnd
<1>4. open \subseteq from..(to-1) BY EventsTyped
<1>5. \A p \in Members(from, end) : p \in proven BY <1>1, <1>2, <1>3, <1>4
<1> QED BY <1>5 DEF EventsIn

\* What is to be committed has been answered for.
LEMMA SettleSend ==
  ASSUME ReaderSafe, TypeInv, SettleInv, DrainSend
  PROVE  SettleInv'
<1> USE DEF TypeInv, TypeOK, SettleInv, InHand
<1>1. CASE ChunkFellBack
  <2>1. ~desynced BY <1>1 DEF ChunkFellBack, ReaderSafe, CutChunk, BatchStates
  <2> QED BY <1>1, <2>1, SameWholeLines
          DEF ChunkFellBack, diskVars, lockVars, histVars, ReaderAtCursor, HandAtCursor,
              CutChunk, BatchStates, ChunkProven, LineProven, OnlyAnsweredSettled
<1>2. CASE LineUnsendable
  BY <1>2, SameWholeLines
     DEF LineUnsendable, diskVars, lockVars, lineVars, histVars, ReaderAtCursor, HandAtCursor,
         CutChunk, BatchStates, ChunkProven, LineProven, OnlyAnsweredSettled, Sendable
<1>3. CASE LineAnswered
  <2>1. LineProven' BY <1>3 DEF LineAnswered, diskVars, lineVars, LineProven, EventAt
  <2> QED BY <1>3, <2>1, SameWholeLines
          DEF LineAnswered, diskVars, lockVars, lineVars, ReaderAtCursor, HandAtCursor,
              CutChunk, BatchStates, ChunkProven, OnlyAnsweredSettled
<1>4. ASSUME NEW proven \in SUBSET Members(from, to), ChunkAnswered(proven) PROVE SettleInv'
  <2>1. AdvanceEnd(proven) \in from..to BY <1>4, AdvanceTyped DEF ChunkAnswered
  <2>2. UNCHANGED <<file, from, to>> /\ adv' = AdvanceEnd(proven) - from
        /\ answered' = answered \cup {EventAt(p) : p \in proven}
    BY <1>4 DEF ChunkAnswered, diskVars
  <2>3. EventsIn(from, AdvanceEnd(proven)) \subseteq answered'
    BY <1>4, <2>2, AdvanceProven DEF ChunkAnswered
  <2>4. from + adv' = AdvanceEnd(proven) BY <2>1, <2>2
  <2>5. EventsIn(from, from + adv)' = EventsIn(from, from + adv')
    BY <2>2 DEF EventsIn, Members, LineStarts, IsNewline, Sendable, EventAt
  <2>6. ChunkProven' BY <2>1, <2>2, <2>3, <2>4, <2>5 DEF ChunkProven
  <2>7. HandAtCursor' /\ CutChunk' /\ BatchStates' /\ ReaderAtCursor' /\ LineProven'
    BY <1>4 DEF ChunkAnswered, diskVars, HandAtCursor, CutChunk, BatchStates,
                ReaderAtCursor, LineProven
  <2>8. OnlyAnsweredSettled' BY <1>4, <2>2 DEF ChunkAnswered, OnlyAnsweredSettled
  <2> QED BY <1>4, <2>6, <2>7, <2>8, SameWholeLines DEF ChunkAnswered, diskVars, lockVars
<1> QED BY <1>1, <1>2, <1>3, <1>4 DEF DrainSend

\* A line holds no other line.
LEMMA OneLine ==
  ASSUME file \in Seq(Cell), NEW a \in Nat, NEW b \in Nat, a < b,
         \A m \in (a+1)..(b-1) : ~IsNewline(m)
  PROVE  EventsIn(a, b) \subseteq IF Sendable(a) THEN {EventAt(a)} ELSE {}
<1>1. \A p \in LineStarts(a, b) : p = a BY DEF LineStarts
<1>2. \A p \in Members(a, b) : p = a /\ Sendable(a) BY <1>1 DEF Members
<1> QED BY <1>2 DEF EventsIn

\* A cursor write passes answered lines only, and the reader stays at the cursor.
LEMMA SettleCommit ==
  ASSUME TypeInv, SettleInv, DrainCommit
  PROVE  SettleInv'
<1> USE DEF TypeInv, TypeOK, SettleInv, InHand
<1>1. CASE CommitChunk
  <2>1. UNCHANGED <<file, part, answered>> BY <1>1 DEF CommitChunk, lockVars
  <2>2. from = cur /\ cur = cursor BY <1>1 DEF CommitChunk, HandAtCursor
  <2>3. EventsIn(cursor, cur + adv) \subseteq answered
    BY <1>1, <2>2 DEF CommitChunk, ChunkProven
  <2>4. OnlyAnsweredSettled'
    BY <1>1, <2>1, <2>3 DEF CommitChunk, MoveCursor, OnlyAnsweredSettled
  <2>5. WholeLines' BY <2>1, SameWholeLines
  <2>6. CASE dpc' = "idle"
    <3>1. desynced' = FALSE BY <1>1 DEF CommitChunk, EndPass, DropLines
    <3> QED BY <2>4, <2>5, <2>6, <3>1
            DEF ReaderAtCursor, HandAtCursor, CutChunk, BatchStates, ChunkProven, LineProven
  <2>7. CASE dpc' # "idle"
    <3>1. ~(from + adv < to \/ desynced) BY <1>1, <2>7 DEF CommitChunk, EndPass
    <3>2. cur' = cur + adv /\ cursor' = cur + adv /\ rpos' = rpos /\ desynced' = FALSE
          /\ dpc' \in LoopTops
      BY <1>1, <3>1 DEF CommitChunk, MoveCursor, DropLines
    <3>3. rpos = from + adv /\ rpos <= Len(file)
      BY <1>1, <3>1 DEF CommitChunk, HandAtCursor, ChunkProven
    <3>4. ReaderAtCursor' BY <2>1, <2>2, <3>2, <3>3 DEF ReaderAtCursor
    <3> QED BY <2>4, <2>5, <3>2, <3>4
            DEF LoopTops, HandAtCursor, CutChunk, BatchStates, ChunkProven, LineProven
  <2> QED BY <2>6, <2>7
<1>2. CASE CommitLine
  <2> DEFINE end == LineEnd(from)
  <2>1. UNCHANGED <<file, part, rpos, answered>> BY <1>2 DEF CommitLine, lockVars
  <2>2. from = cur /\ cur = cursor /\ ~desynced /\ rpos = to /\ rpos <= Len(file)
    BY <1>2 DEF CommitLine, HandAtCursor, CutChunk
  <2>3. end \in (from+1)..to /\ \A m \in (from+1)..(end-1) : ~IsNewline(m)
    BY <1>2, LineEndBefore DEF CommitLine, LinesInHand, IsNewline
  <2>4. EventsIn(from, end) \subseteq answered
    BY <1>2, <2>3, OneLine DEF CommitLine, LineProven
  <2>5. cursor' = end /\ cur' = end /\ settled' = settled \cup EventsIn(from, end)
    BY <1>2, <2>2, <2>3 DEF CommitLine, MoveCursor
  <2>6. OnlyAnsweredSettled' BY <2>1, <2>4, <2>5 DEF OnlyAnsweredSettled
  <2>7. WholeLines' BY <2>1, SameWholeLines
  <2>8. CASE end < to
    <3>1. from' = end /\ dpc' = "sendLine" /\ UNCHANGED <<to, desynced>>
      BY <1>2, <2>8 DEF CommitLine
    <3> QED BY <2>1, <2>2, <2>5, <2>6, <2>7, <3>1
            DEF ReaderAtCursor, HandAtCursor, CutChunk, BatchStates, ChunkProven, LineProven
  <2>9. CASE ~(end < to)
    <3>1. end = to BY <2>3, <2>9
    <3>2. dpc' \in {"readBatch", "readLine"} /\ (dpc' = "readBatch" => Batch)
          /\ desynced' = FALSE
      BY <1>2, <2>9 DEF CommitLine, LoopTops, DropLines
    <3>3. ReaderAtCursor' BY <2>1, <2>2, <2>5, <3>1 DEF ReaderAtCursor
    <3> QED BY <2>6, <2>7, <3>2, <3>3
            DEF HandAtCursor, CutChunk, BatchStates, ChunkProven, LineProven
  <2> QED BY <2>8, <2>9
<1>3. CASE CommitFails
  BY <1>3, SameWholeLines
     DEF CommitFails, EndPass, DropLines, diskVars, lockVars, histVars, ReaderAtCursor,
         HandAtCursor, CutChunk, BatchStates, ChunkProven, LineProven, OnlyAnsweredSettled
<1> QED BY <1>1, <1>2, <1>3 DEF DrainCommit

\* No lines are in hand while compact runs.
LEMMA SettleIdle ==
  ASSUME SettleInv, UNCHANGED <<answered, settled>>, desynced' = FALSE, WholeLines',
         dpc' \in {"idle", "truncated", "tailCopied", "renaming"}
  PROVE  SettleInv'
BY DEF SettleInv, ReaderAtCursor, HandAtCursor, InHand, CutChunk, BatchStates, ChunkProven,
       LineProven, OnlyAnsweredSettled

\* The tail of a file ends where the file ends.
LEMMA TailEnds ==
  ASSUME TypeInv, file' = SubSeq(file, cur + 1, Len(file)),
         Len(file) = 0 \/ IsNewline(Len(file))
  PROVE  Len(file') = 0 \/ IsNewline(Len(file))'
<1>1. file \in Seq(Cell) /\ cur \in Nat BY DEF TypeInv, TypeOK
<1>2. Len(file) \in Nat BY <1>1, LenProperties
<1>3. \A i \in (cur+1)..Len(file) : file[i] \in Cell BY <1>1, <1>2, ElementOfSeq
<1>4. /\ Len(file') = IF cur + 1 <= Len(file) THEN Len(file) - (cur + 1) + 1 ELSE 0
      /\ \A i \in 1..(Len(file) - (cur + 1) + 1) : file'[i] = file[(cur + 1) + i - 1]
  BY <1>1, <1>2, <1>3, SubSeqProperties
<1>5. CASE Len(file) <= cur
  BY <1>1, <1>2, <1>4, <1>5
<1>6. CASE cur < Len(file)
  <2>1. Len(file') = Len(file) - cur BY <1>1, <1>2, <1>4, <1>6
  <2>2. Len(file') \in 1..(Len(file) - (cur + 1) + 1) BY <1>1, <1>2, <1>6, <2>1
  <2>3. (cur + 1) + (Len(file) - cur) - 1 = Len(file) BY <1>1, <1>2
  <2>4. file'[Len(file')] = file[Len(file)] BY <1>4, <2>1, <2>2, <2>3
  <2>5. IsNewline(Len(file)) BY <1>1, <1>2, <1>6
  <2>6. Len(file') \in 1..Len(file') BY <1>1, <1>2, <1>6, <2>1
  <2> QED BY <2>4, <2>5, <2>6 DEF IsNewline
<1> QED BY <1>1, <1>2, <1>5, <1>6

\* Compacting forgets the lines in hand and keeps whole lines whole.
LEMMA SettleCompact ==
  ASSUME TypeInv, SettleInv, Compact \/ Crash
  PROVE  SettleInv'
<1> USE DEF TypeInv, TypeOK
<1>1. WholeLines /\ (desynced => dpc \in {"sendChunk", "commitChunk"})
  BY DEF SettleInv, CutChunk
<1>2. CASE CompactNothing
  BY <1>1, <1>2, SameWholeLines, SettleIdle
     DEF CompactNothing, EndPass, DropLines, diskVars, lockVars, histVars
<1>3. CASE CompactTruncate
  <2>1. WholeLines' BY <1>1, <1>3 DEF CompactTruncate, WholeLines
  <2> QED BY <1>1, <1>3, <2>1, SettleIdle DEF CompactTruncate, lineVars, histVars
<1>4. CASE TruncateZero
  BY <1>1, <1>4, SameWholeLines, SettleIdle DEF TruncateZero, EndPass, DropLines, histVars
<1>5. CASE TailCopy
  BY <1>1, <1>5, SameWholeLines, SettleIdle DEF TailCopy, diskVars, lineVars, histVars
<1>6. CASE TailZero
  BY <1>1, <1>6, SameWholeLines, SettleIdle DEF TailZero, lockVars, lineVars, histVars
<1>7. CASE TailRename
  <2>1. WholeLines'
    BY <1>1, <1>7, TailEnds DEF TailRename, WholeLines
  <2> QED BY <1>7, <2>1, SettleIdle DEF TailRename, EndPass, DropLines, histVars
<1>8. CASE TailFails
  BY <1>1, <1>8, SameWholeLines, SettleIdle DEF TailFails, EndPass, DropLines, diskVars, histVars
<1>9. CASE Crash
  BY <1>1, <1>9, SameWholeLines, SettleIdle DEF Crash, EndPass, DropLines, diskVars, histVars
<1> QED BY <1>2, <1>3, <1>4, <1>5, <1>6, <1>7, <1>8, <1>9 DEF Compact

\* SettleInv is inductive under ReaderSafe.
LEMMA SettleInvariant ==
  ASSUME ReaderSafe
  PROVE  Spec => []SettleInv
<1>1. Init => SettleInv
  <2> SUFFICES ASSUME Init PROVE SettleInv
    OBVIOUS
  <2>1. Len(file) = 0 BY DEF Init
  <2> QED BY <2>1 DEF Init, SettleInv, ReaderAtCursor, HandAtCursor, InHand, CutChunk,
                      BatchStates, WholeLines, ChunkProven, LineProven, OnlyAnsweredSettled
<1>2. TypeInv /\ SettleInv /\ [Next]_vars => SettleInv'
  <2> SUFFICES ASSUME TypeInv, SettleInv, [Next]_vars PROVE SettleInv'
    OBVIOUS
  <2>1. CASE Next
    BY <2>1, SettleAppend, SettleRead, SettleSend, SettleCommit, SettleCompact DEF Next
  <2>2. CASE UNCHANGED vars
    <3>1. UNCHANGED <<file, part, cursor, drainVars, answered, settled>>
      BY <2>2 DEF vars, diskVars, lockVars, histVars
    <3>2. Grows BY <3>1, LenProperties DEF Grows, Extends, TypeInv, TypeOK
    <3> QED BY <3>1, <3>2, SameWholeLines, SettleGrows DEF SettleInv
  <2> QED BY <2>1, <2>2
<1> QED BY <1>1, <1>2, TypeInvariant, PTL DEF Spec

\* "Only 2xx and 400/422 advance": whatever the cursor has passed was answered
\* for, through crashes, failed writes, torn lines and stale cursors, as long as
\* batch mode meets no split append and no cut chunk falls back.
THEOREM SettledAnswered ==
  ASSUME ReaderSafe
  PROVE  Spec => []OnlyAnsweredSettled
<1>1. SettleInv => OnlyAnsweredSettled BY DEF SettleInv
<1> QED BY <1>1, SettleInvariant, PTL

-----------------------------------------------------------------------------
(* Nothing is lost.                                                         *)

\* On top of ReaderSafe: no append dies in mid-line, and the truncation of
\* compact is not separated from its cursor write.
Durable == ReaderSafe /\ "tornWrite" \notin Conditions /\ "truncateCrash" \notin Conditions

\* Nothing of a line lies before offset n without the rest of it.
AtLine(n) == n = 0 \/ IsNewline(n)

\* The only unfinished line is the first part of the append that holds the lock.
OneUnfinished ==
  /\ part <= Len(file) /\ AtLine(Len(file) - part)
  /\ part > 0 => /\ lock = "append" /\ part < Size[app]
                 /\ \A k \in 1..part : file[Len(file) - part + k] = <<app, k>>

\* The cursor is at a line, and where compact copies from is the cursor it found.
CursorAtLine ==
  /\ IF dpc = "truncated" THEN file = <<>> ELSE AtLine(cursor)
  /\ dpc \in {"compact", "tailCopied"} => cur = cursor
  /\ dpc = "renaming" => cursor = 0 /\ AtLine(cur)
  /\ dpc = "commitChunk" => AtLine(from + adv)

\* The offset from which every accepted event without an answer can be read.
KeptFrom == IF dpc = "renaming" THEN cur ELSE cursor

Remembered == acked \subseteq answered \cup
                              (IF dpc = "truncated" THEN {} ELSE EventsIn(KeptFrom, Len(file)))

KeepInv == OneUnfinished /\ CursorAtLine /\ Remembered

-----------------------------------------------------------------------------
(* Ranges of lines.                                                         *)

\* What is behind a line start can be read from any earlier one.
LEMMA EarlierStart ==
  ASSUME NEW a \in Nat, NEW c \in Nat, NEW b \in Int, a <= c, AtLine(c)
  PROVE  EventsIn(c, b) \subseteq EventsIn(a, b)
<1>1. \A p \in LineStarts(c, b) : p \in a..(b-1) /\ (p = a \/ IsNewline(p))
  BY DEF LineStarts, AtLine
<1>2. LineStarts(c, b) \subseteq LineStarts(a, b) BY <1>1 DEF LineStarts
<1> QED BY <1>2 DEF EventsIn, Members

\* A range splits anywhere.
LEMMA SplitRange ==
  ASSUME NEW a \in Nat, NEW c \in Nat, NEW b \in Int, a <= c
  PROVE  EventsIn(a, b) \subseteq EventsIn(a, c) \cup EventsIn(c, b)
<1>1. \A p \in LineStarts(a, b) : p \in LineStarts(a, c) \/ p \in LineStarts(c, b)
  BY DEF LineStarts
<1> QED BY <1>1 DEF EventsIn, Members

\* An append adds to what can be read.
LEMMA GrowingReadable ==
  ASSUME NEW f \in Seq(Cell), NEW g \in Seq(Cell), Extends(f, g), NEW a \in Nat
  PROVE  EventsOf(f, a, Len(f)) \subseteq EventsOf(g, a, Len(g))
<1>1. Len(f) \in Nat /\ Len(g) \in Nat /\ Len(f) <= Len(g) BY LenProperties DEF Extends
<1> SUFFICES ASSUME NEW p \in MembersOf(f, a, Len(f))
             PROVE  p \in MembersOf(g, a, Len(g)) /\ g[p+1] = f[p+1]
  BY DEF EventsOf
<1>2. p \in Nat /\ p \in a..(Len(f)-1) /\ p \in a..(Len(g)-1) BY <1>1 DEF MembersOf
<1>3. p + 1 \in 1..Len(f) /\ g[p+1] = f[p+1] BY <1>1, <1>2 DEF Extends
<1>4. NewlineOf(f, p) => NewlineOf(g, p) BY <1>1 DEF NewlineOf, Extends
<1>5. SendableOf(g, p)
  <2> DEFINE e == f[p+1][1]
  <2>1. f[p+1] \in Cell BY <1>3, ElementOfSeq
  <2>2. e \in Event /\ Size[e] \in Nat BY <2>1, SizeAssumption DEF Cell
  <2>3. p + Size[e] <= Len(f) /\ \A k \in 1..Size[e] : f[p+k] = <<e, k>>
    BY DEF MembersOf, SendableOf
  <2> HIDE DEF e
  <2>4. \A k \in 1..Size[e] : p + k \in 1..Len(f) BY <1>1, <1>2, <2>2, <2>3
  <2>5. \A k \in 1..Size[e] : g[p+k] = <<e, k>> BY <2>3, <2>4 DEF Extends
  <2>6. p + Size[e] <= Len(g) /\ p < Len(g) BY <1>1, <1>2, <2>2, <2>3
  <2> QED BY <1>3, <2>5, <2>6 DEF SendableOf, e
<1> QED BY <1>2, <1>3, <1>4, <1>5 DEF MembersOf

\* Cutting off what lies before c moves the lines behind it to the front.
LEMMA ShiftedReadable ==
  ASSUME NEW f \in Seq(Cell), NEW c \in Nat
  PROVE  EventsOf(f, c, Len(f))
           \subseteq EventsOf(SubSeq(f, c + 1, Len(f)), 0, Len(SubSeq(f, c + 1, Len(f))))
<1> DEFINE g == SubSeq(f, c + 1, Len(f))
<1>1. Len(f) \in Nat BY LenProperties
<1>2. \A i \in (c+1)..Len(f) : f[i] \in Cell BY <1>1, ElementOfSeq
<1>3. /\ Len(g) = IF c + 1 <= Len(f) THEN Len(f) - (c + 1) + 1 ELSE 0
      /\ \A i \in 1..(Len(f) - (c + 1) + 1) : g[i] = f[(c + 1) + i - 1]
  BY <1>1, <1>2, SubSeqProperties
<1> HIDE DEF g
<1> SUFFICES ASSUME NEW p \in MembersOf(f, c, Len(f))
             PROVE  \E q \in MembersOf(g, 0, Len(g)) : g[q+1] = f[p+1]
  BY DEF EventsOf, g
<1>4. p \in Nat /\ c <= p /\ p < Len(f) BY <1>1 DEF MembersOf
<1>5. Len(g) = Len(f) - c BY <1>1, <1>3, <1>4
<1>6. \A n \in (c+1)..Len(f) : g[n - c] = f[n]
  <2> SUFFICES ASSUME NEW n \in (c+1)..Len(f) PROVE g[n - c] = f[n]
    OBVIOUS
  <2>1. n - c \in 1..(Len(f) - (c + 1) + 1) /\ (c + 1) + (n - c) - 1 = n BY <1>1
  <2> QED BY <1>3, <2>1
<1> DEFINE q == p - c
<1>7. q \in 0..(Len(g)-1) BY <1>1, <1>4, <1>5
<1>8. g[q+1] = f[p+1]
  <2>1. p + 1 \in (c+1)..Len(f) /\ (p + 1) - c = q + 1 BY <1>1, <1>4
  <2> QED BY <1>6, <2>1
<1>9. q = 0 \/ NewlineOf(g, q)
  <2> SUFFICES ASSUME q # 0 PROVE NewlineOf(g, q)
    OBVIOUS
  <2>1. NewlineOf(f, p) BY <1>4 DEF MembersOf
  <2>2. p \in (c+1)..Len(f) /\ q \in 1..Len(g) BY <1>1, <1>4, <1>5
  <2>3. g[q] = f[p] BY <1>6, <2>2
  <2> QED BY <2>1, <2>2, <2>3 DEF NewlineOf
<1>10. SendableOf(g, q)
  <2> DEFINE e == f[p+1][1]
  <2>1. p + 1 \in 1..Len(f) BY <1>1, <1>4
  <2>2. f[p+1] \in Cell BY <2>1, ElementOfSeq
  <2>3. e \in Event /\ Size[e] \in Nat BY <2>2, SizeAssumption DEF Cell
  <2>4. p + Size[e] <= Len(f) /\ \A k \in 1..Size[e] : f[p+k] = <<e, k>>
    BY DEF MembersOf, SendableOf
  <2> HIDE DEF e
  <2>5. \A k \in 1..Size[e] : p + k \in (c+1)..Len(f) /\ (p + k) - c = q + k
    BY <1>1, <1>4, <2>3, <2>4
  <2>6. \A k \in 1..Size[e] : g[q+k] = <<e, k>> BY <1>6, <2>4, <2>5
  <2>7. q + Size[e] <= Len(g) /\ q < Len(g) BY <1>1, <1>4, <1>5, <1>7, <2>3, <2>4
  <2> QED BY <1>8, <2>6, <2>7 DEF SendableOf, e
<1>11. q \in MembersOf(g, 0, Len(g)) BY <1>7, <1>9, <1>10 DEF MembersOf
<1> QED BY <1>8, <1>11

-----------------------------------------------------------------------------
(* KeepInv is inductive.                                                    *)

\* An offset at a line stays one when the file grows.
LEMMA AtLineStable ==
  ASSUME file \in Seq(Cell), Grows, NEW n \in Int, AtLine(n)
  PROVE  AtLine(n)'
BY GrowsNewline DEF AtLine

\* Steps that leave the disk, the append and what is accepted alone, outside the
\* steps of compact that move the lines.
LEMMA KeepSame ==
  ASSUME KeepInv, UNCHANGED <<file, cursor, part, acked>>,
         part = 0 \/ UNCHANGED <<lock, app>>,
         answered \subseteq answered', dpc \notin {"truncated", "renaming"},
         dpc' \in {"compact", "tailCopied"} => cur' = cursor,
         dpc' \notin {"truncated", "renaming"},
         dpc' = "commitChunk" => AtLine(from' + adv')
  PROVE  KeepInv'
<1> USE DEF KeepInv
<1>1. OneUnfinished' BY DEF OneUnfinished, AtLine, IsNewline
<1>2. CursorAtLine' BY DEF CursorAtLine, AtLine, IsNewline
<1>3. EventsIn(KeptFrom, Len(file))' = EventsIn(KeptFrom, Len(file))
  BY DEF KeptFrom, EventsIn, Members, LineStarts, IsNewline, Sendable, EventAt
<1>4. Remembered' BY <1>3 DEF Remembered
<1> QED BY <1>1, <1>2, <1>4

\* The lane with a longer file remembers at least as much.
LEMMA KeepGrows ==
  ASSUME KeepInv, TypeInv, Grows, UNCHANGED <<cursor, drainVars>>, lock \in {"free", "append"}
  PROVE  /\ CursorAtLine'
         /\ EventsIn(KeptFrom, Len(file)) \subseteq EventsIn(KeptFrom, Len(file))'
         /\ dpc \notin {"truncated", "renaming"} /\ KeptFrom = cursor
<1> USE DEF TypeInv, TypeOK, drainVars, lineVars
<1>1. dpc \notin {"truncated", "tailCopied", "renaming"} BY DEF CompactLocked
<1>2. AtLine(cursor) /\ AtLine(cursor)'
  BY <1>1, AtLineStable DEF KeepInv, CursorAtLine
<1>3. AtLine(from + adv) => AtLine(from + adv)' BY AtLineStable DEF AtLine, IsNewline
<1>4. CursorAtLine' BY <1>1, <1>2, <1>3 DEF KeepInv, CursorAtLine
<1>5. EventsOf(file, cursor, Len(file)) \subseteq EventsOf(file', cursor, Len(file'))
  BY GrowingReadable DEF Grows
<1>6. EventsIn(KeptFrom, Len(file))' = EventsOf(file', cursor, Len(file'))
  BY <1>1 DEF KeptFrom, EventsIn, EventsOf, Members, MembersOf, LineStarts, IsNewline,
              NewlineOf, Sendable, SendableOf, EventAt
<1>7. EventsIn(KeptFrom, Len(file)) = EventsOf(file, cursor, Len(file))
  BY <1>1, ExplicitFile DEF KeptFrom
<1> QED BY <1>1, <1>4, <1>5, <1>6, <1>7 DEF KeptFrom

\* The completed line: its cells, its place, and that the drain can read it.
LEMMA CompletedLine ==
  ASSUME KeepInv, TypeInv, AppendDone
  PROVE  /\ Grows
         /\ IsNewline(Len(file))'
         /\ app \in EventsOf(file', cursor, Len(file'))
         /\ Len(file) - part \in Nat /\ cursor <= Len(file) - part
         /\ Len(file') = Len(file) - part + Size[app]
         /\ \A k \in 1..Size[app] : file'[Len(file) - part + k] = <<app, k>>
<1> USE DEF TypeInv, TypeOK
<1> DEFINE rest == SubSeq(Line(app), part + 1, Size[app])
           b    == Len(file) - part
           S    == Size[app]
<1>1. app \in Event /\ S \in Nat \ {0} /\ part \in Nat
  BY SizeAssumption DEF AppendDone
<1>2. /\ part < S /\ AtLine(b)
      /\ \A k \in 1..part : file[b + k] = <<app, k>>
  <2>1. part > 0 => part < S /\ \A k \in 1..part : file[b + k] = <<app, k>>
    BY DEF KeepInv, OneUnfinished
  <2>2. AtLine(b) BY DEF KeepInv, OneUnfinished
  <2> HIDE DEF b, S
  <2> QED BY <1>1, <2>1, <2>2
<1>3. Len(file) \in Nat /\ b \in Nat BY LenProperties DEF KeepInv, OneUnfinished
<1>4. /\ rest \in Seq(Cell) /\ Len(rest) = S - part
      /\ \A k \in (part+1)..S : rest[k - part] = <<app, k>>
  <2>1. part + 1 \in Nat \ {0} /\ S \in 0..S BY <1>1
  <2>2. /\ rest \in Seq(Cell)
        /\ Len(rest) = IF part + 1 <= S THEN S - (part + 1) + 1 ELSE 0
        /\ \A i \in 1..(S - (part + 1) + 1) : rest[i] = <<app, (part + 1) + i - 1>>
    BY <1>1, <2>1, LineTyped
  <2>3. \A k \in (part+1)..S : /\ k - part \in 1..(S - (part + 1) + 1)
                               /\ (part + 1) + (k - part) - 1 = k
    BY <1>1
  <2>4. \A k \in (part+1)..S : rest[k - part] = <<app, k>>
    <3> SUFFICES ASSUME NEW k \in (part+1)..S PROVE rest[k - part] = <<app, k>>
      OBVIOUS
    <3>1. rest[k - part] = <<app, (part + 1) + (k - part) - 1>> BY <2>2, <2>3
    <3> QED BY <2>3, <3>1
  <2>5. Len(rest) = S - part BY <1>1, <1>2, <2>2
  <2> QED BY <2>2, <2>4, <2>5
<1> HIDE DEF rest
<1>5. /\ Grows /\ Len(file') = b + S
      /\ \A i \in 1..Len(rest) : file'[Len(file) + i] = rest[i]
  <2>1. file' = file \o rest BY DEF AppendDone, rest
  <2>2. /\ Grows /\ Len(file') = Len(file) + Len(rest)
        /\ \A i \in 1..Len(rest) : file'[Len(file) + i] = rest[i]
    BY <1>4, <2>1, AppendGrows
  <2> QED BY <1>1, <1>3, <1>4, <2>2
<1>6. \A k \in 1..S : file'[b + k] = <<app, k>>
  <2> SUFFICES ASSUME NEW k \in 1..S PROVE file'[b + k] = <<app, k>>
    OBVIOUS
  <2>1. CASE k <= part
    <3>1. file[b + k] = <<app, k>> BY <1>1, <1>2, <2>1
    <3>2. b + k \in 1..Len(file) BY <1>1, <1>3, <2>1
    <3> QED BY <1>5, <3>1, <3>2 DEF Grows, Extends
  <2>2. CASE ~(k <= part)
    <3>1. k \in (part+1)..S /\ k - part \in 1..Len(rest) /\ Len(file) + (k - part) = b + k
      BY <1>1, <1>3, <1>4, <2>2
    <3>2. file'[Len(file) + (k - part)] = rest[k - part] BY <1>5, <3>1
    <3> QED BY <1>4, <3>1, <3>2
  <2> QED BY <2>1, <2>2
<1> HIDE DEF b, S
<1>7. IsNewline(Len(file))'
  <2>1. Len(file') \in 1..Len(file') BY <1>1, <1>3, <1>5
  <2>2. file'[Len(file')] = <<app, S>> BY <1>1, <1>5, <1>6
  <2>3. file'[Len(file')][1] = app /\ file'[Len(file')][2] = S BY <2>2
  <2> QED BY <2>1, <2>3 DEF IsNewline, S
<1>8. AtLine(cursor) /\ cursor <= b
  <2>1. AtLine(cursor) BY DEF KeepInv, CursorAtLine, CompactLocked, AppendDone
  <2>2. SUFFICES ASSUME cursor > b PROVE FALSE
    BY <1>3, <2>1
  <2>3. IsNewline(cursor) BY <1>3, <2>1, <2>2 DEF AtLine
  <2>4. cursor \in 1..Len(file) BY <2>3 DEF IsNewline
  <2>5. cursor - b \in 1..part /\ b + (cursor - b) = cursor BY <1>1, <1>3, <2>2, <2>4 DEF b
  <2>6. file[cursor] = <<app, cursor - b>> BY <1>2, <2>5
  <2>7. file[cursor][1] = app /\ file[cursor][2] = cursor - b BY <2>6
  <2>8. cursor - b < S BY <1>1, <1>2, <2>5
  <2>9. cursor - b = S BY <2>3, <2>7 DEF IsNewline, S
  <2> QED BY <1>1, <2>8, <2>9
<1>9. b = cursor \/ NewlineOf(file', b)
  <2>1. b # cursor => IsNewline(b) BY <1>2, <1>3, <1>8 DEF AtLine
  <2>2. IsNewline(b) => b \in 1..Len(file) /\ b \in 1..Len(file') /\ file'[b] = file[b]
    BY <1>1, <1>3, <1>5 DEF IsNewline, Grows, Extends
  <2> QED BY <2>1, <2>2 DEF IsNewline, NewlineOf
<1>10. SendableOf(file', b) /\ file'[b + 1] = <<app, 1>>
  <2>1. b < Len(file') /\ b + S <= Len(file') /\ 1 \in 1..S BY <1>1, <1>3, <1>5
  <2>2. file'[b + 1] = <<app, 1>> BY <1>6, <2>1
  <2>3. file'[b + 1][1] = app BY <2>2
  <2> QED BY <1>6, <2>1, <2>2, <2>3 DEF SendableOf, S
<1>11. b \in MembersOf(file', cursor, Len(file'))
  <2>1. b \in cursor..(Len(file')-1) BY <1>1, <1>3, <1>5, <1>8
  <2> QED BY <1>9, <1>10, <2>1 DEF MembersOf
<1>12. app \in EventsOf(file', cursor, Len(file'))
  <2>1. file'[b + 1][1] = app BY <1>10
  <2> QED BY <1>11, <2>1 DEF EventsOf
<1>13. Len(file) - part = b /\ Size[app] = S BY DEF b, S
<1> QED BY <1>3, <1>5, <1>6, <1>7, <1>8, <1>12, <1>13

\* An append that returns nil leaves its event readable.
LEMMA KeepAppend ==
  ASSUME Durable, TypeInv, SettleInv, KeepInv, Append1
  PROVE  KeepInv'
<1> USE DEF TypeInv, TypeOK
<1>1. UNCHANGED file => Grows BY LenProperties DEF Grows, Extends
<1>2. lock # "append" => part = 0 BY DEF KeepInv, OneUnfinished
<1>3. ASSUME NEW e \in Event, AppendRefused(e) PROVE KeepInv'
  <2>1. UNCHANGED <<file, cursor, drainVars, lock, app, part, acked, answered>>
    BY <1>3 DEF AppendRefused, diskVars, lockVars
  <2>2. lock \in {"free", "append"} BY <1>3 DEF AppendRefused
  <2>3. OneUnfinished' BY <2>1 DEF KeepInv, OneUnfinished, AtLine, IsNewline
  <2>4. dpc' = dpc BY <2>1 DEF drainVars
  <2> QED BY <1>1, <2>1, <2>2, <2>3, <2>4, KeepGrows DEF KeepInv, Remembered
<1>4. ASSUME NEW e \in Event, AppendBegin(e) PROVE KeepInv'
  <2>1. UNCHANGED <<file, cursor, drainVars, acked, answered>> /\ part = 0 /\ part' = 0
    BY <1>2, <1>4 DEF AppendBegin, diskVars, histVars
  <2>2. lock \in {"free", "append"} BY <1>4 DEF AppendBegin
  <2>3. OneUnfinished' BY <2>1 DEF KeepInv, OneUnfinished, AtLine, IsNewline
  <2>4. dpc' = dpc BY <2>1 DEF drainVars
  <2> QED BY <1>1, <2>1, <2>2, <2>3, <2>4, KeepGrows DEF KeepInv, Remembered
<1>5. CASE AppendPart
  <2>1. PICK k \in 1..(Size[app] - 1) : file' = file \o SubSeq(Line(app), 1, k) /\ part' = k
    BY <1>5 DEF AppendPart
  <2>2. /\ app \in Event /\ Size[app] \in Nat \ {0} /\ lock = "append" /\ part = 0
        /\ UNCHANGED <<cursor, lock, app, drainVars, acked, answered>>
    BY <1>5, SizeAssumption DEF AppendPart, histVars
  <2>3. k \in Nat \ {0} /\ k \in 0..Size[app] /\ k < Size[app] BY <2>2
  <2>4. /\ SubSeq(Line(app), 1, k) \in Seq(Cell)
        /\ Len(SubSeq(Line(app), 1, k)) = k
        /\ \A i \in 1..k : SubSeq(Line(app), 1, k)[i] = <<app, i>>
    BY <2>2, <2>3, LinePrefix
  <2>5. /\ Grows /\ Len(file') = Len(file) + k
        /\ \A i \in 1..k : file'[Len(file) + i] = <<app, i>>
    BY <2>1, <2>4, AppendGrows
  <2>6. OneUnfinished'
    <3>1. Len(file) \in Nat BY LenProperties
    <3>2. AtLine(Len(file)) BY <2>2, <3>1 DEF KeepInv, OneUnfinished
    <3>3. Len(file') - k = Len(file) BY <2>3, <2>5, <3>1
    <3>4. Len(file) = 0 \/ NewlineOf(file', Len(file))
      BY <2>5, <3>1, <3>2 DEF AtLine, IsNewline, NewlineOf, Grows, Extends
    <3>5. AtLine(Len(file) - part)'
      BY <2>1, <3>3, <3>4 DEF AtLine, IsNewline, NewlineOf
    <3>6. part' <= Len(file') BY <2>1, <2>3, <2>5, <3>1
    <3>7. \A i \in 1..part' : file'[Len(file') - part' + i] = <<app', i>>
      BY <2>1, <2>2, <2>5, <3>3
    <3> QED BY <2>1, <2>2, <2>3, <3>5, <3>6, <3>7 DEF OneUnfinished
  <2>7. dpc' = dpc BY <2>2 DEF drainVars
  <2> QED BY <2>2, <2>5, <2>6, <2>7, KeepGrows DEF KeepInv, Remembered
<1>6. CASE AppendDone
  <2>1. /\ lock = "append" /\ part' = 0 /\ acked' = acked \cup {app}
        /\ UNCHANGED <<cursor, drainVars, answered>>
    BY <1>6 DEF AppendDone, ReleaseAppend
  <2>2. /\ Grows /\ IsNewline(Len(file))' /\ app \in EventsOf(file', cursor, Len(file'))
    BY <1>6, CompletedLine
  <2>3. OneUnfinished'
    <3>1. Len(file') \in Nat BY <2>2, LenProperties DEF Grows
    <3>2. Len(file') - part' = Len(file') BY <2>1, <3>1
    <3> QED BY <2>1, <2>2, <3>1, <3>2 DEF OneUnfinished, AtLine, IsNewline
  <2>4. /\ CursorAtLine'
        /\ EventsIn(KeptFrom, Len(file)) \subseteq EventsIn(KeptFrom, Len(file))'
        /\ dpc \notin {"truncated", "renaming"} /\ KeptFrom = cursor
    BY <2>1, <2>2, KeepGrows
  <2>5. dpc' = dpc /\ KeptFrom' = cursor BY <2>1, <2>4 DEF drainVars, KeptFrom
  <2>6. app \in EventsIn(KeptFrom, Len(file))'
    BY <2>2, <2>5 DEF EventsIn, EventsOf, Members, MembersOf, LineStarts, IsNewline,
                      NewlineOf, Sendable, SendableOf, EventAt
  <2>7. Remembered' BY <2>1, <2>4, <2>5, <2>6 DEF KeepInv, Remembered
  <2> QED BY <2>3, <2>4, <2>7 DEF KeepInv
<1>7. CASE AppendFails
  <2>1. part = 0 BY <1>7 DEF AppendFails, Durable
  <2>2. UNCHANGED <<file, cursor, drainVars, acked, answered>> /\ part' = 0
        /\ lock \in {"free", "append"}
    BY <1>7 DEF AppendFails, ReleaseAppend, diskVars
  <2>3. OneUnfinished' BY <2>1, <2>2 DEF KeepInv, OneUnfinished, AtLine, IsNewline
  <2>4. dpc' = dpc BY <2>2 DEF drainVars
  <2> QED BY <1>1, <2>2, <2>3, <2>4, KeepGrows DEF KeepInv, Remembered
<1> QED BY <1>3, <1>4, <1>5, <1>6, <1>7 DEF Append1

\* Reading changes nothing on disk but a cursor that is past the end.
LEMMA KeepRead ==
  ASSUME TypeInv, SettleInv, KeepInv, DrainRead
  PROVE  KeepInv'
<1> USE DEF TypeInv, TypeOK
<1>1. CASE Rewind
  <2>1. AtLine(cursor) BY <1>1 DEF Rewind, KeepInv, CursorAtLine
  <2> QED BY <1>1, <2>1, LenProperties DEF Rewind, AtLine, IsNewline
<1>2. CASE StartPass
  BY <1>2, KeepSame DEF StartPass, LoopTops, diskVars, lockVars, histVars
<1>3. CASE ReadChunk
  BY <1>3, KeepSame DEF ReadChunk, diskVars, lockVars, histVars
<1>4. CASE ReadNoChunk
  BY <1>4, KeepSame DEF ReadNoChunk, diskVars, lockVars, histVars
<1>5. CASE ReadLine
  BY <1>5, KeepSame DEF ReadLine, diskVars, lockVars, histVars
<1>6. CASE ReadNoLine
  BY <1>6, KeepSame DEF ReadNoLine, diskVars, lockVars, histVars, SettleInv, ReaderAtCursor
<1> QED BY <1>1, <1>2, <1>3, <1>4, <1>5, <1>6 DEF DrainRead

\* advanceOver leaves the cursor at a line.
LEMMA AdvanceAtLine ==
  ASSUME TypeInv, dpc = "sendChunk", AtLine(from), NEW proven \in SUBSET Members(from, to)
  PROVE  AtLine(AdvanceEnd(proven))
<1> USE DEF TypeInv, TypeOK
<1> DEFINE open == Members(from, to) \ proven
<1>1. CASE open = {}
  BY <1>1 DEF AdvanceEnd, LinesInHand, InHand, AtLine
<1>2. CASE open # {}
  <2>1. open \in SUBSET Nat BY EventsTyped
  <2>2. PICK p \in open : \A q \in open : p <= q BY <2>1, <1>2, LeastElement
  <2>3. AdvanceEnd(proven) \in open BY <2>2, <1>2 DEF AdvanceEnd
  <2>4. \A n \in open : AtLine(n) BY DEF Members, LineStarts, AtLine
  <2> QED BY <2>3, <2>4
<1> QED BY <1>1, <1>2

\* Delivering adds to what is answered for.
LEMMA KeepSend ==
  ASSUME TypeInv, SettleInv, KeepInv, DrainSend
  PROVE  KeepInv'
<1> USE DEF TypeInv, TypeOK
<1>1. CASE ChunkFellBack
  BY <1>1, KeepSame DEF ChunkFellBack, diskVars, lockVars, histVars
<1>2. CASE LineUnsendable
  BY <1>2, KeepSame DEF LineUnsendable, diskVars, lockVars, histVars
<1>3. CASE LineAnswered
  BY <1>3, KeepSame DEF LineAnswered, diskVars, lockVars
<1>4. ASSUME NEW proven \in SUBSET Members(from, to), ChunkAnswered(proven) PROVE KeepInv'
  <2>1. AtLine(from)
    BY <1>4 DEF ChunkAnswered, SettleInv, HandAtCursor, InHand, KeepInv, CursorAtLine
  <2>2. AtLine(AdvanceEnd(proven)) BY <1>4, <2>1, AdvanceAtLine DEF ChunkAnswered
  <2>3. AdvanceEnd(proven) \in from..to BY <1>4, AdvanceTyped DEF ChunkAnswered
  <2>4. from' = from /\ from' + adv' = AdvanceEnd(proven) BY <1>4, <2>3 DEF ChunkAnswered
  <2> QED BY <1>4, <2>2, <2>4, KeepSame DEF ChunkAnswered, diskVars, lockVars
<1> QED BY <1>1, <1>2, <1>3, <1>4 DEF DrainSend

\* A cursor write that passes answered lines only.
LEMMA KeepMoved ==
  ASSUME TypeInv, KeepInv, NEW n \in Nat, cursor <= n, AtLine(n),
         EventsIn(cursor, n) \subseteq answered,
         cursor' = n, UNCHANGED <<file, lock, app, part, acked, answered>>,
         dpc \in {"commitChunk", "commitLine"},
         dpc' \in {"idle", "readBatch", "readLine", "sendLine"}
  PROVE  KeepInv'
<1> USE DEF TypeInv, TypeOK, KeepInv
<1>1. OneUnfinished' BY DEF OneUnfinished, AtLine, IsNewline
<1>2. CursorAtLine' BY DEF CursorAtLine, AtLine, IsNewline
<1>3. EventsIn(cursor, Len(file)) \subseteq EventsIn(cursor, n) \cup EventsIn(n, Len(file))
  BY LenProperties, SplitRange
<1>4. acked \subseteq answered \cup EventsIn(cursor, Len(file)) BY DEF Remembered, KeptFrom
<1>5. EventsIn(KeptFrom, Len(file))' = EventsIn(n, Len(file))
  BY DEF KeptFrom, EventsIn, Members, LineStarts, IsNewline, Sendable, EventAt
<1>6. Remembered' BY <1>3, <1>4, <1>5 DEF Remembered
<1> QED BY <1>1, <1>2, <1>6

\* A cursor write passes no event that has no answer.
LEMMA KeepCommit ==
  ASSUME TypeInv, SettleInv, KeepInv, DrainCommit
  PROVE  KeepInv'
<1> USE DEF TypeInv, TypeOK
<1>1. CASE CommitChunk
  <2>1. from = cur /\ cur = cursor
    BY <1>1 DEF CommitChunk, SettleInv, HandAtCursor, InHand
  <2>2. EventsIn(cursor, cursor + adv) \subseteq answered
    BY <1>1, <2>1 DEF CommitChunk, SettleInv, ChunkProven
  <2>3. AtLine(cursor + adv) BY <1>1, <2>1 DEF CommitChunk, KeepInv, CursorAtLine
  <2>4. cursor' = cursor + adv /\ UNCHANGED <<file, lock, app, part, acked, answered>>
    BY <1>1, <2>1 DEF CommitChunk, MoveCursor, lockVars
  <2>5. dpc = "commitChunk" /\ dpc' \in {"idle", "readBatch", "readLine"}
    BY <1>1 DEF CommitChunk, EndPass, LoopTops
  <2>6. cursor + adv \in Nat /\ cursor <= cursor + adv OBVIOUS
  <2> QED BY <2>2, <2>3, <2>4, <2>5, <2>6, KeepMoved
<1>2. CASE CommitLine
  <2> DEFINE end == LineEnd(from)
  <2>1. from = cur /\ cur = cursor
    BY <1>2 DEF CommitLine, SettleInv, HandAtCursor, InHand
  <2>2. end \in (from+1)..to /\ IsNewline(end) /\ \A m \in (from+1)..(end-1) : ~IsNewline(m)
    BY <1>2, LineEndBefore DEF CommitLine, LinesInHand, InHand
  <2>3. end \in Nat /\ cursor <= end /\ AtLine(end) /\ cur + end - from = end
    BY <2>1, <2>2 DEF AtLine
  <2>4. EventsIn(cursor, end) \subseteq answered
    BY <1>2, <2>1, <2>2, <2>3, OneLine DEF CommitLine, SettleInv, LineProven
  <2>5. cursor' = end /\ UNCHANGED <<file, lock, app, part, acked, answered>>
    BY <1>2, <2>3 DEF CommitLine, MoveCursor, lockVars
  <2>6. dpc = "commitLine" /\ dpc' \in {"sendLine", "readBatch", "readLine"}
    BY <1>2 DEF CommitLine, LoopTops
  <2> QED BY <2>3, <2>4, <2>5, <2>6, KeepMoved
<1>3. CASE CommitFails
  BY <1>3, KeepSame DEF CommitFails, EndPass, diskVars, lockVars, histVars
<1> QED BY <1>1, <1>2, <1>3 DEF DrainCommit

\* No step of compact, and no death within it, forgets an event without an answer.
LEMMA KeepCompact ==
  ASSUME Durable, TypeInv, SettleInv, KeepInv, Compact \/ Crash
  PROVE  KeepInv'
<1> USE DEF TypeInv, TypeOK
<1>1. Len(file) \in Nat BY LenProperties
<1>2. lock # "append" => part = 0 BY DEF KeepInv, OneUnfinished
<1>3. dpc \in {"truncated", "tailCopied", "renaming"} => part = 0 BY <1>2 DEF CompactLocked
<1>4. CASE CompactNothing
  BY <1>4, KeepSame DEF CompactNothing, EndPass, diskVars, lockVars, histVars
<1>5. CASE CompactTruncate
  <2>1. Len(file) = cursor /\ part = 0
    BY <1>2, <1>5 DEF CompactTruncate, KeepInv, CursorAtLine
  <2>2. EventsIn(cursor, Len(file)) = {} BY <2>1 DEF EventsIn, Members, LineStarts
  <2>3. acked \subseteq answered
    BY <1>5, <2>2 DEF CompactTruncate, KeepInv, Remembered, KeptFrom
  <2>4. file' = <<>> /\ part' = 0 /\ dpc' = "truncated" /\ UNCHANGED <<acked, answered>>
    BY <1>5, <2>1 DEF CompactTruncate, histVars
  <2>5. Len(file') = 0 /\ Len(file') - part' = 0 BY <2>4
  <2> QED BY <2>3, <2>4, <2>5 DEF KeepInv, OneUnfinished, CursorAtLine, Remembered, AtLine
<1>6. CASE TruncateZero
  <2>1. file = <<>> /\ acked \subseteq answered /\ part = 0
    BY <1>3, <1>6 DEF TruncateZero, KeepInv, CursorAtLine, Remembered
  <2>2. /\ file' = <<>> /\ cursor' = 0 /\ part' = 0 /\ dpc' = "idle"
        /\ UNCHANGED <<acked, answered>>
    BY <1>6, <2>1 DEF TruncateZero, EndPass, histVars
  <2>3. Len(file') = 0 /\ Len(file') - part' = 0 BY <2>2
  <2> QED BY <2>1, <2>2, <2>3 DEF KeepInv, OneUnfinished, CursorAtLine, Remembered, AtLine
<1>7. CASE TailCopy
  <2>1. part = 0 /\ cur = cursor
    BY <1>2, <1>7 DEF TailCopy, KeepInv, CursorAtLine
  <2> QED BY <1>7, <2>1, KeepSame DEF TailCopy, diskVars, histVars
<1>8. CASE TailZero
  <2>1. cur = cursor /\ AtLine(cur) BY <1>8 DEF TailZero, KeepInv, CursorAtLine
  <2>2. UNCHANGED <<file, lock, app, part, cur, acked, answered>>
        /\ cursor' = 0 /\ dpc' = "renaming"
    BY <1>8 DEF TailZero, lockVars, histVars
  <2>3. OneUnfinished' BY <2>2 DEF KeepInv, OneUnfinished, AtLine, IsNewline
  <2>4. CursorAtLine' BY <2>1, <2>2 DEF CursorAtLine, AtLine, IsNewline
  <2>5. KeptFrom = cursor /\ KeptFrom' = cursor BY <1>8, <2>1, <2>2 DEF TailZero, KeptFrom
  <2>6. EventsIn(KeptFrom, Len(file))' = EventsIn(KeptFrom, Len(file))
    BY <2>2, <2>5 DEF EventsIn, Members, LineStarts, IsNewline, Sendable, EventAt
  <2>7. Remembered' BY <1>8, <2>2, <2>6 DEF TailZero, KeepInv, Remembered
  <2> QED BY <2>3, <2>4, <2>7 DEF KeepInv
<1>9. CASE TailRename
  <2>1. /\ file' = SubSeq(file, cur + 1, Len(file)) /\ cursor = 0 /\ cursor' = 0
        /\ part = 0 /\ part' = 0 /\ dpc = "renaming" /\ dpc' = "idle"
        /\ UNCHANGED <<acked, answered>>
    BY <1>3, <1>9 DEF TailRename, EndPass, histVars, KeepInv, CursorAtLine
  <2>2. Len(file) - part = Len(file) BY <1>1, <2>1
  <2>3. Len(file) = 0 \/ IsNewline(Len(file))
    BY <2>2 DEF KeepInv, OneUnfinished, AtLine
  <2>4. Len(file') = 0 \/ IsNewline(Len(file))' BY <2>1, <2>3, TailEnds
  <2>5. TypeInv' BY TypeCompact
  <2>6. Len(file') \in Nat /\ Len(file') - part' = Len(file') BY <2>1, <2>5, LenProperties
  <2>7. OneUnfinished'
    <3>1. AtLine(Len(file) - part)' BY <2>4, <2>6 DEF AtLine, IsNewline
    <3>2. part' <= Len(file') BY <2>1, <2>6
    <3> QED BY <2>1, <3>1, <3>2 DEF OneUnfinished
  <2>8. CursorAtLine' BY <2>1 DEF CursorAtLine, AtLine
  <2>9. acked \subseteq answered \cup EventsOf(file, cur, Len(file))
    BY <2>1, ExplicitFile DEF KeepInv, Remembered, KeptFrom
  <2>10. EventsOf(file, cur, Len(file)) \subseteq EventsOf(file', 0, Len(file'))
    BY <2>1, ShiftedReadable
  <2>11. EventsIn(KeptFrom, Len(file))' = EventsOf(file', 0, Len(file'))
    BY <2>1 DEF KeptFrom, EventsIn, EventsOf, Members, MembersOf, LineStarts, IsNewline,
                NewlineOf, Sendable, SendableOf, EventAt
  <2>12. Remembered' BY <2>1, <2>9, <2>10, <2>11 DEF Remembered
  <2> QED BY <2>7, <2>8, <2>12 DEF KeepInv
\* A pass that ends between the cursor write and the rename starts again from 0.
<1>10. ASSUME dpc = "renaming", dpc' = "idle",
              UNCHANGED <<file, cursor, part, acked, answered>>
       PROVE  KeepInv'
  <2>1. part = 0 /\ cursor = 0 /\ AtLine(cur)
    BY <1>3, <1>10 DEF KeepInv, CursorAtLine
  <2>2. OneUnfinished' BY <1>10, <2>1 DEF KeepInv, OneUnfinished, AtLine, IsNewline
  <2>3. CursorAtLine' BY <1>10, <2>1 DEF CursorAtLine, AtLine
  <2>4. EventsIn(cur, Len(file)) \subseteq EventsIn(0, Len(file))
    BY <1>1, <2>1, EarlierStart
  <2>5. EventsIn(KeptFrom, Len(file))' = EventsIn(0, Len(file))
    BY <1>10, <2>1 DEF KeptFrom, EventsIn, Members, LineStarts, IsNewline, Sendable, EventAt
  <2>6. Remembered' BY <1>10, <2>4, <2>5 DEF KeepInv, Remembered, KeptFrom
  <2> QED BY <2>2, <2>3, <2>6 DEF KeepInv
<1>11. CASE TailFails
  <2>1. CASE dpc = "tailCopied"
    BY <1>3, <1>11, <2>1, KeepSame DEF TailFails, EndPass, diskVars, histVars
  <2>2. CASE dpc = "renaming"
    BY <1>10, <1>11, <2>2 DEF TailFails, EndPass, diskVars, histVars
  <2> QED BY <1>11, <2>1, <2>2 DEF TailFails
<1>12. CASE Crash
  <2>1. dpc # "truncated" BY <1>12 DEF Crash, Durable
  <2>2. CASE dpc = "renaming"
    BY <1>10, <1>12, <2>2 DEF Crash, EndPass, diskVars, histVars
  <2>3. CASE dpc # "renaming"
    <3>1. part = 0 \/ UNCHANGED <<lock, app>> BY <1>2, <1>12 DEF Crash
    <3> QED BY <1>12, <2>1, <2>3, <3>1, KeepSame DEF Crash, EndPass, diskVars, histVars
  <2> QED BY <2>2, <2>3
<1> QED BY <1>4, <1>5, <1>6, <1>7, <1>8, <1>9, <1>11, <1>12 DEF Compact

-----------------------------------------------------------------------------
\* KeepInv is inductive, with TypeInv and SettleInv, under Durable.
LEMMA KeepInvariant ==
  ASSUME Durable
  PROVE  Spec => []KeepInv
<1>1. ReaderSafe BY DEF Durable
<1>2. Init => KeepInv
  <2> SUFFICES ASSUME Init PROVE KeepInv
    OBVIOUS
  <2>1. Len(file) = 0 /\ part = 0 /\ Len(file) - part = 0 BY DEF Init
  <2> QED BY <2>1 DEF Init, KeepInv, OneUnfinished, CursorAtLine, AtLine, Remembered
<1>3. TypeInv /\ SettleInv /\ KeepInv /\ [Next]_vars => KeepInv'
  <2> SUFFICES ASSUME TypeInv, SettleInv, KeepInv, [Next]_vars PROVE KeepInv'
    OBVIOUS
  <2>1. CASE Next
    BY <2>1, KeepAppend, KeepRead, KeepSend, KeepCommit, KeepCompact DEF Next
  <2>2. CASE UNCHANGED vars
    <3>1. UNCHANGED <<file, cursor, part, lock, app, acked, answered, dpc, cur, from, adv>>
      BY <2>2 DEF vars, diskVars, lockVars, drainVars, lineVars, histVars
    <3>2. OneUnfinished' BY <3>1 DEF KeepInv, OneUnfinished, AtLine, IsNewline
    <3>3. CursorAtLine' BY <3>1 DEF KeepInv, CursorAtLine, AtLine, IsNewline
    <3>4. EventsIn(KeptFrom, Len(file))' = EventsIn(KeptFrom, Len(file))
      BY <3>1 DEF KeptFrom, EventsIn, Members, LineStarts, IsNewline, Sendable, EventAt
    <3>5. Remembered' BY <3>1, <3>4 DEF KeepInv, Remembered
    <3> QED BY <3>2, <3>3, <3>5 DEF KeepInv
  <2> QED BY <2>1, <2>2
<1> QED BY <1>1, <1>2, <1>3, TypeInvariant, SettleInvariant, PTL DEF Spec

\* What the offset of Remembered can read, a drain that starts over can read.
LEMMA KeptIsReadable ==
  ASSUME TypeInv, KeepInv
  PROVE  NoLoss
<1> USE DEF TypeInv, TypeOK
<1>1. Len(file) \in Nat BY LenProperties
<1>2. CASE dpc = "truncated"
  BY <1>2 DEF NoLoss, KeepInv, Remembered
<1>3. CASE dpc # "truncated"
  <2>1. Start = cursor BY <1>1, <1>3 DEF Start, KeepInv, CursorAtLine, AtLine, IsNewline
  <2>2. EventsIn(KeptFrom, Len(file)) \subseteq EventsIn(cursor, Len(file))
    <3>1. CASE dpc = "renaming"
      BY <1>1, <3>1, EarlierStart DEF KeptFrom, KeepInv, CursorAtLine
    <3>2. CASE dpc # "renaming" BY <3>2 DEF KeptFrom
    <3> QED BY <3>1, <3>2
  <2> QED BY <1>3, <2>1, <2>2 DEF NoLoss, Readable, KeepInv, Remembered
<1> QED BY <1>2, <1>3

\* Every event whose append succeeded is answered for or can still be read from
\* disk, through crashes and failed cursor writes and renames at any step but
\* the two that Durable excludes.
THEOREM NothingLost ==
  ASSUME Durable
  PROVE  Spec => []NoLoss
<1>1. ReaderSafe BY DEF Durable
<1>2. TypeInv /\ KeepInv => NoLoss BY KeptIsReadable
<1> QED BY <1>1, <1>2, TypeInvariant, KeepInvariant, PTL

-----------------------------------------------------------------------------
(* The lane implements DeliveryQueue.                                       *)

\* What is in the file was accepted, except for the part of the append that holds
\* the lock, whose event is a new one.
OnlyAccepted ==
  /\ lock = "append" => app \notin acked
  /\ \A n \in 1..(Len(file) - part) : file[n][1] \in acked

\* What a cursor at 0 would bring back has its answer.
PassedAnswered == dpc # "truncated" => EventsIn(0, KeptFrom) \subseteq answered

QueueInv == OnlyAccepted /\ PassedAnswered

\* A cut leaves the lines behind it, and nothing else, to be read from the front.
LEMMA CutReadable ==
  ASSUME NEW f \in Seq(Cell), NEW c \in Nat, c = 0 \/ NewlineOf(f, c)
  PROVE  EventsOf(SubSeq(f, c + 1, Len(f)), 0, Len(SubSeq(f, c + 1, Len(f))))
           \subseteq EventsOf(f, c, Len(f))
<1> DEFINE g == SubSeq(f, c + 1, Len(f))
<1>1. Len(f) \in Nat BY LenProperties
<1>2. \A i \in (c+1)..Len(f) : f[i] \in Cell BY <1>1, ElementOfSeq
<1>3. /\ Len(g) = IF c + 1 <= Len(f) THEN Len(f) - (c + 1) + 1 ELSE 0
      /\ \A i \in 1..(Len(f) - (c + 1) + 1) : g[i] = f[(c + 1) + i - 1]
  BY <1>1, <1>2, SubSeqProperties
<1>4. c <= Len(f) BY <1>1 DEF NewlineOf
<1>5. Len(g) = Len(f) - c BY <1>1, <1>3, <1>4
<1> HIDE DEF g
<1>6. \A i \in 1..Len(g) : i + c \in 1..Len(f) /\ g[i] = f[i + c]
  <2> SUFFICES ASSUME NEW i \in 1..Len(g) PROVE i + c \in 1..Len(f) /\ g[i] = f[i + c]
    OBVIOUS
  <2>1. i \in 1..(Len(f) - (c + 1) + 1) /\ (c + 1) + i - 1 = i + c BY <1>1, <1>5
  <2> QED BY <1>1, <1>3, <1>5, <2>1
<1> SUFFICES ASSUME NEW q \in MembersOf(g, 0, Len(g))
             PROVE  \E p \in MembersOf(f, c, Len(f)) : f[p+1] = g[q+1]
  BY DEF EventsOf, g
<1>7. q \in Nat /\ q < Len(g) BY <1>1, <1>5 DEF MembersOf
<1> DEFINE p == q + c
<1>8. p \in c..(Len(f)-1) /\ f[p+1] = g[q+1]
  <2>1. q + 1 \in 1..Len(g) /\ (q + 1) + c = p + 1 BY <1>1, <1>5, <1>7
  <2>2. g[q+1] = f[p+1] BY <1>6, <2>1
  <2> QED BY <1>1, <1>5, <1>7, <2>2
<1>9. p = c \/ NewlineOf(f, p)
  <2> SUFFICES ASSUME q # 0 PROVE NewlineOf(f, p)
    BY <1>7
  <2>1. NewlineOf(g, q) BY <1>7 DEF MembersOf
  <2>2. q \in 1..Len(g) BY <2>1 DEF NewlineOf
  <2>3. g[q] = f[p] /\ p \in 1..Len(f) BY <1>6, <2>2
  <2> QED BY <2>1, <2>3 DEF NewlineOf
<1>10. SendableOf(f, p)
  <2> DEFINE e == g[q+1][1]
  <2>1. f[p+1] \in Cell BY <1>1, <1>8, ElementOfSeq
  <2>2. e \in Event /\ Size[e] \in Nat BY <1>8, <2>1, SizeAssumption DEF Cell
  <2>3. q + Size[e] <= Len(g) /\ \A k \in 1..Size[e] : g[q+k] = <<e, k>>
    BY DEF MembersOf, SendableOf
  <2> HIDE DEF e
  <2>4. \A k \in 1..Size[e] : q + k \in 1..Len(g) /\ (q + k) + c = p + k
    BY <1>1, <1>5, <1>7, <2>2, <2>3
  <2>5. \A k \in 1..Size[e] : f[p+k] = <<e, k>> BY <1>6, <2>3, <2>4
  <2>6. p + Size[e] <= Len(f) /\ p < Len(f) BY <1>1, <1>5, <1>7, <2>2, <2>3
  <2> QED BY <1>8, <2>5, <2>6 DEF SendableOf, e
<1>11. p \in MembersOf(f, c, Len(f)) BY <1>8, <1>9, <1>10 DEF MembersOf
<1> QED BY <1>8, <1>11

\* Of a file that was lengthened by cells of the line of e behind a line start b, a
\* reader sees what it saw before, and e at most.
LEMMA LongerReadable ==
  ASSUME NEW f \in Seq(Cell), NEW g \in Seq(Cell), Extends(f, g),
         NEW a \in Nat, NEW b \in Nat, NEW e \in Event, a <= b, b <= Len(f),
         b = 0 \/ NewlineOf(f, b), Len(g) <= b + Size[e],
         \A k \in 1..(Len(g) - b) : g[b+k] = <<e, k>>
  PROVE  /\ EventsOf(g, a, Len(g)) \subseteq EventsOf(f, a, Len(f)) \cup {e}
         /\ Len(g) < b + Size[e] => EventsOf(g, a, Len(g)) \subseteq EventsOf(f, a, Len(f))
<1>1. Len(f) \in Nat /\ Len(g) \in Nat /\ Len(f) <= Len(g) BY LenProperties DEF Extends
<1>2. Size[e] \in Nat \ {0} BY SizeAssumption
<1>3. \A p \in MembersOf(g, a, Len(g)) : p < b => g[p+1][1] \in EventsOf(f, a, Len(f))
  <2> SUFFICES ASSUME NEW p \in MembersOf(g, a, Len(g)), p < b
               PROVE  p \in MembersOf(f, a, Len(f)) /\ g[p+1] = f[p+1]
    BY DEF EventsOf
  <2>1. p \in Nat /\ a <= p BY <1>1 DEF MembersOf
  <2>2. b # 0 /\ NewlineOf(f, b) /\ p \in 0..(b-1) BY <2>1
  <2>3. SendableOf(f, p) BY <2>2, SendableStable DEF MembersOf
  <2>4. p \in a..(Len(f)-1) /\ p + 1 \in 1..Len(f) BY <1>1, <2>1
  <2>5. NewlineOf(g, p) => NewlineOf(f, p) BY <1>1, <2>1, <2>4 DEF NewlineOf, Extends
  <2> QED BY <2>3, <2>4, <2>5 DEF MembersOf, Extends
<1>4. \A p \in MembersOf(g, a, Len(g)) :
        p >= b => p = b /\ g[p+1][1] = e /\ ~(Len(g) < b + Size[e])
  <2> SUFFICES ASSUME NEW p \in MembersOf(g, a, Len(g)), p >= b
               PROVE  p = b /\ g[p+1][1] = e /\ ~(Len(g) < b + Size[e])
    OBVIOUS
  <2>1. p \in Nat /\ p < Len(g) BY <1>1 DEF MembersOf
  <2>2. p = b
    <3> SUFFICES ASSUME p > b PROVE FALSE
      BY <2>1
    <3>1. NewlineOf(g, p) BY <2>1 DEF MembersOf
    <3>2. p - b \in 1..(Len(g) - b) /\ b + (p - b) = p BY <1>1, <2>1
    <3>3. g[p] = <<e, p - b>> BY <3>2
    <3>4. p - b = Size[e] BY <3>1, <3>3 DEF NewlineOf
    <3> QED BY <1>1, <1>2, <2>1, <3>4
  <2>3. 1 \in 1..(Len(g) - b) BY <1>1, <2>1, <2>2
  <2>4. g[p+1] = <<e, 1>> BY <2>2, <2>3
  <2>5. g[p+1][1] = e BY <2>4
  <2>6. p + Size[e] <= Len(g) BY <2>5 DEF MembersOf, SendableOf
  <2> QED BY <1>1, <1>2, <2>2, <2>5, <2>6
<1>5. \A p \in MembersOf(g, a, Len(g)) : p \in Nat BY <1>1 DEF MembersOf
<1>6. \A p \in MembersOf(g, a, Len(g)) :
        \/ g[p+1][1] \in EventsOf(f, a, Len(f))
        \/ g[p+1][1] = e /\ ~(Len(g) < b + Size[e])
  BY <1>3, <1>4, <1>5
<1>7. \A d \in EventsOf(g, a, Len(g)) : \E p \in MembersOf(g, a, Len(g)) : d = g[p+1][1]
  BY DEF EventsOf
<1> QED BY <1>6, <1>7

\* What can be read, with the file as an argument, before a step and after it.
LEMMA ReadableNow ==
  /\ cursor \in Nat /\ Len(file) \in Nat /\ cursor <= Len(file)
     => Readable = EventsOf(file, cursor, Len(file))
  /\ cursor' \in Nat /\ Len(file') \in Nat /\ cursor' <= Len(file')
     => Readable' = EventsOf(file', cursor', Len(file'))
<1>1. ASSUME cursor \in Nat, Len(file) \in Nat, cursor <= Len(file)
      PROVE  Readable = EventsOf(file, cursor, Len(file))
  <2>1. Start = cursor BY <1>1 DEF Start
  <2> QED BY <2>1, ExplicitFile DEF Readable
<1>2. ASSUME cursor' \in Nat, Len(file') \in Nat, cursor' <= Len(file')
      PROVE  Readable' = EventsOf(file', cursor', Len(file'))
  <2>1. Start' = cursor' BY <1>2 DEF Start
  <2> QED BY <2>1 DEF Readable, EventsIn, EventsOf, Members, MembersOf, LineStarts,
                      IsNewline, NewlineOf, Sendable, SendableOf, EventAt
<1> QED BY <1>1, <1>2

LEMMA SameReadable ==
  ASSUME UNCHANGED <<file, cursor>>
  PROVE  Readable' = Readable
BY DEF Readable, Start, EventsIn, Members, LineStarts, IsNewline, Sendable, EventAt

\* A step of the queue, or none.
QueueStep == Queue!Next \/ UNCHANGED Queue!qvars

\* The steps of the queue by what they do to the events that can be read.
LEMMA QueueStutters ==
  ASSUME UNCHANGED <<file, cursor, acked, answered>>
  PROVE  QueueStep
BY SameReadable DEF QueueStep, Queue!qvars

LEMMA QueueAnswers ==
  ASSUME UNCHANGED <<file, cursor, acked>>, NEW S \in SUBSET Event, S \subseteq Readable,
         answered' = answered \cup S
  PROVE  QueueStep
BY SameReadable DEF QueueStep, Queue!Next, Queue!Answer

LEMMA QueueForgets ==
  ASSUME UNCHANGED <<acked, answered>>, Readable \subseteq Event,
         Readable' \subseteq Readable, Readable \subseteq Readable' \cup answered
  PROVE  QueueStep
<1> DEFINE S == Readable \ Readable'
<1>1. S \in SUBSET Event /\ S \subseteq Readable \cap answered /\ Readable' = Readable \ S
  OBVIOUS
<1> QED BY <1>1 DEF QueueStep, Queue!Next, Queue!Forget

LEMMA QueueRecalls ==
  ASSUME UNCHANGED <<acked, answered>>, Readable' \subseteq Event,
         Readable \subseteq Readable', Readable' \subseteq Readable \cup (answered \cap acked)
  PROVE  QueueStep
<1> DEFINE S == Readable' \ Readable
<1>1. S \in SUBSET Event /\ S \subseteq acked \cap answered /\ Readable' = Readable \cup S
  OBVIOUS
<1> QED BY <1>1 DEF QueueStep, Queue!Next, Queue!Recall

\* Outside the truncation the cursor is in the file.
LEMMA CursorInFile ==
  ASSUME TypeInv, KeepInv, dpc # "truncated"
  PROVE  cursor <= Len(file) /\ cursor \in Nat /\ Len(file) \in Nat
BY LenProperties DEF TypeInv, TypeOK, KeepInv, CursorAtLine, AtLine, IsNewline

\* Steps that leave the disk, the append and what is accepted alone.
LEMMA QueueInvSame ==
  ASSUME KeepInv, QueueInv, UNCHANGED <<file, cursor, part, acked>>,
         lock' = "append" => lock = "append" /\ app' = app,
         answered \subseteq answered', dpc # "truncated",
         dpc' \notin {"truncated", "renaming"}
  PROVE  QueueInv'
<1>1. OnlyAccepted' BY DEF QueueInv, OnlyAccepted
<1>2. EventsIn(0, KeptFrom)' = EventsIn(0, cursor)
  BY DEF KeptFrom, EventsIn, Members, LineStarts, IsNewline, Sendable, EventAt
<1>3. EventsIn(0, 0) = {} BY DEF EventsIn, Members, LineStarts
<1>4. dpc = "renaming" => cursor = 0 BY DEF KeepInv, CursorAtLine
<1>5. EventsIn(0, cursor) \subseteq answered
  BY <1>3, <1>4 DEF QueueInv, PassedAnswered, KeptFrom
<1> QED BY <1>1, <1>2, <1>5 DEF QueueInv, PassedAnswered

\* What the cursor has passed stays as it is when the file grows.
LEMMA PassedGrows ==
  ASSUME TypeInv, KeepInv, QueueInv, Grows, UNCHANGED <<cursor, drainVars, answered>>,
         lock \in {"free", "append"}
  PROVE  PassedAnswered'
<1> USE DEF TypeInv, TypeOK
<1>1. dpc \notin {"truncated", "renaming"} /\ dpc' = dpc BY DEF CompactLocked, drainVars
<1>2. AtLine(cursor) BY <1>1 DEF KeepInv, CursorAtLine
<1>3. EventsIn(0, KeptFrom)' = EventsOf(file', 0, cursor)
  BY <1>1 DEF KeptFrom, EventsIn, EventsOf, Members, MembersOf, LineStarts, IsNewline,
              NewlineOf, Sendable, SendableOf, EventAt
<1>4. EventsIn(0, KeptFrom) = EventsOf(file, 0, cursor) BY <1>1, ExplicitFile DEF KeptFrom
<1>5. EventsOf(file', 0, cursor) = EventsOf(file, 0, cursor)
  <2>1. CASE cursor = 0 BY <2>1 DEF EventsOf, MembersOf
  <2>2. CASE cursor # 0
    <3>1. NewlineOf(file, cursor) BY <1>2, <2>2 DEF AtLine, IsNewline, NewlineOf
    <3> QED BY <3>1, MembersStable DEF Grows
  <2> QED BY <2>1, <2>2
<1> QED BY <1>1, <1>3, <1>4, <1>5 DEF QueueInv, PassedAnswered

\* An append that completes accepts its event; the other steps of an append are
\* none of the queue's.
LEMMA QueueAppend ==
  ASSUME Durable, TypeInv, SettleInv, KeepInv, QueueInv, Append1
  PROVE  QueueInv' /\ QueueStep
<1> USE DEF TypeInv, TypeOK
<1>1. UNCHANGED file => Grows BY LenProperties DEF Grows, Extends
<1>2. lock # "append" => part = 0 BY DEF KeepInv, OneUnfinished
<1>3. ASSUME NEW e \in Event, AppendRefused(e) PROVE QueueInv' /\ QueueStep
  <2>1. /\ UNCHANGED <<file, cursor, drainVars, lock, app, part, acked, answered>>
        /\ lock = "free"
    BY <1>3 DEF AppendRefused, diskVars, lockVars
  <2>2. OnlyAccepted' BY <2>1 DEF QueueInv, OnlyAccepted
  <2>3. PassedAnswered' BY <1>1, <2>1, PassedGrows
  <2> QED BY <2>1, <2>2, <2>3, QueueStutters DEF QueueInv
<1>4. ASSUME NEW e \in Event, AppendBegin(e) PROVE QueueInv' /\ QueueStep
  <2>1. /\ UNCHANGED <<file, cursor, drainVars, acked, answered>> /\ part = 0 /\ part' = 0
        /\ lock = "free" /\ app' = e /\ e \notin acked
    BY <1>2, <1>4 DEF AppendBegin, diskVars, histVars, Fresh
  <2>2. OnlyAccepted' BY <2>1 DEF QueueInv, OnlyAccepted
  <2>3. PassedAnswered' BY <1>1, <2>1, PassedGrows
  <2> QED BY <2>1, <2>2, <2>3, QueueStutters DEF QueueInv
<1>5. CASE AppendPart
  <2>1. PICK k \in 1..(Size[app] - 1) : file' = file \o SubSeq(Line(app), 1, k) /\ part' = k
    BY <1>5 DEF AppendPart
  <2>2. /\ app \in Event /\ Size[app] \in Nat \ {0} /\ lock = "append" /\ part = 0
        /\ UNCHANGED <<cursor, lock, app, drainVars, acked, answered>>
    BY <1>5, SizeAssumption DEF AppendPart, histVars
  <2>3. k \in Nat \ {0} /\ k \in 0..Size[app] /\ k < Size[app] BY <2>2
  <2>4. /\ SubSeq(Line(app), 1, k) \in Seq(Cell)
        /\ Len(SubSeq(Line(app), 1, k)) = k
        /\ \A i \in 1..k : SubSeq(Line(app), 1, k)[i] = <<app, i>>
    BY <2>2, <2>3, LinePrefix
  <2>5. /\ Grows /\ Len(file') = Len(file) + k
        /\ \A i \in 1..k : file'[Len(file) + i] = <<app, i>>
    BY <2>1, <2>4, AppendGrows
  <2>6. Len(file) \in Nat BY LenProperties
  <2>7. OnlyAccepted'
    <3>1. Len(file') - part' = Len(file) /\ Len(file) - part = Len(file)
      BY <2>1, <2>2, <2>3, <2>5, <2>6
    <3>2. \A n \in 1..Len(file) : file'[n] = file[n] BY <2>5 DEF Grows, Extends
    <3> QED BY <2>2, <3>1, <3>2 DEF QueueInv, OnlyAccepted
  <2>8. PassedAnswered' BY <2>2, <2>5, PassedGrows
  <2>9. dpc # "truncated" BY <2>2 DEF CompactLocked
  <2>10. cursor <= Len(file) /\ cursor' <= Len(file') /\ cursor \in Nat
    BY <2>2, <2>3, <2>5, <2>6, <2>9, CursorInFile
  <2>11. AtLine(Len(file)) BY <2>2, <2>6 DEF KeepInv, OneUnfinished
  <2>12. Len(file) = 0 \/ NewlineOf(file, Len(file))
    BY <2>11 DEF AtLine, IsNewline, NewlineOf
  <2>13. Len(file') - Len(file) = k /\ Len(file') < Len(file) + Size[app] BY <2>2, <2>3, <2>5, <2>6
  <2>14. Len(file') \in Nat /\ Len(file') <= Len(file) + Size[app] BY <2>2, <2>3, <2>5, <2>6
  <2>15. EventsOf(file', cursor, Len(file')) \subseteq EventsOf(file, cursor, Len(file))
    <3>1. file \in Seq(Cell) /\ file' \in Seq(Cell) /\ Extends(file, file')
      BY <2>5 DEF Grows
    <3>2. /\ Len(file') <= Len(file) + Size[app] /\ cursor \in Nat
          /\ \A i \in 1..(Len(file') - Len(file)) : file'[Len(file) + i] = <<app, i>>
      BY <2>5, <2>10, <2>13, <2>14
    <3> DEFINE b == Len(file)
    <3>3. /\ b \in Nat /\ cursor <= b /\ b <= Len(file) /\ Len(file') < b + Size[app]
      BY <2>6, <2>10, <2>13
    <3>5. b = 0 \/ NewlineOf(file, b) BY <2>12
    <3>6. \A i \in 1..(Len(file') - b) : file'[b + i] = <<app, i>>
      BY <3>2
    <3> HIDE DEF b
    <3>4. Len(file') <= b + Size[app] BY <2>2, <2>14, <3>3
    <3> QED BY <2>2, <3>1, <3>2, <3>3, <3>4, <3>5, <3>6, LongerReadable
  <2>16. EventsOf(file, cursor, Len(file)) \subseteq EventsOf(file', cursor, Len(file'))
    BY <2>5, GrowingReadable DEF Grows
  <2>17. cursor' = cursor BY <2>2
  <2>18. Readable = EventsOf(file, cursor, Len(file)) BY <2>6, <2>10, ReadableNow
  <2>19. Readable' = EventsOf(file', cursor', Len(file')) BY <2>10, <2>14, <2>17, ReadableNow
  <2>20. Readable' = Readable BY <2>15, <2>16, <2>17, <2>18, <2>19
  <2> QED BY <2>2, <2>7, <2>8, <2>20 DEF QueueInv, QueueStep, Queue!qvars
<1>6. CASE AppendDone
  <2> DEFINE b == Len(file) - part
  <2>1. /\ lock = "append" /\ lock' = "free" /\ part' = 0 /\ acked' = acked \cup {app}
        /\ UNCHANGED <<cursor, drainVars, answered>>
        /\ app \in Event /\ app \notin acked /\ Size[app] \in Nat
    BY <1>6, SizeAssumption DEF AppendDone, ReleaseAppend, QueueInv, OnlyAccepted
  <2>2. /\ Grows /\ app \in EventsOf(file', cursor, Len(file'))
        /\ b \in Nat /\ cursor <= b /\ Len(file') = b + Size[app]
        /\ \A k \in 1..Size[app] : file'[b + k] = <<app, k>>
    BY <1>6, CompletedLine
  <2>3. Len(file) \in Nat /\ b <= Len(file) BY LenProperties
  <2>4. b = 0 \/ NewlineOf(file, b)
    BY DEF KeepInv, OneUnfinished, AtLine, IsNewline, NewlineOf
  <2> HIDE DEF b
  <2>5. OnlyAccepted'
    <3> SUFFICES ASSUME NEW n \in 1..Len(file') PROVE file'[n][1] \in acked'
      BY <2>1, <2>2 DEF OnlyAccepted
    <3>1. CASE n <= b
      <4>1. n \in 1..Len(file) /\ n \in 1..(Len(file) - part) BY <2>2, <2>3, <3>1 DEF b
      <4>2. file'[n] = file[n] BY <2>2, <4>1 DEF Grows, Extends
      <4> QED BY <2>1, <4>1, <4>2 DEF QueueInv, OnlyAccepted
    <3>2. CASE ~(n <= b)
      <4>1. n - b \in 1..Size[app] /\ b + (n - b) = n BY <2>1, <2>2, <3>2
      <4>2. file'[n] = <<app, n - b>> BY <2>2, <4>1
      <4> QED BY <2>1, <4>2
    <3> QED BY <3>1, <3>2
  <2>6. PassedAnswered' BY <2>1, <2>2, PassedGrows
  <2>7. cursor <= Len(file) /\ cursor' <= Len(file') /\ Len(file') \in Nat BY <2>1, <2>2, <2>3
  <2>8. EventsOf(file', cursor, Len(file')) \subseteq EventsOf(file, cursor, Len(file)) \cup {app}
    <3>1. file \in Seq(Cell) /\ file' \in Seq(Cell) /\ Extends(file, file')
      BY <2>2 DEF Grows
    <3>2. /\ Len(file') <= b + Size[app] /\ cursor \in Nat
          /\ \A i \in 1..(Len(file') - b) : file'[b + i] = <<app, i>>
      BY <2>1, <2>2
    <3> QED BY <2>1, <2>2, <2>3, <2>4, <3>1, <3>2, LongerReadable
  <2>9. EventsOf(file, cursor, Len(file)) \subseteq EventsOf(file', cursor, Len(file'))
    BY <2>2, GrowingReadable DEF Grows
  <2>10. Readable' = Readable \cup {app} BY <2>1, <2>2, <2>3, <2>7, <2>8, <2>9, ReadableNow
  <2>11. Queue!Accept(app) BY <2>1, <2>10 DEF Queue!Accept
  <2> QED BY <2>1, <2>5, <2>6, <2>11 DEF QueueInv, QueueStep, Queue!Next
<1>7. CASE AppendFails
  <2>1. /\ part = 0 /\ UNCHANGED <<file, cursor, drainVars, acked, answered>> /\ part' = 0
        /\ lock = "append" /\ lock' = "free"
    BY <1>7 DEF AppendFails, ReleaseAppend, diskVars, Durable
  <2>2. OnlyAccepted' BY <2>1 DEF QueueInv, OnlyAccepted
  <2>3. PassedAnswered' BY <1>1, <2>1, PassedGrows
  <2> QED BY <2>1, <2>2, <2>3, QueueStutters DEF QueueInv
<1> QED BY <1>3, <1>4, <1>5, <1>6, <1>7 DEF Append1

\* Reading leaves the queue alone.
LEMMA QueueRead ==
  ASSUME TypeInv, SettleInv, KeepInv, QueueInv, DrainRead
  PROVE  QueueInv' /\ QueueStep
<1> USE DEF TypeInv, TypeOK
<1>1. ~Rewind
  BY LenProperties DEF Rewind, KeepInv, CursorAtLine, AtLine, IsNewline
<1>2. /\ UNCHANGED <<file, cursor, lock, app, part, acked, answered>>
      /\ dpc # "truncated" /\ dpc' \notin {"truncated", "renaming"}
  BY <1>1 DEF DrainRead, StartPass, LoopTops, ReadChunk, ReadNoChunk, ReadLine, ReadNoLine,
              diskVars, lockVars, histVars
<1> QED BY <1>2, QueueInvSame, QueueStutters

\* The events in hand are pending.
LEMMA HandReadable ==
  ASSUME TypeInv, SettleInv, KeepInv, dpc \in {"sendChunk", "sendLine"}
  PROVE  /\ EventsIn(from, to) \subseteq Readable /\ Readable \subseteq Event
         /\ Sendable(from) => EventAt(from) \in Readable
<1> USE DEF TypeInv, TypeOK
<1>1. cursor \in Nat /\ Len(file) \in Nat /\ cursor <= Len(file) BY CursorInFile
<1>2. Start = cursor /\ from = cursor /\ to <= Len(file) /\ from < to
  BY <1>1 DEF Start, SettleInv, HandAtCursor, InHand, LinesInHand
<1>3. Members(from, to) \subseteq Members(Start, Len(file))
  BY <1>1, <1>2 DEF Members, LineStarts
<1>4. Sendable(from) => from \in Members(Start, Len(file))
  BY <1>1, <1>2 DEF Members, LineStarts
<1>5. Readable \subseteq Event BY <1>1, <1>2, EventsTyped DEF Readable
<1> QED BY <1>3, <1>4, <1>5 DEF Readable, EventsIn

\* The backend answers for pending events.
LEMMA QueueSend ==
  ASSUME TypeInv, SettleInv, KeepInv, QueueInv, DrainSend
  PROVE  QueueInv' /\ QueueStep
<1>1. /\ UNCHANGED <<file, cursor, lock, app, part, acked>> /\ answered \subseteq answered'
      /\ dpc \in {"sendChunk", "sendLine"} /\ dpc' \notin {"truncated", "renaming"}
  BY DEF DrainSend, ChunkFellBack, LineUnsendable, LineAnswered, ChunkAnswered,
         diskVars, lockVars, histVars, TypeInv, TypeOK
<1>2. QueueInv' BY <1>1, QueueInvSame
<1>3. CASE ChunkFellBack \/ LineUnsendable
  BY <1>1, <1>2, <1>3, QueueStutters DEF ChunkFellBack, LineUnsendable, histVars
<1>4. CASE LineAnswered
  <2>1. {EventAt(from)} \subseteq Readable /\ Readable \subseteq Event
        /\ answered' = answered \cup {EventAt(from)}
    BY <1>1, <1>4, HandReadable DEF LineAnswered
  <2> QED BY <1>1, <1>2, <2>1, QueueAnswers
<1>5. ASSUME NEW proven \in SUBSET Members(from, to), ChunkAnswered(proven)
      PROVE  QueueStep
  <2> DEFINE S == {EventAt(p) : p \in proven}
  <2>1. S \subseteq EventsIn(from, to) BY DEF EventsIn
  <2>2. S \subseteq Readable /\ S \in SUBSET Event BY <1>1, <2>1, HandReadable
  <2>3. answered' = answered \cup S BY <1>5 DEF ChunkAnswered
  <2> QED BY <1>1, <2>2, <2>3, QueueAnswers
<1> QED BY <1>2, <1>3, <1>4, <1>5 DEF DrainSend

\* A cursor write that passes answered lines only forgets them.
LEMMA QueueMoved ==
  ASSUME TypeInv, KeepInv, QueueInv, NEW n \in Nat, cursor <= n, AtLine(n),
         EventsIn(cursor, n) \subseteq answered,
         cursor' = n, UNCHANGED <<file, lock, app, part, acked, answered>>,
         dpc \in {"commitChunk", "commitLine"},
         dpc' \in {"idle", "readBatch", "readLine", "sendLine"}
  PROVE  QueueInv' /\ QueueStep
<1> USE DEF TypeInv, TypeOK
<1>1. cursor \in Nat /\ Len(file) \in Nat /\ cursor <= Len(file) /\ n <= Len(file)
  BY CursorInFile DEF AtLine, IsNewline
<1>2. OnlyAccepted' BY DEF QueueInv, OnlyAccepted
<1>3. EventsIn(0, KeptFrom)' = EventsIn(0, n)
  BY DEF KeptFrom, EventsIn, Members, LineStarts, IsNewline, Sendable, EventAt
<1>4. EventsIn(0, n) \subseteq EventsIn(0, cursor) \cup EventsIn(cursor, n)
  BY <1>1, SplitRange
<1>5. EventsIn(0, cursor) \subseteq answered BY DEF QueueInv, PassedAnswered, KeptFrom
<1>6. PassedAnswered' BY <1>3, <1>4, <1>5 DEF PassedAnswered
<1>7. Readable = EventsIn(cursor, Len(file)) BY <1>1 DEF Readable, Start
<1>8. Readable' = EventsIn(n, Len(file))
  <2>1. Start' = n BY <1>1 DEF Start
  <2> QED BY <2>1 DEF Readable, EventsIn, Members, LineStarts, IsNewline, Sendable, EventAt
<1>9. Readable' \subseteq Readable /\ Readable \subseteq Event
  BY <1>1, <1>7, <1>8, EarlierStart, EventsTyped
<1>10. Readable \subseteq Readable' \cup answered BY <1>1, <1>7, <1>8, SplitRange
<1> QED BY <1>2, <1>6, <1>9, <1>10, QueueForgets DEF QueueInv

LEMMA QueueCommit ==
  ASSUME TypeInv, SettleInv, KeepInv, QueueInv, DrainCommit
  PROVE  QueueInv' /\ QueueStep
<1> USE DEF TypeInv, TypeOK
<1>1. CASE CommitChunk
  <2>1. from = cur /\ cur = cursor
    BY <1>1 DEF CommitChunk, SettleInv, HandAtCursor, InHand
  <2>2. EventsIn(cursor, cursor + adv) \subseteq answered
    BY <1>1, <2>1 DEF CommitChunk, SettleInv, ChunkProven
  <2>3. AtLine(cursor + adv) BY <1>1, <2>1 DEF CommitChunk, KeepInv, CursorAtLine
  <2>4. cursor' = cursor + adv /\ UNCHANGED <<file, lock, app, part, acked, answered>>
    BY <1>1, <2>1 DEF CommitChunk, MoveCursor, lockVars
  <2>5. dpc = "commitChunk" /\ dpc' \in {"idle", "readBatch", "readLine"}
    BY <1>1 DEF CommitChunk, EndPass, LoopTops
  <2>6. cursor + adv \in Nat /\ cursor <= cursor + adv OBVIOUS
  <2> QED BY <2>2, <2>3, <2>4, <2>5, <2>6, QueueMoved
<1>2. CASE CommitLine
  <2> DEFINE end == LineEnd(from)
  <2>1. from = cur /\ cur = cursor
    BY <1>2 DEF CommitLine, SettleInv, HandAtCursor, InHand
  <2>2. end \in (from+1)..to /\ IsNewline(end) /\ \A m \in (from+1)..(end-1) : ~IsNewline(m)
    BY <1>2, LineEndBefore DEF CommitLine, LinesInHand, InHand
  <2>3. end \in Nat /\ cursor <= end /\ AtLine(end) /\ cur + end - from = end
    BY <2>1, <2>2 DEF AtLine
  <2>4. EventsIn(cursor, end) \subseteq answered
    <3>1. from < end BY <2>2
    <3>2. EventsIn(from, end) \subseteq IF Sendable(from) THEN {EventAt(from)} ELSE {}
      BY <2>2, <2>3, <3>1, OneLine
    <3> QED BY <1>2, <2>1, <3>2 DEF CommitLine, SettleInv, LineProven
  <2>5. cursor' = end /\ UNCHANGED <<file, lock, app, part, acked, answered>>
    BY <1>2, <2>3 DEF CommitLine, MoveCursor, lockVars
  <2>6. dpc = "commitLine" /\ dpc' \in {"readBatch", "readLine", "sendLine"}
    BY <1>2 DEF CommitLine, LoopTops
  <2> HIDE DEF end
  <2> QED BY <2>3, <2>4, <2>5, <2>6, QueueMoved
<1>3. CASE CommitFails
  BY <1>3, QueueInvSame, QueueStutters DEF CommitFails, EndPass, diskVars, lockVars, histVars
<1> QED BY <1>1, <1>2, <1>3 DEF DrainCommit

\* compact forgets what the cursor has passed; in between, with the cursor at 0, it
\* recalls that.
LEMMA QueueCompact ==
  ASSUME Durable, TypeInv, SettleInv, KeepInv, QueueInv, Compact \/ Crash
  PROVE  QueueInv' /\ QueueStep
<1> USE DEF TypeInv, TypeOK
<1>1. Len(file) \in Nat BY LenProperties
<1>2. lock # "append" => part = 0 /\ Len(file) - part = Len(file)
  BY <1>1 DEF KeepInv, OneUnfinished
<1>3. EventsIn(0, 0) = {} BY DEF EventsIn, Members, LineStarts
<1>4. CASE CompactNothing \/ TailFails \/ Crash
  <2>1. /\ UNCHANGED <<file, cursor, app, part, acked, answered>>
        /\ lock' = "append" => lock = "append"
        /\ dpc' = "idle"
    BY <1>4 DEF CompactNothing, TailFails, Crash, EndPass, diskVars, lockVars, histVars
  <2>2. dpc # "truncated" BY <1>4 DEF CompactNothing, TailFails, Crash, Durable
  <2> QED BY <2>1, <2>2, QueueInvSame, QueueStutters
<1>5. CASE TailCopy
  BY <1>5, QueueInvSame, QueueStutters DEF TailCopy, diskVars, histVars
<1>6. CASE CompactTruncate
  <2>1. /\ file' = <<>> /\ cursor' = cursor /\ Len(file) = cursor /\ part = 0 /\ part' = 0
        /\ UNCHANGED <<acked, answered>> /\ lock' = "drain" /\ dpc' = "truncated"
    BY <1>2, <1>6 DEF CompactTruncate, histVars, KeepInv, CursorAtLine
  <2>2. QueueInv' BY <2>1 DEF QueueInv, OnlyAccepted, PassedAnswered
  <2>3. Readable = {} BY <1>1, <2>1 DEF Readable, Start, EventsIn, Members, LineStarts
  <2>4. Readable' = {}
    <3>1. Len(file') = 0 /\ Start' = 0 BY <2>1 DEF Start
    <3> QED BY <3>1 DEF Readable, EventsIn, Members, LineStarts
  <2> QED BY <2>1, <2>2, <2>3, <2>4 DEF QueueStep, Queue!qvars
<1>7. CASE TruncateZero
  <2>1. /\ file = <<>> /\ file' = <<>> /\ cursor' = 0 /\ part = 0 /\ part' = 0
        /\ UNCHANGED <<acked, answered>> /\ lock' = "free" /\ dpc' = "idle"
    BY <1>2, <1>7 DEF TruncateZero, EndPass, histVars, KeepInv, CursorAtLine, CompactLocked
  <2>2. Len(file) = 0 /\ Len(file') = 0 /\ Start = 0 /\ Start' = 0 BY <2>1 DEF Start
  <2>3. Readable = {} /\ Readable' = {} /\ EventsIn(0, KeptFrom)' = {}
    BY <2>1, <2>2 DEF Readable, EventsIn, Members, LineStarts, KeptFrom
  <2>4. QueueInv' BY <2>1, <2>3 DEF QueueInv, OnlyAccepted, PassedAnswered
  <2> QED BY <2>1, <2>3, <2>4 DEF QueueStep, Queue!qvars
<1>8. CASE TailZero
  <2>1. /\ UNCHANGED <<file, lock, app, part, cur, acked, answered>>
        /\ cursor' = 0 /\ dpc = "tailCopied" /\ dpc' = "renaming" /\ lock = "drain"
        /\ cur = cursor
    BY <1>8 DEF TailZero, lockVars, histVars, KeepInv, CursorAtLine, CompactLocked
  <2>2. OnlyAccepted' BY <2>1 DEF QueueInv, OnlyAccepted
  <2>3. EventsIn(0, KeptFrom)' = EventsIn(0, cursor)
    BY <2>1 DEF KeptFrom, EventsIn, Members, LineStarts, IsNewline, Sendable, EventAt
  <2>4. EventsIn(0, cursor) \subseteq answered
    BY <2>1 DEF QueueInv, PassedAnswered, KeptFrom
  <2>5. PassedAnswered' BY <2>1, <2>3, <2>4 DEF PassedAnswered
  <2>6. cursor <= Len(file) BY <2>1, CursorInFile
  <2>7. Readable = EventsIn(cursor, Len(file)) BY <1>1, <2>6 DEF Readable, Start
  <2>8. Readable' = EventsIn(0, Len(file))
    <3>1. Start' = 0 BY <1>1, <2>1 DEF Start
    <3> QED BY <2>1, <3>1
            DEF Readable, EventsIn, Members, LineStarts, IsNewline, Sendable, EventAt
  <2>9. Readable' \subseteq EventsIn(0, cursor) \cup Readable BY <1>1, <2>7, <2>8, SplitRange
  <2>10. Readable \subseteq Readable'
    <3>1. AtLine(cursor) BY <2>1 DEF KeepInv, CursorAtLine
    <3> QED BY <1>1, <2>7, <2>8, <3>1, EarlierStart
  <2>11. EventsIn(0, Len(file)) \subseteq acked
    <3>1. \A p \in Members(0, Len(file)) : p + 1 \in 1..(Len(file) - part)
      BY <1>1, <1>2, <2>1 DEF Members, LineStarts
    <3> QED BY <3>1 DEF EventsIn, EventAt, QueueInv, OnlyAccepted
  <2>12. Readable' \subseteq Event BY <1>1, <2>8, EventsTyped
  <2>13. QueueStep BY <2>1, <2>4, <2>8, <2>9, <2>10, <2>11, <2>12, QueueRecalls
  <2> QED BY <2>2, <2>5, <2>13 DEF QueueInv
<1>9. CASE TailRename
  <2>1. /\ file' = SubSeq(file, cur + 1, Len(file)) /\ cursor = 0 /\ cursor' = 0
        /\ part = 0 /\ part' = 0 /\ dpc = "renaming" /\ dpc' = "idle" /\ AtLine(cur)
        /\ lock' = "free" /\ UNCHANGED <<acked, answered>>
    BY <1>2, <1>9 DEF TailRename, EndPass, histVars, KeepInv, CursorAtLine, CompactLocked
  <2>2. cur = 0 \/ NewlineOf(file, cur) BY <2>1 DEF AtLine, IsNewline, NewlineOf
  <2>3. cur <= Len(file) BY <1>1, <2>2 DEF NewlineOf
  <2>4. /\ Len(file') = Len(file) - cur
        /\ \A i \in 1..Len(file') : file'[i] = file[cur + i]
    <3>1. \A i \in (cur+1)..Len(file) : file[i] \in Cell BY <1>1, ElementOfSeq
    <3>2. /\ Len(file') = IF cur + 1 <= Len(file) THEN Len(file) - (cur + 1) + 1 ELSE 0
          /\ \A i \in 1..(Len(file) - (cur + 1) + 1) : file'[i] = file[(cur + 1) + i - 1]
      BY <1>1, <2>1, <3>1, SubSeqProperties
    <3>3. Len(file') = Len(file) - cur
      <4>1. cur \in Nat /\ (cur + 1 <= Len(file) \/ cur = Len(file)) BY <1>1, <2>3
      <4>2. CASE cur + 1 <= Len(file)
        <5>1. Len(file') = Len(file) - (cur + 1) + 1 BY <3>2, <4>2
        <5> QED BY <1>1, <4>1, <5>1
      <4>3. CASE ~(cur + 1 <= Len(file)) /\ cur = Len(file)
        <5>1. Len(file') = 0 BY <3>2, <4>3
        <5> QED BY <1>1, <4>3, <5>1
      <4> QED BY <4>1, <4>2, <4>3
    <3>4. \A i \in 1..Len(file') : /\ i \in 1..(Len(file) - (cur + 1) + 1)
                                   /\ (cur + 1) + i - 1 = cur + i
      BY <1>1, <2>3, <3>3
    <3>5. ASSUME NEW i \in 1..Len(file') PROVE file'[i] = file[cur + i]
      <4>1. file'[i] = file[(cur + 1) + i - 1] BY <3>2, <3>4
      <4> QED BY <3>4, <4>1
    <3> QED BY <3>3, <3>5
  <2>5. OnlyAccepted'
    <3>2. Len(file') - part' = Len(file') BY <1>1, <2>1, <2>3, <2>4
    <3> SUFFICES ASSUME NEW n \in 1..Len(file') PROVE file'[n][1] \in acked
      BY <2>1, <3>2 DEF OnlyAccepted
    <3>1. cur + n \in 1..(Len(file) - part) BY <1>1, <2>1, <2>3, <2>4
    <3> QED BY <2>4, <3>1 DEF QueueInv, OnlyAccepted
  <2>6. EventsIn(0, KeptFrom)' = {}
    BY <2>1 DEF KeptFrom, EventsIn, Members, LineStarts
  <2>7. PassedAnswered' BY <2>6 DEF PassedAnswered
  <2>8. EventsIn(0, cur) \subseteq answered BY <2>1 DEF QueueInv, PassedAnswered, KeptFrom
  <2>9. Readable = EventsOf(file, 0, Len(file)) BY <1>1, <2>1, ReadableNow
  <2>10. Readable' = EventsOf(file', 0, Len(file')) BY <1>1, <2>1, <2>3, <2>4, ReadableNow
  <2>11. EventsOf(file', 0, Len(file')) \subseteq EventsOf(file, cur, Len(file))
    BY <2>1, <2>2, CutReadable
  <2>12. EventsOf(file, cur, Len(file)) \subseteq EventsOf(file', 0, Len(file'))
    BY <2>1, ShiftedReadable
  <2>13. EventsOf(file, cur, Len(file)) \subseteq EventsOf(file, 0, Len(file))
    BY <1>1, <2>1, EarlierStart, ExplicitFile
  <2>14. EventsOf(file, 0, Len(file)) \subseteq EventsIn(0, cur) \cup EventsOf(file, cur, Len(file))
    BY <1>1, SplitRange, ExplicitFile
  <2>15. Readable \subseteq Event BY <1>1, <2>9, EventsTyped, ExplicitFile
  <2>16. Readable' \subseteq Readable /\ Readable \subseteq Readable' \cup answered
    BY <2>8, <2>9, <2>10, <2>11, <2>12, <2>13, <2>14
  <2> QED BY <2>1, <2>5, <2>7, <2>15, <2>16, QueueForgets DEF QueueInv
<1> QED BY <1>4, <1>5, <1>6, <1>7, <1>8, <1>9 DEF Compact

\* A lane implements the at-least-once queue of DeliveryQueue: every step of the
\* append, of the drain, of compact and of a crash is a step of the queue or none, so
\* nothing leaves the queue before the backend has answered for it, and nothing
\* returns to it but what was accepted and answered.
THEOREM LaneIsQueue ==
  ASSUME Durable
  PROVE  Spec => QueueSpec
<1>1. ReaderSafe BY DEF Durable
<1>2. Init => QueueInv /\ Queue!Init
  <2> SUFFICES ASSUME Init PROVE QueueInv /\ Queue!Init
    OBVIOUS
  <2>1. Len(file) = 0 /\ part = 0 /\ cursor = 0 /\ KeptFrom = 0 /\ Start = 0
    BY DEF Init, KeptFrom, Start
  <2>2. EventsIn(0, KeptFrom) = {} /\ Readable = {}
    BY <2>1 DEF EventsIn, Members, LineStarts, Readable
  <2>3. QueueInv BY <2>1, <2>2 DEF Init, QueueInv, OnlyAccepted, PassedAnswered
  <2> QED BY <2>2, <2>3 DEF Init, Queue!Init
<1>3. TypeInv /\ SettleInv /\ KeepInv /\ QueueInv /\ [Next]_vars
      => QueueInv' /\ [Queue!Next]_(Queue!qvars)
  <2> SUFFICES ASSUME TypeInv, SettleInv, KeepInv, QueueInv, [Next]_vars
               PROVE  QueueInv' /\ QueueStep
    BY DEF QueueStep
  <2>1. CASE Next
    BY <2>1, QueueAppend, QueueRead, QueueSend, QueueCommit, QueueCompact DEF Next
  <2>2. CASE UNCHANGED vars
    <3>1. UNCHANGED <<file, cursor, part, lock, app, acked, answered, dpc, cur>>
      BY <2>2 DEF vars, diskVars, lockVars, drainVars, lineVars, histVars
    <3>2. EventsIn(0, KeptFrom)' = EventsIn(0, KeptFrom)
      BY <3>1 DEF KeptFrom, EventsIn, Members, LineStarts, IsNewline, Sendable, EventAt
    <3>3. QueueInv' BY <3>1, <3>2 DEF QueueInv, OnlyAccepted, PassedAnswered
    <3> QED BY <3>1, <3>3, QueueStutters
  <2> QED BY <2>1, <2>2
<1> QED BY <1>1, <1>2, <1>3, TypeInvariant, SettleInvariant, KeepInvariant, PTL
        DEF Spec, QueueSpec, Queue!Spec

=============================================================================
