--------------------------- MODULE SignChainProofs ---------------------------
(***************************************************************************)
(* Theorems about SignChain, for every set of sessions, every number and   *)
(* size of the segments, every limit of the index and every environment.   *)
(***************************************************************************)
EXTENDS SignChain, SequenceTheorems, NaturalsInduction, WellFoundedInduction, TLAPS

-----------------------------------------------------------------------------
(* The inductive invariant.                                                 *)

\* An append is under way only while there is room for its event.
Room ==
  /\ Len(log) <= MaxEvents
  /\ pc \notin {"free", "commit"} => Len(log) < MaxEvents
  /\ pc = "commit" => Len(log) >= 1
  /\ unindexed \subseteq 1..Len(log)

\* A line that parses is that of an event; behind a partial line stands none.
LinesWritten ==
  /\ \A p \in Readable(seg) : LineAt(seg, p) \in 1..Len(log) /\ log[LineAt(seg, p)].whole
  /\ frag => Len(seg[0]) > 0 /\ seg[0][Len(seg[0])] = Garbage /\ "tornWrite" \in allowed
  /\ \A n \in 1..Len(log) : log[n].whole \/ "tornWrite" \in allowed

\* Only the oldest lines are gone.
Retained ==
  \A p \in Readable(seg) : \A n \in 1..Len(log) :
     log[n].whole /\ n > LineAt(seg, p) => \E q \in Readable(seg) : LineAt(seg, q) = n

\* A segment is renamed to one that was moved away, or to the oldest.
Vacated == pc = "shift" /\ shift < Segments - 1 => seg[shift + 1] = <<>>

\* A tip is an event of its session.
TipsOwn(t) ==
  \A s \in Session : t[s] # 0 =>
    /\ t[s] \in 1..Len(log) /\ log[t[s]].sid = s
    /\ log[t[s]].whole \/ "tornWrite" \in allowed

\* What a session has after its tip, up to an event, it was never told of.
TipsCurrent(t, upto) ==
  \A s \in Session : t[s] # 0 =>
    \A n \in 1..upto : log[n].whole /\ log[n].sid = s /\ n > t[s] => n \in unindexed

Tips ==
  /\ TipsOwn(tips)
  /\ index # NoIndex => TipsOwn(index)
  /\ index # NoIndex => TipsCurrent(index, IF pc = "commit" THEN Len(log) - 1 ELSE Len(log))
  /\ pc = "write" /\ ~partial => TipsCurrent(tips, Len(log))
  /\ pc = "commit" /\ ~partial => TipsCurrent(tips, Len(log) - 1)
  /\ pc \in {"write", "commit"} /\ partial => index = NoIndex /\ "scanIO" \in allowed
  /\ pc = "commit" => log[Len(log)].sid = sid

Links ==
  \A n \in 1..Len(log) : log[n].prev # 0 =>
    /\ log[n].prev < n /\ log[log[n].prev].sid = log[n].sid
    /\ log[log[n].prev].whole \/ "tornWrite" \in allowed
    /\ "scanIO" \in allowed \/ \A k \in 1..(n - 1) :
         log[k].whole /\ log[k].sid = log[n].sid /\ k > log[n].prev => k \in unindexed

Inv == /\ TypeOK /\ Room /\ LinesWritten /\ Chronological /\ Retained /\ Vacated
       /\ Tips /\ Links

-----------------------------------------------------------------------------
(* Lines and segments.                                                      *)

\* A non-empty set of natural numbers has a least element.
LEMMA LeastElement ==
  ASSUME NEW S \in SUBSET Nat, S # {}
  PROVE  \E p \in S : \A q \in S : p <= q
<1> DEFINE R == {ss \in Nat \X Nat : ss[1] < ss[2]}
<1>1. IsWellFoundedOn(R, Nat) BY NatLessThanWellFounded DEF OpToRel
<1>2. \A p, q \in Nat : q < p => <<q, p>> \in R
  <2> SUFFICES ASSUME NEW p \in Nat, NEW q \in Nat, q < p PROVE <<q, p>> \in R
    OBVIOUS
  <2>1. <<q, p>> \in Nat \X Nat OBVIOUS
  <2>2. <<q, p>>[1] = q /\ <<q, p>>[2] = p OBVIOUS
  <2> QED BY <2>1, <2>2
<1> HIDE DEF R
<1>3. PICK p \in S : \A q \in S : ~(<<q, p>> \in R) BY <1>1, WFMin
<1>4. \A q \in S : ~(q < p) BY <1>2, <1>3
<1> QED BY <1>4

\* A non-empty set of numbers up to N has a greatest element.
LEMMA GreatestElement ==
  ASSUME NEW N \in Nat, NEW S \in SUBSET (0..N), S # {}
  PROVE  \E p \in S : \A q \in S : q <= p
<1> DEFINE T == {N - p : p \in S}
<1>1. T \in SUBSET Nat /\ T # {}
  <2>1. \A p \in S : p \in 0..N OBVIOUS
  <2>2. \A p \in S : N - p \in Nat BY <2>1
  <2> QED BY <2>2
<1>2. PICK t \in T : \A u \in T : t <= u BY <1>1, LeastElement
<1>3. PICK p \in S : t = N - p BY <1>2
<1>4. ASSUME NEW q \in S PROVE q <= p
  <2>1. t <= N - q /\ t = N - p BY <1>2, <1>3
  <2> QED BY <1>3, <2>1
<1> QED BY <1>3, <1>4

\* The segments of a ledger.
Ledgers == [0..Segments -> Seq(0..MaxEvents)]

\* What Readable holds, place by place.
LEMMA ReadablePlaces ==
  ASSUME NEW segs \in Ledgers
  PROVE  /\ \A n \in 0..Segments : \A i \in 1..Len(segs[n]) :
              segs[n][i] # Garbage => /\ <<n, i>> \in Readable(segs)
                                      /\ LineAt(segs, <<n, i>>) = segs[n][i]
         /\ \A p \in Readable(segs) :
              /\ p[1] \in 0..Segments /\ p[2] \in 1..Len(segs[p[1]])
              /\ p = <<p[1], p[2]>> /\ LineAt(segs, p) = segs[p[1]][p[2]]
              /\ segs[p[1]][p[2]] # Garbage
<1>1. \A n \in 0..Segments : DOMAIN segs[n] = 1..Len(segs[n])
  BY DEF Ledgers
<1>2. ASSUME NEW n \in 0..Segments, NEW i \in 1..Len(segs[n]), segs[n][i] # Garbage
      PROVE  <<n, i>> \in Readable(segs) /\ LineAt(segs, <<n, i>>) = segs[n][i]
  <2>1. <<n, i>> \in {n} \X DOMAIN segs[n] BY <1>1
  <2>2. <<n, i>> \in UNION {{m} \X DOMAIN segs[m] : m \in 0..Segments} BY <2>1
  <2>3. <<n, i>>[1] = n /\ <<n, i>>[2] = i OBVIOUS
  <2> QED BY <1>2, <2>2, <2>3 DEF Readable, LineAt
<1>3. ASSUME NEW p \in Readable(segs)
      PROVE  /\ p[1] \in 0..Segments /\ p[2] \in 1..Len(segs[p[1]])
             /\ p = <<p[1], p[2]>> /\ LineAt(segs, p) = segs[p[1]][p[2]]
             /\ segs[p[1]][p[2]] # Garbage
  <2>1. PICK m \in 0..Segments : p \in {m} \X DOMAIN segs[m] BY DEF Readable
  <2>2. p[1] = m /\ p[2] \in DOMAIN segs[m] /\ p = <<p[1], p[2]>> BY <2>1
  <2> QED BY <1>1, <2>2 DEF Readable, LineAt
<1> QED BY <1>2, <1>3

\* The invariants of the ledger, place by place.
Sorted(segs) ==
  \A a, b \in 0..Segments : \A i \in 1..Len(segs[a]), j \in 1..Len(segs[b]) :
    segs[a][i] # Garbage /\ segs[b][j] # Garbage /\ (a > b \/ (a = b /\ i < j))
      => segs[a][i] < segs[b][j]

Written(segs, lg) ==
  \A n \in 0..Segments : \A i \in 1..Len(segs[n]) : segs[n][i] # Garbage =>
    segs[n][i] \in 1..Len(lg) /\ lg[segs[n][i]].whole

Has(segs, l) == \E n \in 0..Segments : \E i \in 1..Len(segs[n]) : segs[n][i] = l

Kept(segs, lg) ==
  \A n \in 0..Segments : \A i \in 1..Len(segs[n]) : segs[n][i] # Garbage =>
    \A l \in 1..Len(lg) : lg[l].whole /\ l > segs[n][i] => Has(segs, l)

LEMMA LedgerForms ==
  ASSUME NEW segs \in Ledgers, NEW lg, Segments \in Nat
  PROVE  /\ (\A p, q \in Readable(segs) : ReadBefore(p, q) => LineAt(segs, p) < LineAt(segs, q))
              <=> Sorted(segs)
         /\ (\A p \in Readable(segs) : LineAt(segs, p) \in 1..Len(lg) /\ lg[LineAt(segs, p)].whole)
              <=> Written(segs, lg)
         /\ (\A p \in Readable(segs) : \A n \in 1..Len(lg) :
               lg[n].whole /\ n > LineAt(segs, p) => \E q \in Readable(segs) : LineAt(segs, q) = n)
              <=> Kept(segs, lg)
<1> DEFINE InOrder == \A p, q \in Readable(segs) :
                        ReadBefore(p, q) => LineAt(segs, p) < LineAt(segs, q)
           Ends == \A p \in Readable(segs) : \A n \in 1..Len(lg) :
                     lg[n].whole /\ n > LineAt(segs, p) => \E q \in Readable(segs) : LineAt(segs, q) = n
<1>1. /\ \A n \in 0..Segments : \A i \in 1..Len(segs[n]) :
           segs[n][i] # Garbage => /\ <<n, i>> \in Readable(segs)
                                  /\ LineAt(segs, <<n, i>>) = segs[n][i]
      /\ \A p \in Readable(segs) :
           /\ p[1] \in 0..Segments /\ p[2] \in 1..Len(segs[p[1]])
           /\ p = <<p[1], p[2]>> /\ LineAt(segs, p) = segs[p[1]][p[2]]
           /\ segs[p[1]][p[2]] # Garbage
  BY ReadablePlaces
<1>2. InOrder => Sorted(segs)
  <2> SUFFICES ASSUME InOrder, NEW a \in 0..Segments, NEW b \in 0..Segments,
                      NEW i \in 1..Len(segs[a]), NEW j \in 1..Len(segs[b]),
                      segs[a][i] # Garbage, segs[b][j] # Garbage, a > b \/ (a = b /\ i < j)
               PROVE  segs[a][i] < segs[b][j]
    BY DEF Sorted
  <2>1. ReadBefore(<<a, i>>, <<b, j>>) BY DEF ReadBefore
  <2> QED BY <1>1, <2>1 DEF InOrder
<1>3. Sorted(segs) => InOrder
  BY <1>1 DEF InOrder, Sorted, ReadBefore
<1>4. (\A p \in Readable(segs) : LineAt(segs, p) \in 1..Len(lg) /\ lg[LineAt(segs, p)].whole)
        <=> Written(segs, lg)
  <2>1. ASSUME Written(segs, lg), NEW p \in Readable(segs)
        PROVE  LineAt(segs, p) \in 1..Len(lg) /\ lg[LineAt(segs, p)].whole
    BY <1>1, <2>1 DEF Written
  <2>2. ASSUME \A p \in Readable(segs) : LineAt(segs, p) \in 1..Len(lg) /\ lg[LineAt(segs, p)].whole
        PROVE  Written(segs, lg)
    <3> SUFFICES ASSUME NEW n \in 0..Segments, NEW i \in 1..Len(segs[n]), segs[n][i] # Garbage
                 PROVE  segs[n][i] \in 1..Len(lg) /\ lg[segs[n][i]].whole
      BY DEF Written
    <3>1. <<n, i>> \in Readable(segs) /\ LineAt(segs, <<n, i>>) = segs[n][i] BY <1>1
    <3> QED BY <2>2, <3>1
  <2> QED BY <2>1, <2>2
<1>5. \A l \in 1..Len(lg) : (\E q \in Readable(segs) : LineAt(segs, q) = l) <=> Has(segs, l)
  <2> SUFFICES ASSUME NEW l \in 1..Len(lg)
               PROVE  (\E q \in Readable(segs) : LineAt(segs, q) = l) <=> Has(segs, l)
    OBVIOUS
  <2>1. ASSUME NEW q \in Readable(segs), LineAt(segs, q) = l PROVE Has(segs, l)
    BY <1>1, <2>1 DEF Has
  <2>2. ASSUME NEW n \in 0..Segments, NEW i \in 1..Len(segs[n]), segs[n][i] = l
        PROVE  \E q \in Readable(segs) : LineAt(segs, q) = l
    <3>1. segs[n][i] # Garbage BY <2>2 DEF Garbage
    <3> QED BY <1>1, <2>2, <3>1
  <2> QED BY <2>1, <2>2 DEF Has
<1>6. Ends <=> Kept(segs, lg)
  <2>1. ASSUME Ends PROVE Kept(segs, lg)
    <3> SUFFICES ASSUME NEW n \in 0..Segments, NEW i \in 1..Len(segs[n]), segs[n][i] # Garbage,
                        NEW l \in 1..Len(lg), lg[l].whole, l > segs[n][i]
                 PROVE  Has(segs, l)
      BY DEF Kept
    <3>1. <<n, i>> \in Readable(segs) /\ LineAt(segs, <<n, i>>) = segs[n][i] BY <1>1
    <3>2. \E q \in Readable(segs) : LineAt(segs, q) = l BY <2>1, <3>1 DEF Ends
    <3> QED BY <1>5, <3>2
  <2>2. ASSUME Kept(segs, lg) PROVE Ends
    BY <1>1, <1>5, <2>2 DEF Ends, Kept
  <2> QED BY <2>1, <2>2
<1> QED BY <1>2, <1>3, <1>4, <1>6

\* The tip of a session that has one is the number of its last line.
LEMMA LastLine ==
  ASSUME NEW segs \in Ledgers, Sorted(segs), MaxEvents \in Nat, Segments \in Nat,
         NEW s \in Session, TipsIn(segs)[s] # 0
  PROVE  \E a \in 0..Segments : \E i \in 1..Len(segs[a]) :
           /\ segs[a][i] = TipsIn(segs)[s] /\ log[segs[a][i]].sid = s
           /\ \A b \in 0..Segments : \A j \in 1..Len(segs[b]) :
                segs[b][j] # Garbage /\ log[segs[b][j]].sid = s => segs[b][j] <= segs[a][i]
<1> DEFINE lines == LinesOf(segs, s)
           last  == LastOf(lines)
<1>1. lines # {} /\ TipsIn(segs)[s] = LineAt(segs, last)
  BY DEF TipsIn
<1>2. \A p \in lines : /\ p \in Readable(segs) /\ log[LineAt(segs, p)].sid = s
                       /\ p[1] \in 0..Segments /\ p[2] \in 1..Len(segs[p[1]])
                       /\ p = <<p[1], p[2]>> /\ LineAt(segs, p) = segs[p[1]][p[2]]
                       /\ segs[p[1]][p[2]] # Garbage
  BY ReadablePlaces DEF LinesOf
<1>3. \A p \in lines : LineAt(segs, p) \in 0..MaxEvents
  BY <1>2 DEF Ledgers
<1>4. \A p, q \in lines : ReadBefore(p, q) => LineAt(segs, p) < LineAt(segs, q)
  <2> SUFFICES ASSUME NEW p \in lines, NEW q \in lines, ReadBefore(p, q)
               PROVE  LineAt(segs, p) < LineAt(segs, q)
    OBVIOUS
  <2> HIDE DEF lines
  <2> QED BY <1>2 DEF ReadBefore, Sorted
<1>5. \A p, q \in lines : p = q \/ ReadBefore(p, q) \/ ReadBefore(q, p)
  <2> SUFFICES ASSUME NEW p \in lines, NEW q \in lines
               PROVE  p = q \/ ReadBefore(p, q) \/ ReadBefore(q, p)
    OBVIOUS
  <2>1. p[1] \in Int /\ q[1] \in Int /\ p[2] \in Int /\ q[2] \in Int BY <1>2
  <2>2. p[1] = q[1] /\ p[2] = q[2] => p = q BY <1>2
  <2> QED BY <2>1, <2>2 DEF ReadBefore
<1> HIDE DEF lines
<1>6. \E p \in lines : \A q \in lines : ~ReadBefore(p, q)
  <2> DEFINE numbers == {LineAt(segs, p) : p \in lines}
  <2>1. numbers \in SUBSET (0..MaxEvents) /\ numbers # {} BY <1>1, <1>3
  <2> HIDE DEF numbers
  <2>2. PICK v \in numbers : \A w \in numbers : w <= v BY <2>1, GreatestElement
  <2>3. PICK p \in lines : v = LineAt(segs, p) BY <2>2 DEF numbers
  <2>4. \A q \in lines : LineAt(segs, q) <= LineAt(segs, p) BY <2>2, <2>3 DEF numbers
  <2>5. \A q \in lines : ~ReadBefore(p, q) BY <1>3, <1>4, <2>4
  <2> QED BY <2>5
<1>7. last \in lines /\ \A q \in lines : ~ReadBefore(last, q)
  BY <1>6 DEF LastOf
<1>8. \A q \in lines : LineAt(segs, q) <= LineAt(segs, last)
  BY <1>3, <1>4, <1>5, <1>7
<1>9. ASSUME NEW b \in 0..Segments, NEW j \in 1..Len(segs[b]),
             segs[b][j] # Garbage, log[segs[b][j]].sid = s
      PROVE  segs[b][j] <= LineAt(segs, last)
  <2>1. <<b, j>> \in Readable(segs) /\ LineAt(segs, <<b, j>>) = segs[b][j]
    BY <1>9, ReadablePlaces
  <2>2. <<b, j>> \in lines BY <1>9, <2>1 DEF lines, LinesOf
  <2> QED BY <1>8, <2>1, <2>2
<1>10. /\ last[1] \in 0..Segments /\ last[2] \in 1..Len(segs[last[1]])
       /\ LineAt(segs, last) = segs[last[1]][last[2]] /\ log[LineAt(segs, last)].sid = s
  BY <1>2, <1>7
<1> QED BY <1>1, <1>9, <1>10

\* What a scan of the segments returns is the number of an event, or 0.
LEMMA TipsTyped ==
  ASSUME NEW segs \in Ledgers, Sorted(segs), MaxEvents \in Nat, Segments \in Nat
  PROVE  TipsIn(segs) \in [Session -> 0..MaxEvents]
<1>1. ASSUME NEW s \in Session PROVE TipsIn(segs)[s] \in 0..MaxEvents
  <2>1. CASE TipsIn(segs)[s] = 0 BY <2>1
  <2>2. CASE TipsIn(segs)[s] # 0
    <3>1. PICK a \in 0..Segments : \E i \in 1..Len(segs[a]) : segs[a][i] = TipsIn(segs)[s]
      BY <2>2, LastLine
    <3> QED BY <3>1 DEF Ledgers
  <2> QED BY <2>1, <2>2
<1>2. TipsIn(segs) = [s \in Session |-> TipsIn(segs)[s]] BY DEF TipsIn
<1> QED BY <1>1, <1>2

-----------------------------------------------------------------------------
(* The steps.                                                               *)

LEMMA InvInit == Init => Inv
<1> SUFFICES ASSUME Init PROVE Inv
  OBVIOUS
<1> USE ChainAssumption DEF Init
<1>1. seg \in Ledgers /\ \A n \in 0..Segments : Len(seg[n]) = 0
  BY DEF Ledgers
<1>2. Readable(seg) = {}
  BY <1>1, ReadablePlaces
<1>3. TypeOK
  BY <1>1 DEF TypeOK, Ledgers, NoIndex, NoTips
<1>4. Room /\ Vacated /\ Links
  BY DEF Room, Vacated, Links
<1>5. LinesWritten /\ Chronological /\ Retained
  BY <1>2 DEF LinesWritten, Chronological, Retained
<1>6. Tips
  BY DEF Tips, TipsOwn, NoTips, NoIndex
<1> QED BY <1>3, <1>4, <1>5, <1>6 DEF Inv

\* The ledger's invariants are about the segments and the log.
LEMMA SameLedger ==
  ASSUME UNCHANGED <<allowed, seg, frag, log>>, LinesWritten, Chronological, Retained, Links
  PROVE  LinesWritten' /\ Chronological' /\ Retained' /\ (unindexed \subseteq unindexed' => Links')
<1>1. LinesWritten' BY DEF LinesWritten, Readable, LineAt
<1>2. Chronological' BY DEF Chronological, Readable, LineAt
<1>3. Retained' BY DEF Retained, Readable, LineAt
<1>4. unindexed \subseteq unindexed' => Links' BY DEF Links
<1> QED BY <1>1, <1>2, <1>3, <1>4

LEMMA KeepLock ==
  ASSUME Inv, NEW s \in Session, Lock(s)
  PROVE  Inv'
<1> USE ChainAssumption DEF Inv, Lock
<1>1. TypeOK' BY DEF TypeOK
<1>2. Room' BY DEF Room, TypeOK
<1>3. LinesWritten' /\ Chronological' /\ Retained' /\ Links' BY SameLedger
<1>4. Vacated' BY DEF Vacated
<1>5. Tips' BY DEF Tips, TipsOwn, TipsCurrent
<1> QED BY <1>1, <1>2, <1>3, <1>4, <1>5

\* The ledger when segment k has become segment k + 1, the oldest of which is lost.
LEMMA KeepRenamed ==
  ASSUME Inv, NEW k \in 0..(Segments - 1), k + 1 = Segments \/ seg[k + 1] = <<>>,
         seg' = Renamed(k), frag' = (frag /\ k # 0), UNCHANGED <<allowed, log>>
  PROVE  seg' \in Ledgers /\ LinesWritten' /\ Chronological' /\ Retained'
<1> USE ChainAssumption
<1>1. seg \in Ledgers BY DEF Inv, TypeOK, Ledgers
<1>2. Sorted(seg) /\ Written(seg, log) /\ Kept(seg, log)
  BY <1>1, LedgerForms DEF Inv, LinesWritten, Chronological, Retained
<1>3. CASE seg[k] = <<>>
  <2>1. seg' = seg BY <1>3 DEF Renamed
  <2>2. ~(frag /\ k = 0) BY <1>3 DEF Inv, LinesWritten
  <2>3. frag' = frag
    <3>1. CASE frag
      <4>1. k # 0 BY <2>2, <3>1
      <4> QED BY <3>1, <4>1
    <3>2. CASE ~frag BY <3>2 DEF Inv, TypeOK
    <3> QED BY <3>1, <3>2
  <2> QED BY <1>1, <2>1, <2>3, SameLedger DEF Inv
<1>4. CASE seg[k] # <<>>
  <2>1. seg' = [seg EXCEPT ![k + 1] = seg[k], ![k] = <<>>] BY <1>4 DEF Renamed
  <2>2. seg' \in Ledgers BY <1>1, <2>1 DEF Ledgers
  <2>3. /\ seg'[k + 1] = seg[k] /\ seg'[k] = <<>>
        /\ \A n \in 0..Segments : n # k /\ n # k + 1 => seg'[n] = seg[n]
    BY <1>1, <2>1 DEF Ledgers
  <2>4. \A n \in 0..Segments : Len(seg'[n]) \in Nat /\ Len(seg[n]) \in Nat /\ Len(<<>>) = 0
    BY <1>1, <2>2 DEF Ledgers
  <2> DEFINE M(n) == IF n = k + 1 THEN k ELSE n
  <2>5. /\ \A n \in 0..Segments : M(n) \in 0..Segments
        /\ \A n \in 0..Segments : \A i \in 1..Len(seg'[n]) : n # k /\ seg'[n] = seg[M(n)]
        /\ \A a, b \in 0..Segments : a > b /\ b # k => M(a) > M(b)
    <3>1. \A n \in 0..Segments : M(n) \in 0..Segments OBVIOUS
    <3>2. ASSUME NEW n \in 0..Segments, NEW i \in 1..Len(seg'[n])
          PROVE  n # k /\ seg'[n] = seg[M(n)]
      BY <2>3, <2>4
    <3>3. \A a, b \in 0..Segments : a > b /\ b # k => M(a) > M(b) OBVIOUS
    <3> QED BY <3>1, <3>2, <3>3
  <2> HIDE DEF M
  <2>6. Sorted(seg') /\ Written(seg', log')
    <3>1. ASSUME NEW a \in 0..Segments, NEW b \in 0..Segments,
                 NEW i \in 1..Len(seg'[a]), NEW j \in 1..Len(seg'[b]),
                 seg'[a][i] # Garbage, seg'[b][j] # Garbage, a > b \/ (a = b /\ i < j)
          PROVE  seg'[a][i] < seg'[b][j]
      <4>1. /\ seg'[a] = seg[M(a)] /\ seg'[b] = seg[M(b)] /\ b # k
            /\ M(a) \in 0..Segments /\ M(b) \in 0..Segments
        BY <2>5
      <4>2. M(a) > M(b) \/ (M(a) = M(b) /\ i < j) BY <2>5, <3>1, <4>1
      <4> QED BY <1>2, <3>1, <4>1, <4>2 DEF Sorted
    <3>2. ASSUME NEW n \in 0..Segments, NEW i \in 1..Len(seg'[n]), seg'[n][i] # Garbage
          PROVE  seg'[n][i] \in 1..Len(log') /\ log'[seg'[n][i]].whole
      <4>1. seg'[n] = seg[M(n)] /\ M(n) \in 0..Segments BY <2>5
      <4> QED BY <1>2, <3>2, <4>1 DEF Written
    <3> QED BY <3>1, <3>2 DEF Sorted, Written
  <2>7. Kept(seg', log')
    <3> SUFFICES ASSUME NEW n \in 0..Segments, NEW i \in 1..Len(seg'[n]), seg'[n][i] # Garbage,
                        NEW l \in 1..Len(log), log[l].whole, l > seg'[n][i]
                 PROVE  Has(seg', l)
      BY DEF Kept
    <3>1. PICK m \in 0..Segments : /\ seg'[n] = seg[m] /\ m # k + 1
                                   /\ m <= n
      BY <2>3, <2>4
    <3>2. i \in 1..Len(seg[m]) /\ seg[m][i] # Garbage /\ l > seg[m][i] BY <3>1
    <3>3. PICK b \in 0..Segments : \E j \in 1..Len(seg[b]) : seg[b][j] = l
      BY <1>2, <3>2 DEF Kept, Has
    <3>4. PICK j \in 1..Len(seg[b]) : seg[b][j] = l BY <3>3
    <3>5. b # k + 1
      <4>1. ASSUME b = k + 1 PROVE FALSE
        <5>1. k + 1 = Segments BY <2>4, <3>4, <4>1
        <5>2. b > m BY <3>1, <4>1, <5>1
        <5>3. seg[b][j] # Garbage BY <3>4 DEF Garbage
        <5>4. seg[b][j] < seg[m][i] BY <1>2, <3>2, <5>2, <5>3 DEF Sorted
        <5>5. seg[m][i] \in Int /\ l \in Int BY <1>2, <3>2 DEF Written
        <5> QED BY <3>2, <3>4, <5>4, <5>5
      <4> QED BY <4>1
    <3>6. \E c \in 0..Segments : seg'[c] = seg[b]
      <4>1. CASE b = k BY <2>3, <4>1
      <4>2. CASE b # k BY <2>3, <3>5, <4>2
      <4> QED BY <4>1, <4>2
    <3> QED BY <3>4, <3>6 DEF Has
  <2>8. Chronological' /\ Retained'
         /\ \A p \in Readable(seg') : LineAt(seg', p) \in 1..Len(log') /\ log'[LineAt(seg', p)].whole
    <3>1. /\ Sorted(seg') => Chronological'
          /\ Written(seg', log') => \A p \in Readable(seg') :
               LineAt(seg', p) \in 1..Len(log') /\ log'[LineAt(seg', p)].whole
          /\ Kept(seg', log') => Retained'
      BY <2>2, LedgerForms DEF Chronological, Retained
    <3> QED BY <2>6, <2>7, <3>1
  <2>9. LinesWritten'
    <3>1. frag' => frag /\ k # 0 OBVIOUS
    <3>2. k # 0 => seg'[0] = seg[0] BY <2>3
    <3>3. frag' => Len(seg'[0]) > 0 /\ seg'[0][Len(seg'[0])] = Garbage /\ "tornWrite" \in allowed'
      BY <3>1, <3>2 DEF Inv, LinesWritten
    <3> QED BY <2>8, <3>3 DEF Inv, LinesWritten
  <2> QED BY <2>2, <2>8, <2>9
<1> QED BY <1>3, <1>4

LEMMA KeepRotate ==
  ASSUME Inv, ShiftSegment \/ RotateLive \/ RotationFails
  PROVE  Inv'
<1> USE ChainAssumption
<1>1. seg \in Ledgers BY DEF Inv, TypeOK, Ledgers
<1>2. CASE RotationFails
  <2>1. TypeOK' BY <1>2 DEF Inv, RotationFails, TypeOK
  <2>2. Room' BY <1>2 DEF Inv, RotationFails, Room, TypeOK
  <2>3. LinesWritten' /\ Chronological' /\ Retained' /\ Links'
    BY <1>2, SameLedger DEF Inv, RotationFails
  <2>4. Vacated' BY <1>2 DEF Inv, RotationFails, Vacated
  <2>5. Tips' BY <1>2 DEF Inv, RotationFails, Tips, TipsOwn, TipsCurrent
  <2> QED BY <2>1, <2>2, <2>3, <2>4, <2>5 DEF Inv
<1>3. CASE ShiftSegment \/ RotateLive
  <2>1. /\ shift \in 0..(Segments - 1) /\ (shift + 1 = Segments \/ seg[shift + 1] = <<>>)
        /\ seg' = Renamed(shift) /\ (frag' <=> frag /\ shift # 0)
        /\ frag' \in BOOLEAN
        /\ UNCHANGED <<allowed, index, sid, tips, partial, log, unindexed>>
        /\ shift' \in 0..(Segments - 1) /\ pc = "shift"
        /\ \/ pc' = "shift" /\ shift' = shift - 1 /\ shift >= 1
           \/ pc' = "load"
    <3>1. shift \in 0..(Segments - 1) BY DEF Inv, TypeOK
    <3>2. pc = "shift" BY <1>3 DEF ShiftSegment, RotateLive
    <3>3. shift + 1 = Segments \/ seg[shift + 1] = <<>> BY <3>1, <3>2 DEF Inv, Vacated
    <3>4. CASE ShiftSegment
      <4>1. shift >= 1 /\ shift' = shift - 1 BY <3>4 DEF ShiftSegment
      <4>2. shift' \in 0..(Segments - 1) BY <3>1, <4>1
      <4>3. frag' \in BOOLEAN /\ (frag' <=> frag /\ shift # 0)
        BY <3>4, <4>1 DEF ShiftSegment, Inv, TypeOK
      <4> QED BY <3>1, <3>2, <3>3, <3>4, <4>1, <4>2, <4>3 DEF ShiftSegment
    <3>5. CASE RotateLive
      <4>1. shift = 0 /\ shift' = shift BY <3>5 DEF RotateLive
      <4> QED BY <3>1, <3>2, <3>3, <3>5, <4>1 DEF RotateLive
    <3> QED BY <1>3, <3>4, <3>5
  <2>2. seg' \in Ledgers /\ LinesWritten' /\ Chronological' /\ Retained'
    BY <2>1, KeepRenamed
  <2>3. TypeOK' BY <2>1, <2>2 DEF Inv, TypeOK, Ledgers
  <2>4. Room' BY <2>1 DEF Inv, Room, TypeOK
  <2>5. Links' BY <2>1 DEF Inv, Links
  <2>6. Tips' BY <2>1 DEF Inv, Tips, TipsOwn, TipsCurrent
  <2>7. Vacated'
    <3> SUFFICES ASSUME pc' = "shift", shift' < Segments - 1 PROVE seg'[shift' + 1] = <<>>
      BY DEF Vacated
    <3>1. shift' + 1 = shift /\ shift \in 0..Segments BY <2>1
    <3> QED BY <1>1, <2>1, <3>1 DEF Renamed, Ledgers
  <2> QED BY <2>2, <2>3, <2>4, <2>5, <2>6, <2>7 DEF Inv
<1> QED BY <1>2, <1>3

LEMMA KeepDropOldest ==
  ASSUME Inv, DropOldest
  PROVE  Inv'
<1> USE ChainAssumption DEF DropOldest
<1>1. seg \in Ledgers BY DEF Inv, TypeOK, Ledgers
<1>2. Sorted(seg) /\ Written(seg, log) /\ Kept(seg, log)
  BY <1>1, LedgerForms DEF Inv, LinesWritten, Chronological, Retained
<1>3. seg' \in Ledgers
  <2>1. <<>> \in Seq(0..MaxEvents) OBVIOUS
  <2>2. [seg EXCEPT ![Segments] = <<>>] \in Ledgers BY <1>1, <2>1 DEF Ledgers
  <2> QED BY <1>1, <2>2
<1>4. TypeOK' BY <1>3 DEF Inv, TypeOK, Ledgers
<1>5. Room' BY DEF Inv, Room, TypeOK
<1>6. Links' /\ Vacated' BY DEF Inv, Links, Vacated
<1>7. Tips' BY DEF Inv, Tips, TipsOwn, TipsCurrent
<1>8. LinesWritten' /\ Chronological' /\ Retained'
  <2>1. CASE UNCHANGED seg BY <2>1, SameLedger DEF Inv
  <2>2. CASE seg' = [seg EXCEPT ![Segments] = <<>>]
    <3>1. /\ seg'[Segments] = <<>> /\ \A n \in 0..(Segments - 1) : seg'[n] = seg[n]
          /\ \A n \in 0..Segments : n = Segments \/ n \in 0..(Segments - 1)
      BY <1>1, <2>2 DEF Ledgers
    <3>2. \A n \in 0..Segments : \A i \in 1..Len(seg'[n]) : n # Segments /\ seg'[n] = seg[n]
      BY <3>1
    <3>3. Sorted(seg') BY <1>2, <3>2 DEF Sorted
    <3>4. Written(seg', log') BY <1>2, <3>2 DEF Written
    <3>5. Kept(seg', log')
      <4> SUFFICES ASSUME NEW n \in 0..Segments, NEW i \in 1..Len(seg'[n]), seg'[n][i] # Garbage,
                          NEW l \in 1..Len(log), log[l].whole, l > seg'[n][i]
                   PROVE  Has(seg', l)
        BY DEF Kept
      <4>1. n # Segments /\ i \in 1..Len(seg[n]) /\ seg'[n] = seg[n] BY <3>2
      <4>2. Has(seg, l) BY <1>2, <4>1 DEF Kept
      <4>3. PICK b \in 0..Segments : \E j \in 1..Len(seg[b]) : seg[b][j] = l BY <4>2 DEF Has
      <4>4. PICK j \in 1..Len(seg[b]) : seg[b][j] = l BY <4>3
      <4>5. ASSUME b = Segments PROVE FALSE
        <5>1. b > n BY <4>1, <4>5
        <5>2. seg[b][j] # Garbage BY <4>4 DEF Garbage
        <5>3. seg[b][j] < seg[n][i] BY <1>2, <4>1, <5>1, <5>2 DEF Sorted
        <5>4. seg[n][i] \in Int /\ l \in Int BY <1>2, <4>1 DEF Written
        <5> QED BY <4>1, <4>4, <5>3, <5>4
      <4>6. seg'[b] = seg[b] BY <3>1, <4>5
      <4> QED BY <4>4, <4>6 DEF Has
    <3>6. Chronological' /\ Retained'
          /\ \A p \in Readable(seg') : LineAt(seg', p) \in 1..Len(log') /\ log'[LineAt(seg', p)].whole
      <4>1. /\ Sorted(seg') => Chronological'
            /\ Written(seg', log') => \A p \in Readable(seg') :
                 LineAt(seg', p) \in 1..Len(log') /\ log'[LineAt(seg', p)].whole
            /\ Kept(seg', log') => Retained'
        BY <1>3, LedgerForms DEF Chronological, Retained
      <4> QED BY <3>3, <3>4, <3>5, <4>1
    <3>7. seg'[0] = seg[0] BY <3>1
    <3>8. LinesWritten' BY <3>6, <3>7 DEF Inv, LinesWritten
    <3> QED BY <3>6, <3>8
  <2> QED BY <2>1, <2>2
<1> QED BY <1>4, <1>5, <1>6, <1>7, <1>8 DEF Inv

\* The tips of a rebuild are events of their sessions.
LEMMA RebuiltOwn ==
  ASSUME NEW segs \in Ledgers, Sorted(segs), Written(segs, log), MaxEvents \in Nat, Segments \in Nat
  PROVE  TipsOwn(TipsIn(segs))
<1> SUFFICES ASSUME NEW s \in Session, TipsIn(segs)[s] # 0
             PROVE  /\ TipsIn(segs)[s] \in 1..Len(log) /\ log[TipsIn(segs)[s]].sid = s
                    /\ log[TipsIn(segs)[s]].whole
  BY DEF TipsOwn
<1>1. PICK a \in 0..Segments : \E i \in 1..Len(segs[a]) :
        segs[a][i] = TipsIn(segs)[s] /\ log[segs[a][i]].sid = s
  BY LastLine
<1>2. PICK i \in 1..Len(segs[a]) : segs[a][i] = TipsIn(segs)[s] /\ log[segs[a][i]].sid = s
  BY <1>1
<1>3. segs[a][i] # Garbage BY <1>2 DEF Garbage
<1> QED BY <1>2, <1>3 DEF Written

\* A rebuild from every retained segment leaves no event behind.
LEMMA RebuiltCurrent ==
  ASSUME NEW segs \in Ledgers, Sorted(segs), Written(segs, log), Kept(segs, log),
         MaxEvents \in Nat, Segments \in Nat
  PROVE  TipsCurrent(TipsIn(segs), Len(log))
<1> SUFFICES ASSUME NEW s \in Session, TipsIn(segs)[s] # 0,
                    NEW n \in 1..Len(log), log[n].whole, log[n].sid = s, n > TipsIn(segs)[s]
             PROVE  FALSE
  BY DEF TipsCurrent
<1>1. PICK a \in 0..Segments : \E i \in 1..Len(segs[a]) :
        /\ segs[a][i] = TipsIn(segs)[s]
        /\ \A b \in 0..Segments : \A j \in 1..Len(segs[b]) :
             segs[b][j] # Garbage /\ log[segs[b][j]].sid = s => segs[b][j] <= segs[a][i]
  BY LastLine
<1>2. PICK i \in 1..Len(segs[a]) :
        /\ segs[a][i] = TipsIn(segs)[s]
        /\ \A b \in 0..Segments : \A j \in 1..Len(segs[b]) :
             segs[b][j] # Garbage /\ log[segs[b][j]].sid = s => segs[b][j] <= segs[a][i]
  BY <1>1
<1>3. segs[a][i] # Garbage BY <1>2 DEF Garbage
<1>4. Has(segs, n) BY <1>2, <1>3 DEF Kept
<1>5. PICK b \in 0..Segments : \E j \in 1..Len(segs[b]) : segs[b][j] = n BY <1>4 DEF Has
<1>6. PICK j \in 1..Len(segs[b]) : segs[b][j] = n BY <1>5
<1>7. n <= segs[a][i]
  <2>1. segs[b][j] # Garbage /\ log[segs[b][j]].sid = s BY <1>6 DEF Garbage
  <2>2. segs[b][j] <= segs[a][i] BY <1>2, <2>1
  <2> QED BY <1>6, <2>2
<1>8. segs[a][i] \in Int BY <1>3 DEF Written
<1> QED BY <1>2, <1>7, <1>8

LEMMA KeepLoad ==
  ASSUME Inv, LoadTips \/ LoadSome
  PROVE  Inv'
<1> USE ChainAssumption
<1>1. seg \in Ledgers BY DEF Inv, TypeOK, Ledgers
<1>2. Sorted(seg) /\ Written(seg, log) /\ Kept(seg, log)
  BY <1>1, LedgerForms DEF Inv, LinesWritten, Chronological, Retained
<1>3. /\ pc = "load" /\ pc' = "write"
      /\ UNCHANGED <<allowed, seg, frag, index, shift, sid, log, unindexed>>
  BY DEF LoadTips, LoadSome
<1>4. LinesWritten' /\ Chronological' /\ Retained' /\ Links'
  BY <1>3, SameLedger DEF Inv
<1>5. Room' /\ Vacated' BY <1>3 DEF Inv, Room, Vacated, TypeOK
<1>6. /\ tips' \in [Session -> 0..MaxEvents] /\ TipsOwn(tips')
      /\ partial' \in BOOLEAN
      /\ ~partial' => TipsCurrent(tips', Len(log))
      /\ partial' => index = NoIndex /\ "scanIO" \in allowed
  <2>1. CASE LoadTips
    <3>1. CASE index = NoIndex
      <4>1. tips' = TipsIn(seg) /\ partial' = FALSE BY <2>1, <3>1 DEF LoadTips
      <4> QED BY <1>1, <1>2, <4>1, TipsTyped, RebuiltOwn, RebuiltCurrent
    <3>2. CASE index # NoIndex
      <4>1. tips' = index /\ partial' = FALSE BY <2>1, <3>2 DEF LoadTips
      <4> QED BY <1>3, <3>2, <4>1 DEF Inv, TypeOK, Tips
    <3> QED BY <3>1, <3>2
  <2>2. CASE LoadSome
    <3>0. PICK n \in 0..Segments : \E k \in 0..(Len(seg[n]) - 1) :
            tips' = TipsIn([seg EXCEPT ![n] = SubSeq(@, 1, k)])
      BY <2>2 DEF LoadSome
    <3>1. PICK k \in 0..(Len(seg[n]) - 1) : tips' = TipsIn([seg EXCEPT ![n] = SubSeq(@, 1, k)])
      BY <3>0
    <3> DEFINE segs == [seg EXCEPT ![n] = SubSeq(@, 1, k)]
    <3>2. /\ SubSeq(seg[n], 1, k) \in Seq(0..MaxEvents) /\ Len(SubSeq(seg[n], 1, k)) = k
          /\ \A i \in 1..k : SubSeq(seg[n], 1, k)[i] = seg[n][i]
      <4>1. seg[n] \in Seq(0..MaxEvents) /\ k \in Nat /\ k <= Len(seg[n]) BY <1>1 DEF Ledgers
      <4> QED BY <4>1
    <3>3. segs \in Ledgers BY <1>1, <3>2 DEF Ledgers
    <3>4. /\ segs[n] = SubSeq(seg[n], 1, k)
          /\ \A m \in 0..Segments : m # n => segs[m] = seg[m]
      BY <1>1 DEF Ledgers
    <3>5. \A m \in 0..Segments : \A i \in 1..Len(segs[m]) : i \in 1..Len(seg[m]) /\ segs[m][i] = seg[m][i]
      BY <1>1, <3>2, <3>4 DEF Ledgers
    <3> HIDE DEF segs
    <3>6. Sorted(segs)
      <4> SUFFICES ASSUME NEW a \in 0..Segments, NEW b \in 0..Segments,
                          NEW i \in 1..Len(segs[a]), NEW j \in 1..Len(segs[b]),
                          segs[a][i] # Garbage, segs[b][j] # Garbage, a > b \/ (a = b /\ i < j)
                   PROVE  segs[a][i] < segs[b][j]
        BY DEF Sorted
      <4>1. i \in 1..Len(seg[a]) /\ segs[a][i] = seg[a][i] BY <3>5
      <4>2. j \in 1..Len(seg[b]) /\ segs[b][j] = seg[b][j] BY <3>5
      <4> QED BY <1>2, <4>1, <4>2 DEF Sorted
    <3>7. Written(segs, log) BY <1>2, <3>5 DEF Written
    <3>8. tips' = TipsIn(segs) BY <3>1 DEF segs
    <3>9. tips' \in [Session -> 0..MaxEvents] /\ TipsOwn(tips')
      BY <3>3, <3>6, <3>7, <3>8, TipsTyped, RebuiltOwn
    <3> QED BY <2>2, <3>9 DEF LoadSome
  <2> QED BY <2>1, <2>2
<1>7. TypeOK' BY <1>3, <1>6 DEF Inv, TypeOK
<1>8. Tips' BY <1>3, <1>6 DEF Inv, Tips, TipsOwn, TipsCurrent
<1> QED BY <1>4, <1>5, <1>7, <1>8 DEF Inv

\* What an event signed adds to the log.
LEMMA LogGrows ==
  ASSUME Inv, NEW whole \in BOOLEAN, log' = Signed(whole)
  PROVE  /\ Len(log') = Len(log) + 1 /\ Len(log) \in Nat
         /\ \A n \in 1..Len(log) : log'[n] = log[n]
         /\ log'[Len(log) + 1] = [sid |-> sid, prev |-> tips[sid], whole |-> whole]
         /\ log' \in Seq([sid : Session, prev : 0..MaxEvents, whole : BOOLEAN])
<1> DEFINE R == [sid : Session, prev : 0..MaxEvents, whole : BOOLEAN]
           e == [sid |-> sid, prev |-> tips[sid], whole |-> whole]
<1>1. log \in Seq(R) /\ e \in R BY DEF Inv, TypeOK
<1>2. log' = Append(log, e) BY DEF Signed
<1> HIDE DEF R, e
<1>3. /\ Append(log, e) \in Seq(R) /\ Len(Append(log, e)) = Len(log) + 1 /\ Len(log) \in Nat
      /\ \A n \in 1..Len(log) : Append(log, e)[n] = log[n]
      /\ Append(log, e)[Len(log) + 1] = e
  BY <1>1
<1> QED BY <1>2, <1>3 DEF R, e

\* The links and the tips after an event has been signed: its own link is the tip
\* that the append has loaded.
LEMMA LinksGrow ==
  ASSUME Inv, pc = "write", NEW whole \in BOOLEAN, log' = Signed(whole),
         UNCHANGED <<allowed, unindexed>>
  PROVE  Links'
<1> SUFFICES ASSUME NEW n \in 1..Len(log'), log'[n].prev # 0
             PROVE  /\ log'[n].prev < n /\ log'[log'[n].prev].sid = log'[n].sid
                    /\ log'[log'[n].prev].whole \/ "tornWrite" \in allowed
                    /\ "scanIO" \in allowed \/ \A k \in 1..(n - 1) :
                         log'[k].whole /\ log'[k].sid = log'[n].sid /\ k > log'[n].prev => k \in unindexed
  BY DEF Links
<1>1. /\ Len(log') = Len(log) + 1 /\ Len(log) \in Nat
      /\ \A k \in 1..Len(log) : log'[k] = log[k]
      /\ log'[Len(log) + 1] = [sid |-> sid, prev |-> tips[sid], whole |-> whole]
  BY LogGrows
<1>2. CASE n \in 1..Len(log)
  <2>1. /\ log'[n] = log[n] /\ log[n].prev < n /\ log[n].prev \in Nat
        /\ log[log[n].prev].sid = log[n].sid
        /\ log[log[n].prev].whole \/ "tornWrite" \in allowed
        /\ "scanIO" \in allowed \/ \A k \in 1..(n - 1) :
             log[k].whole /\ log[k].sid = log[n].sid /\ k > log[n].prev => k \in unindexed
    <3>1. log'[n] = log[n] /\ log[n].prev # 0 BY <1>1, <1>2
    <3>2. log[n] \in [sid : Session, prev : 0..MaxEvents, whole : BOOLEAN]
      BY <1>2, ElementOfSeq DEF Inv, TypeOK
    <3>3. log[n].prev \in Nat BY <3>2
    <3> QED BY <1>2, <3>1, <3>3 DEF Inv, Links
  <2>2. log[n].prev \in 1..Len(log) BY <1>2, <2>1
  <2>3. log'[log[n].prev] = log[log[n].prev] BY <1>1, <2>2
  <2>4. \A k \in 1..(n - 1) : log'[k] = log[k] BY <1>1, <1>2
  <2> QED BY <2>1, <2>3, <2>4
<1>3. CASE n = Len(log) + 1
  <2>1. log'[n].prev = tips[sid] /\ log'[n].sid = sid /\ sid \in Session
    BY <1>1, <1>3 DEF Inv, TypeOK
  <2>2. /\ tips[sid] \in 1..Len(log) /\ log[tips[sid]].sid = sid
        /\ log[tips[sid]].whole \/ "tornWrite" \in allowed
    BY <2>1 DEF Inv, Tips, TipsOwn
  <2>3. log'[tips[sid]] = log[tips[sid]] BY <1>1, <2>2
  <2>4. ASSUME "scanIO" \notin allowed, NEW k \in 1..(n - 1),
               log'[k].whole, log'[k].sid = sid, k > tips[sid]
        PROVE  k \in unindexed
    <3>1. ~partial BY <2>4 DEF Inv, Tips
    <3>2. k \in 1..Len(log) /\ log'[k] = log[k] BY <1>1, <1>3
    <3>3. TipsCurrent(tips, Len(log)) BY <3>1 DEF Inv, Tips
    <3> QED BY <2>1, <2>4, <3>2, <3>3 DEF TipsCurrent
  <2> QED BY <1>1, <1>3, <2>1, <2>2, <2>3, <2>4
<1> QED BY <1>1, <1>2, <1>3

LEMMA TipsGrow ==
  ASSUME Inv, pc = "write", NEW whole \in BOOLEAN, log' = Signed(whole),
         UNCHANGED <<allowed, unindexed, index, tips, sid, partial>>,
         pc' = "commit" \/ (pc' = "free" /\ ~whole)
  PROVE  Tips'
<1>1. /\ Len(log') = Len(log) + 1 /\ Len(log) \in Nat
      /\ \A k \in 1..Len(log) : log'[k] = log[k]
      /\ log'[Len(log) + 1] = [sid |-> sid, prev |-> tips[sid], whole |-> whole]
  BY LogGrows
<1>2. TipsOwn(tips)' BY <1>1 DEF Inv, Tips, TipsOwn
<1>3. index' # NoIndex => TipsOwn(index)' BY <1>1 DEF Inv, Tips, TipsOwn, NoIndex
<1>4. ASSUME index # NoIndex, NEW s \in Session, index[s] # 0, NEW n \in 1..Len(log'),
             pc' = "commit" => n \in 1..(Len(log') - 1),
             log'[n].whole, log'[n].sid = s, n > index[s]
      PROVE  n \in unindexed
  <2>1. TipsCurrent(index, Len(log)) BY <1>4 DEF Inv, Tips
  <2>2. n # Len(log) + 1 BY <1>1, <1>4
  <2>3. n \in 1..Len(log) /\ log'[n] = log[n] BY <1>1, <2>2
  <2> QED BY <1>4, <2>1, <2>3 DEF TipsCurrent
<1>5. ASSUME ~partial, NEW s \in Session, tips[s] # 0, NEW n \in 1..(Len(log') - 1),
             log'[n].whole, log'[n].sid = s, n > tips[s]
      PROVE  n \in unindexed
  <2>1. TipsCurrent(tips, Len(log)) BY <1>5 DEF Inv, Tips
  <2>2. n \in 1..Len(log) /\ log'[n] = log[n] BY <1>1
  <2> QED BY <1>5, <2>1, <2>2 DEF TipsCurrent
<1>6. partial => index = NoIndex /\ "scanIO" \in allowed BY DEF Inv, Tips
<1>7. log'[Len(log')].sid = sid' BY <1>1
<1>8. index' # NoIndex => TipsCurrent(index, IF pc = "commit" THEN Len(log) - 1 ELSE Len(log))'
  BY <1>1, <1>4 DEF TipsCurrent
<1>9. pc' = "commit" /\ ~partial' => TipsCurrent(tips, Len(log) - 1)'
  BY <1>5 DEF TipsCurrent
<1> QED BY <1>2, <1>3, <1>6, <1>7, <1>8, <1>9 DEF Tips

\* The ledger when the event signed has got its line, or when a partial line
\* stands at the end in its place.
LEMMA LedgerGrows ==
  ASSUME Inv, NEW whole \in BOOLEAN, log' = Signed(whole), NEW l \in 0..MaxEvents,
         seg' = [seg EXCEPT ![0] = Append(@, l)], whole => l = Len(log'), ~whole => l = Garbage
  PROVE  /\ seg' \in Ledgers /\ Chronological' /\ Retained'
         /\ \A p \in Readable(seg') : LineAt(seg', p) \in 1..Len(log') /\ log'[LineAt(seg', p)].whole
         /\ Len(seg'[0]) > 0 /\ seg'[0][Len(seg'[0])] = l
<1> USE ChainAssumption
<1>1. seg \in Ledgers BY DEF Inv, TypeOK, Ledgers
<1>2. Sorted(seg) /\ Written(seg, log) /\ Kept(seg, log)
  BY <1>1, LedgerForms DEF Inv, LinesWritten, Chronological, Retained
<1>3. /\ Len(log') = Len(log) + 1 /\ Len(log) \in Nat
      /\ \A k \in 1..Len(log) : log'[k] = log[k]
      /\ log'[Len(log) + 1] = [sid |-> sid, prev |-> tips[sid], whole |-> whole]
  BY LogGrows
<1> DEFINE m == Len(seg[0])
<1>4. /\ seg[0] \in Seq(0..MaxEvents) /\ m \in Nat
      /\ seg'[0] = Append(seg[0], l)
      /\ \A n \in 0..Segments : n # 0 => seg'[n] = seg[n]
  BY <1>1 DEF Ledgers
<1>5. /\ Append(seg[0], l) \in Seq(0..MaxEvents) /\ Len(Append(seg[0], l)) = m + 1
      /\ \A i \in 1..m : Append(seg[0], l)[i] = seg[0][i]
      /\ Append(seg[0], l)[m + 1] = l
  BY <1>4
<1>6. seg' \in Ledgers BY <1>1, <1>4, <1>5 DEF Ledgers
<1>7. \A n \in 0..Segments : \A i \in 1..Len(seg'[n]) :
        \/ i \in 1..Len(seg[n]) /\ seg'[n][i] = seg[n][i]
        \/ n = 0 /\ i = m + 1 /\ seg'[n][i] = l
  BY <1>4, <1>5
<1>8. \A n \in 0..Segments : \A i \in 1..Len(seg[n]) : i \in 1..Len(seg'[n]) /\ seg'[n][i] = seg[n][i]
  BY <1>4, <1>5
<1>9. l # Garbage => l = Len(log) + 1 /\ whole BY <1>3
<1> HIDE DEF m
<1>10. Written(seg', log')
  <2> SUFFICES ASSUME NEW n \in 0..Segments, NEW i \in 1..Len(seg'[n]), seg'[n][i] # Garbage
               PROVE  seg'[n][i] \in 1..Len(log') /\ log'[seg'[n][i]].whole
    BY DEF Written
  <2>1. CASE i \in 1..Len(seg[n]) /\ seg'[n][i] = seg[n][i]
    <3>1. seg[n][i] \in 1..Len(log) /\ log[seg[n][i]].whole BY <1>2, <2>1 DEF Written
    <3> QED BY <1>3, <2>1, <3>1
  <2>2. CASE seg'[n][i] = l
    BY <1>3, <1>9, <2>2
  <2> QED BY <1>7, <2>1, <2>2
<1>11. Sorted(seg')
  <2> SUFFICES ASSUME NEW a \in 0..Segments, NEW b \in 0..Segments,
                      NEW i \in 1..Len(seg'[a]), NEW j \in 1..Len(seg'[b]),
                      seg'[a][i] # Garbage, seg'[b][j] # Garbage, a > b \/ (a = b /\ i < j)
               PROVE  seg'[a][i] < seg'[b][j]
    BY DEF Sorted
  <2>1. i \in 1..Len(seg[a]) /\ seg'[a][i] = seg[a][i]
    <3>1. ASSUME a = 0, i = m + 1 PROVE FALSE
      <4>1. b = 0 /\ j > m + 1 BY <3>1
      <4>2. j \in 1..(m + 1) BY <1>4, <1>5, <4>1 DEF m
      <4> QED BY <1>4, <4>1, <4>2
    <3> QED BY <1>7, <3>1
  <2>2. CASE j \in 1..Len(seg[b]) /\ seg'[b][j] = seg[b][j]
    BY <1>2, <2>1, <2>2 DEF Sorted
  <2>3. CASE seg'[b][j] = l
    <3>1. seg[a][i] \in 1..Len(log) BY <1>2, <2>1 DEF Written
    <3> QED BY <1>3, <1>9, <2>1, <2>3, <3>1
  <2> QED BY <1>7, <2>2, <2>3
<1>12. Kept(seg', log')
  <2> SUFFICES ASSUME NEW n \in 0..Segments, NEW i \in 1..Len(seg'[n]), seg'[n][i] # Garbage,
                      NEW k \in 1..Len(log'), log'[k].whole, k > seg'[n][i]
               PROVE  Has(seg', k)
    BY DEF Kept
  <2>1. CASE k = Len(log) + 1
    <3>1. l = k BY <1>3, <2>1
    <3>2. m + 1 \in 1..Len(seg'[0]) /\ seg'[0][m + 1] = l BY <1>4, <1>5
    <3> QED BY <3>1, <3>2 DEF Has
  <2>2. CASE k \in 1..Len(log)
    <3>1. i \in 1..Len(seg[n]) /\ seg'[n][i] = seg[n][i]
      BY <1>3, <1>7, <1>9, <2>2
    <3>2. log[k].whole BY <1>3, <2>2
    <3>3. Has(seg, k) BY <1>2, <2>2, <3>1, <3>2 DEF Kept
    <3> QED BY <1>8, <3>3 DEF Has
  <2> QED BY <1>3, <2>1, <2>2
<1>13. Chronological' /\ Retained'
       /\ \A p \in Readable(seg') : LineAt(seg', p) \in 1..Len(log') /\ log'[LineAt(seg', p)].whole
  <2>1. /\ Sorted(seg') => Chronological'
        /\ Written(seg', log') => \A p \in Readable(seg') :
             LineAt(seg', p) \in 1..Len(log') /\ log'[LineAt(seg', p)].whole
        /\ Kept(seg', log') => Retained'
    <3>1. Sorted(seg') => Chronological' BY <1>6, LedgerForms DEF Chronological
    <3>2. Written(seg', log') => \A p \in Readable(seg') :
            LineAt(seg', p) \in 1..Len(log') /\ log'[LineAt(seg', p)].whole
      BY <1>6, LedgerForms
    <3>3. Kept(seg', log') => Retained' BY <1>6, LedgerForms DEF Retained
    <3> QED BY <3>1, <3>2, <3>3
  <2> QED BY <1>10, <1>11, <1>12, <2>1
<1>14. Len(seg'[0]) > 0 /\ seg'[0][Len(seg'[0])] = l BY <1>4, <1>5
<1> QED BY <1>6, <1>13, <1>14

\* The ledger when the event signed has no line that can be read.
LEMMA LedgerKept ==
  ASSUME Inv, NEW whole \in BOOLEAN, ~whole, log' = Signed(whole), seg' = seg
  PROVE  /\ Chronological' /\ Retained'
         /\ \A p \in Readable(seg') : LineAt(seg', p) \in 1..Len(log') /\ log'[LineAt(seg', p)].whole
<1>1. /\ Len(log') = Len(log) + 1 /\ Len(log) \in Nat
      /\ \A k \in 1..Len(log) : log'[k] = log[k]
      /\ log'[Len(log) + 1] = [sid |-> sid, prev |-> tips[sid], whole |-> whole]
  BY LogGrows
<1>2. /\ Readable(seg') = Readable(seg)
      /\ \A p \in Readable(seg) : LineAt(seg', p) = LineAt(seg, p)
  BY DEF Readable, LineAt
<1>3. \A p \in Readable(seg) : LineAt(seg, p) \in 1..Len(log) /\ log[LineAt(seg, p)].whole
  BY DEF Inv, LinesWritten
<1>4. Chronological' BY <1>2 DEF Inv, Chronological
<1>5. Retained'
  <2> SUFFICES ASSUME NEW p \in Readable(seg), NEW n \in 1..Len(log'),
                      log'[n].whole, n > LineAt(seg, p)
               PROVE  \E q \in Readable(seg) : LineAt(seg, q) = n
    BY <1>2 DEF Retained
  <2>1. ~log'[Len(log) + 1].whole BY <1>1
  <2>2. n # Len(log) + 1 BY <2>1
  <2>3. n \in 1..Len(log) /\ log'[n] = log[n] BY <1>1, <2>2
  <2> QED BY <2>3 DEF Inv, Retained
<1>6. \A p \in Readable(seg') : LineAt(seg', p) \in 1..Len(log') /\ log'[LineAt(seg', p)].whole
  <2> SUFFICES ASSUME NEW p \in Readable(seg)
               PROVE  LineAt(seg, p) \in 1..Len(log') /\ log'[LineAt(seg, p)].whole
    BY <1>2
  <2>1. LineAt(seg, p) \in 1..Len(log) /\ log[LineAt(seg, p)].whole BY <1>3
  <2> QED BY <1>1, <2>1
<1> QED BY <1>4, <1>5, <1>6

LEMMA KeepWrite ==
  ASSUME Inv, WriteLine \/ WriteTorn
  PROVE  Inv'
<1> USE ChainAssumption
<1> DEFINE whole == WriteLine /\ ~frag
<1>1. /\ pc = "write" /\ UNCHANGED <<allowed, index, shift, sid, tips, partial, unindexed>>
      /\ pc' \in {"commit", "free"}
      /\ frag \in BOOLEAN /\ frag' \in BOOLEAN
  BY DEF WriteLine, WriteTorn, Inv, TypeOK
<1>2. PICK w \in BOOLEAN : /\ log' = Signed(w)
                           /\ w => pc' = "commit" /\ ~frag /\ seg' = [seg EXCEPT ![0] = Append(@, Len(log'))]
                           /\ w => frag' = FALSE
                           /\ ~w => "tornWrite" \in allowed
                           /\ ~w /\ ~frag => seg' = [seg EXCEPT ![0] = Append(@, Garbage)]
                           /\ ~w /\ frag => seg' = seg
                           /\ pc' = "commit" \/ (pc' = "free" /\ ~w)
  <2>1. CASE WriteLine /\ ~frag BY <2>1 DEF WriteLine
  <2>2. CASE WriteLine /\ frag
    <3>1. /\ "tornWrite" \in allowed /\ seg[0][Len(seg[0])] = Garbage /\ Len(seg[0]) > 0
      BY <2>2 DEF Inv, LinesWritten
    <3>2. seg[0] \in Seq(0..MaxEvents) /\ seg = [n \in 0..Segments |-> seg[n]] BY DEF Inv, TypeOK
    <3>3. [seg[0] EXCEPT ![Len(seg[0])] = Garbage] = seg[0] BY <3>1, <3>2
    <3>4. seg' = [seg EXCEPT ![0] = [@ EXCEPT ![Len(@)] = Garbage]] BY <2>2 DEF WriteLine
    <3>5. seg' = seg BY <3>2, <3>3, <3>4
    <3> QED BY <2>2, <3>1, <3>5 DEF WriteLine
  <2>3. CASE WriteTorn
    <3>1. seg = [n \in 0..Segments |-> seg[n]] BY DEF Inv, TypeOK
    <3>2. frag => seg' = seg BY <2>3, <3>1 DEF WriteTorn
    <3> QED BY <2>3, <3>2 DEF WriteTorn
  <2> QED BY <1>1, <2>1, <2>2, <2>3
<1>3. /\ Len(log') = Len(log) + 1 /\ Len(log) \in Nat
      /\ \A n \in 1..Len(log) : log'[n] = log[n]
      /\ log'[Len(log) + 1] = [sid |-> sid, prev |-> tips[sid], whole |-> w]
      /\ log' \in Seq([sid : Session, prev : 0..MaxEvents, whole : BOOLEAN])
  BY <1>2, LogGrows
<1>4. Links' BY <1>1, <1>2, LinksGrow
<1>5. Tips' BY <1>1, <1>2, TipsGrow
<1>6. Room' BY <1>1, <1>3 DEF Inv, Room, TypeOK
<1>7. Vacated' BY <1>1 DEF Inv, Vacated
<1>8. Len(log') \in 0..MaxEvents BY <1>6, <1>3 DEF Room
<1>9. /\ seg' \in Ledgers /\ Chronological' /\ Retained'
      /\ \A p \in Readable(seg') : LineAt(seg', p) \in 1..Len(log') /\ log'[LineAt(seg', p)].whole
      /\ ~w => Len(seg'[0]) > 0 /\ seg'[0][Len(seg'[0])] = Garbage
  <2>1. CASE w
    <3>1. seg' = [seg EXCEPT ![0] = Append(@, Len(log'))] BY <1>2, <2>1
    <3> QED BY <1>2, <1>8, <2>1, <3>1, LedgerGrows
  <2>2. CASE ~w /\ ~frag
    <3>1. seg' = [seg EXCEPT ![0] = Append(@, Garbage)] /\ Garbage \in 0..MaxEvents
      BY <1>2, <2>2 DEF Garbage
    <3> QED BY <1>2, <2>2, <3>1, LedgerGrows
  <2>3. CASE ~w /\ frag
    <3>1. seg' = seg /\ w = FALSE BY <1>2, <2>3
    <3>2. seg \in Ledgers BY DEF Inv, TypeOK, Ledgers
    <3>3. Len(seg[0]) > 0 /\ seg[0][Len(seg[0])] = Garbage BY <2>3 DEF Inv, LinesWritten
    <3> QED BY <1>2, <3>1, <3>2, <3>3, LedgerKept
  <2> QED BY <2>1, <2>2, <2>3
<1>10. LinesWritten'
  <2>1. ASSUME NEW n \in 1..Len(log') PROVE log'[n].whole \/ "tornWrite" \in allowed
    <3>1. CASE n \in 1..Len(log) BY <1>3, <3>1 DEF Inv, LinesWritten
    <3>2. CASE n = Len(log) + 1 BY <1>2, <1>3, <3>2
    <3> QED BY <1>3, <3>1, <3>2
  <2> QED BY <1>1, <1>2, <1>9, <2>1 DEF LinesWritten
<1>11. TypeOK' BY <1>1, <1>3, <1>9 DEF Inv, TypeOK, Ledgers
<1> QED BY <1>4, <1>5, <1>6, <1>7, <1>9, <1>10, <1>11 DEF Inv

LEMMA KeepCommit ==
  ASSUME Inv, CommitTip \/ CommitFails \/ CommitPartial \/ IndexLost
  PROVE  Inv'
<1> USE ChainAssumption
<1>1. /\ pc' = "free" /\ UNCHANGED <<allowed, seg, frag, shift, sid, tips, partial, log>>
      /\ pc \in {"commit", "free"} /\ unindexed \subseteq unindexed'
      /\ UNCHANGED unindexed \/ (CommitFails /\ pc = "commit" /\ unindexed' = unindexed \cup {Len(log)})
  BY DEF CommitTip, CommitFails, CommitPartial, IndexLost
<1>a. Room /\ Len(log) \in Nat BY DEF Inv, TypeOK
<1>b. Room' /\ unindexed' \subseteq 1..MaxEvents
  <2>1. unindexed' \subseteq 1..Len(log) BY <1>1, <1>a DEF Room
  <2> QED BY <1>1, <1>a, <2>1 DEF Room
<1>2. LinesWritten' /\ Chronological' /\ Retained' /\ Links' BY <1>1, SameLedger DEF Inv
<1>3. Vacated' BY <1>1 DEF Inv, Vacated
<1>4. /\ index' = NoIndex \/ index' \in [Session -> 0..MaxEvents]
      /\ index' # NoIndex => TipsOwn(index') /\ TipsCurrent(index, Len(log))'
  <2>1. CASE index' = NoIndex BY <2>1
  <2>a. CASE CommitFails /\ index' # NoIndex
    <3>1. /\ pc = "commit" /\ index' = index /\ index # NoIndex /\ unindexed' = unindexed \cup {Len(log)}
          /\ TipsOwn(index) /\ TipsCurrent(index, Len(log) - 1)
      BY <2>a DEF CommitFails, Inv, Tips
    <3>2. TipsCurrent(index, Len(log))'
      <4> SUFFICES ASSUME NEW s \in Session, index[s] # 0, NEW n \in 1..Len(log),
                          log[n].whole, log[n].sid = s, n > index[s]
                   PROVE  n \in unindexed'
        BY <1>1, <3>1 DEF TipsCurrent
      <4>1. CASE n = Len(log) BY <3>1, <4>1
      <4>2. CASE n # Len(log)
        <5>1. n \in 1..(Len(log) - 1) BY <1>a, <4>2
        <5> QED BY <3>1, <5>1 DEF TipsCurrent
      <4> QED BY <4>1, <4>2
    <3> QED BY <3>1, <3>2 DEF Inv, TypeOK
  <2>2. CASE CommitPartial BY <1>1, <2>2 DEF CommitPartial, Inv, Tips, TypeOK
  <2>3. CASE CommitTip
    <3> DEFINE t == [tips EXCEPT ![sid] = Len(log)]
    <3>1. PICK cutoff \in Int : index' = Pruned(t, cutoff)
      <4>1. \A c \in (IF "quiet" \in allowed THEN 0..(Len(log) - 1) ELSE {0}) : c \in Int OBVIOUS
      <4> QED BY <2>3, <4>1 DEF CommitTip
    <3>2. /\ tips \in [Session -> 0..MaxEvents] /\ sid \in Session /\ Len(log) \in 1..MaxEvents
          /\ log[Len(log)].sid = sid /\ TipsOwn(tips) /\ TipsCurrent(tips, Len(log) - 1)
          /\ log[Len(log)].whole \/ "tornWrite" \in allowed
      <4>1. pc = "commit" /\ ~partial BY <2>3 DEF CommitTip
      <4>2. Len(log) \in 1..MaxEvents BY <4>1 DEF Inv, TypeOK, Room
      <4> QED BY <4>1, <4>2 DEF Inv, TypeOK, Tips, LinesWritten
    <3>3. \A s \in Session : index'[s] = 0 \/ index'[s] = t[s] BY <3>1 DEF Pruned
    <3>4. index' = [s \in Session |-> index'[s]] BY <3>1 DEF Pruned
    <3>5. t[sid] = Len(log) /\ \A s \in Session : s # sid => t[s] = tips[s] BY <3>2
    <3>6. index' \in [Session -> 0..MaxEvents]
      <4>1. \A s \in Session : t[s] \in 0..MaxEvents BY <3>2
      <4>2. \A s \in Session : index'[s] \in 0..MaxEvents BY <3>3, <4>1
      <4> HIDE DEF t
      <4> QED BY <3>4, <4>2
    <3>7. TipsOwn(index') BY <3>2, <3>3, <3>5 DEF TipsOwn
    <3>8. TipsCurrent(index, Len(log))' BY <1>1, <3>2, <3>3, <3>5 DEF TipsCurrent
    <3> QED BY <3>6, <3>7, <3>8
  <2> QED BY <2>1, <2>a, <2>2, <2>3 DEF IndexLost
<1>5. TypeOK' BY <1>1, <1>b, <1>4 DEF Inv, TypeOK
<1>6. Tips' BY <1>1, <1>4 DEF Inv, Tips, TipsOwn, TipsCurrent
<1> QED BY <1>2, <1>b, <1>3, <1>5, <1>6 DEF Inv

LEMMA KeepCrash ==
  ASSUME Inv, Crash
  PROVE  Inv'
<1> USE ChainAssumption DEF Crash
<1>1. LinesWritten' /\ Chronological' /\ Retained' /\ Links' BY SameLedger DEF Inv
<1>2. unindexed' \subseteq 1..Len(log) /\ Len(log) <= MaxEvents /\ Len(log) \in Nat
  <2>0. Len(log) \in Nat /\ unindexed \subseteq 1..Len(log) /\ Len(log) <= MaxEvents
    BY DEF Inv, Room, TypeOK
  <2>1. CASE pc = "commit"
    <3>1. Len(log) \in 1..Len(log) BY <2>0, <2>1 DEF Inv, Room
    <3> QED BY <2>0, <2>1, <3>1
  <2>2. CASE pc # "commit" BY <2>0, <2>2
  <2> QED BY <2>1, <2>2
<1>3. TypeOK' BY <1>2 DEF Inv, TypeOK
<1>4. Room' /\ Vacated' BY <1>2 DEF Inv, Room, Vacated
<1>5. Tips'
  <2>1. TipsOwn(tips)' /\ (index' # NoIndex => TipsOwn(index)')
    BY DEF Inv, Tips, TipsOwn
  <2>2. ASSUME index # NoIndex, NEW s \in Session, index[s] # 0, NEW n \in 1..Len(log),
               log[n].whole, log[n].sid = s, n > index[s]
        PROVE  n \in unindexed'
    <3>1. CASE pc # "commit" BY <2>2, <3>1 DEF Inv, Tips, TipsCurrent
    <3>2. CASE pc = "commit"
      <4>1. CASE n = Len(log) BY <3>2, <4>1
      <4>2. CASE n # Len(log)
        <5>1. n \in 1..(Len(log) - 1) BY <4>2
        <5>2. TipsCurrent(index, Len(log) - 1) BY <2>2, <3>2 DEF Inv, Tips
        <5>3. n \in unindexed BY <2>2, <5>1, <5>2 DEF TipsCurrent
        <5> QED BY <3>2, <5>3
      <4> QED BY <4>1, <4>2
    <3> QED BY <3>1, <3>2
  <2>3. index' # NoIndex => TipsCurrent(index, Len(log))' BY <2>2 DEF TipsCurrent
  <2> QED BY <2>1, <2>3 DEF Tips
<1> QED BY <1>1, <1>2, <1>3, <1>4, <1>5 DEF Inv

LEMMA InvNext == Inv /\ [Next]_vars => Inv'
<1> SUFFICES ASSUME Inv, [Next]_vars PROVE Inv'
  OBVIOUS
<1>1. CASE UNCHANGED vars
  <2> USE <1>1 DEF vars
  <2>1. LinesWritten' /\ Chronological' /\ Retained' /\ Links' BY SameLedger DEF Inv
  <2>2. TypeOK' /\ Room' /\ Vacated'
    BY DEF Inv, TypeOK, Room, Vacated
  <2>3. Tips' BY DEF Inv, Tips, TipsOwn, TipsCurrent
  <2> QED BY <2>1, <2>2, <2>3 DEF Inv
<1>2. ASSUME NEW s \in Session, Lock(s) PROVE Inv' BY <1>2, KeepLock
<1>3. CASE Rotate BY <1>3, KeepDropOldest, KeepRotate DEF Rotate
<1>4. CASE LoadTips \/ LoadSome BY <1>4, KeepLoad
<1>5. CASE WriteLine \/ WriteTorn BY <1>5, KeepWrite
<1>6. CASE CommitTip \/ CommitFails \/ CommitPartial \/ IndexLost BY <1>6, KeepCommit
<1>7. CASE Crash BY <1>7, KeepCrash
<1> QED BY <1>1, <1>2, <1>3, <1>4, <1>5, <1>6, <1>7 DEF Next

LEMMA InvHolds == Spec => []Inv
<1> QED BY InvInit, InvNext, PTL DEF Spec

-----------------------------------------------------------------------------
(* The properties.                                                          *)

\* The types of the ledger, the index and the append that holds the lock
\* (AppendEventToLocalBuffer).
THEOREM TypeCorrect == Spec => []TypeOK
<1>1. Inv => TypeOK BY DEF Inv
<1> QED BY <1>1, InvHolds, PTL

\* A readable event links to an earlier event of its session, and to one with a line
\* of its own where writes are whole (chainState.prevSigFor).
THEOREM LinksSound == Spec => []NoDanglingLink
<1>1. Inv => NoDanglingLink
  <2> SUFFICES ASSUME Inv, NEW n \in 1..Len(log), Whole(n), log[n].prev # 0
               PROVE  /\ log[n].prev < n /\ log[log[n].prev].sid = log[n].sid
                      /\ Without({"tornWrite"}) => Whole(log[n].prev)
    BY DEF NoDanglingLink
  <2>1. log[n] \in [sid : Session, prev : 0..MaxEvents, whole : BOOLEAN]
    BY ElementOfSeq DEF Inv, TypeOK
  <2>2. /\ log[n].prev < n /\ log[log[n].prev].sid = log[n].sid
        /\ log[log[n].prev].whole \/ "tornWrite" \in allowed
    BY DEF Inv, Links
  <2>3. log[n].prev \in 1..Len(log) BY <2>1, <2>2
  <2> QED BY <2>2, <2>3 DEF Whole, Without
<1> QED BY <1>1, InvHolds, PTL

\* Each session is one chain, but for the events the index was never told of; the index is
\* up to date between appends but for those, and the retained segments are in
\* chronological order, whatever fails and dies and whatever is lost
\* (AppendEventToLocalBuffer, rotateLedgerIfLarge).
THEOREM LedgerIsOneChain == Spec => []OneChain
<1>1. Inv => NoFork
  <2> SUFFICES ASSUME Inv, "scanIO" \notin allowed, NEW m \in 1..Len(log), NEW n \in 1..Len(log),
                      m < n, Whole(m), log[m].sid = log[n].sid, log[m].prev # 0,
                      log[m].prev = log[n].prev
               PROVE  m \in unindexed
    BY DEF NoFork, Without
  <2>1. log[m].prev < m BY DEF Inv, Links
  <2>2. log[m] \in [sid : Session, prev : 0..MaxEvents, whole : BOOLEAN]
    BY ElementOfSeq DEF Inv, TypeOK
  <2>3. m \in 1..(n - 1) /\ m > log[n].prev BY <2>1, <2>2
  <2> QED BY <2>3 DEF Inv, Links, Whole
<1>2. Inv => OrphansUnindexed
  <2> SUFFICES ASSUME Inv, Without({"tornWrite", "scanIO"}), NEW n \in 1..Len(log),
                      NEW m \in (n+1)..Len(log), log[m].sid = log[n].sid,
                      log[m].prev # 0, log[m].prev < n
               PROVE  n \in unindexed
    BY DEF OrphansUnindexed, Orphans
  <2>1. "tornWrite" \notin allowed /\ "scanIO" \notin allowed BY DEF Without
  <2>2. log[n].whole BY <2>1 DEF Inv, LinesWritten
  <2>3. m \in 1..Len(log) /\ n \in 1..(m - 1) OBVIOUS
  <2> QED BY <2>1, <2>2, <2>3 DEF Inv, Links
<1>3. Inv => IndexCurrent
  <2> SUFFICES ASSUME Inv, pc = "free", index # NoIndex,
                      NEW s \in Session, index[s] # 0, NEW n \in 1..Len(log),
                      Whole(n), log[n].sid = s
               PROVE  n <= index[s] \/ n \in unindexed
    BY DEF IndexCurrent
  <2>1. TipsCurrent(index, Len(log)) /\ index[s] \in 0..MaxEvents BY DEF Inv, Tips, TypeOK
  <2>2. n > index[s] => n \in unindexed BY <2>1 DEF TipsCurrent, Whole
  <2> QED BY <2>1, <2>2
<1>4. Inv => Chronological BY DEF Inv
<1>5. Inv => OneChain BY <1>1, <1>2, <1>3, <1>4 DEF OneChain
<1> QED BY <1>5, InvHolds, PTL
=============================================================================
