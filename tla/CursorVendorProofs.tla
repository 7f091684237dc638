-------------------------- MODULE CursorVendorProofs --------------------------
(***************************************************************************)
(* What the collector of vendor usage promises for every number of logins, *)
(* rows, cycles and events: its types, and that what a poll leaves behind  *)
(* is true.                                                                *)
(***************************************************************************)
EXTENDS CursorVendor, FiniteSetTheorems, SequenceTheorems, TLAPS

-----------------------------------------------------------------------------
(* Readings.                                                                *)

\* A feed is a sequence of no more than MaxRows rows.
LEMMA FeedIs == \A s : s \in Feeds <=> s \in Seq(Rows) /\ Len(s) <= MaxRows
<1>1. MaxRows \in Nat BY VendorAssumption
<1>2. ASSUME NEW s \in Seq(Rows), Len(s) <= MaxRows PROVE s \in Feeds
  <2>1. Len(s) \in 0..MaxRows /\ s \in [1..Len(s) -> Rows] BY <1>1, <1>2
  <2> QED BY <2>1 DEF Feeds, BoundedSeq, SeqOf
<1>3. ASSUME NEW s \in Feeds PROVE s \in Seq(Rows) /\ Len(s) <= MaxRows
  <2>1. PICK m \in 0..MaxRows : s \in [1..m -> Rows] BY <1>3 DEF Feeds, BoundedSeq, SeqOf
  <2>2. m \in Nat BY <1>1
  <2>3. s \in Seq(Rows) BY <2>1, <2>2
  <2>4. Len(s) = m BY <2>1, <2>2, <2>3
  <2> QED BY <1>1, <2>1, <2>3, <2>4
<1> QED BY <1>2, <1>3

LEMMA NoRows == <<>> \in Feeds
<1>1. <<>> \in Seq(Rows) /\ Len(<<>>) = 0 OBVIOUS
<1>2. 0 <= MaxRows BY VendorAssumption
<1>3. Len(<<>>) <= MaxRows BY <1>1, <1>2
<1> QED BY <1>1, <1>3, FeedIs

\* A reading as it is sorted, which is not the mark for none.
LEMMA SortedIs ==
  ASSUME NEW s \in Feeds
  PROVE  Sorted(s) \in Bags /\ Sorted(s) # NoSnapshot
<1>0. s \in Seq(Rows) /\ Len(s) \in Nat /\ Len(s) <= MaxRows /\ MaxRows \in Nat /\ DOMAIN s = 1..Len(s)
  BY FeedIs, VendorAssumption
<1>1. ASSUME NEW i \in DOMAIN s PROVE Rank(s, i) \in 1..MaxRows
  <2> DEFINE D == {j \in 1..i : Line(s[j]) = Line(s[i])}
  <2>1. i \in Nat /\ i >= 1 /\ i <= MaxRows BY <1>0
  <2>2. 1 \in Int /\ i \in Int BY <2>1
  <2>3. IsFiniteSet(1..i) /\ Cardinality(1..i) = IF 1 > i THEN 0 ELSE i - 1 + 1 BY <2>2, FS_Interval
  <2>4. Cardinality(1..i) = i BY <2>1, <2>3
  <2>5. D \subseteq 1..i BY DEF D
  <2>6. IsFiniteSet(D) /\ Cardinality(D) <= Cardinality(1..i) BY <2>3, <2>5, FS_Subset
  <2>7. Cardinality(D) \in Nat BY <2>6, FS_CardinalityType
  <2>8. i \in D BY <2>1
  <2>9. Cardinality(D) # 0 BY <2>6, <2>8, FS_EmptySet
  <2>10. Cardinality(D) \in 1..MaxRows BY <1>0, <2>1, <2>4, <2>6, <2>7, <2>9
  <2> QED BY <2>10 DEF Rank
<1>2. Sorted(s) \in Bags BY <1>1 DEF Sorted, Bags
<1>3. Bags \subseteq [Rows -> SUBSET Nat] BY <1>0 DEF Bags
<1> QED BY <1>2, <1>3, VendorAssumption

-----------------------------------------------------------------------------
(* Types.                                                                   *)

SnapType == {SnapshotId(a, c, b) : a \in Accounts, c \in Cycles, b \in Bags} \cup {NoSnapshot}
PoolType == [hashes : SUBSET Rows, snap : [Accounts -> SnapType],
             man : [Accounts -> Bags \cup {NoSnapshot}], repaired : [Accounts -> Ages]]
MarkType == [snap : SnapType, age : Ages]
RdType   == [acct : Accounts \cup {NoAccount}, at : {"idle", "page", "queue"}, cur : Cycles, c : Cycles,
             got : Feeds, page : Nat \ {0}, total : Nat]
Task     == [acct : Accounts, ok : BOOLEAN]
Flags    == [Accounts -> [Cycles -> BOOLEAN]]

WorldTypes ==
  /\ left \in [Events -> Nat] /\ late \in BOOLEAN
  /\ cycle \in Cycles /\ feed \in [Accounts -> [Cycles -> Feeds]]
  /\ stores \in [Sources -> Login] /\ open \in BOOLEAN /\ policy \in {"on", "off", "unknown"}
  /\ calm \in Flags /\ lost \in BOOLEAN /\ keep \in Nat \ {0}

FileTypes ==
  /\ logins \in Seq(Accounts) /\ dropped \subseteq Accounts /\ profile \in BOOLEAN /\ claims \subseteq Convs
  /\ history \in [Accounts -> [Cycles -> MarkType]]
  /\ disk \in [Cycles -> PoolType] /\ mem \in [Cycles -> PoolType]
  /\ read \subseteq Accounts /\ stripped \subseteq Convs

PollTypes ==
  /\ todo \in Seq(Task) /\ rd \in RdType
  /\ found \subseteq Accounts /\ said \cup unheard \subseteq found /\ cut \in BOOLEAN
  /\ rd.at = "page" => Len(rd.got) < rd.page

BackTypes ==
  /\ rows \in [Cycles -> SUBSET Rows]
  /\ published \in [Accounts -> [Cycles -> Bags \cup {NoSnapshot}]]

\* While an account is being read it is the first of those that are still to be collected, and
\* when its last cycle but one is read there has been a word about it, or none was let through.
InHand ==
  rd.at # "idle" => /\ todo # <<>> /\ rd.acct = Head(todo).acct
                    /\ rd.c < rd.cur => rd.acct \in said \cup unheard

\* The accounts that the poll still has to come to.
Pending == {todo[i].acct : i \in 1..Len(todo)}
Covered == /\ Pending \subseteq found
           /\ found \subseteq said \cup unheard \cup Pending \/ cut

\* What the organisation has not forbidden since it was read is still known.
Known == /\ read \subseteq ToSet(logins) \cup dropped /\ (policy = "off" => read = {})
         /\ Len(logins) <= keep

\* What the pools say the backend has, it has, unless it lost something.
Backed ==
  /\ \A c \in Cycles : \A p \in {mem[c], disk[c]} :
       /\ lost \/ p.hashes \subseteq rows[c]
       /\ \A a \in Accounts : p.man[a] # NoSnapshot => [id |-> p.snap[a], of |-> p.man[a]] \in manifests
  /\ stripped \subseteq claims /\ (lost \/ claims \subseteq priced)

\* A reading that nothing has happened to is in the pool, as the vendor would give it again.
KeptIn(a, c, pool, b) ==
  /\ Recent(pool.repaired[a]) /\ pool.man[a] = b /\ pool.snap[a] = SnapshotId(a, c, b)
  /\ RowsOf(b) \subseteq pool.hashes
CalmKept == \A a \in Accounts : \A c \in Cycles : calm[a][c] => KeptIn(a, c, mem[c], Sorted(feed[a][c]))

\* While it is read again, the pages are those of the one feed.
CalmRead ==
  rd.at # "idle" /\ calm[rd.acct][rd.c] =>
    LET s == feed[rd.acct][rd.c]
    IN  IF rd.at = "queue" THEN rd.got = s
        ELSE /\ Len(rd.got) = rd.page - 1 /\ Len(rd.got) <= Len(s)
             /\ \A i \in 1..Len(rd.got) : rd.got[i] = s[i]
             /\ rd.page > 1 => rd.total = Len(s)

Inv == /\ WorldTypes /\ FileTypes /\ PollTypes /\ BackTypes
       /\ InHand /\ Covered /\ Known /\ Backed /\ CalmKept /\ CalmRead

-----------------------------------------------------------------------------
(* What the operators yield.                                                *)

LEMMA Constant ==
  /\ MaxRows \in Nat /\ MaxCycle \in Nat /\ RepairAfter \in Nat /\ RepairAfter > 0
  /\ 0 \in Cycles /\ NoAccount \notin Accounts
  /\ NoReading \in RdType /\ NoReading.at = "idle"
  /\ NoPool \in PoolType /\ NoPool.hashes = {}
  /\ \A a \in Accounts : NoPool.man[a] = NoSnapshot
  /\ \A age \in Ages : Older(age) \in Ages /\ Behind(age) \in Ages
  /\ Never \in Ages /\ 0 \in Ages
<1>1. /\ MaxRows \in Nat /\ MaxCycle \in Nat /\ RepairAfter \in Nat /\ RepairAfter > 0
      /\ NoAccount \notin Accounts
  BY VendorAssumption
<1>2. 0 \in Cycles BY <1>1 DEF Cycles
<1>3. Never \in Ages /\ 0 \in Ages BY <1>1 DEF Never, Ages
<1>4. NoReading \in RdType /\ NoReading.at = "idle" BY <1>2, NoRows DEF NoReading, RdType
<1>5. NoSnapshot \in SnapType BY DEF SnapType
<1>6. /\ NoPool \in PoolType /\ NoPool.hashes = {}
      /\ \A a \in Accounts : NoPool.man[a] = NoSnapshot
  BY <1>3, <1>5 DEF NoPool, PoolType
<1>7. \A age \in Ages : Older(age) \in Ages /\ Behind(age) \in Ages
  BY <1>1 DEF Ages, Older, Behind, Never, Future
<1> QED BY <1>1, <1>2, <1>3, <1>4, <1>6, <1>7

\* One place of a table by account and cycle.
LEMMA Put ==
  ASSUME NEW S, NEW f \in [Accounts -> [Cycles -> S]], NEW a \in Accounts, NEW c \in Cycles, NEW v \in S
  PROVE  LET g == [f EXCEPT ![a][c] = v]
         IN  /\ g \in [Accounts -> [Cycles -> S]]
             /\ g[a][c] = v
             /\ \A b \in Accounts : \A d \in Cycles : b # a \/ d # c => g[b][d] = f[b][d]
<1> DEFINE g == [f EXCEPT ![a][c] = v]
<1>1. g[a] = [f[a] EXCEPT ![c] = v] /\ \A b \in Accounts : b # a => g[b] = f[b] OBVIOUS
<1>2. g[a] \in [Cycles -> S] /\ g[a][c] = v /\ \A d \in Cycles : d # c => g[a][d] = f[a][d] BY <1>1
<1>3. g \in [Accounts -> [Cycles -> S]] BY <1>1, <1>2
<1> QED BY <1>1, <1>2, <1>3

\* What the vendor may make of a feed.
LEMMA FeedMoves ==
  ASSUME NEW s \in Feeds
  PROVE  /\ \A r \in Rows : Len(s) < MaxRows => <<r>> \o s \in Feeds
         /\ \A i \in DOMAIN s : RemoveAt(s, i) \in Feeds /\ \A r \in Rows : [s EXCEPT ![i] = r] \in Feeds
<1>0. s \in Seq(Rows) /\ Len(s) \in Nat /\ Len(s) <= MaxRows /\ MaxRows \in Nat /\ DOMAIN s = 1..Len(s)
  BY FeedIs, VendorAssumption
<1>1. ASSUME NEW r \in Rows, Len(s) < MaxRows PROVE <<r>> \o s \in Feeds
  <2>1. <<r>> \in Seq(Rows) /\ Len(<<r>>) = 1 OBVIOUS
  <2>2. <<r>> \o s \in Seq(Rows) /\ Len(<<r>> \o s) = 1 + Len(s) BY <1>0, <2>1
  <2>3. Len(<<r>> \o s) <= MaxRows BY <1>0, <1>1, <2>2
  <2> QED BY <2>2, <2>3, FeedIs
<1>2. ASSUME NEW i \in DOMAIN s PROVE RemoveAt(s, i) \in Feeds
  <2>1. SubSeq(s, 1, i - 1) \in Seq(Rows) /\ Len(SubSeq(s, 1, i - 1)) = i - 1 BY <1>0
  <2>2. SubSeq(s, i + 1, Len(s)) \in Seq(Rows) /\ Len(SubSeq(s, i + 1, Len(s))) = Len(s) - i BY <1>0
  <2>3. RemoveAt(s, i) \in Seq(Rows) /\ Len(RemoveAt(s, i)) = (i - 1) + (Len(s) - i)
    BY <2>1, <2>2 DEF RemoveAt
  <2>4. i \in Int /\ (i - 1) + (Len(s) - i) <= Len(s) BY <1>0
  <2> QED BY <1>0, <2>3, <2>4, FeedIs
<1>3. ASSUME NEW i \in DOMAIN s, NEW r \in Rows PROVE [s EXCEPT ![i] = r] \in Feeds
  <2>1. [s EXCEPT ![i] = r] \in Seq(Rows) /\ Len([s EXCEPT ![i] = r]) = Len(s) BY <1>0
  <2> QED BY <1>0, <2>1, FeedIs
<1> QED BY <1>1, <1>2, <1>3

LEMMA SpendKeeps ==
  ASSUME left \in [Events -> Nat], NEW e \in Events, Spend(e)
  PROVE  left' \in [Events -> Nat]
<1>1. left[e] \in Nat /\ left[e] > 0 BY DEF Spend, May
<1>2. left[e] - 1 \in Nat BY <1>1
<1> QED BY <1>2 DEF Spend

\* The account that is read is one.
LEMMA Reads ==
  ASSUME PollTypes, InHand, rd.at # "idle"
  PROVE  /\ rd.acct \in Accounts /\ rd.c \in Cycles /\ rd.cur \in Cycles /\ rd.got \in Feeds
         /\ todo # <<>> /\ Len(todo) \in Nat /\ Len(todo) > 0 /\ Head(todo) = todo[1] /\ todo[1] \in Task
         /\ rd.acct = todo[1].acct /\ rd.acct \in Pending
<1>1. /\ todo \in Seq(Task) /\ todo # <<>> /\ rd.acct = Head(todo).acct
      /\ rd.c \in Cycles /\ rd.cur \in Cycles /\ rd.got \in Feeds
  BY DEF PollTypes, InHand, RdType
<1>2. Len(todo) \in Nat /\ Len(todo) > 0 /\ Head(todo) = todo[1] /\ todo[1] \in Task BY <1>1
<1>3. 1 \in 1..Len(todo) BY <1>2
<1>4. rd.acct = todo[1].acct BY <1>1, <1>2
<1> QED BY <1>1, <1>2, <1>3, <1>4 DEF Pending, Task

\* What is collected next, when one account has been.
LEMMA TailIs ==
  ASSUME todo \in Seq(Task), todo # <<>>
  PROVE  /\ Tail(todo) \in Seq(Task)
         /\ todo' = Tail(todo) => Pending' \subseteq Pending /\ Pending \subseteq Pending' \cup {Head(todo).acct}
<1>1. /\ Tail(todo) \in Seq(Task) /\ Len(Tail(todo)) = Len(todo) - 1 /\ Head(todo) = todo[1]
      /\ Len(todo) \in Nat /\ Len(todo) > 0
      /\ \A i \in 1..Len(Tail(todo)) : Tail(todo)[i] = todo[i + 1]
  OBVIOUS
<1>2. ASSUME todo' = Tail(todo) PROVE Pending' \subseteq Pending
  <2>1. \A i \in 1..Len(Tail(todo)) : i + 1 \in 1..Len(todo) BY <1>1
  <2> QED BY <1>1, <1>2, <2>1 DEF Pending
<1>3. ASSUME todo' = Tail(todo) PROVE Pending \subseteq Pending' \cup {Head(todo).acct}
  <2>1. ASSUME NEW i \in 1..Len(todo), i # 1 PROVE i - 1 \in 1..Len(Tail(todo)) /\ Tail(todo)[i - 1] = todo[i]
    <3>1. i - 1 \in 1..Len(Tail(todo)) BY <1>1, <2>1
    <3>2. Tail(todo)[i - 1] = todo[(i - 1) + 1] BY <1>1, <3>1
    <3> QED BY <3>1, <3>2
  <2>2. ASSUME NEW i \in 1..Len(todo) PROVE todo[i].acct \in Pending' \cup {Head(todo).acct}
    <3>1. CASE i = 1 BY <1>1, <3>1
    <3>2. CASE i # 1
      <4>1. i - 1 \in 1..Len(todo') /\ todo'[i - 1] = todo[i] BY <1>3, <2>1, <3>2
      <4> QED BY <4>1 DEF Pending
    <3> QED BY <3>1, <3>2
  <2> QED BY <2>2 DEF Pending
<1> QED BY <1>1, <1>2, <1>3

\* A source yields at most its own account.
LEMMA OneCollected ==
  ASSUME WorldTypes, NEW bad, NEW s \in Sources
  PROVE  LET q == Collect(s, bad)
         IN  /\ q \in Seq(Task) /\ Len(q) \in Nat
             /\ \A i \in 1..Len(q) : q[i].acct = stores[s].acct
             /\ Len(q) > 0 <=> FirstOf(s, bad)
             /\ FirstOf(s, bad) => s \in Read(bad)
<1>1. stores[s].acct \in Accounts \cup {NoAccount} BY DEF WorldTypes, Login
<1>2. CASE ~FirstOf(s, bad) BY <1>2 DEF Collect
<1>3. CASE FirstOf(s, bad)
  <2> DEFINE one == [acct |-> stores[s].acct, ok |-> \E t \in Read(bad) : stores[t].acct = stores[s].acct /\ Usable(t, bad)]
  <2>1. s \in Read(bad) BY <1>3 DEF FirstOf
  <2>2. stores[s].acct \in Accounts BY <1>1, <2>1 DEF Read, Held
  <2>3. one \in Task /\ one.acct = stores[s].acct BY <2>2 DEF Task
  <2>4. Collect(s, bad) = <<one>> BY <1>3 DEF Collect
  <2> HIDE DEF one
  <2> QED BY <1>3, <2>1, <2>3, <2>4
<1> QED BY <1>2, <1>3

\* Whoever was read is named by the first source that holds him.
LEMMA SomeFirst ==
  ASSUME NEW bad, NEW s \in Read(bad)
  PROVE  \E t \in Sources : FirstOf(t, bad) /\ stores[t].acct = stores[s].acct
<1>1. s \in {"ide", "profile", "agent"} /\ Read(bad) \subseteq {"ide", "profile", "agent"} BY DEF Read, Sources
<1> DEFINE same(t) == t \in Read(bad) /\ stores[t].acct = stores[s].acct
<1>2. CASE same("ide") BY <1>2 DEF FirstOf, Earlier, Sources
<1>3. CASE ~same("ide") /\ same("profile") BY <1>3 DEF FirstOf, Earlier, Sources
<1>4. CASE ~same("ide") /\ ~same("profile") /\ same("agent")  BY <1>4 DEF FirstOf, Earlier, Sources
<1> QED BY <1>1, <1>2, <1>3, <1>4

\* The accounts that are collected are those that were found.
LEMMA CollectIs ==
  ASSUME WorldTypes, NEW bad
  PROVE  /\ ToCollect(bad) \in Seq(Task)
         /\ {ToCollect(bad)[i].acct : i \in 1..Len(ToCollect(bad))} = {stores[s].acct : s \in Read(bad)}
         /\ {stores[s].acct : s \in Read(bad)} \subseteq Accounts
         /\ Learned(bad) \subseteq Accounts
<1> DEFINE A == Collect("ide", bad)
           B == Collect("profile", bad)
           C == Collect("agent", bad)
           T == ToCollect(bad)
<1>0. "ide" \in Sources /\ "profile" \in Sources /\ "agent" \in Sources BY DEF Sources
<1>1. /\ A \in Seq(Task) /\ Len(A) \in Nat /\ \A i \in 1..Len(A) : A[i].acct = stores["ide"].acct
      /\ Len(A) > 0 <=> FirstOf("ide", bad)
  BY <1>0, OneCollected
<1>2. /\ B \in Seq(Task) /\ Len(B) \in Nat /\ \A i \in 1..Len(B) : B[i].acct = stores["profile"].acct
      /\ Len(B) > 0 <=> FirstOf("profile", bad)
  BY <1>0, OneCollected
<1>3. /\ C \in Seq(Task) /\ Len(C) \in Nat /\ \A i \in 1..Len(C) : C[i].acct = stores["agent"].acct
      /\ Len(C) > 0 <=> FirstOf("agent", bad)
  BY <1>0, OneCollected
<1>4. T = A \o B \o C BY DEF ToCollect
<1> HIDE DEF A, B, C, T
<1>5. /\ A \o B \in Seq(Task) /\ Len(A \o B) = Len(A) + Len(B)
      /\ \A i \in 1..(Len(A) + Len(B)) : (A \o B)[i] = IF i <= Len(A) THEN A[i] ELSE B[i - Len(A)]
  BY <1>1, <1>2
<1>6. /\ T \in Seq(Task) /\ Len(T) = Len(A) + Len(B) + Len(C)
      /\ \A i \in 1..Len(T) : T[i] = IF i <= Len(A) + Len(B) THEN (A \o B)[i] ELSE C[i - (Len(A) + Len(B))]
  BY <1>1, <1>2, <1>3, <1>4, <1>5
<1> DEFINE Who == {stores[s].acct : s \in Read(bad)}
<1>7. ASSUME NEW t \in Sources, FirstOf(t, bad) PROVE stores[t].acct \in Who BY <1>7 DEF FirstOf
<1>8. ASSUME NEW i \in 1..Len(T) PROVE T[i].acct \in Who
  <2>1. CASE i <= Len(A)
    <3>1. T[i] = A[i] /\ i \in 1..Len(A) BY <1>1, <1>2, <1>3, <1>5, <1>6, <2>1
    <3> QED BY <1>0, <1>1, <1>7, <3>1
  <2>2. CASE i > Len(A) /\ i <= Len(A) + Len(B)
    <3>1. T[i] = B[i - Len(A)] /\ i - Len(A) \in 1..Len(B) BY <1>1, <1>2, <1>3, <1>5, <1>6, <2>2
    <3> QED BY <1>0, <1>2, <1>7, <3>1
  <2>3. CASE i > Len(A) + Len(B)
    <3>1. T[i] = C[i - (Len(A) + Len(B))] /\ i - (Len(A) + Len(B)) \in 1..Len(C)
      BY <1>1, <1>2, <1>3, <1>5, <1>6, <2>3
    <3> QED BY <1>0, <1>3, <1>7, <3>1
  <2> QED BY <1>1, <1>2, <2>1, <2>2, <2>3
<1>9. ASSUME NEW s \in Read(bad) PROVE \E i \in 1..Len(T) : T[i].acct = stores[s].acct
  <2>1. PICK t \in Sources : FirstOf(t, bad) /\ stores[t].acct = stores[s].acct BY SomeFirst
  <2>2. CASE t = "ide"
    <3>1. 1 \in 1..Len(A) /\ 1 \in 1..Len(T) /\ T[1] = A[1] BY <1>1, <1>2, <1>3, <1>5, <1>6, <2>1, <2>2
    <3> QED BY <1>1, <2>1, <2>2, <3>1
  <2>3. CASE t = "profile"
    <3> DEFINE j == Len(A) + 1
    <3>1. 1 \in 1..Len(B) /\ j \in 1..Len(T) /\ T[j] = B[1] BY <1>1, <1>2, <1>3, <1>5, <1>6, <2>1, <2>3
    <3> QED BY <1>2, <2>1, <2>3, <3>1
  <2>4. CASE t = "agent"
    <3> DEFINE j == Len(A) + Len(B) + 1
    <3>2. 1 \in 1..Len(C) /\ j \in 1..Len(T) /\ ~(j <= Len(A) + Len(B)) /\ j - (Len(A) + Len(B)) = 1
      BY <1>1, <1>2, <1>3, <1>6, <2>1, <2>4
    <3>1. T[j] = C[1] BY <1>6, <3>2
    <3> QED BY <1>3, <2>1, <2>4, <3>1, <3>2
  <2> QED BY <2>2, <2>3, <2>4 DEF Sources
<1>10. {T[i].acct : i \in 1..Len(T)} = Who BY <1>8, <1>9
<1>11. Who \subseteq Accounts BY DEF WorldTypes, Login, Read, Held
<1>12. Learned(bad) \subseteq Accounts
  <2>1. ASSUME NEW s \in Sources, Learns(s, bad) PROVE stores[s].acct \in Accounts
    BY <2>1 DEF WorldTypes, Login, Learns
  <2> QED BY <2>1 DEF Learned
<1> QED BY <1>6, <1>10, <1>11, <1>12 DEF T

-----------------------------------------------------------------------------
(* The map of logins.                                                       *)

\* Whatever becomes of a recording, what was in the map or is recorded is in it after, or is among
\* those that are named as put out of it.
MapIsFit(m) == m.q \in Seq(Accounts) /\ Len(m.q) <= keep /\ m.gone \subseteq Accounts
Holds(m, x) == x \in ToSet(m.q) \cup m.gone

LEMMA InFront ==
  ASSUME NEW x \in Accounts, NEW q \in Seq(Accounts)
  PROVE  /\ <<x>> \o q \in Seq(Accounts) /\ Len(<<x>> \o q) = Len(q) + 1
         /\ ToSet(<<x>> \o q) = {x} \cup ToSet(q)
<1> DEFINE w == <<x>> \o q
<1>1. /\ w \in Seq(Accounts) /\ Len(w) = Len(q) + 1 /\ Len(q) \in Nat
      /\ w[1] = x /\ \A i \in 1..Len(q) : w[i + 1] = q[i]
  OBVIOUS
<1> HIDE DEF w
<1>2. DOMAIN w = 1..(Len(q) + 1) /\ DOMAIN q = 1..Len(q) BY <1>1
<1>3. ASSUME NEW i \in DOMAIN w PROVE w[i] = x \/ \E k \in DOMAIN q : w[i] = q[k]
  <2>1. CASE i = 1 BY <1>1, <2>1
  <2>2. CASE i # 1
    <3>1. i - 1 \in 1..Len(q) /\ (i - 1) + 1 = i BY <1>1, <1>2, <2>2
    <3>2. w[i] = q[i - 1] BY <1>1, <3>1
    <3> QED BY <1>2, <3>1, <3>2
  <2> QED BY <2>1, <2>2
<1>4. ASSUME NEW k \in DOMAIN q PROVE \E i \in DOMAIN w : w[i] = q[k]
  <2>1. k + 1 \in DOMAIN w /\ w[k + 1] = q[k] BY <1>1, <1>2
  <2> QED BY <2>1
<1>5. 1 \in DOMAIN w BY <1>1, <1>2
<1>6. ToSet(w) = {x} \cup ToSet(q) BY <1>1, <1>3, <1>4, <1>5 DEF ToSet
<1> QED BY <1>1, <1>6 DEF w

LEMMA WithoutIs ==
  ASSUME keep \in Nat \ {0}, NEW q \in Seq(Accounts), Len(q) <= keep, NEW x \in Accounts
  PROVE  /\ Without(q, x) \in Seq(Accounts) /\ Len(Without(q, x)) + 1 <= keep
         /\ ToSet(q) \subseteq {x} \cup ToSet(Without(q, x)) \cup Evicted(q, x)
         /\ Evicted(q, x) \subseteq Accounts
<1>0. Len(q) \in Nat /\ DOMAIN q = 1..Len(q) /\ \A i \in 1..Len(q) : q[i] \in Accounts OBVIOUS
<1>1. CASE x \in ToSet(q)
  <2> DEFINE p == Place(q, x)
             w == RemoveAt(q, p)
  <2>1. p \in 1..Len(q) /\ q[p] = x
    <3>1. \E i \in DOMAIN q : q[i] = x BY <1>1 DEF ToSet
    <3> QED BY <1>0, <3>1 DEF Place
  <2> HIDE DEF p
  <2>2. /\ SubSeq(q, 1, p - 1) \in Seq(Accounts) /\ Len(SubSeq(q, 1, p - 1)) = p - 1
        /\ \A i \in 1..(p - 1) : SubSeq(q, 1, p - 1)[i] = q[i]
    BY <1>0, <2>1
  <2>3. /\ SubSeq(q, p + 1, Len(q)) \in Seq(Accounts) /\ Len(SubSeq(q, p + 1, Len(q))) = Len(q) - p
        /\ \A i \in 1..(Len(q) - p) : SubSeq(q, p + 1, Len(q))[i] = q[p + i]
    <3>1. p \in Nat /\ p + 1 \in Nat /\ p + 1 >= 1 /\ p <= Len(q) BY <1>0, <2>1
    <3>2. SubSeq(q, p + 1, Len(q)) \in Seq(Accounts) /\ Len(SubSeq(q, p + 1, Len(q))) = Len(q) - p
      <4>1. \A i \in (p + 1)..Len(q) : q[i] \in Accounts BY <1>0, <3>1
      <4>2. SubSeq(q, p + 1, Len(q)) \in Seq(Accounts) BY <3>1, <4>1, SubSeqProperties
      <4>3. Len(SubSeq(q, p + 1, Len(q))) = IF p + 1 <= Len(q) THEN Len(q) - (p + 1) + 1 ELSE 0
        BY <3>1, SubSeqProperties
      <4>4. Len(q) \in Nat BY <1>0
      <4>5. (IF p + 1 <= Len(q) THEN Len(q) - (p + 1) + 1 ELSE 0) = Len(q) - p BY <3>1, <4>4
      <4> QED BY <4>2, <4>3, <4>5
    <3>3. ASSUME NEW i \in 1..(Len(q) - p) PROVE SubSeq(q, p + 1, Len(q))[i] = q[p + i]
      <4>1. (p + 1) + i - 1 = p + i /\ i \in 1..(Len(q) - (p + 1) + 1) BY <1>0, <3>1
      <4>2. SubSeq(q, p + 1, Len(q))[i] = q[(p + 1) + i - 1] BY <1>0, <3>1, <4>1
      <4> QED BY <4>1, <4>2
    <3> QED BY <3>2, <3>3
  <2> DEFINE f == SubSeq(q, 1, p - 1)
             g == SubSeq(q, p + 1, Len(q))
  <2>4. w = f \o g BY DEF RemoveAt
  <2> HIDE DEF f, g, w
  <2>5. /\ w \in Seq(Accounts) /\ Len(w) = Len(f) + Len(g)
        /\ \A i \in 1..(Len(f) + Len(g)) : w[i] = IF i <= Len(f) THEN f[i] ELSE g[i - Len(f)]
    BY <2>2, <2>3, <2>4 DEF f, g
  <2>6. /\ Len(f) = p - 1 /\ Len(g) = Len(q) - p
        /\ \A i \in 1..(p - 1) : f[i] = q[i]
        /\ \A i \in 1..(Len(q) - p) : g[i] = q[p + i]
    BY <2>2, <2>3 DEF f, g
  <2>7. p \in Nat /\ Len(w) = Len(q) - 1 /\ DOMAIN w = 1..(Len(q) - 1) BY <1>0, <2>1, <2>5, <2>6
  <2>8. ASSUME NEW i \in 1..Len(q), i # p PROVE \E k \in DOMAIN w : w[k] = q[i]
    <3>1. CASE i < p
      <4>1. i \in 1..(p - 1) /\ i \in 1..(Len(f) + Len(g)) /\ i <= Len(f) BY <1>0, <2>1, <2>6, <2>7, <3>1
      <4>2. w[i] = q[i] BY <2>5, <2>6, <4>1
      <4> QED BY <2>6, <2>7, <4>1, <4>2
    <3>2. CASE i > p
      <4>1. /\ i - 1 \in 1..(Len(f) + Len(g)) /\ ~(i - 1 <= Len(f)) /\ (i - 1) - Len(f) = i - p
            /\ i - p \in 1..(Len(q) - p) /\ p + (i - p) = i
        BY <1>0, <2>1, <2>6, <2>7, <3>2
      <4>2. w[i - 1] = g[i - p] BY <2>5, <4>1
      <4>3. g[i - p] = q[i] BY <2>6, <4>1
      <4>4. i - 1 \in DOMAIN w BY <2>5, <2>7, <4>1
      <4> QED BY <4>2, <4>3, <4>4
    <3> QED BY <1>0, <2>1, <2>8, <3>1, <3>2
  <2>9. ToSet(q) \subseteq {x} \cup ToSet(w) BY <1>0, <2>1, <2>8 DEF ToSet
  <2>10. Without(q, x) = w /\ Evicted(q, x) = {} BY <1>1 DEF Without, Evicted, w, p
  <2> QED BY <1>0, <2>5, <2>7, <2>9, <2>10
<1>2. CASE x \notin ToSet(q) /\ Len(q) >= keep
  <2> DEFINE w == SubSeq(q, 1, Len(q) - 1)
  <2>1. /\ w \in Seq(Accounts) /\ Len(w) = Len(q) - 1 /\ \A i \in 1..(Len(q) - 1) : w[i] = q[i]
    BY <1>0, <1>2
  <2>2. Without(q, x) = w BY <1>2 DEF Without, Full, Front
  <2>7. Len(q) = keep
    <3>1. Len(q) \in Nat /\ keep \in Nat /\ Len(q) <= keep BY <1>0
    <3>2. Len(q) >= keep BY <1>2
    <3> QED BY <3>1, <3>2
  <2>3. Evicted(q, x) = {q[Len(q)]} BY <1>2, <2>7 DEF Evicted, Last
  <2> HIDE DEF w
  <2>4. DOMAIN w = 1..(Len(q) - 1) BY <2>1
  <2>5. ASSUME NEW i \in 1..Len(q) PROVE q[i] \in ToSet(w) \cup {q[Len(q)]}
    <3>2. Len(q) \in Nat /\ i \in Nat /\ 1 <= i /\ i <= Len(q) BY <1>0
    <3>1. i = Len(q) \/ i \in 1..(Len(q) - 1) BY <3>2
    <3> QED BY <2>1, <2>4, <3>1 DEF ToSet
  <2>6. Len(q) \in 1..Len(q) BY <1>0, <1>2
  <2> QED BY <1>0, <2>1, <2>2, <2>3, <2>5, <2>6 DEF ToSet
<1>3. CASE x \notin ToSet(q) /\ ~(Len(q) >= keep)
  <2>1. Without(q, x) = q BY <1>3 DEF Without, Full
  <2>2. Evicted(q, x) = {} BY <1>0, <1>3 DEF Evicted
  <2> QED BY <1>0, <1>3, <2>1, <2>2
<1> QED BY <1>1, <1>2, <1>3

LEMMA NotedIs ==
  ASSUME keep \in Nat \ {0}, NEW m, MapIsFit(m), NEW x \in Accounts, NEW how \in Outcomes
  PROVE  LET n == Noted(m, x, how)
         IN  MapIsFit(n) /\ Holds(n, x) /\ \A y : Holds(m, y) => Holds(n, y)
<1>0. m.q \in Seq(Accounts) /\ Len(m.q) <= keep /\ m.gone \subseteq Accounts BY DEF MapIsFit
<1>1. CASE how = "saved"
  <2> DEFINE w == Without(m.q, x)
             e == Evicted(m.q, x)
  <2>1. /\ w \in Seq(Accounts) /\ Len(w) + 1 <= keep /\ ToSet(m.q) \subseteq {x} \cup ToSet(w) \cup e
        /\ e \subseteq Accounts
    BY <1>0, WithoutIs
  <2>2. Noted(m, x, how) = [q |-> <<x>> \o w, gone |-> (m.gone \cup e) \ {x}] BY <1>1 DEF Noted
  <2> HIDE DEF w, e
  <2>3. <<x>> \o w \in Seq(Accounts) /\ Len(<<x>> \o w) <= keep /\ ToSet(<<x>> \o w) = {x} \cup ToSet(w)
    BY <2>1, InFront
  <2> QED BY <1>0, <2>1, <2>2, <2>3 DEF MapIsFit, Holds
<1>2. CASE how = "failed"
  <2>1. Noted(m, x, how) = [q |-> m.q, gone |-> m.gone \cup ({x} \ ToSet(m.q))] BY <1>2 DEF Noted
  <2> QED BY <1>0, <2>1 DEF MapIsFit, Holds
<1>3. CASE how = "unread"
  <2>1. Noted(m, x, how) = [q |-> <<x>>, gone |-> (m.gone \cup ToSet(m.q)) \ {x}] BY <1>3 DEF Noted
  <2>2. <<x>> \in Seq(Accounts) /\ Len(<<x>>) = 1 /\ DOMAIN <<x>> = {1} /\ <<x>>[1] = x OBVIOUS
  <2>3. ToSet(<<x>>) = {x} BY <2>2 DEF ToSet
  <2>4. ToSet(m.q) \subseteq Accounts BY <1>0 DEF ToSet
  <2>5. 1 <= keep OBVIOUS
  <2>6. MapIsFit(Noted(m, x, how))
    <3>1. Len(<<x>>) <= keep BY <2>2, <2>5
    <3> QED BY <1>0, <2>1, <2>2, <2>4, <3>1 DEF MapIsFit
  <2> QED BY <2>1, <2>3, <2>6 DEF Holds
<1> QED BY <1>1, <1>2, <1>3 DEF Outcomes

LEMMA NotedOfIs ==
  ASSUME WorldTypes, NEW m, MapIsFit(m), NEW s \in Sources, NEW bad, NEW how \in [Sources -> Outcomes]
  PROVE  LET n == NotedOf(m, s, bad, how)
         IN  /\ MapIsFit(n) /\ \A y : Holds(m, y) => Holds(n, y)
             /\ Learns(s, bad) => Holds(n, stores[s].acct)
<1>1. CASE Learns(s, bad)
  <2>1. keep \in Nat \ {0} /\ stores[s].acct \in Accounts /\ how[s] \in Outcomes
    BY <1>1 DEF WorldTypes, Login, Learns
  <2>2. NotedOf(m, s, bad, how) = Noted(m, stores[s].acct, how[s]) BY <1>1 DEF NotedOf
  <2> QED BY <2>1, <2>2, NotedIs
<1>2. CASE ~Learns(s, bad)
  <2>1. NotedOf(m, s, bad, how) = m BY <1>2 DEF NotedOf
  <2> QED BY <1>2, <2>1
<1> QED BY <1>1, <1>2

LEMMA MapAfterIs ==
  ASSUME WorldTypes, FileTypes, Known, NEW bad, NEW how \in [Sources -> Outcomes]
  PROVE  LET n == MapAfter(bad, how)
         IN  /\ MapIsFit(n)
             /\ ToSet(logins) \cup dropped \cup Learned(bad) \subseteq ToSet(n.q) \cup n.gone
<1> DEFINE m0 == [q |-> logins, gone |-> dropped]
           m1 == NotedOf(m0, "ide", bad, how)
           m2 == NotedOf(m1, "profile", bad, how)
           m3 == NotedOf(m2, "agent", bad, how)
<1>0. "ide" \in Sources /\ "profile" \in Sources /\ "agent" \in Sources BY DEF Sources
<1>1. MapIsFit(m0) /\ \A y : Holds(m0, y) <=> y \in ToSet(logins) \cup dropped
  BY DEF FileTypes, Known, MapIsFit, Holds
<1>2. MapAfter(bad, how) = m3 BY DEF MapAfter
<1> HIDE DEF m0
<1>3. /\ MapIsFit(m1) /\ \A y : Holds(m0, y) => Holds(m1, y)
      /\ Learns("ide", bad) => Holds(m1, stores["ide"].acct)
  BY <1>0, <1>1, NotedOfIs
<1> HIDE DEF m1
<1>4. /\ MapIsFit(m2) /\ \A y : Holds(m1, y) => Holds(m2, y)
      /\ Learns("profile", bad) => Holds(m2, stores["profile"].acct)
  BY <1>0, <1>3, NotedOfIs
<1> HIDE DEF m2
<1>5. /\ MapIsFit(m3) /\ \A y : Holds(m2, y) => Holds(m3, y)
      /\ Learns("agent", bad) => Holds(m3, stores["agent"].acct)
  BY <1>0, <1>4, NotedOfIs
<1> HIDE DEF m3
<1>6. ASSUME NEW y \in Learned(bad) PROVE Holds(m3, y)
  <2>1. PICK s \in Sources : Learns(s, bad) /\ y = stores[s].acct BY DEF Learned
  <2> QED BY <1>3, <1>4, <1>5, <2>1 DEF Sources
<1>7. \A y \in ToSet(logins) \cup dropped : Holds(m3, y) BY <1>1, <1>3, <1>4, <1>5
<1> QED BY <1>2, <1>5, <1>6, <1>7 DEF Holds

-----------------------------------------------------------------------------
(* A reading is queued.                                                     *)

\* What the backend makes of what is sent of a reading: it only learns.
LEMMA TakenIs ==
  ASSUME PollTypes, InHand, BackTypes, rd.at # "idle",
         NEW sent \in SUBSET Rows, NEW completion \in BOOLEAN, Taken(sent, completion)
  PROVE  /\ BackTypes' /\ manifests \subseteq manifests' /\ priced \subseteq priced'
         /\ \A c \in Cycles : rows[c] \subseteq rows'[c]
         /\ sent \subseteq rows'[rd.c]
         /\ completion /\ SendsManifest => Manifest \in manifests'
         /\ completion /\ Manifest \in manifests' /\ RowsOf(Reading) \subseteq rows'[rd.c]
              => published'[rd.acct][rd.c] = Reading /\ ConvsOf(Reading) \subseteq priced'
<1> DEFINE Shows == completion /\ Manifest \in manifests' /\ RowsOf(Reading) \subseteq rows'[rd.c]
<1>1. rd.acct \in Accounts /\ rd.c \in Cycles /\ rd.got \in Feeds BY Reads
<1>2. Reading \in Bags /\ Reading # NoSnapshot BY <1>1, SortedIs DEF Reading
<1>3. rows \in [Cycles -> SUBSET Rows] /\ published \in [Accounts -> [Cycles -> Bags \cup {NoSnapshot}]]
  BY DEF BackTypes
<1>4. /\ rows' \in [Cycles -> SUBSET Rows] /\ \A c \in Cycles : rows[c] \subseteq rows'[c]
      /\ sent \subseteq rows'[rd.c]
  BY <1>1, <1>3 DEF Taken
<1>5. published' = IF Shows THEN [published EXCEPT ![rd.acct][rd.c] = Reading] ELSE published BY DEF Taken
<1>6. /\ published' \in [Accounts -> [Cycles -> Bags \cup {NoSnapshot}]]
      /\ Shows => published'[rd.acct][rd.c] = Reading
  <2>1. CASE ~Shows BY <1>3, <1>5, <2>1
  <2>2. CASE Shows
    <3> DEFINE S == Bags \cup {NoSnapshot}
    <3>1. published \in [Accounts -> [Cycles -> S]] /\ Reading \in S BY <1>2, <1>3
    <3>2. published' = [published EXCEPT ![rd.acct][rd.c] = Reading] BY <1>5, <2>2
    <3> HIDE DEF S, Shows
    <3>3. published' \in [Accounts -> [Cycles -> S]] /\ published'[rd.acct][rd.c] = Reading
      BY <1>1, <3>1, <3>2, Put
    <3> QED BY <3>3 DEF S
  <2> QED BY <2>1, <2>2
<1>7. manifests \subseteq manifests' /\ (completion /\ SendsManifest => Manifest \in manifests') BY DEF Taken
<1>8. /\ priced \subseteq priced'
      /\ published'[rd.acct][rd.c] = Reading => ConvsOf(Reading) \subseteq priced'
  BY <1>2 DEF Taken
<1> QED BY <1>4, <1>6, <1>7, <1>8 DEF BackTypes

\* What is not sent of a reading the backend has, as far as it has lost nothing.
LEMMA TookAll ==
  ASSUME Inv, rd.at = "queue", Taken(ToSend, TRUE)
  PROVE  /\ Manifest \in manifests'
         /\ lost \/ RowsOf(Reading) \subseteq rows'[rd.c]
         /\ lost \/ (published'[rd.acct][rd.c] = Reading /\ ConvsOf(Reading) \subseteq priced')
<1>1. PollTypes /\ InHand /\ BackTypes /\ Backed BY DEF Inv
<1>2. rd.acct \in Accounts /\ rd.c \in Cycles /\ rd.got \in Feeds BY <1>1, Reads
<1>3. Reading \in Bags /\ Reading # NoSnapshot BY <1>2, SortedIs DEF Reading
<1>4. ToSend \in SUBSET Rows BY DEF ToSend, RowsOf
<1>5. /\ manifests \subseteq manifests' /\ \A c \in Cycles : rows[c] \subseteq rows'[c]
      /\ ToSend \subseteq rows'[rd.c]
      /\ SendsManifest => Manifest \in manifests'
      /\ Manifest \in manifests' /\ RowsOf(Reading) \subseteq rows'[rd.c]
           => published'[rd.acct][rd.c] = Reading /\ ConvsOf(Reading) \subseteq priced'
  BY <1>1, <1>4, TakenIs
<1>7. Manifest \in manifests'
  <2>1. CASE SendsManifest BY <1>5, <2>1
  <2>2. CASE ~SendsManifest
    <3>1. Pool.snap[rd.acct] = Id /\ Pool.man[rd.acct] = Reading BY <2>2 DEF SendsManifest
    <3>2. [id |-> Pool.snap[rd.acct], of |-> Pool.man[rd.acct]] \in manifests
      BY <1>1, <1>2, <1>3, <3>1 DEF Backed, Pool
    <3> QED BY <1>5, <3>1, <3>2 DEF Manifest
  <2> QED BY <2>1, <2>2
<1>8. lost \/ RowsOf(Reading) \subseteq rows'[rd.c]
  <2>1. lost \/ Pool.hashes \subseteq rows[rd.c] BY <1>1, <1>2 DEF Backed, Pool
  <2>2. \A r \in RowsOf(Reading) : r \in ToSend \/ r \in Pool.hashes BY DEF ToSend
  <2> QED BY <1>2, <1>5, <2>1, <2>2
<1>9. ASSUME ~lost PROVE published'[rd.acct][rd.c] = Reading /\ ConvsOf(Reading) \subseteq priced'
  <2>1. RowsOf(Reading) \subseteq rows'[rd.c] BY <1>8, <1>9
  <2> QED BY <1>5, <1>7, <2>1
<1> QED BY <1>7, <1>8, <1>9

-----------------------------------------------------------------------------
(* The poll, step by step.                                                  *)

\* The part of the invariant that is about the poll alone.
OfPoll == PollTypes /\ InHand /\ Covered

\* The account in hand is done with, and there has been a word about it.
LEMMA DoneIs ==
  ASSUME OfPoll, todo # <<>>, rd' = NoReading, todo' = Tail(todo),
         found' = found, cut' = cut, said \subseteq said', unheard \subseteq unheard',
         said' \cup unheard' \subseteq said \cup unheard \cup {Head(todo).acct},
         Head(todo).acct \in said' \cup unheard'
  PROVE  OfPoll'
<1>1. todo \in Seq(Task) BY DEF OfPoll, PollTypes
<1>2. Head(todo) = todo[1] /\ 1 \in 1..Len(todo) BY <1>1
<1>3. Head(todo).acct \in Pending BY <1>2 DEF Pending
<1>4. /\ Tail(todo) \in Seq(Task) /\ Pending' \subseteq Pending
      /\ Pending \subseteq Pending' \cup {Head(todo).acct}
  BY <1>1, TailIs
<1>5. PollTypes' BY <1>3, <1>4, Constant DEF OfPoll, PollTypes, Covered
<1>6. InHand' BY Constant DEF InHand
<1>7. Covered' BY <1>4 DEF OfPoll, Covered
<1> QED BY <1>5, <1>6, <1>7 DEF OfPoll

\* After the current cycle the one before is read, or the account is done with.
LEMMA GoOnIs ==
  ASSUME OfPoll, rd.at = "queue", GoOn, found' = found, cut' = cut, said \subseteq said', unheard \subseteq unheard',
         said' \cup unheard' = said \cup unheard \cup {rd.acct}
  PROVE  OfPoll'
<1>1. /\ rd.acct \in Accounts /\ rd.c \in Cycles /\ rd.cur \in Cycles /\ todo # <<>>
      /\ rd.acct = Head(todo).acct /\ rd.acct \in Pending
  BY Reads DEF OfPoll
<1>2. CASE Done BY <1>1, <1>2, DoneIs DEF Done
<1>3. CASE ~Done
  <2>1. /\ rd' = [NoReading EXCEPT !.acct = rd.acct, !.at = "page", !.cur = rd.cur, !.c = rd.cur - 1]
        /\ todo' = todo /\ rd.cur > 0
    BY <1>3 DEF GoOn
  <2>2. rd.cur - 1 \in Cycles BY <1>1, <2>1, Constant DEF Cycles
  <2>3. /\ rd' \in RdType /\ rd'.acct = rd.acct /\ rd'.at = "page" /\ rd'.got = <<>> /\ rd'.page = 1
    <3>1. rd' = [acct |-> rd.acct, at |-> "page", cur |-> rd.cur, c |-> rd.cur - 1, got |-> <<>>, page |-> 1, total |-> 0]
      BY <2>1 DEF NoReading
    <3>2. 1 \in Nat \ {0} /\ 0 \in Nat OBVIOUS
    <3> QED BY <1>1, <2>2, <3>1, <3>2, NoRows DEF RdType
  <2>4. rd.acct \in found BY <1>1 DEF OfPoll, Covered
  <2>5. PollTypes' BY <2>1, <2>3, <2>4 DEF OfPoll, PollTypes
  <2>6. InHand' BY <1>1, <2>1, <2>3 DEF InHand
  <2>7. Pending' = Pending BY <2>1 DEF Pending
  <2>8. Covered' BY <2>7 DEF OfPoll, Covered
  <2> QED BY <2>5, <2>6, <2>8 DEF OfPoll
<1> QED BY <1>2, <1>3

LEMMA PollInit ==
  ASSUME Init
  PROVE  OfPoll
<1>1. todo = <<>> /\ rd = NoReading /\ found = {} /\ said = {} /\ unheard = {} /\ cut = FALSE BY DEF Init
<1>2. <<>> \in Seq(Task) /\ Len(<<>>) = 0 OBVIOUS
<1>3. PollTypes BY <1>1, <1>2, Constant DEF PollTypes
<1>4. InHand BY <1>1, Constant DEF InHand
<1>5. Covered BY <1>1, <1>2 DEF Covered, Pending
<1> QED BY <1>3, <1>4, <1>5 DEF OfPoll

\* Nothing is under way: the poll has ended, or it begins.
LEMMA PollIdle ==
  ASSUME OfPoll, rd'.at = "idle", rd' \in RdType, todo' \in Seq(Task),
         found' \subseteq Accounts, said' \cup unheard' \subseteq found', cut' \in BOOLEAN, Pending' \subseteq found',
         found' \subseteq said' \cup unheard' \cup Pending' \/ cut'
  PROVE  OfPoll'
<1>1. PollTypes' BY DEF PollTypes
<1>2. InHand' BY DEF InHand
<1>3. Covered' BY DEF Covered
<1> QED BY <1>1, <1>2, <1>3 DEF OfPoll

LEMMA PollKept ==
  ASSUME OfPoll, UNCHANGED <<todo, rd, found, said, unheard, cut>>
  PROVE  OfPoll'
BY DEF OfPoll, PollTypes, InHand, Covered, Pending

LEMMA PollNext ==
  ASSUME Inv, [Next]_vars
  PROVE  OfPoll'
<1>0. OfPoll /\ WorldTypes BY DEF Inv, OfPoll
<1>a. /\ todo \in Seq(Task) /\ rd \in RdType /\ found \subseteq Accounts /\ said \cup unheard \subseteq found
      /\ cut \in BOOLEAN
  BY <1>0 DEF OfPoll, PollTypes
<1>b. <<>> \in Seq(Task) /\ Len(<<>>) = 0 OBVIOUS
<1>c. ASSUME NEW why, Absent(why), todo # <<>> PROVE OfPoll'
  <2>1. /\ rd' = NoReading /\ todo' = Tail(todo) /\ found' = found /\ cut' = cut
        /\ \/ said' = said \cup {Head(todo).acct} /\ unheard' = unheard
           \/ unheard' = unheard \cup {Head(todo).acct} /\ said' = said
    BY <1>c DEF Absent, Account, Told
  <2> QED BY <1>0, <1>c, <2>1, DoneIs
<1>d. ASSUME rd.at # "idle", rd.acct \in said \cup unheard, Done, UNCHANGED <<found, said, unheard, cut>>
      PROVE OfPoll'
  <2>1. todo # <<>> /\ rd.acct = Head(todo).acct BY <1>0, <1>d DEF OfPoll, InHand
  <2> QED BY <1>0, <1>d, <2>1, DoneIs DEF Done
<1>e. ASSUME todo' = <<>>, rd' = NoReading, found' \subseteq Accounts, said' \cup unheard' \subseteq found', cut' \in BOOLEAN,
             found' = {} \/ cut'
      PROVE OfPoll'
  <2>1. Pending' = {} BY <1>b, <1>e DEF Pending
  <2> QED BY <1>0, <1>b, <1>e, <2>1, PollIdle, Constant
<1>1. CASE PollDenied
  <2>1. /\ rd.at = "idle" /\ todo = <<>> /\ UNCHANGED <<todo, rd>>
        /\ found' = {} /\ said' = {} /\ unheard' = {} /\ cut' = FALSE
    BY <1>1 DEF PollDenied, Idle
  <2>2. Pending' = {} BY <1>b, <2>1 DEF Pending
  <2> QED BY <1>0, <1>a, <1>b, <2>1, <2>2, PollIdle
<1>2. CASE PollStart
  <2>1. PICK bad : /\ todo' = ToCollect(bad) /\ found' = {stores[s].acct : s \in Read(bad)}
                   /\ said' = {} /\ unheard' = {} /\ cut' = FALSE
    BY <1>2 DEF PollStart
  <2>2. rd.at = "idle" /\ rd' = rd BY <1>2 DEF PollStart, Idle
  <2>3. /\ todo' \in Seq(Task) /\ Pending' = found' /\ found' \subseteq Accounts
    BY <1>0, <2>1, CollectIs DEF Pending
  <2> QED BY <1>0, <1>a, <2>1, <2>2, <2>3, PollIdle
<1>3. CASE Expired BY <1>c, <1>3 DEF Expired
<1>4. CASE Team BY <1>c, <1>4 DEF Team
<1>5. CASE Period
  <2>1. /\ todo # <<>> /\ UNCHANGED <<todo, found, said, unheard, cut>>
        /\ rd' = [NoReading EXCEPT !.acct = Account, !.at = "page", !.cur = cycle, !.c = cycle]
    BY <1>5 DEF Period, ghosts, poll
  <2>9. Head(todo) \in Task BY <1>a, <2>1
  <2>2. Account \in Accounts /\ Account = Head(todo).acct BY <2>9 DEF Account, Task
  <2>3. rd' = [acct |-> Account, at |-> "page", cur |-> cycle, c |-> cycle, got |-> <<>>, page |-> 1, total |-> 0]
    BY <2>1 DEF NoReading
  <2>4. 1 \in Nat \ {0} /\ 0 \in Nat /\ cycle \in Cycles BY <1>0 DEF WorldTypes
  <2>5. rd' \in RdType BY <2>2, <2>3, <2>4, NoRows DEF RdType
  <2>10. rd'.got = <<>> /\ rd'.page = 1 BY <2>3
  <2>11. Len(rd'.got) < rd'.page BY <1>b, <2>10
  <2>6. PollTypes' BY <1>a, <2>1, <2>5, <2>11 DEF PollTypes
  <2>7. InHand' BY <2>1, <2>2, <2>3, <2>4, Constant DEF InHand, Cycles
  <2>8. Covered' BY <1>0, <2>1 DEF OfPoll, Covered, Pending
  <2> QED BY <2>6, <2>7, <2>8 DEF OfPoll
<1>6. CASE Page
  <2> DEFINE s == feed[rd.acct][rd.c]
             got == IF rd.page <= Len(s) THEN Append(rd.got, s[rd.page]) ELSE rd.got
             total == IF rd.page = 1 THEN Len(s) ELSE rd.total
             at == IF rd.page > Len(s) \/ Len(got) >= total THEN "queue" ELSE "page"
  <2>1. rd.at = "page" /\ UNCHANGED <<todo, found, said, unheard, cut>> BY <1>6 DEF Page, ghosts, poll
  <2>2. /\ rd.acct \in Accounts /\ rd.c \in Cycles /\ rd.got \in Feeds
    BY <1>0, <2>1, Reads DEF OfPoll
  <2>3. rd' = [rd EXCEPT !.got = got, !.page = @ + 1, !.total = total, !.at = at] BY <1>6 DEF Page
  <2>4. s \in Feeds BY <1>0, <2>2 DEF WorldTypes
  <2>5. /\ s \in Seq(Rows) /\ Len(s) \in Nat /\ Len(s) <= MaxRows
        /\ rd.got \in Seq(Rows) /\ Len(rd.got) \in Nat /\ Len(rd.got) <= MaxRows /\ MaxRows \in Nat
    BY <2>2, <2>4, FeedIs, Constant
  <2>6. rd.page \in Nat \ {0} /\ rd.total \in Nat /\ Len(rd.got) < rd.page
    BY <1>0, <2>1 DEF OfPoll, PollTypes, RdType
  <2>7. got \in Feeds /\ Len(got) < rd.page + 1
    <3>1. CASE rd.page <= Len(s)
      <4>1. s[rd.page] \in Rows BY <2>5, <2>6, <3>1
      <4>2. got \in Seq(Rows) /\ Len(got) = Len(rd.got) + 1 BY <2>5, <3>1, <4>1
      <4>3. Len(got) <= MaxRows /\ Len(got) < rd.page + 1 BY <2>5, <2>6, <3>1, <4>2
      <4> QED BY <4>2, <4>3, FeedIs
    <3>2. CASE ~(rd.page <= Len(s)) BY <2>2, <2>5, <2>6, <3>2
    <3> QED BY <3>1, <3>2
  <2>8. total \in Nat /\ at \in {"page", "queue"} /\ rd.page + 1 \in Nat \ {0} BY <2>5, <2>6
  <2> HIDE DEF got, total, at, s
  <2>9. rd' \in RdType BY <1>a, <2>3, <2>7, <2>8 DEF RdType
  <2>10. /\ rd'.got = got /\ rd'.page = rd.page + 1 /\ rd'.at = at /\ rd'.acct = rd.acct
         /\ rd'.c = rd.c /\ rd'.cur = rd.cur
    BY <1>a, <2>3 DEF RdType
  <2>11. PollTypes' BY <1>a, <2>1, <2>7, <2>9, <2>10 DEF PollTypes
  <2>12. InHand' BY <1>0, <2>1, <2>10 DEF OfPoll, InHand
  <2>13. Covered' BY <1>0, <2>1 DEF OfPoll, Covered, Pending
  <2> QED BY <2>11, <2>12, <2>13 DEF OfPoll
<1>7. CASE Queue BY <1>0, <1>7, GoOnIs DEF Queue
<1>8. CASE HistoryChecked
  <2>1. rd.at = "queue" /\ rd.c < rd.cur /\ Done /\ UNCHANGED <<found, said, unheard, cut>>
    BY <1>8 DEF HistoryChecked, Checkpointed, ghosts, poll
  <2>2. rd.acct \in said \cup unheard BY <1>0, <2>1 DEF OfPoll, InHand
  <2> QED BY <1>d, <2>1, <2>2
<1>9. CASE RequestFails BY <1>c, <1>9 DEF RequestFails
<1>10. CASE BudgetSpent BY <1>a, <1>e, <1>10 DEF BudgetSpent
<1>11. CASE QueueRefused
  <2>1. rd.at = "queue" /\ GoOn /\ found' = found /\ cut' = cut BY <1>11 DEF QueueRefused
  <2>2. PICK completion \in BOOLEAN : /\ said' = said \cup IF completion THEN {rd.acct} ELSE {}
                                      /\ unheard' = unheard \cup IF completion THEN {} ELSE {rd.acct}
    BY <1>11 DEF QueueRefused
  <2>3. /\ said \subseteq said' /\ unheard \subseteq unheard'
        /\ said' \cup unheard' = said \cup unheard \cup {rd.acct}
    BY <2>2
  <2> QED BY <1>0, <2>1, <2>3, GoOnIs
<1>12. CASE HistoryFails
  <2>1. rd.at = "page" /\ rd.c < rd.cur /\ Done /\ UNCHANGED <<found, said, unheard, cut>>
    BY <1>12 DEF HistoryFails, ghosts, poll
  <2>2. rd.acct \in said \cup unheard BY <1>0, <2>1 DEF OfPoll, InHand
  <2> QED BY <1>d, <2>1, <2>2
<1>13. CASE Restart BY <1>e, <1>13 DEF Restart
<1>14. CASE Edit BY <1>0, <1>14, PollKept DEF Edit, poll
<1>15. CASE Rollover BY <1>0, <1>15, PollKept DEF Rollover, ghosts, poll
<1>16. CASE SignIn BY <1>0, <1>16, PollKept DEF SignIn, ghosts, poll
<1>17. CASE Profile BY <1>0, <1>17, PollKept DEF Profile, ghosts, poll
<1>18. CASE Policy BY <1>0, <1>18, PollKept DEF Policy, poll
<1>19. CASE Tick BY <1>0, <1>19, PollKept DEF Tick, poll
<1>20. CASE SetBack BY <1>0, <1>20, PollKept DEF SetBack, poll
<1>21. CASE Turn BY <1>0, <1>21, PollKept DEF Turn, poll
<1>22. CASE Lose BY <1>0, <1>22, PollKept DEF Lose, poll
<1>23. CASE UNCHANGED vars BY <1>0, <1>23, PollKept DEF vars, ghosts, poll
<1> QED BY <1>1, <1>2, <1>3, <1>4, <1>5, <1>6, <1>7, <1>8, <1>9, <1>10, <1>11, <1>12, <1>13, <1>14,
           <1>15, <1>16, <1>17, <1>18, <1>19, <1>20, <1>21, <1>22, <1>23 DEF Next, Collector, World

-----------------------------------------------------------------------------
(* The world around it.                                                     *)

\* One place of the table of calm readings.
LEMMA CalmPut ==
  ASSUME WorldTypes, NEW a \in Accounts, NEW c \in Cycles, NEW v \in BOOLEAN,
         calm' = [calm EXCEPT ![a][c] = v]
  PROVE  /\ calm' \in Flags /\ calm'[a][c] = v
         /\ \A b \in Accounts : \A d \in Cycles : b # a \/ d # c => calm'[b][d] = calm[b][d]
<1>1. calm \in [Accounts -> [Cycles -> BOOLEAN]] BY DEF WorldTypes, Flags
<1> QED BY <1>1, Put DEF Flags

\* An edit of a feed: where a reading is calm, the feed is what it was.
LEMMA EditedIs ==
  ASSUME WorldTypes, NEW a \in Accounts, NEW c \in Cycles, NEW s \in Feeds, Edited(a, c, s)
  PROVE  /\ feed' \in [Accounts -> [Cycles -> Feeds]] /\ calm' \in Flags
         /\ \A b \in Accounts : \A d \in Cycles : calm'[b][d] => calm[b][d] /\ feed'[b][d] = feed[b][d]
<1>1. feed \in [Accounts -> [Cycles -> Feeds]] /\ calm \in [Accounts -> [Cycles -> BOOLEAN]]
  BY DEF WorldTypes, Flags
<1>2. feed' = [feed EXCEPT ![a][c] = s] /\ calm' = [calm EXCEPT ![a][c] = FALSE] BY DEF Edited
<1>3. /\ feed' \in [Accounts -> [Cycles -> Feeds]]
      /\ \A b \in Accounts : \A d \in Cycles : b # a \/ d # c => feed'[b][d] = feed[b][d]
  BY <1>1, <1>2, Put
<1>4. FALSE \in BOOLEAN OBVIOUS
<1>5. /\ calm' \in Flags /\ calm'[a][c] = FALSE
      /\ \A b \in Accounts : \A d \in Cycles : b # a \/ d # c => calm'[b][d] = calm[b][d]
  BY <1>2, <1>4, CalmPut
<1> QED BY <1>3, <1>5

LEMMA VendorIs ==
  ASSUME WorldTypes, Edit \/ Turn
  PROVE  /\ feed' \in [Accounts -> [Cycles -> Feeds]] /\ calm' \in Flags
         /\ \A b \in Accounts : \A d \in Cycles : calm'[b][d] => calm[b][d] /\ feed'[b][d] = feed[b][d]
<1>0. cycle \in Cycles /\ feed \in [Accounts -> [Cycles -> Feeds]] BY DEF WorldTypes
<1>1. CASE Edit
  <2>1. PICK a \in Accounts, c \in {cycle, cycle - 1} \cap Cycles :
          LET s == feed[a][c] IN
          \/ Len(s) < MaxRows /\ \E r \in Rows : Edited(a, c, <<r>> \o s)
          \/ \E i \in DOMAIN s : \E r \in Rows \ {s[i]} : Edited(a, c, [s EXCEPT ![i] = r])
          \/ \E i \in DOMAIN s : Edited(a, c, RemoveAt(s, i))
    BY <1>1 DEF Edit
  <2> DEFINE s == feed[a][c]
  <2>2. c \in Cycles /\ s \in Feeds BY <1>0, <2>1
  <2>3. /\ \A r \in Rows : Len(s) < MaxRows => <<r>> \o s \in Feeds
        /\ \A i \in DOMAIN s : RemoveAt(s, i) \in Feeds /\ \A r \in Rows : [s EXCEPT ![i] = r] \in Feeds
    BY <2>2, FeedMoves
  <2>4. \E q \in Feeds : Edited(a, c, q) BY <2>1, <2>3
  <2> QED BY <2>2, <2>4, EditedIs
<1>2. CASE Turn
  <2>1. PICK a \in Accounts, r \in Rows :
          Len(feed[a][cycle]) < MaxRows /\ Edited(a, cycle, <<r>> \o feed[a][cycle])
    BY <1>2 DEF Turn
  <2>2. <<r>> \o feed[a][cycle] \in Feeds BY <1>0, <2>1, FeedMoves
  <2> QED BY <1>0, <2>1, <2>2, EditedIs
<1> QED BY <1>1, <1>2

\* What becomes of the tally of events.
LEMMA LeftNext ==
  ASSUME left \in [Events -> Nat], [Next]_vars
  PROVE  left' \in [Events -> Nat]
<1>1. \A e \in Events : Spend(e) => left' \in [Events -> Nat] BY SpendKeeps
<1>9. \A es : SpendAll(es) => left' \in [Events -> Nat]
  <2> SUFFICES ASSUME NEW es, SpendAll(es) PROVE left' \in [Events -> Nat] OBVIOUS
  <2>1. ASSUME NEW e \in Events PROVE (IF e \in es THEN left[e] - 1 ELSE left[e]) \in Nat
    <3>1. left[e] \in Nat /\ (e \in es => left[e] > 0) BY DEF SpendAll, May
    <3>2. CASE e \in es
      <4>1. left[e] - 1 \in Nat BY <3>1, <3>2
      <4> QED BY <3>2, <4>1
    <3>3. CASE e \notin es BY <3>1, <3>3
    <3> QED BY <3>2, <3>3
  <2>2. left' = [e \in Events |-> IF e \in es THEN left[e] - 1 ELSE left[e]] BY DEF SpendAll
  <2> QED BY <2>1, <2>2
<1>2. CASE Period \/ Page \/ HistoryChecked \/ Tick
  BY <1>2 DEF Period, Page, HistoryChecked, Tick
<1>10. CASE PollDenied BY <1>1, <1>10 DEF PollDenied, Events
<1>11. CASE Expired \/ Team \/ RequestFails BY <1>9, <1>11 DEF Expired, Team, RequestFails, Absent
<1>3. CASE PollStart BY <1>9, <1>3 DEF PollStart
<1>4. CASE Queue BY <1>1, <1>4 DEF Queue, Saved, Events
<1>5. CASE Edit \/ Rollover \/ SignIn \/ Profile \/ Policy
  BY <1>1, <1>5 DEF Edit, Rollover, SignIn, Profile, Policy, Events
<1>6. CASE SetBack \/ Turn \/ BudgetSpent
  BY <1>1, <1>6 DEF SetBack, Turn, BudgetSpent, Events
<1>7. CASE QueueRefused \/ HistoryFails \/ Lose
  BY <1>1, <1>7 DEF QueueRefused, HistoryFails, Lose, Events
<1>12. CASE Restart BY <1>1, <1>9, <1>12 DEF Restart, Events
<1>8. CASE UNCHANGED vars BY <1>8 DEF vars
<1> QED BY <1>2, <1>3, <1>4, <1>5, <1>6, <1>7, <1>8, <1>10, <1>11, <1>12 DEF Next, Collector, World

LEMMA WorldInit ==
  ASSUME Init
  PROVE  WorldTypes
<1>1. PICK e \in Environments : /\ left = e.times /\ late = e.late /\ keep = e.keep
                             /\ stores = e.stores /\ feed = e.feed
  BY DEF Init
<1>2. /\ left \in [Events -> Nat] /\ late \in BOOLEAN /\ keep \in Nat \ {0} /\ stores \in [Sources -> Login]
      /\ feed \in [Accounts -> [Cycles -> Feeds]]
  BY <1>1, VendorAssumption
<1>3. calm \in Flags BY DEF Init, Flags
<1>4. cycle \in Cycles /\ open \in BOOLEAN /\ policy \in {"on", "off", "unknown"} /\ lost \in BOOLEAN
  BY Constant DEF Init
<1> QED BY <1>2, <1>3, <1>4 DEF WorldTypes

LEMMA WorldNext ==
  ASSUME Inv, [Next]_vars
  PROVE  WorldTypes'
<1>0. WorldTypes /\ PollTypes /\ InHand BY DEF Inv
<1>a. left' \in [Events -> Nat] BY <1>0, LeftNext DEF WorldTypes
<1>b. ASSUME UNCHANGED <<late, keep, cycle, stores, open, policy, lost>>,
             feed' \in [Accounts -> [Cycles -> Feeds]], calm' \in Flags
      PROVE WorldTypes'
  BY <1>0, <1>a, <1>b DEF WorldTypes
<1>c. ASSUME UNCHANGED <<late, keep, cycle, feed, stores, open, policy, lost, calm>> PROVE WorldTypes'
  BY <1>0, <1>a, <1>c DEF WorldTypes
<1>d. /\ feed \in [Accounts -> [Cycles -> Feeds]] /\ cycle \in Cycles /\ MaxCycle \in Nat
  BY <1>0, Constant DEF WorldTypes
<1>1. CASE PollDenied BY <1>c, <1>1 DEF PollDenied, env, vendor, device
<1>2. CASE PollStart BY <1>c, <1>2 DEF PollStart, env, vendor, device
<1>3. CASE Expired \/ Team \/ RequestFails
  BY <1>c, <1>3 DEF Expired, Team, RequestFails, Absent, env, vendor, device
<1>4. CASE Period \/ Page \/ HistoryChecked \/ HistoryFails
  BY <1>c, <1>4 DEF Period, Page, HistoryChecked, HistoryFails, env, vendor, device, ghosts
<1>5. CASE BudgetSpent BY <1>c, <1>5 DEF BudgetSpent, env, vendor, device
<1>6. CASE Queue
  <2>1. rd.acct \in Accounts /\ rd.c \in Cycles BY <1>0, <1>6, Reads DEF Queue
  <2>2. (Reading = Sorted(feed[rd.acct][rd.c]) /\ Recent(PoolAfter.repaired[rd.acct])) \in BOOLEAN
    OBVIOUS
  <2>3. calm' \in Flags BY <1>0, <1>6, <2>1, <2>2, CalmPut DEF Queue
  <2> QED BY <1>b, <1>d, <1>6, <2>3 DEF Queue, env, vendor, device
<1>7. CASE QueueRefused
  <2>1. rd.acct \in Accounts /\ rd.c \in Cycles BY <1>0, <1>7, Reads DEF QueueRefused
  <2>2. FALSE \in BOOLEAN OBVIOUS
  <2>3. calm' \in Flags BY <1>0, <1>7, <2>1, <2>2, CalmPut DEF QueueRefused
  <2> QED BY <1>b, <1>d, <1>7, <2>3 DEF QueueRefused, env, vendor, device
<1>8. CASE Restart
  <2>1. calm' \in Flags BY <1>8 DEF Restart, Flags
  <2> QED BY <1>b, <1>d, <1>8, <2>1 DEF Restart, env, vendor, device
<1>9. CASE Edit
  <2>1. feed' \in [Accounts -> [Cycles -> Feeds]] /\ calm' \in Flags BY <1>0, <1>9, VendorIs
  <2> QED BY <1>b, <1>9, <2>1 DEF Edit, env, device
<1>10. CASE Turn
  <2>1. feed' \in [Accounts -> [Cycles -> Feeds]] /\ calm' \in Flags BY <1>0, <1>10, VendorIs
  <2> QED BY <1>b, <1>10, <2>1 DEF Turn, env, device
<1>11. CASE Rollover
  <2>1. cycle' \in Cycles BY <1>d, <1>11 DEF Rollover, Cycles
  <2> QED BY <1>0, <1>a, <1>11, <2>1 DEF Rollover, WorldTypes, env, device, ghosts
<1>12. CASE SignIn
  <2>1. PICK s \in Sources, a \in Accounts \cup {NoAccount}, x \in BOOLEAN :
          stores' = [stores EXCEPT ![s] = [acct |-> a, expired |-> x]]
    BY <1>12 DEF SignIn
  <2>2. [acct |-> a, expired |-> x] \in Login BY DEF Login
  <2>3. stores' \in [Sources -> Login] BY <1>0, <2>1, <2>2 DEF WorldTypes
  <2> QED BY <1>0, <1>a, <1>12, <2>3 DEF SignIn, WorldTypes, env, vendor, ghosts
<1>13. CASE Profile BY <1>0, <1>a, <1>13 DEF Profile, WorldTypes, env, vendor, ghosts
<1>14. CASE Policy BY <1>0, <1>a, <1>14 DEF Policy, WorldTypes, env, vendor
<1>15. CASE Tick
  <2>1. calm' \in Flags BY <1>15 DEF Tick, Flags
  <2> QED BY <1>b, <1>d, <1>15, <2>1 DEF Tick, env, vendor, device
<1>16. CASE SetBack
  <2>1. calm' \in Flags BY <1>16 DEF SetBack, Flags
  <2> QED BY <1>b, <1>d, <1>16, <2>1 DEF SetBack, env, vendor, device
<1>17. CASE Lose BY <1>0, <1>a, <1>17 DEF Lose, WorldTypes, env, vendor, device
<1>18. CASE UNCHANGED vars BY <1>c, <1>18 DEF vars, env, vendor, device, ghosts
<1> QED BY <1>1, <1>2, <1>3, <1>4, <1>5, <1>6, <1>7, <1>8, <1>9, <1>10, <1>11, <1>12, <1>13, <1>14,
           <1>15, <1>16, <1>17, <1>18 DEF Next, Collector, World

-----------------------------------------------------------------------------
(* The files and the memory of the collector.                               *)

\* Time, and a clock that is set back, change the stamps of the pools and nothing else.
LEMMA PoolsAge ==
  ASSUME NEW pools \in [Cycles -> PoolType], NEW aged,
         aged = EachPool(pools, Older) \/ aged = EachPool(pools, Behind)
  PROVE  /\ aged \in [Cycles -> PoolType]
         /\ \A c \in Cycles : /\ aged[c].hashes = pools[c].hashes /\ aged[c].snap = pools[c].snap
                              /\ aged[c].man = pools[c].man
<1>1. ASSUME NEW p \in PoolType, NEW f \in [Accounts -> Ages]
      PROVE  LET q == [p EXCEPT !.repaired = f]
             IN  q \in PoolType /\ q.hashes = p.hashes /\ q.snap = p.snap /\ q.man = p.man
  BY DEF PoolType
<1>2. ASSUME NEW c \in Cycles
      PROVE  /\ [a \in Accounts |-> Older(pools[c].repaired[a])] \in [Accounts -> Ages]
             /\ [a \in Accounts |-> Behind(pools[c].repaired[a])] \in [Accounts -> Ages]
  <2>1. \A a \in Accounts : pools[c].repaired[a] \in Ages BY DEF PoolType
  <2> QED BY <2>1, Constant
<1>3. CASE aged = EachPool(pools, Older)
  <2>1. aged = [c \in Cycles |-> [pools[c] EXCEPT !.repaired = [a \in Accounts |-> Older(pools[c].repaired[a])]]]
    BY <1>3 DEF EachPool
  <2> QED BY <1>1, <1>2, <2>1
<1>4. CASE aged = EachPool(pools, Behind)
  <2>1. aged = [c \in Cycles |-> [pools[c] EXCEPT !.repaired = [a \in Accounts |-> Behind(pools[c].repaired[a])]]]
    BY <1>4 DEF EachPool
  <2> QED BY <1>1, <1>2, <2>1
<1> QED BY <1>3, <1>4

LEMMA StampsAge ==
  ASSUME history \in [Accounts -> [Cycles -> MarkType]],
         history' = EachStamp(Older) \/ history' = EachStamp(Behind)
  PROVE  history' \in [Accounts -> [Cycles -> MarkType]]
<1>1. ASSUME NEW m \in MarkType
      PROVE  [m EXCEPT !.age = Older(@)] \in MarkType /\ [m EXCEPT !.age = Behind(@)] \in MarkType
  <2>1. m.age \in Ages BY DEF MarkType
  <2>2. Older(m.age) \in Ages /\ Behind(m.age) \in Ages BY <2>1, Constant
  <2> QED BY <2>2 DEF MarkType
<1>2. \A a \in Accounts : \A c \in Cycles : history[a][c] \in MarkType OBVIOUS
<1>3. CASE history' = EachStamp(Older)
  <2>1. history' = [a \in Accounts |-> [c \in Cycles |-> [history[a][c] EXCEPT !.age = Older(@)]]]
    BY <1>3 DEF EachStamp
  <2> QED BY <1>1, <1>2, <2>1
<1>4. CASE history' = EachStamp(Behind)
  <2>1. history' = [a \in Accounts |-> [c \in Cycles |-> [history[a][c] EXCEPT !.age = Behind(@)]]]
    BY <1>4 DEF EachStamp
  <2> QED BY <1>1, <1>2, <2>1
<1> QED BY <1>3, <1>4

\* The pool of a reading that was queued.
LEMMA PoolAfterIs ==
  ASSUME FileTypes, PollTypes, InHand, rd.at # "idle"
  PROVE  /\ Pool \in PoolType /\ Id \in SnapType /\ PoolAfter \in PoolType
         /\ PoolAfter.hashes = Pool.hashes \cup RowsOf(Reading)
         /\ PoolAfter.snap = [Pool.snap EXCEPT ![rd.acct] = Id]
         /\ PoolAfter.man = [Pool.man EXCEPT ![rd.acct] = Reading]
         /\ \A a \in Accounts : a # rd.acct => PoolAfter.repaired[a] = Pool.repaired[a]
<1>1. rd.acct \in Accounts /\ rd.c \in Cycles /\ rd.got \in Feeds BY Reads
<1>2. Reading \in Bags BY <1>1, SortedIs DEF Reading
<1>3. Id \in SnapType BY <1>1, <1>2 DEF Id, SnapType
<1>4. Pool \in PoolType BY <1>1 DEF FileTypes, Pool
<1> DEFINE old == Pool.repaired[rd.acct]
           age == IF old = Never \/ RepairDue THEN 0 ELSE old
           hashes == Pool.hashes \cup RowsOf(Reading)
           snap == [Pool.snap EXCEPT ![rd.acct] = Id]
           man == [Pool.man EXCEPT ![rd.acct] = Reading]
           repaired == [Pool.repaired EXCEPT ![rd.acct] = age]
<1>5. /\ hashes \subseteq Rows /\ snap \in [Accounts -> SnapType]
      /\ man \in [Accounts -> Bags \cup {NoSnapshot}]
  BY <1>1, <1>2, <1>3, <1>4 DEF PoolType, RowsOf
<1>6. old \in Ages BY <1>1, <1>4 DEF PoolType
<1>7. age \in Ages BY <1>6, Constant
<1>8. /\ repaired \in [Accounts -> Ages]
      /\ \A a \in Accounts : a # rd.acct => repaired[a] = Pool.repaired[a]
  <2> HIDE DEF age
  <2> QED BY <1>1, <1>4, <1>7 DEF PoolType
<1>9. PoolAfter = [hashes |-> hashes, snap |-> snap, man |-> man, repaired |-> repaired]
  <2> DEFINE one == [Pool EXCEPT !.snap = snap]
             two == [one EXCEPT !.man = man]
             three == [two EXCEPT !.hashes = hashes]
             four == [three EXCEPT !.repaired = repaired]
  <2>1. PoolAfter = [Pool EXCEPT !.snap[rd.acct] = Id, !.man[rd.acct] = Reading, !.hashes = hashes,
                                 !.repaired[rd.acct] = age]
    BY <1>1, <1>4 DEF PoolAfter, PoolType
  <2>2. PoolAfter = four BY <1>4, <2>1 DEF PoolType
  <2>3. four = [hashes |-> hashes, snap |-> snap, man |-> man, repaired |-> repaired]
    <3> HIDE DEF hashes, snap, man, repaired
    <3>1. one = [hashes |-> Pool.hashes, snap |-> snap, man |-> Pool.man, repaired |-> Pool.repaired]
      BY <1>4 DEF PoolType
    <3> HIDE DEF one
    <3>2. two = [hashes |-> Pool.hashes, snap |-> snap, man |-> man, repaired |-> Pool.repaired] BY <3>1
    <3> HIDE DEF two
    <3>3. three = [hashes |-> hashes, snap |-> snap, man |-> man, repaired |-> Pool.repaired] BY <3>2
    <3> HIDE DEF three
    <3> QED BY <3>3
  <2> QED BY <2>2, <2>3
<1> HIDE DEF hashes, snap, man, repaired
<1>10. PoolAfter \in PoolType BY <1>5, <1>8, <1>9 DEF PoolType
<1>11. /\ PoolAfter.hashes = hashes /\ PoolAfter.snap = snap /\ PoolAfter.man = man
       /\ PoolAfter.repaired = repaired
  BY <1>9
<1> QED BY <1>3, <1>4, <1>8, <1>10, <1>11 DEF hashes, snap, man

LEMMA FileInit ==
  ASSUME Init
  PROVE  FileTypes
<1>1. NoHistory \in MarkType BY Constant DEF NoHistory, MarkType, SnapType
<1>2. history \in [Accounts -> [Cycles -> MarkType]] BY <1>1 DEF Init
<1>3. disk \in [Cycles -> PoolType] /\ mem \in [Cycles -> PoolType] BY Constant DEF Init
<1>4. <<>> \in Seq(Accounts) OBVIOUS
<1> QED BY <1>2, <1>3, <1>4 DEF Init, FileTypes

LEMMA FileNext ==
  ASSUME Inv, [Next]_vars
  PROVE  FileTypes'
<1>0. WorldTypes /\ FileTypes /\ PollTypes /\ InHand BY DEF Inv
<1>a. ASSUME UNCHANGED <<history, disk, mem, claims, stripped>>, logins' \in Seq(Accounts), profile' \in BOOLEAN,
             dropped' \subseteq Accounts, read' \subseteq Accounts
      PROVE FileTypes'
  BY <1>0, <1>a DEF FileTypes
<1>b. ASSUME UNCHANGED <<files, mem, read, dropped, stripped>> PROVE FileTypes'
  BY <1>0, <1>b DEF FileTypes, files
<1>c. ASSUME rd.at = "queue"
      PROVE  /\ ConvsOf(Reading) \subseteq Convs
             /\ mem' = [mem EXCEPT ![rd.c] = PoolAfter] => mem' \in [Cycles -> PoolType]
             /\ Checkpoint \in [Accounts -> [Cycles -> MarkType]]
  <2>1. /\ rd.acct \in Accounts /\ rd.c \in Cycles /\ PoolAfter \in PoolType /\ Id \in SnapType
    BY <1>0, <1>c, Reads, PoolAfterIs
  <2>2. ConvsOf(Reading) \subseteq Convs BY DEF ConvsOf, RowsOf, Convs
  <2>3. mem' = [mem EXCEPT ![rd.c] = PoolAfter] => mem' \in [Cycles -> PoolType]
    BY <1>0, <2>1 DEF FileTypes
  <2> DEFINE m == [snap |-> Id, age |-> 0]
  <2>4. m \in MarkType BY <2>1, Constant DEF MarkType
  <2>5. Checkpoint = IF rd.c < rd.cur THEN [history EXCEPT ![rd.acct][rd.c] = m] ELSE history
    BY DEF Checkpoint
  <2>6. history \in [Accounts -> [Cycles -> MarkType]] BY <1>0 DEF FileTypes
  <2> HIDE DEF m
  <2>7. [history EXCEPT ![rd.acct][rd.c] = m] \in [Accounts -> [Cycles -> MarkType]]
    BY <2>1, <2>4, <2>6, Put
  <2>8. Checkpoint \in [Accounts -> [Cycles -> MarkType]]
    <3>1. CASE rd.c < rd.cur BY <2>5, <2>7, <3>1
    <3>2. CASE ~(rd.c < rd.cur) BY <2>5, <2>6, <3>2
    <3> QED BY <3>1, <3>2
  <2> QED BY <2>2, <2>3, <2>8
<1>1. CASE PollDenied
  <2>0. <<>> \in Seq(Accounts) OBVIOUS
  <2>1. /\ UNCHANGED <<history, disk, mem, claims, stripped, profile, read, dropped>>
        /\ logins' \in Seq(Accounts)
    BY <1>0, <1>1, <2>0 DEF PollDenied, FileTypes
  <2> QED BY <1>0, <1>a, <2>1 DEF FileTypes
<1>2. CASE PollStart
  <2>1. PICK bad \in SUBSET DOMAIN stores, how \in [Sources -> Outcomes], remembers \in BOOLEAN :
          /\ profile' = (profile \/ (open /\ remembers))
          /\ logins' = MapAfter(bad, how).q /\ dropped' = MapAfter(bad, how).gone
          /\ read' = read \cup Learned(bad)
    BY <1>2 DEF PollStart
  <2>2. Learned(bad) \subseteq Accounts BY <1>0, CollectIs
  <2>3. profile' \in BOOLEAN BY <2>1
  <2>4. UNCHANGED <<history, disk, mem, claims, stripped>> BY <1>2 DEF PollStart
  <2>5. logins' \in Seq(Accounts) /\ dropped' \subseteq Accounts
    <3>1. MapIsFit(MapAfter(bad, how)) BY <1>0, MapAfterIs DEF Inv
    <3> QED BY <2>1, <3>1 DEF MapIsFit
  <2>6. read' \subseteq Accounts BY <1>0, <2>1, <2>2 DEF FileTypes
  <2> QED BY <1>a, <2>3, <2>4, <2>5, <2>6
<1>3. CASE Expired \/ Team \/ RequestFails
  BY <1>b, <1>3 DEF Expired, Team, RequestFails, Absent
<1>4. CASE Period \/ Page \/ HistoryChecked \/ HistoryFails
  BY <1>b, <1>4 DEF Period, Page, HistoryChecked, HistoryFails, ghosts
<1>5. CASE BudgetSpent BY <1>b, <1>5 DEF BudgetSpent
<1>6. CASE Queue
  <2>1. rd.at = "queue" /\ mem' = [mem EXCEPT ![rd.c] = PoolAfter] /\ history' = Checkpoint BY <1>6 DEF Queue
  <2>2. /\ ConvsOf(Reading) \subseteq Convs /\ mem' \in [Cycles -> PoolType]
        /\ history' \in [Accounts -> [Cycles -> MarkType]]
    BY <1>c, <2>1
  <2>3. disk' \in [Cycles -> PoolType] BY <1>0, <1>6, <2>2 DEF Queue, Saved, FileTypes
  <2>4. claims' \subseteq Convs BY <1>0, <1>6, <2>2 DEF Queue, ClaimsAfter, FileTypes
  <2>5. UNCHANGED <<logins, profile, read, dropped, stripped>> BY <1>6 DEF Queue
  <2> QED BY <1>0, <2>2, <2>3, <2>4, <2>5 DEF FileTypes
<1>7. CASE QueueRefused
  <2>1. claims' = claims BY <1>7 DEF QueueRefused, ClaimsAfter
  <2>2. UNCHANGED <<logins, profile, history, disk, mem, read, dropped, stripped>> BY <1>7 DEF QueueRefused
  <2> QED BY <1>b, <2>1, <2>2 DEF files
<1>8. CASE Restart
  <2>1. mem' = disk \/ mem' = [c \in Cycles |-> NoPool] BY <1>8 DEF Restart
  <2>2. mem' \in [Cycles -> PoolType] BY <1>0, <2>1, Constant DEF FileTypes
  <2>3. UNCHANGED <<files, read, dropped, stripped>> BY <1>8 DEF Restart
  <2> QED BY <1>0, <2>2, <2>3 DEF FileTypes, files
<1>9. CASE Edit \/ Rollover \/ SignIn \/ Profile
  BY <1>b, <1>9 DEF Edit, Rollover, SignIn, Profile, ghosts
<1>10. CASE Policy BY <1>0, <1>10 DEF Policy, FileTypes, files
<1>11. CASE Turn
  <2>1. PICK r \in Rows : stripped' = stripped \cup Stripped(Conv(r)) BY <1>11 DEF Turn
  <2>2. stripped' \subseteq Convs BY <1>0, <2>1 DEF Stripped, FileTypes, Convs
  <2>3. profile' \in BOOLEAN BY <1>0, <1>11 DEF Turn, FileTypes, WorldTypes
  <2>4. UNCHANGED <<logins, claims, history, disk, mem, read, dropped>> BY <1>11 DEF Turn
  <2> QED BY <1>0, <2>2, <2>3, <2>4 DEF FileTypes
<1>12. CASE Tick \/ SetBack
  <2>1. /\ disk' = EachPool(disk, Older) \/ disk' = EachPool(disk, Behind)
        /\ mem' = EachPool(mem, Older) \/ mem' = EachPool(mem, Behind)
        /\ history' = EachStamp(Older) \/ history' = EachStamp(Behind)
        /\ UNCHANGED <<logins, profile, claims, read, dropped, stripped>>
    BY <1>12 DEF Tick, SetBack
  <2>2. /\ disk \in [Cycles -> PoolType] /\ mem \in [Cycles -> PoolType]
        /\ history \in [Accounts -> [Cycles -> MarkType]]
    BY <1>0 DEF FileTypes
  <2>3. disk' \in [Cycles -> PoolType] BY <2>1, <2>2, PoolsAge
  <2>4. mem' \in [Cycles -> PoolType] BY <2>1, <2>2, PoolsAge
  <2>5. history' \in [Accounts -> [Cycles -> MarkType]] BY <2>1, <2>2, StampsAge
  <2> QED BY <1>0, <2>1, <2>3, <2>4, <2>5 DEF FileTypes
<1>13. CASE Lose BY <1>b, <1>13 DEF Lose
<1>14. CASE UNCHANGED vars BY <1>b, <1>14 DEF vars, ghosts
<1> QED BY <1>1, <1>2, <1>3, <1>4, <1>5, <1>6, <1>7, <1>8, <1>9, <1>10, <1>11, <1>12, <1>13, <1>14
           DEF Next, Collector, World

-----------------------------------------------------------------------------
(* What is known, and what the backend has.                                 *)

LEMMA KnownNext ==
  ASSUME Inv, [Next]_vars
  PROVE  Known'
<1>0. Known /\ WorldTypes /\ FileTypes BY DEF Inv
<1>a. ASSUME UNCHANGED <<logins, policy, read, dropped, keep>> PROVE Known' BY <1>0, <1>a DEF Known
<1>1. CASE PollDenied
  <2>1. UNCHANGED <<policy, read, dropped, keep>> BY <1>1 DEF PollDenied, device, env
  <2>2. logins' = logins \/ (policy = "off" /\ logins' = <<>>) BY <1>1 DEF PollDenied, Revoked
  <2>3. CASE logins' = logins BY <1>a, <2>1, <2>3
  <2>4. CASE policy = "off" /\ logins' = <<>>
    <3>1. read' = {} BY <1>0, <2>1, <2>4 DEF Known
    <3>2. Len(<<>>) = 0 /\ 0 <= keep BY <1>0 DEF WorldTypes
    <3>3. Len(logins') <= keep' BY <2>1, <2>4, <3>2
    <3> QED BY <3>1, <3>3 DEF Known
  <2> QED BY <2>2, <2>3, <2>4
<1>2. CASE PollStart
  <2>1. PICK bad \in SUBSET DOMAIN stores, how \in [Sources -> Outcomes] :
          /\ logins' = MapAfter(bad, how).q /\ dropped' = MapAfter(bad, how).gone
          /\ read' = read \cup Learned(bad)
    BY <1>2 DEF PollStart
  <2>2. policy' = "on" /\ keep' = keep BY <1>2 DEF PollStart, device, env
  <2>3. /\ MapIsFit(MapAfter(bad, how))
        /\ ToSet(logins) \cup dropped \cup Learned(bad) \subseteq ToSet(logins') \cup dropped'
    BY <1>0, <2>1, MapAfterIs
  <2> QED BY <1>0, <2>1, <2>2, <2>3 DEF Known, MapIsFit
<1>3. CASE Expired \/ Team \/ RequestFails
  BY <1>a, <1>3 DEF Expired, Team, RequestFails, Absent, files, device, env
<1>4. CASE Period \/ Page \/ HistoryChecked \/ HistoryFails
  BY <1>a, <1>4 DEF Period, Page, HistoryChecked, HistoryFails, files, device, ghosts, env
<1>5. CASE BudgetSpent BY <1>a, <1>5 DEF BudgetSpent, files, device, env
<1>6. CASE Queue BY <1>a, <1>6 DEF Queue, device, env
<1>7. CASE QueueRefused BY <1>a, <1>7 DEF QueueRefused, device, env
<1>8. CASE Restart BY <1>a, <1>8 DEF Restart, files, device, env
<1>9. CASE Edit \/ Turn BY <1>a, <1>9 DEF Edit, Turn, files, device, env
<1>10. CASE Rollover \/ SignIn \/ Profile
  BY <1>a, <1>10 DEF Rollover, SignIn, Profile, files, device, ghosts, env
<1>11. CASE Policy BY <1>0, <1>11 DEF Policy, Known, files, env
<1>12. CASE Tick \/ SetBack BY <1>a, <1>12 DEF Tick, SetBack, device, env
<1>13. CASE Lose BY <1>a, <1>13 DEF Lose, files, device, env
<1>14. CASE UNCHANGED vars BY <1>a, <1>14 DEF vars, files, device, ghosts, env
<1> QED BY <1>1, <1>2, <1>3, <1>4, <1>5, <1>6, <1>7, <1>8, <1>9, <1>10, <1>11, <1>12, <1>13, <1>14
           DEF Next, Collector, World

\* The backend forgets nothing, but for a row that is lost.
LEMMA BackNext ==
  ASSUME Inv, [Next]_vars
  PROVE  /\ BackTypes' /\ manifests \subseteq manifests' /\ priced \subseteq priced' /\ (lost => lost')
         /\ lost' \/ \A c \in Cycles : rows[c] \subseteq rows'[c]
<1>0. PollTypes /\ InHand /\ BackTypes BY DEF Inv
<1>a. ASSUME UNCHANGED <<backend, lost>>
      PROVE  /\ BackTypes' /\ manifests \subseteq manifests' /\ priced \subseteq priced' /\ (lost => lost')
             /\ \A c \in Cycles : rows[c] \subseteq rows'[c]
  BY <1>0, <1>a DEF BackTypes, backend
<1>b. ASSUME rd.at = "queue", NEW sent \in SUBSET ToSend, NEW completion \in BOOLEAN, Taken(sent, completion)
      PROVE  /\ BackTypes' /\ manifests \subseteq manifests' /\ priced \subseteq priced'
             /\ \A c \in Cycles : rows[c] \subseteq rows'[c]
  <2>1. sent \in SUBSET Rows BY DEF ToSend, RowsOf
  <2> QED BY <1>0, <1>b, <2>1, TakenIs
<1>1. CASE PollDenied \/ PollStart BY <1>a, <1>1 DEF PollDenied, PollStart
<1>2. CASE Expired \/ Team \/ RequestFails BY <1>a, <1>2 DEF Expired, Team, RequestFails, Absent
<1>3. CASE Period \/ Page \/ HistoryChecked \/ HistoryFails
  BY <1>a, <1>3 DEF Period, Page, HistoryChecked, HistoryFails, ghosts
<1>4. CASE BudgetSpent BY <1>a, <1>4 DEF BudgetSpent
<1>5. CASE Queue
  <2>1. rd.at = "queue" /\ Taken(ToSend, TRUE) /\ lost' = lost BY <1>5 DEF Queue
  <2>2. ToSend \in SUBSET ToSend /\ TRUE \in BOOLEAN OBVIOUS
  <2> QED BY <1>b, <2>1, <2>2
<1>6. CASE QueueRefused
  <2>1. PICK sent \in SUBSET ToSend, completion \in BOOLEAN : Taken(sent, completion) BY <1>6 DEF QueueRefused
  <2>2. rd.at = "queue" /\ lost' = lost BY <1>6 DEF QueueRefused
  <2> QED BY <1>b, <2>1, <2>2
<1>7. CASE Restart
  <2>1. lost' = lost BY <1>7 DEF Restart
  <2>2. CASE UNCHANGED backend BY <1>a, <2>1, <2>2
  <2>3. CASE rd.at = "queue" /\ \E sent \in SUBSET ToSend, completion \in BOOLEAN : Taken(sent, completion)
    BY <1>b, <2>1, <2>3
  <2> QED BY <1>7, <2>2, <2>3 DEF Restart
<1>8. CASE Edit \/ Turn BY <1>a, <1>8 DEF Edit, Turn
<1>9. CASE Rollover \/ SignIn \/ Profile BY <1>a, <1>9 DEF Rollover, SignIn, Profile, ghosts
<1>10. CASE Policy \/ Tick \/ SetBack BY <1>a, <1>10 DEF Policy, Tick, SetBack
<1>11. CASE Lose
  <2>1. PICK c \in Cycles, r \in Rows : rows' = [rows EXCEPT ![c] = @ \ {r}]
    BY <1>0, <1>11 DEF Lose, BackTypes
  <2>2. lost' = TRUE /\ UNCHANGED <<manifests, published, priced>> BY <1>11 DEF Lose
  <2>3. rows' \in [Cycles -> SUBSET Rows] BY <1>0, <2>1 DEF BackTypes
  <2> QED BY <1>0, <2>2, <2>3 DEF BackTypes
<1>12. CASE UNCHANGED vars BY <1>a, <1>12 DEF vars, ghosts
<1> QED BY <1>1, <1>2, <1>3, <1>4, <1>5, <1>6, <1>7, <1>8, <1>9, <1>10, <1>11, <1>12
           DEF Next, Collector, World

\* What is true of a pool stays true of it.
LEMMA BackedStays ==
  ASSUME Inv, [Next]_vars, NEW c \in Cycles, NEW q \in {mem[c], disk[c]}, NEW p,
         p.hashes = q.hashes, p.snap = q.snap, p.man = q.man
  PROVE  /\ lost' \/ p.hashes \subseteq rows'[c]
         /\ \A a \in Accounts : p.man[a] # NoSnapshot => [id |-> p.snap[a], of |-> p.man[a]] \in manifests'
<1>1. Backed BY DEF Inv
<1>2. /\ manifests \subseteq manifests' /\ (lost => lost')
      /\ lost' \/ \A d \in Cycles : rows[d] \subseteq rows'[d]
  BY BackNext
<1>3. /\ lost \/ q.hashes \subseteq rows[c]
      /\ \A a \in Accounts : q.man[a] # NoSnapshot => [id |-> q.snap[a], of |-> q.man[a]] \in manifests
  BY <1>1 DEF Backed
<1> QED BY <1>2, <1>3

LEMMA BackedNext ==
  ASSUME Inv, [Next]_vars
  PROVE  Backed'
<1>0. FileTypes /\ PollTypes /\ InHand /\ Backed BY DEF Inv
<1>a. priced \subseteq priced' /\ (lost => lost') BY BackNext
<1>b. ASSUME UNCHANGED <<claims, stripped>> PROVE stripped' \subseteq claims' /\ (lost' \/ claims' \subseteq priced')
  BY <1>0, <1>a, <1>b DEF Backed
<1>c. ASSUME \A c \in Cycles : \A p \in {mem'[c], disk'[c]} : \E q \in {mem[c], disk[c]} :
               p.hashes = q.hashes /\ p.snap = q.snap /\ p.man = q.man,
             stripped' \subseteq claims', lost' \/ claims' \subseteq priced'
      PROVE  Backed'
  <2>1. ASSUME NEW c \in Cycles, NEW p \in {mem'[c], disk'[c]}
        PROVE  /\ lost' \/ p.hashes \subseteq rows'[c]
               /\ \A a \in Accounts : p.man[a] # NoSnapshot => [id |-> p.snap[a], of |-> p.man[a]] \in manifests'
    <3>1. PICK q \in {mem[c], disk[c]} : p.hashes = q.hashes /\ p.snap = q.snap /\ p.man = q.man BY <1>c
    <3> QED BY <3>1, BackedStays
  <2> QED BY <1>c, <2>1 DEF Backed
<1>d. ASSUME UNCHANGED <<mem, disk, claims, stripped>> PROVE Backed' BY <1>b, <1>c, <1>d
<1>1. CASE PollDenied \/ PollStart BY <1>d, <1>1 DEF PollDenied, PollStart
<1>2. CASE Expired \/ Team \/ RequestFails BY <1>d, <1>2 DEF Expired, Team, RequestFails, Absent, files
<1>3. CASE Period \/ Page \/ HistoryChecked \/ HistoryFails
  BY <1>d, <1>3 DEF Period, Page, HistoryChecked, HistoryFails, files, ghosts
<1>4. CASE BudgetSpent BY <1>d, <1>4 DEF BudgetSpent, files
<1>5. CASE Queue
  <2>1. /\ rd.at = "queue" /\ Taken(ToSend, TRUE) /\ UNCHANGED <<stripped, lost>>
        /\ mem' = [mem EXCEPT ![rd.c] = PoolAfter] /\ (disk' = mem' \/ disk' = disk)
        /\ claims' = ClaimsAfter(TRUE)
    BY <1>5 DEF Queue, Saved
  <2>2. rd.acct \in Accounts /\ rd.c \in Cycles BY <1>0, <2>1, Reads
  <2>3. /\ Manifest \in manifests' /\ (lost \/ RowsOf(Reading) \subseteq rows'[rd.c])
        /\ lost \/ ConvsOf(Reading) \subseteq priced'
    BY <2>1, TookAll
  <2>4. stripped' \subseteq claims' /\ (lost' \/ claims' \subseteq priced')
    BY <1>0, <1>a, <2>1, <2>3 DEF ClaimsAfter, Backed
  <2>5. /\ Pool \in PoolType
        /\ PoolAfter.hashes = Pool.hashes \cup RowsOf(Reading)
        /\ PoolAfter.snap = [Pool.snap EXCEPT ![rd.acct] = Id]
        /\ PoolAfter.man = [Pool.man EXCEPT ![rd.acct] = Reading]
    BY <1>0, <2>1, PoolAfterIs
  <2>6. /\ lost' \/ Pool.hashes \subseteq rows'[rd.c]
        /\ \A a \in Accounts : Pool.man[a] # NoSnapshot => [id |-> Pool.snap[a], of |-> Pool.man[a]] \in manifests'
    <3>1. Pool \in {mem[rd.c], disk[rd.c]} BY DEF Pool
    <3> QED BY <2>2, <3>1, BackedStays
  <2>7. lost' \/ PoolAfter.hashes \subseteq rows'[rd.c] BY <2>1, <2>3, <2>5, <2>6
  <2>8. ASSUME NEW a \in Accounts, PoolAfter.man[a] # NoSnapshot
        PROVE  [id |-> PoolAfter.snap[a], of |-> PoolAfter.man[a]] \in manifests'
    <3>1. Pool.snap \in [Accounts -> SnapType] /\ Pool.man \in [Accounts -> Bags \cup {NoSnapshot}]
      BY <2>5 DEF PoolType
    <3>2. CASE a = rd.acct
      <4>1. PoolAfter.snap[a] = Id /\ PoolAfter.man[a] = Reading BY <2>5, <3>1, <3>2
      <4> QED BY <2>3, <4>1 DEF Manifest
    <3>3. CASE a # rd.acct
      <4>1. PoolAfter.snap[a] = Pool.snap[a] /\ PoolAfter.man[a] = Pool.man[a] BY <2>5, <3>1, <3>3
      <4> QED BY <2>6, <2>8, <4>1
    <3> QED BY <3>2, <3>3
  <2>9. ASSUME NEW c \in Cycles, NEW p \in {mem'[c], disk'[c]}
        PROVE  /\ lost' \/ p.hashes \subseteq rows'[c]
               /\ \A a \in Accounts : p.man[a] # NoSnapshot => [id |-> p.snap[a], of |-> p.man[a]] \in manifests'
    <3>1. p = mem[c] \/ p = disk[c] \/ (c = rd.c /\ p = PoolAfter) BY <1>0, <2>1, <2>2, <2>9 DEF FileTypes
    <3>2. CASE p \in {mem[c], disk[c]} BY <3>2, BackedStays
    <3>3. CASE c = rd.c /\ p = PoolAfter BY <2>7, <2>8, <3>3
    <3> QED BY <3>1, <3>2, <3>3
  <2> QED BY <2>4, <2>9 DEF Backed
<1>6. CASE QueueRefused
  <2>1. claims' = claims BY <1>6 DEF QueueRefused, ClaimsAfter
  <2> QED BY <1>d, <1>6, <2>1 DEF QueueRefused
<1>7. CASE Restart
  <2>1. /\ mem' = disk \/ mem' = [c \in Cycles |-> NoPool]
        /\ disk' = disk /\ UNCHANGED <<claims, stripped>>
    BY <1>7 DEF Restart, files
  <2>2. CASE mem' = disk BY <1>b, <1>c, <2>1, <2>2
  <2>3. CASE mem' = [c \in Cycles |-> NoPool]
    <3>1. ASSUME NEW c \in Cycles, NEW p \in {mem'[c], disk'[c]}
          PROVE  /\ lost' \/ p.hashes \subseteq rows'[c]
                 /\ \A a \in Accounts : p.man[a] # NoSnapshot => [id |-> p.snap[a], of |-> p.man[a]] \in manifests'
      <4>1. CASE p = disk[c] BY <4>1, BackedStays
      <4>2. CASE p = NoPool BY <4>2, Constant
      <4> QED BY <2>1, <2>3, <4>1, <4>2
    <3> QED BY <1>b, <2>1, <3>1 DEF Backed
  <2> QED BY <2>1, <2>2, <2>3
<1>8. CASE Edit BY <1>d, <1>8 DEF Edit, files
<1>9. CASE Turn
  <2>1. PICK r \in Rows : stripped' = stripped \cup Stripped(Conv(r)) BY <1>9 DEF Turn
  <2>2. UNCHANGED <<claims, mem, disk>> BY <1>9 DEF Turn
  <2>3. stripped' \subseteq claims' /\ (lost' \/ claims' \subseteq priced')
    BY <1>0, <1>a, <2>1, <2>2 DEF Stripped, Backed
  <2> QED BY <1>c, <2>2, <2>3
<1>10. CASE Rollover \/ SignIn \/ Profile BY <1>d, <1>10 DEF Rollover, SignIn, Profile, files, ghosts
<1>11. CASE Policy BY <1>d, <1>11 DEF Policy, files
<1>12. CASE Tick \/ SetBack
  <2>1. /\ disk' = EachPool(disk, Older) \/ disk' = EachPool(disk, Behind)
        /\ mem' = EachPool(mem, Older) \/ mem' = EachPool(mem, Behind)
        /\ UNCHANGED <<claims, stripped>>
    BY <1>12 DEF Tick, SetBack
  <2>2. disk \in [Cycles -> PoolType] /\ mem \in [Cycles -> PoolType] BY <1>0 DEF FileTypes
  <2>3. \A c \in Cycles : disk'[c].hashes = disk[c].hashes /\ disk'[c].snap = disk[c].snap /\ disk'[c].man = disk[c].man
    BY <2>1, <2>2, PoolsAge
  <2>4. \A c \in Cycles : mem'[c].hashes = mem[c].hashes /\ mem'[c].snap = mem[c].snap /\ mem'[c].man = mem[c].man
    BY <2>1, <2>2, PoolsAge
  <2> QED BY <1>b, <1>c, <2>1, <2>3, <2>4
<1>13. CASE Lose BY <1>d, <1>13 DEF Lose, files
<1>14. CASE UNCHANGED vars BY <1>d, <1>14 DEF vars, files, ghosts
<1> QED BY <1>1, <1>2, <1>3, <1>4, <1>5, <1>6, <1>7, <1>8, <1>9, <1>10, <1>11, <1>12, <1>13, <1>14
           DEF Next, Collector, World

-----------------------------------------------------------------------------
(* The readings that nothing has happened to.                               *)

LEMMA CalmKeptNext ==
  ASSUME Inv, [Next]_vars
  PROVE  CalmKept'
<1>0. WorldTypes /\ FileTypes /\ PollTypes /\ InHand BY DEF Inv
<1>k. \A a \in Accounts : \A c \in Cycles : calm[a][c] => KeptIn(a, c, mem[c], Sorted(feed[a][c]))
  BY DEF Inv, CalmKept
<1>p. ASSUME \A a \in Accounts : \A c \in Cycles : calm'[a][c] => KeptIn(a, c, mem'[c], Sorted(feed'[a][c]))
      PROVE  CalmKept'
  BY <1>p DEF CalmKept
<1>a. ASSUME \A a \in Accounts : \A c \in Cycles :
               calm'[a][c] => calm[a][c] /\ feed'[a][c] = feed[a][c] /\ mem'[c] = mem[c]
      PROVE  CalmKept'
  BY <1>k, <1>p, <1>a
<1>b. ASSUME UNCHANGED <<feed, mem, calm>> PROVE CalmKept' BY <1>a, <1>b
<1>1. CASE PollDenied \/ PollStart BY <1>b, <1>1 DEF PollDenied, PollStart, vendor
<1>2. CASE Expired \/ Team \/ RequestFails BY <1>b, <1>2 DEF Expired, Team, RequestFails, Absent, vendor
<1>3. CASE Period \/ Page \/ HistoryChecked \/ HistoryFails
  BY <1>b, <1>3 DEF Period, Page, HistoryChecked, HistoryFails, vendor, ghosts
<1>4. CASE BudgetSpent BY <1>b, <1>4 DEF BudgetSpent, vendor
<1>5. CASE Queue
  <2>1. /\ rd.at = "queue" /\ mem' = [mem EXCEPT ![rd.c] = PoolAfter] /\ feed' = feed
        /\ calm' = [calm EXCEPT ![rd.acct][rd.c] =
                      Reading = Sorted(feed[rd.acct][rd.c]) /\ Recent(PoolAfter.repaired[rd.acct])]
    BY <1>5 DEF Queue, vendor
  <2>2. rd.acct \in Accounts /\ rd.c \in Cycles BY <1>0, <2>1, Reads
  <2> DEFINE new == Reading = Sorted(feed[rd.acct][rd.c]) /\ Recent(PoolAfter.repaired[rd.acct])
  <2>3. new \in BOOLEAN OBVIOUS
  <2>4. calm' = [calm EXCEPT ![rd.acct][rd.c] = new] BY <2>1
  <2> HIDE DEF new
  <2>5. /\ calm'[rd.acct][rd.c] = new
        /\ \A a \in Accounts : \A c \in Cycles : a # rd.acct \/ c # rd.c => calm'[a][c] = calm[a][c]
    BY <1>0, <2>2, <2>3, <2>4, CalmPut
  <2>6. /\ Pool \in PoolType
        /\ PoolAfter.hashes = Pool.hashes \cup RowsOf(Reading)
        /\ PoolAfter.snap = [Pool.snap EXCEPT ![rd.acct] = Id]
        /\ PoolAfter.man = [Pool.man EXCEPT ![rd.acct] = Reading]
        /\ \A a \in Accounts : a # rd.acct => PoolAfter.repaired[a] = Pool.repaired[a]
    BY <1>0, <2>1, PoolAfterIs
  <2>7. Pool.snap \in [Accounts -> SnapType] /\ Pool.man \in [Accounts -> Bags \cup {NoSnapshot}]
    BY <2>6 DEF PoolType
  <2>8. mem'[rd.c] = PoolAfter /\ \A c \in Cycles : c # rd.c => mem'[c] = mem[c]
    BY <1>0, <2>1, <2>2 DEF FileTypes
  <2>9. ASSUME NEW a \in Accounts, NEW c \in Cycles, calm'[a][c]
        PROVE  KeptIn(a, c, mem'[c], Sorted(feed'[a][c]))
    <3>1. CASE a = rd.acct /\ c = rd.c
      <4>1. new BY <2>5, <2>9, <3>1
      <4>2. Reading = Sorted(feed[a][c]) /\ Recent(PoolAfter.repaired[a]) BY <3>1, <4>1 DEF new
      <4>3. PoolAfter.man[a] = Reading /\ PoolAfter.snap[a] = Id BY <2>6, <2>7, <3>1
      <4>4. Id = SnapshotId(a, c, Reading) BY <3>1 DEF Id
      <4>5. RowsOf(Reading) \subseteq PoolAfter.hashes BY <2>6
      <4> QED BY <2>1, <2>8, <3>1, <4>2, <4>3, <4>4, <4>5 DEF KeptIn
    <3>2. CASE a # rd.acct /\ c = rd.c
      <4>1. KeptIn(a, c, Pool, Sorted(feed[a][c])) BY <1>k, <2>5, <2>9, <3>2 DEF Pool
      <4>2. /\ PoolAfter.man[a] = Pool.man[a] /\ PoolAfter.snap[a] = Pool.snap[a]
            /\ PoolAfter.repaired[a] = Pool.repaired[a]
        BY <2>6, <2>7, <3>2
      <4>3. KeptIn(a, c, PoolAfter, Sorted(feed[a][c])) BY <2>6, <4>1, <4>2 DEF KeptIn
      <4> QED BY <2>1, <2>8, <3>2, <4>3
    <3>3. CASE c # rd.c BY <1>k, <2>1, <2>5, <2>8, <2>9, <3>3
    <3> QED BY <3>1, <3>2, <3>3
  <2> QED BY <1>p, <2>9
<1>6. CASE QueueRefused
  <2>1. /\ rd.at = "queue" /\ UNCHANGED <<feed, mem>> /\ calm' = [calm EXCEPT ![rd.acct][rd.c] = FALSE]
    BY <1>6 DEF QueueRefused, vendor
  <2>2. rd.acct \in Accounts /\ rd.c \in Cycles /\ FALSE \in BOOLEAN BY <1>0, <2>1, Reads
  <2>3. /\ calm'[rd.acct][rd.c] = FALSE
        /\ \A a \in Accounts : \A c \in Cycles : a # rd.acct \/ c # rd.c => calm'[a][c] = calm[a][c]
    BY <1>0, <2>1, <2>2, CalmPut
  <2> QED BY <1>a, <2>1, <2>3
<1>7. CASE Restart
  <2>1. feed' = feed BY <1>7 DEF Restart, vendor
  <2>2. \A a \in Accounts : \A c \in Cycles : calm'[a][c] => calm[a][c] /\ mem' = mem BY <1>7 DEF Restart
  <2> QED BY <1>a, <2>1, <2>2
<1>8. CASE Edit \/ Turn
  <2>1. \A a \in Accounts : \A c \in Cycles : calm'[a][c] => calm[a][c] /\ feed'[a][c] = feed[a][c]
    BY <1>0, <1>8, VendorIs
  <2>2. mem' = mem BY <1>8 DEF Edit, Turn
  <2> QED BY <1>a, <2>1, <2>2
<1>9. CASE Rollover \/ SignIn \/ Profile BY <1>b, <1>9 DEF Rollover, SignIn, Profile, vendor, ghosts
<1>10. CASE Policy BY <1>b, <1>10 DEF Policy, vendor
<1>11. CASE Tick
  <2>1. /\ mem' = EachPool(mem, Older) /\ feed' = feed
        /\ \A a \in Accounts : \A c \in Cycles : calm'[a][c] => calm[a][c] /\ Recent(mem'[c].repaired[a])
    BY <1>11 DEF Tick, vendor
  <2>2. \A c \in Cycles : mem'[c].hashes = mem[c].hashes /\ mem'[c].snap = mem[c].snap /\ mem'[c].man = mem[c].man
    BY <1>0, <2>1, PoolsAge DEF FileTypes
  <2>3. ASSUME NEW a \in Accounts, NEW c \in Cycles, calm'[a][c]
        PROVE  KeptIn(a, c, mem'[c], Sorted(feed'[a][c]))
    <3>1. KeptIn(a, c, mem[c], Sorted(feed[a][c])) BY <1>k, <2>1, <2>3
    <3> QED BY <2>1, <2>2, <2>3, <3>1 DEF KeptIn
  <2> QED BY <1>p, <2>3
<1>12. CASE SetBack
  <2>1. \A a \in Accounts : \A c \in Cycles : ~calm'[a][c] BY <1>12 DEF SetBack
  <2> QED BY <1>p, <2>1
<1>13. CASE Lose BY <1>b, <1>13 DEF Lose, vendor
<1>14. CASE UNCHANGED vars BY <1>b, <1>14 DEF vars, vendor, ghosts
<1> QED BY <1>1, <1>2, <1>3, <1>4, <1>5, <1>6, <1>7, <1>8, <1>9, <1>10, <1>11, <1>12, <1>13, <1>14
           DEF Next, Collector, World

LEMMA CalmReadNext ==
  ASSUME Inv, [Next]_vars
  PROVE  CalmRead'
<1>0. WorldTypes /\ PollTypes /\ InHand /\ CalmRead BY DEF Inv
<1>a. ASSUME rd' = rd, rd.at # "idle" =>
               (calm'[rd.acct][rd.c] => calm[rd.acct][rd.c] /\ feed'[rd.acct][rd.c] = feed[rd.acct][rd.c])
      PROVE  CalmRead'
  BY <1>0, <1>a DEF CalmRead
<1>b. ASSUME UNCHANGED <<feed, rd, calm>> PROVE CalmRead' BY <1>a, <1>b
<1>c. ASSUME rd' = NoReading PROVE CalmRead' BY <1>c, Constant DEF CalmRead
<1>d. ASSUME rd'.at = "page", rd'.got = <<>>, rd'.page = 1, feed' \in [Accounts -> [Cycles -> Feeds]],
             rd'.acct \in Accounts, rd'.c \in Cycles
      PROVE  CalmRead'
  <2> DEFINE s == feed'[rd'.acct][rd'.c]
  <2>1. s \in Feeds BY <1>d
  <2>2. Len(s) \in Nat BY <2>1, FeedIs
  <2>3. Len(<<>>) = 0 /\ 1..0 = {} OBVIOUS
  <2> QED BY <1>d, <2>2, <2>3 DEF CalmRead
<1>e. ASSUME GoOn, rd.at = "queue", feed' = feed PROVE CalmRead'
  <2>1. CASE Done BY <1>c, <2>1 DEF Done
  <2>2. CASE ~Done
    <3>1. /\ rd' = [NoReading EXCEPT !.acct = rd.acct, !.at = "page", !.cur = rd.cur, !.c = rd.cur - 1]
          /\ rd.cur > 0
      BY <1>e, <2>2 DEF GoOn
    <3>2. rd' = [acct |-> rd.acct, at |-> "page", cur |-> rd.cur, c |-> rd.cur - 1, got |-> <<>>, page |-> 1, total |-> 0]
      BY <3>1 DEF NoReading
    <3>3. rd.acct \in Accounts /\ rd.cur \in Cycles BY <1>0, <1>e, Reads
    <3>4. rd.cur - 1 \in Cycles BY <3>1, <3>3, Constant DEF Cycles
    <3> QED BY <1>0, <1>d, <1>e, <3>2, <3>3, <3>4 DEF WorldTypes
  <2> QED BY <2>1, <2>2
<1>1. CASE PollDenied \/ PollStart BY <1>b, <1>1 DEF PollDenied, PollStart, vendor
<1>2. CASE Expired \/ Team \/ RequestFails BY <1>c, <1>2 DEF Expired, Team, RequestFails, Absent
<1>3. CASE HistoryChecked \/ HistoryFails BY <1>c, <1>3 DEF HistoryChecked, HistoryFails, Done
<1>4. CASE BudgetSpent BY <1>c, <1>4 DEF BudgetSpent
<1>5. CASE Period
  <2>1. /\ todo # <<>> /\ feed' = feed
        /\ rd' = [NoReading EXCEPT !.acct = Account, !.at = "page", !.cur = cycle, !.c = cycle]
    BY <1>5 DEF Period, vendor
  <2>2. Head(todo) \in Task BY <1>0, <2>1 DEF PollTypes
  <2>3. Account \in Accounts /\ cycle \in Cycles BY <1>0, <2>2 DEF Account, Task, WorldTypes
  <2>4. rd' = [acct |-> Account, at |-> "page", cur |-> cycle, c |-> cycle, got |-> <<>>, page |-> 1, total |-> 0]
    BY <2>1 DEF NoReading
  <2>5. rd'.at = "page" /\ rd'.got = <<>> /\ rd'.page = 1 /\ rd'.acct = Account /\ rd'.c = cycle BY <2>4
  <2>6. feed' \in [Accounts -> [Cycles -> Feeds]] BY <1>0, <2>1 DEF WorldTypes
  <2> QED BY <1>d, <2>3, <2>5, <2>6
<1>6. CASE Page
  <2> DEFINE s == feed[rd.acct][rd.c]
             got == IF rd.page <= Len(s) THEN Append(rd.got, s[rd.page]) ELSE rd.got
             total == IF rd.page = 1 THEN Len(s) ELSE rd.total
             at == IF rd.page > Len(s) \/ Len(got) >= total THEN "queue" ELSE "page"
  <2>1. rd.at = "page" /\ UNCHANGED <<feed, calm>> BY <1>6 DEF Page, vendor, ghosts
  <2>2. rd.acct \in Accounts /\ rd.c \in Cycles /\ rd.got \in Feeds BY <1>0, <2>1, Reads
  <2>3. rd' = [rd EXCEPT !.got = got, !.page = @ + 1, !.total = total, !.at = at] BY <1>6 DEF Page
  <2>4. s \in Feeds BY <1>0, <2>2 DEF WorldTypes
  <2>5. /\ s \in Seq(Rows) /\ Len(s) \in Nat /\ rd.got \in Seq(Rows) /\ Len(rd.got) \in Nat
    BY <2>2, <2>4, FeedIs
  <2>6. rd.page \in Nat \ {0} /\ rd \in RdType BY <1>0 DEF PollTypes, RdType
  <2>7. /\ rd'.got = got /\ rd'.page = rd.page + 1 /\ rd'.at = at /\ rd'.acct = rd.acct
        /\ rd'.c = rd.c /\ rd'.total = total
    BY <2>3, <2>6 DEF RdType
  <2> SUFFICES ASSUME calm[rd.acct][rd.c]
               PROVE  IF at = "queue" THEN got = s
                      ELSE /\ Len(got) = (rd.page + 1) - 1 /\ Len(got) <= Len(s)
                           /\ \A i \in 1..Len(got) : got[i] = s[i]
                           /\ rd.page + 1 > 1 => total = Len(s)
    <3> HIDE DEF got, total, at, s
    <3> QED BY <2>1, <2>7 DEF CalmRead, s
  <2>8. /\ Len(rd.got) = rd.page - 1 /\ Len(rd.got) <= Len(s)
        /\ \A i \in 1..Len(rd.got) : rd.got[i] = s[i]
        /\ rd.page > 1 => rd.total = Len(s)
    BY <1>0, <2>1 DEF CalmRead
  <2>9. total = Len(s) BY <2>6, <2>8
  <2>10. CASE rd.page <= Len(s)
    <3>1. s[rd.page] \in Rows BY <2>5, <2>6, <2>10
    <3>2. /\ got \in Seq(Rows) /\ Len(got) = Len(rd.got) + 1 /\ got[Len(rd.got) + 1] = s[rd.page]
          /\ \A i \in 1..Len(rd.got) : got[i] = rd.got[i]
      BY <2>5, <2>10, <3>1
    <3>3. Len(got) = rd.page BY <2>6, <2>8, <3>2
    <3>4. ASSUME NEW i \in 1..Len(got) PROVE got[i] = s[i]
      <4>1. CASE i <= Len(rd.got)
        <5>1. i \in 1..Len(rd.got) BY <2>5, <4>1
        <5> QED BY <2>8, <3>2, <5>1
      <4>2. CASE i = Len(rd.got) + 1
        <5>1. i = rd.page BY <2>6, <2>8, <4>2
        <5> QED BY <3>2, <4>2, <5>1
      <4> QED BY <2>5, <3>2, <4>1, <4>2
    <3>5. CASE at = "queue"
      <4>1. Len(got) >= total BY <2>6, <2>10, <3>5, <2>5
      <4>2. Len(got) = Len(s) BY <2>5, <2>6, <2>9, <2>10, <3>3, <4>1
      <4>3. got = s BY <2>5, <3>2, <3>4, <4>2, SeqEqual
      <4> QED BY <3>5, <4>3
    <3>6. CASE at # "queue"
      <4> HIDE DEF got, total, at, s
      <4> QED BY <2>6, <2>9, <2>10, <3>3, <3>4, <3>6
    <3> QED BY <3>5, <3>6
  <2>11. CASE ~(rd.page <= Len(s))
    <3>1. got = rd.got /\ at = "queue" BY <2>5, <2>6, <2>11
    <3>2. Len(rd.got) = Len(s) BY <2>5, <2>6, <2>8, <2>11
    <3>3. rd.got = s BY <2>5, <2>8, <3>2, SeqEqual
    <3> QED BY <3>1, <3>3
  <2> QED BY <2>10, <2>11
<1>7. CASE Queue BY <1>e, <1>7 DEF Queue, vendor
<1>8. CASE QueueRefused BY <1>e, <1>8 DEF QueueRefused, vendor
<1>9. CASE Restart BY <1>c, <1>9 DEF Restart
<1>10. CASE Edit \/ Turn
  <2>1. \A a \in Accounts : \A c \in Cycles : calm'[a][c] => calm[a][c] /\ feed'[a][c] = feed[a][c]
    BY <1>0, <1>10, VendorIs
  <2>2. rd' = rd BY <1>10 DEF Edit, Turn
  <2>3. rd.at # "idle" => rd.acct \in Accounts /\ rd.c \in Cycles BY <1>0, Reads
  <2> QED BY <1>a, <2>1, <2>2, <2>3
<1>11. CASE Rollover \/ SignIn \/ Profile BY <1>b, <1>11 DEF Rollover, SignIn, Profile, vendor, ghosts
<1>12. CASE Policy BY <1>b, <1>12 DEF Policy, vendor
<1>13. CASE Tick \/ SetBack
  <2>1. /\ UNCHANGED <<rd, feed>>
        /\ \A a \in Accounts : \A c \in Cycles : calm'[a][c] => calm[a][c]
    BY <1>13 DEF Tick, SetBack, vendor
  <2>2. rd.at # "idle" => rd.acct \in Accounts /\ rd.c \in Cycles BY <1>0, Reads
  <2> QED BY <1>a, <2>1, <2>2
<1>14. CASE Lose BY <1>b, <1>14 DEF Lose, vendor
<1>15. CASE UNCHANGED vars BY <1>b, <1>15 DEF vars, vendor, ghosts
<1> QED BY <1>1, <1>2, <1>3, <1>4, <1>5, <1>6, <1>7, <1>8, <1>9, <1>10, <1>11, <1>12, <1>13, <1>14, <1>15
           DEF Next, Collector, World

-----------------------------------------------------------------------------
(* The invariant, and what it shows.                                        *)

LEMMA InvInit == Init => Inv
<1> SUFFICES ASSUME Init PROVE Inv OBVIOUS
<1>1. WorldTypes /\ FileTypes BY WorldInit, FileInit
<1>2. PollTypes /\ InHand /\ Covered BY PollInit DEF OfPoll
<1>3. BackTypes BY DEF Init, BackTypes
<1>4. Known
  <2>1. Len(<<>>) = 0 /\ 0 <= keep BY <1>1 DEF WorldTypes
  <2> QED BY <2>1 DEF Init, Known
<1>5. Backed
  <2>1. \A c \in Cycles : mem[c] = NoPool /\ disk[c] = NoPool BY DEF Init
  <2>2. claims = {} /\ stripped = {} BY DEF Init
  <2> QED BY <2>1, <2>2, Constant DEF Backed
<1>6. \A a \in Accounts : \A c \in Cycles : ~calm[a][c] BY DEF Init
<1>7. CalmKept BY <1>6 DEF CalmKept
<1>8. CalmRead BY Constant DEF Init, CalmRead
<1> QED BY <1>1, <1>2, <1>3, <1>4, <1>5, <1>7, <1>8 DEF Inv

LEMMA InvNext == Inv /\ [Next]_vars => Inv'
<1> SUFFICES ASSUME Inv, [Next]_vars PROVE Inv' OBVIOUS
<1>1. WorldTypes' /\ FileTypes' BY WorldNext, FileNext
<1>2. PollTypes' /\ InHand' /\ Covered' BY PollNext DEF OfPoll
<1>3. BackTypes' BY BackNext
<1>4. Known' /\ Backed' BY KnownNext, BackedNext
<1>5. CalmKept' /\ CalmRead' BY CalmKeptNext, CalmReadNext
<1> QED BY <1>1, <1>2, <1>3, <1>4, <1>5 DEF Inv

LEMMA InvAlways == Spec => []Inv
BY InvInit, InvNext, PTL DEF Spec

LEMMA InvTypes == Inv => TypeOK
<1> SUFFICES ASSUME Inv PROVE TypeOK OBVIOUS
<1>0. WorldTypes /\ FileTypes /\ PollTypes /\ BackTypes BY DEF Inv
<1>1. /\ left \in [Events -> Nat] /\ cycle \in Cycles /\ DOMAIN feed = Accounts
      /\ \A a \in Accounts : \A c \in Cycles : feed[a][c] \in Feeds
      /\ open \in BOOLEAN /\ policy \in {"on", "off", "unknown"}
  BY <1>0 DEF WorldTypes
<1>2. /\ logins \in Seq(Accounts) /\ Len(logins) <= keep /\ profile \in BOOLEAN /\ claims \subseteq Convs
  BY <1>0 DEF FileTypes, Inv, Known
<1>3. ASSUME NEW c \in Cycles, NEW p \in {mem[c], disk[c]}
      PROVE  /\ p.hashes \subseteq Rows
             /\ \A a \in Accounts : p.repaired[a] \in Ages /\ p.man[a] \in Bags \cup {NoSnapshot}
  <2>1. p \in PoolType BY <1>0 DEF FileTypes
  <2> QED BY <2>1 DEF PoolType
<1>4. ASSUME NEW a \in Accounts, NEW c \in Cycles
      PROVE  history[a][c].age \in Ages /\ published[a][c] \in Bags \cup {NoSnapshot}
  <2>1. history[a][c] \in MarkType BY <1>0 DEF FileTypes
  <2> QED BY <1>0, <2>1 DEF MarkType, BackTypes
<1>5. rd.at \in {"idle", "page", "queue"} /\ rd.got \in Feeds BY <1>0 DEF PollTypes, RdType
<1>6. \A c \in Cycles : rows[c] \subseteq Rows BY <1>0 DEF BackTypes
<1>7. said \cup unheard \subseteq found /\ read \cup dropped \subseteq Accounts /\ stripped \subseteq Convs
  BY <1>0 DEF PollTypes, FileTypes
<1> QED BY <1>1, <1>2, <1>3, <1>4, <1>5, <1>6, <1>7 DEF TypeOK

LEMMA InvLeaves == Inv => LeavesTrue
<1> SUFFICES ASSUME Inv PROVE LeavesTrue OBVIOUS
<1>0. PollTypes /\ InHand /\ Covered /\ Known /\ Backed /\ CalmKept /\ CalmRead BY DEF Inv
<1>1. Quiet
  <2> SUFFICES ASSUME rd.at = "queue", calm[rd.acct][rd.c] PROVE ToSend = {} /\ ~SendsManifest
    BY DEF Quiet
  <2>1. rd.acct \in Accounts /\ rd.c \in Cycles BY <1>0, Reads
  <2>2. rd.got = feed[rd.acct][rd.c] BY <1>0 DEF CalmRead
  <2>3. KeptIn(rd.acct, rd.c, Pool, Reading) BY <1>0, <2>1, <2>2 DEF CalmKept, Pool, Reading
  <2>4. ~RepairDue
    <3>1. Recent(Pool.repaired[rd.acct]) BY <2>3 DEF KeptIn
    <3>2. Pool.repaired[rd.acct] # Never BY <3>1 DEF Recent, Never
    <3> QED BY <3>1, <3>2 DEF RepairDue
  <2>5. ToSend = {} BY <2>3, <2>4 DEF KeptIn, ToSend
  <2>6. ~SendsManifest BY <2>3, <2>4 DEF KeptIn, SendsManifest, Id
  <2> QED BY <2>5, <2>6
<1>2. Speaks
  <2>1. todo = <<>> => Pending = {}
    <3>1. Len(<<>>) = 0 OBVIOUS
    <3> QED BY <3>1 DEF Pending
  <2> QED BY <1>0, <2>1 DEF Speaks, Idle, Covered
<1>3. CostsBacked BY <1>0 DEF CostsBacked, Backed
<1>4. Recognised BY <1>0 DEF Recognised, Known
<1> QED BY <1>1, <1>2, <1>3, <1>4 DEF LeavesTrue

\* The variables hold what they are meant to hold, whatever the vendor and the outbox do.
THEOREM TypeCorrect == Spec => []TypeOK
BY InvAlways, InvTypes, PTL

\* A reading that nothing happened to costs the next poll nothing; a poll has a word for every
\* login it found, but for those the outbox or its budget left out; a hook leaves a cost to rows
\* the backend has; a login that was read is recognised, but for those that a failing file or the
\* cap of the map put out of it; and what is queued in full the backend can rebuild.
THEOREM PollsAreTrue == Spec => PollsTrue
<1>1. Spec => []LeavesTrue BY InvAlways, InvLeaves, PTL
<1>2. Inv /\ [Next]_vars => [Queue /\ ~lost => published'[rd.acct][rd.c] = Reading]_vars
  <2> SUFFICES ASSUME Inv, Queue, ~lost PROVE published'[rd.acct][rd.c] = Reading OBVIOUS
  <2>1. rd.at = "queue" /\ Taken(ToSend, TRUE) BY DEF Queue
  <2> QED BY <2>1, TookAll
<1>3. Spec => Rebuilt BY <1>2, InvAlways, PTL DEF Spec, Rebuilt
<1> QED BY <1>1, <1>3 DEF PollsTrue
=============================================================================
