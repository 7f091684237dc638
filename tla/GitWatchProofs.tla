--------------------------- MODULE GitWatchProofs ---------------------------
(***************************************************************************)
(* Theorems about the git watcher: its types; that a commit is reported    *)
(* once; that a commit the cursors have passed has its line origin, or is  *)
(* owed it; that between two checkouts no AI write is spent twice; that    *)
(* hunks only move spans that stand in the content they apply to; and that *)
(* behind cursors at their HEADs every commit of this device is reported,  *)
(* but for those that a failure passed over.                               *)
(***************************************************************************)
EXTENDS GitWatch, FiniteSetTheorems, NaturalsInduction, WellFoundedInduction, TLAPS

(* Sets of numbers, and folds over finite sets.                             *)

\* The well-founded order of the naturals, without its operator parameter.
LEMMA LeastElement ==
  ASSUME NEW S \in SUBSET Nat, S # {}
  PROVE  \E p \in S : \A q \in S : p <= q
<1> DEFINE R == {ss \in Nat \X Nat : ss[1] < ss[2]}
<1>1. IsWellFoundedOn(R, Nat) BY NatLessThanWellFounded DEF OpToRel
<1>2. \A p, q \in Nat : q < p => <<q, p>> \in R
  <2> SUFFICES ASSUME NEW p \in Nat, NEW q \in Nat, q < p PROVE <<q, p>> \in R
    OBVIOUS
  <2>1. <<q, p>> \in Nat \X Nat OBVIOUS
  <2>2. <<q, p>>[1] = q /\ <<q, p>>[2] = p OBVIOUS
  <2> QED BY <2>1, <2>2
<1> HIDE DEF R
<1>3. PICK p \in S : \A q \in S : ~(<<q, p>> \in R) BY <1>1, WFMin
<1>4. \A q \in S : ~(q < p) BY <1>2, <1>3
<1> QED BY <1>4

LEMMA MinIs ==
  ASSUME NEW S \in SUBSET Nat, S # {}
  PROVE  Min(S) \in S /\ \A x \in S : Min(S) <= x
<1>1. \E m \in S : \A x \in S : m <= x BY LeastElement
<1> QED BY <1>1 DEF Min

LEMMA MaxIs ==
  ASSUME NEW S \in SUBSET Nat, S # {}, NEW b \in Nat, \A x \in S : x <= b
  PROVE  Max(S) \in S /\ \A x \in S : x <= Max(S)
<1> DEFINE Gaps == {b - x : x \in S}
<1>0. \A x \in S : b - x \in Nat OBVIOUS
<1>1. Gaps \in SUBSET Nat /\ Gaps # {} BY <1>0
<1>2. PICK g \in Gaps : \A h \in Gaps : g <= h BY <1>1, LeastElement
<1>3. PICK m \in S : g = b - m BY <1>2
<1>4. \A x \in S : m >= x
  <2> SUFFICES ASSUME NEW x \in S PROVE m >= x OBVIOUS
  <2>1. b - x \in Gaps OBVIOUS
  <2>2. b - m <= b - x BY <1>2, <1>3, <2>1
  <2> QED BY <2>2
<1>5. \E m2 \in S : \A x \in S : m2 >= x BY <1>4
<1>6. Max(S) \in S /\ \A x \in S : Max(S) >= x BY <1>5 DEF Max
<1> QED BY <1>6

\* A function on the subsets of a finite set that takes one element at a time away
\* stays where each of its steps stays.
LEMMA FoldStays ==
  ASSUME NEW S, IsFiniteSet(S), NEW T, NEW h, NEW ch,
         h[{}] \in T[{}],
         \A s \in SUBSET S : s # {} =>
           ch[s] \in s /\ (h[s \ {ch[s]}] \in T[s \ {ch[s]}] => h[s] \in T[s])
  PROVE  h[S] \in T[S]
<1> DEFINE Bad == {s \in SUBSET S : h[s] \notin T[s]}
           Sizes == {Cardinality(s) : s \in Bad}
<1>1. SUFFICES ASSUME Bad # {} PROVE FALSE OBVIOUS
<1>2. \A s \in SUBSET S : IsFiniteSet(s) /\ Cardinality(s) \in Nat
  BY FS_Subset, FS_CardinalityType
<1>3. Sizes \in SUBSET Nat /\ Sizes # {} BY <1>1, <1>2
<1>4. PICK n \in Sizes : \A m \in Sizes : n <= m BY <1>3, LeastElement
<1>5. PICK s \in Bad : n = Cardinality(s) BY <1>4
<1>6. s # {} BY <1>5
<1>7. ch[s] \in s BY <1>5, <1>6
<1> DEFINE less == s \ {ch[s]}
<1>8. less \in SUBSET S BY <1>5
<1>9. Cardinality(less) = n - 1 BY <1>2, <1>5, <1>7, FS_RemoveElement
<1>10. less \notin Bad
  <2>1. n - 1 \in Nat /\ ~(n <= n - 1) BY <1>2, <1>3, <1>4, <1>8, <1>9
  <2>2. n - 1 \notin Sizes BY <1>4, <2>1
  <2> QED BY <1>9, <2>2
<1> QED BY <1>5, <1>6, <1>8, <1>10

\* A function folds the elements of S, as ch picks them, into base with G.
HasFold(S, T, base, ch, G) ==
  \E F \in [SUBSET S -> T] :
    \A s \in SUBSET S : F[s] = IF s = {} THEN base ELSE G[<<ch[s], F[s \ {ch[s]}]>>]

\* A fold over a finite set is defined.
LEMMA FoldExists ==
  ASSUME NEW S, IsFiniteSet(S), NEW T, NEW base \in T, NEW ch, NEW G,
         \A s \in SUBSET S : s # {} => ch[s] \in s,
         \A x \in S : \A t \in T : G[<<x, t>>] \in T
  PROVE  HasFold(S, T, base, ch, G)
<1> DEFINE Upto(n) == {s \in SUBSET S : Cardinality(s) <= n}
           Folds(F, n) == \A s \in Upto(n) : F[s] = IF s = {} THEN base ELSE G[<<ch[s], F[s \ {ch[s]}]>>]
           Good(n) == \E F \in [Upto(n) -> T] : Folds(F, n)
           Bad == {n \in Nat : ~Good(n)}
<1>1. \A s \in SUBSET S : IsFiniteSet(s) /\ Cardinality(s) \in Nat
  BY FS_Subset, FS_CardinalityType
<1>2. \A n \in Nat : \A s \in Upto(n) : s # {} =>
        ch[s] \in s /\ s \ {ch[s]} \in SUBSET S /\ Cardinality(s \ {ch[s]}) = Cardinality(s) - 1
  BY <1>1, FS_RemoveElement
<1>3. Good(0)
  <2>1. Upto(0) = {{}}
    <3>1. \A s \in SUBSET S : Cardinality(s) = 0 <=> s = {} BY <1>1, FS_EmptySet
    <3>2. \A s \in SUBSET S : Cardinality(s) <= 0 <=> s = {} BY <1>1, <3>1
    <3> QED BY <3>2
  <2> DEFINE F == [s \in Upto(0) |-> base]
  <2>2. F \in [Upto(0) -> T] OBVIOUS
  <2>3. Folds(F, 0) BY <2>1
  <2> QED BY <2>2, <2>3
<1>4. ASSUME NEW n \in Nat, Good(n) PROVE Good(n + 1)
  <2>1. PICK F \in [Upto(n) -> T] : Folds(F, n) BY <1>4
  <2> DEFINE F2 == [s \in Upto(n + 1) |->
                      IF s \in Upto(n) THEN F[s] ELSE G[<<ch[s], F[s \ {ch[s]}]>>]]
  <2>2. \A s \in Upto(n + 1) : s # {} => s \ {ch[s]} \in Upto(n) /\ ch[s] \in S
    <3> SUFFICES ASSUME NEW s \in Upto(n + 1), s # {} PROVE s \ {ch[s]} \in Upto(n) /\ ch[s] \in S
      OBVIOUS
    <3>1. n + 1 \in Nat OBVIOUS
    <3>2. ch[s] \in s /\ s \ {ch[s]} \in SUBSET S /\ Cardinality(s \ {ch[s]}) = Cardinality(s) - 1
      BY <1>2, <3>1
    <3>3. Cardinality(s) \in Nat /\ Cardinality(s) <= n + 1 BY <1>1
    <3>4. Cardinality(s \ {ch[s]}) <= n BY <3>2, <3>3
    <3> QED BY <3>2, <3>4
  <2>3. {} \in Upto(n)
    <3>1. Cardinality({}) = 0 BY FS_EmptySet
    <3> QED BY <3>1
  <2>4. Upto(n) \subseteq Upto(n + 1) BY <1>1
  <2>5. F2 \in [Upto(n + 1) -> T] BY <2>1, <2>2, <2>3
  <2>6. \A s \in Upto(n) : F2[s] = F[s] BY <2>4
  <2>7. Folds(F2, n + 1)
    <3> SUFFICES ASSUME NEW s \in Upto(n + 1)
                 PROVE  F2[s] = IF s = {} THEN base ELSE G[<<ch[s], F2[s \ {ch[s]}]>>]
      OBVIOUS
    <3>1. CASE s = {} BY <2>1, <2>3, <2>6, <3>1
    <3>2. CASE s # {}
      <4>1. F2[s \ {ch[s]}] = F[s \ {ch[s]}] BY <2>2, <2>6, <3>2
      <4>2. CASE s \in Upto(n) BY <2>1, <2>6, <3>2, <4>1, <4>2
      <4>3. CASE s \notin Upto(n) BY <3>2, <4>1, <4>3
      <4> QED BY <4>2, <4>3
    <3> QED BY <3>1, <3>2
  <2> QED BY <2>5, <2>7
<1>5. Bad = {}
  <2> SUFFICES ASSUME Bad # {} PROVE FALSE OBVIOUS
  <2> HIDE DEF Good
  <2>1. PICK m \in Bad : \A k \in Bad : m <= k BY LeastElement
  <2>2. m \in Nat /\ m # 0 BY <1>3
  <2>3. m - 1 \in Nat /\ ~(m <= m - 1) /\ m = (m - 1) + 1 BY <2>2
  <2>4. Good(m - 1) BY <2>1, <2>3
  <2>5. Good((m - 1) + 1) BY <1>4, <2>3, <2>4
  <2> QED BY <2>1, <2>3, <2>5
<1>6. Cardinality(S) \in Nat BY FS_CardinalityType
<1>7. Good(Cardinality(S))
  <2> HIDE DEF Good
  <2> QED BY <1>5, <1>6
<1>8. Upto(Cardinality(S)) = SUBSET S BY FS_Subset
<1> QED BY <1>7, <1>8 DEF HasFold

-----------------------------------------------------------------------------
(* The types of the state.                                                  *)

\* The code has one clone and at most one worktree of it.
TwoCheckouts == Len(RootOrder) <= 2

ChangeType == [kind : {"add", "rewrite", "delete", "rename", "merge"}, path : Path, to : Path]
CommitType == [first : Nat, own : BOOLEAN, change : ChangeType, reach : SUBSET Nat, chain : SUBSET Nat,
               files : [Path -> Nat]]

\* Commit c of the log l: what it reaches is older and closed, its files are those of commits.
CommitOK(l, c) ==
  /\ l[c].first < c
  /\ l[c].first # 0 => l[c].first \in l[c].reach
  /\ l[c].reach \subseteq 1..c /\ c \in l[c].reach /\ l[c].chain \subseteq 1..c
  /\ l[c].chain \subseteq l[c].reach /\ \A d \in l[c].chain : l[d].chain \subseteq l[c].chain
  /\ \A d \in l[c].reach : l[d].reach \subseteq l[c].reach
  /\ \A p \in Path : l[c].files[p] <= c
  /\ l[c].change.kind = "add" => l[c].files[l[c].change.path] # 0
  /\ l[c].change.kind = "merge" =>
       /\ l[c].first # 0
       /\ \A p \in Path : l[c].files[p] # l[l[c].first].files[p] => l[c].files[p] # 0

LogOK == log \in Seq(CommitType) /\ Len(log) >= 1 /\ \A c \in 1..Len(log) : CommitOK(log, c)

Marks == env.writes \in Nat /\ wrote \in [Root -> [Path -> 0..env.writes]]

Stamps == {None} \cup 0..env.writes
LedgerType ==
  [branch : Branch \cup {NoBranch, Absent}, adopting : BOOLEAN, at : [Path -> 0..Len(log)],
   tomb : [Path -> Stamps], last : [Path -> Stamps], respent : BOOLEAN, slid : BOOLEAN,
   missed : BOOLEAN]

\* No seed of L was made on a write later than the marks, none on the write before it,
\* and a path without spans is tombstoned at the write it was last seeded by.
Unspent(r, L) ==
  /\ ~L.respent
  /\ \A p \in Path : L.last[p] <= Stamp(r, Root, p)
  /\ \A p \in Path : L.at[p] = 0 => L.last[p] <= L.tomb[p]

Ledgers(r) == {L \in LedgerType : TwoCheckouts => Unspent(r, L)}

-----------------------------------------------------------------------------
(* The stamps of AI writes.                                                 *)

LEMMA Roots ==
  /\ \A i \in DOMAIN RootOrder : RootOrder[i] \in Root
  /\ \A r \in Root : \E i \in DOMAIN RootOrder : r = RootOrder[i]
  /\ DOMAIN RootOrder = 1..Len(RootOrder) /\ Len(RootOrder) \in Nat
<1>1. RootOrder \in Seq(Root) BY GitWatchAssumption
<1>2. \A r \in Root : \E i \in DOMAIN RootOrder : r = RootOrder[i] BY DEF Root, ToSet
<1> QED BY <1>1, <1>2

LEMMA StampIs ==
  ASSUME Marks, NEW r \in Root, NEW others, NEW p \in Path
  PROVE  /\ Stamp(r, others, p) \in 0..env.writes
         /\ wrote[r][p] # 0 => Stamp(r, others, p) = wrote[r][p]
         /\ wrote[r][p] = 0 =>
              \/ /\ Stamp(r, others, p) = 0
                 /\ \A x \in Root : x \in others => wrote[x][p] = 0
              \/ \E x \in Root : /\ x \in others /\ wrote[x][p] # 0
                                 /\ Stamp(r, others, p) = wrote[x][p]
<1> DEFINE marked == {i \in DOMAIN RootOrder : RootOrder[i] \in others /\ wrote[RootOrder[i]][p] # 0}
<1>1. \A x \in Root : wrote[x][p] \in 0..env.writes BY DEF Marks
<1>2. Stamp(r, others, p) = IF wrote[r][p] # 0 \/ marked = {} THEN wrote[r][p]
                            ELSE wrote[RootOrder[Min(marked)]][p]
  BY DEF Stamp
<1>3. marked \in SUBSET Nat BY Roots
<1>4. CASE wrote[r][p] # 0 BY <1>1, <1>2, <1>4
<1>5. CASE wrote[r][p] = 0 /\ marked = {}
  <2>1. \A x \in Root : x \in others => wrote[x][p] = 0 BY <1>5, Roots
  <2> QED BY <1>1, <1>2, <1>5, <2>1
<1>6. CASE wrote[r][p] = 0 /\ marked # {}
  <2>1. Min(marked) \in marked
    <3> HIDE DEF marked
    <3> QED BY <1>3, <1>6, MinIs
  <2>2. Stamp(r, others, p) = wrote[RootOrder[Min(marked)]][p] BY <1>2, <1>6
  <2> HIDE DEF marked
  <2>3. RootOrder[Min(marked)] \in Root /\ RootOrder[Min(marked)] \in others
        /\ wrote[RootOrder[Min(marked)]][p] # 0
    BY <2>1, Roots DEF marked
  <2> QED BY <1>1, <1>6, <2>2, <2>3
<1> QED BY <1>4, <1>5, <1>6

\* Between two checkouts the view of all of them sees the latest write that any view sees.
LEMMA WideView ==
  ASSUME Marks, TwoCheckouts, NEW r \in Root, NEW others, NEW p \in Path
  PROVE  Stamp(r, others, p) <= Stamp(r, Root, p)
<1>1. CASE wrote[r][p] # 0
  <2>1. Stamp(r, others, p) = wrote[r][p] /\ Stamp(r, Root, p) = wrote[r][p] BY <1>1, StampIs
  <2> QED BY <2>1 DEF Marks
<1>2. CASE wrote[r][p] = 0
  <2>0. Stamp(r, others, p) \in Nat /\ Stamp(r, Root, p) \in Nat
    <3>1. Stamp(r, others, p) \in 0..env.writes /\ Stamp(r, Root, p) \in 0..env.writes BY StampIs
    <3> QED BY <3>1 DEF Marks
  <2>1. CASE Stamp(r, others, p) = 0 BY <2>0, <2>1
  <2>2. CASE \E x \in Root : wrote[x][p] # 0 /\ Stamp(r, others, p) = wrote[x][p]
    <3>1. PICK x \in Root : wrote[x][p] # 0 /\ Stamp(r, others, p) = wrote[x][p] BY <2>2
    <3>2. PICK y \in Root : wrote[y][p] # 0 /\ Stamp(r, Root, p) = wrote[y][p]
      BY <1>2, <3>1, StampIs
    <3>3. x # r /\ y # r BY <1>2, <3>1, <3>2
    <3>4. PICK i \in DOMAIN RootOrder : x = RootOrder[i] BY Roots
    <3>5. PICK j \in DOMAIN RootOrder : y = RootOrder[j] BY Roots
    <3>6. PICK k \in DOMAIN RootOrder : r = RootOrder[k] BY Roots
    <3>7. i # k /\ j # k BY <3>3, <3>4, <3>5, <3>6
    <3>8. i \in 1..2 /\ j \in 1..2 /\ k \in 1..2 BY Roots DEF TwoCheckouts
    <3>9. i = j BY <3>7, <3>8
    <3> QED BY <2>0, <3>1, <3>2, <3>4, <3>5, <3>9
  <2> QED BY <1>2, <2>1, <2>2, StampIs
<1> QED BY <1>1, <1>2

LEMMA MaxOfTwo ==
  ASSUME NEW a \in Int, NEW b \in Int
  PROVE  Max({a, b}) \in {a, b} /\ a <= Max({a, b}) /\ b <= Max({a, b})
<1>1. \E m \in {a, b} : \A x \in {a, b} : m >= x
  <2>1. CASE a <= b BY <2>1
  <2>2. CASE b <= a BY <2>2
  <2> QED BY <2>1, <2>2
<1>2. Max({a, b}) \in {a, b} /\ \A x \in {a, b} : Max({a, b}) >= x BY <1>1 DEF Max
<1> QED BY <1>2

LEMMA WriteStampIs ==
  ASSUME Marks, NEW r \in Root, NEW lin, NEW c, NEW p \in Path
  PROVE  /\ SeedStamp(r, lin, c, p) \in 0..env.writes
         /\ WriteStamp(r, lin, c, p) \in 0..env.writes
         /\ Stamp(r, Root, p) <= WriteStamp(r, lin, c, p)
         /\ TwoCheckouts => SeedStamp(r, lin, c, p) <= Stamp(r, Root, p)
<1>1. Stamp(r, Root, p) \in 0..env.writes BY StampIs
<1>2. SeedStamp(r, lin, c, p) \in 0..env.writes BY StampIs DEF SeedStamp
<1>3. TwoCheckouts => SeedStamp(r, lin, c, p) <= Stamp(r, Root, p) BY WideView DEF SeedStamp
<1>4. Stamp(r, Root, p) \in Int /\ SeedStamp(r, lin, c, p) \in Int BY <1>1, <1>2 DEF Marks
<1>5. WriteStamp(r, lin, c, p) = Max({Stamp(r, Root, p), SeedStamp(r, lin, c, p)}) BY DEF WriteStamp
<1>6. WriteStamp(r, lin, c, p) \in {Stamp(r, Root, p), SeedStamp(r, lin, c, p)}
      /\ Stamp(r, Root, p) <= WriteStamp(r, lin, c, p)
  BY <1>4, <1>5, MaxOfTwo
<1> QED BY <1>1, <1>2, <1>3, <1>6

-----------------------------------------------------------------------------
(* The steps of a fold on a rework ledger.                                  *)

LEMMA TombstonedIs ==
  ASSUME Marks, NEW L \in LedgerType, NEW p \in Path, NEW stamp \in Stamps
  PROVE  /\ Tombstoned(L, p, stamp) \in LedgerType
         /\ Tombstoned(L, p, stamp).at = L.at
         /\ Tombstoned(L, p, stamp).last = L.last
         /\ Tombstoned(L, p, stamp).respent = L.respent
         /\ \A q \in Path \ {p} : Tombstoned(L, p, stamp).tomb[q] = L.tomb[q]
         /\ stamp <= Tombstoned(L, p, stamp).tomb[p]
         /\ L.tomb[p] <= Tombstoned(L, p, stamp).tomb[p]
<1> DEFINE risen == Max({L.tomb[p], stamp})
<1>0. Stamps \subseteq Int BY DEF Stamps, None, Marks
<1>1. L.tomb \in [Path -> Stamps] BY DEF LedgerType
<1>2. L.tomb[p] \in Stamps BY <1>1
<1>3. L.tomb[p] \in Int /\ stamp \in Int BY <1>0, <1>2
<1>4. risen \in {L.tomb[p], stamp} /\ L.tomb[p] <= risen /\ stamp <= risen BY <1>3, MaxOfTwo
<1>5. Tombstoned(L, p, stamp) = [L EXCEPT !.tomb = [L.tomb EXCEPT ![p] = risen]]
  BY DEF Tombstoned, LedgerType
<1> HIDE DEF risen
<1>6. [L.tomb EXCEPT ![p] = risen] \in [Path -> Stamps] BY <1>1, <1>2, <1>4
<1> QED BY <1>1, <1>4, <1>5, <1>6 DEF LedgerType

\* Spans that are gone leave a tombstone at the last write that can be seen, or at a later one.
LEMMA DroppedIn ==
  ASSUME Marks, NEW r \in Root, NEW L \in Ledgers(r), NEW p \in Path, NEW stamp \in 0..env.writes,
         Stamp(r, Root, p) <= stamp
  PROVE  /\ [Tombstoned(L, p, stamp) EXCEPT !.at[p] = 0] \in Ledgers(r)
         /\ \A q \in Path \ {p} : [Tombstoned(L, p, stamp) EXCEPT !.at[p] = 0].at[q] = L.at[q]
<1> DEFINE M == Tombstoned(L, p, stamp)
           N == [M EXCEPT !.at[p] = 0]
<1>0. L \in LedgerType BY DEF Ledgers
<1>a. stamp \in Stamps BY DEF Stamps
<1>1. /\ M \in LedgerType /\ M.at = L.at /\ M.last = L.last /\ M.respent = L.respent
      /\ \A q \in Path \ {p} : M.tomb[q] = L.tomb[q]
      /\ stamp <= M.tomb[p]
  BY <1>0, <1>a, TombstonedIs
<1> HIDE DEF M
<1>2. N = [M EXCEPT !.at = [M.at EXCEPT ![p] = 0]] BY <1>1 DEF LedgerType
<1> HIDE DEF N
<1>3. M.at \in [Path -> 0..Len(log)] BY <1>1 DEF LedgerType
<1>b. 0 \in 0..Len(log)
  <2>1. M.at[p] \in 0..Len(log) BY <1>3
  <2> QED BY <2>1
<1>4. [M.at EXCEPT ![p] = 0] \in [Path -> 0..Len(log)] BY <1>3, <1>b
<1>5. /\ N \in LedgerType /\ N.last = L.last /\ N.respent = L.respent /\ N.tomb = M.tomb
      /\ N.at = [M.at EXCEPT ![p] = 0]
  BY <1>1, <1>2, <1>4 DEF LedgerType
<1>6. \A q \in Path \ {p} : N.at[q] = L.at[q] BY <1>1, <1>3, <1>5
<1>7. ASSUME TwoCheckouts PROVE Unspent(r, N)
  <2>1. Unspent(r, L) BY <1>7 DEF Ledgers
  <2>2. ASSUME NEW q \in Path, N.at[q] = 0 PROVE N.last[q] <= N.tomb[q]
    <3>1. CASE q = p
      <4>1. L.last[p] <= Stamp(r, Root, p) BY <2>1 DEF Unspent
      <4>2. L.last[p] \in Int /\ M.tomb[p] \in Int /\ Stamp(r, Root, p) \in Int /\ stamp \in Int
        <5>1. L.last[p] \in Stamps /\ M.tomb[p] \in Stamps BY <1>0, <1>1 DEF LedgerType
        <5>2. Stamps \subseteq Int BY DEF Stamps, None, Marks
        <5>3. Stamp(r, Root, p) \in 0..env.writes BY StampIs
        <5>4. 0..env.writes \subseteq Int BY DEF Marks
        <5>5. stamp \in 0..env.writes OBVIOUS
        <5> HIDE DEF M
        <5> QED BY <5>1, <5>2, <5>3, <5>4, <5>5
      <4>3. L.last[p] <= M.tomb[p] BY <1>1, <4>1, <4>2
      <4> QED BY <1>5, <3>1, <4>3
    <3>2. CASE q # p
      <4>1. L.at[q] = 0 /\ M.tomb[q] = L.tomb[q] BY <1>1, <1>6, <2>2, <3>2
      <4> QED BY <1>5, <2>1, <4>1 DEF Unspent
    <3> QED BY <3>1, <3>2
  <2> QED BY <1>5, <2>1, <2>2 DEF Unspent
<1>8. N \in Ledgers(r) BY <1>5, <1>7 DEF Ledgers
<1> QED BY <1>6, <1>8 DEF N, M

\* Where a path holds spans, the content they stand in is all that changes.
LEMMA PlacedIn ==
  ASSUME NEW r \in Root, NEW L \in Ledgers(r), NEW p \in Path, NEW a \in 1..Len(log)
  PROVE  [L EXCEPT !.at[p] = a] \in Ledgers(r)
<1> DEFINE N == [L EXCEPT !.at[p] = a]
<1>0. L \in LedgerType BY DEF Ledgers
<1>1. N = [L EXCEPT !.at = [L.at EXCEPT ![p] = a]] BY <1>0 DEF LedgerType
<1>2. L.at \in [Path -> 0..Len(log)] BY <1>0 DEF LedgerType
<1>a. a \in 0..Len(log) /\ a # 0 OBVIOUS
<1>3. [L.at EXCEPT ![p] = a] \in [Path -> 0..Len(log)] BY <1>2, <1>a
<1> HIDE DEF N
<1>4. /\ N \in LedgerType /\ N.last = L.last /\ N.respent = L.respent /\ N.tomb = L.tomb
      /\ N.at = [L.at EXCEPT ![p] = a]
  BY <1>0, <1>1, <1>3 DEF LedgerType
<1>5. ASSUME TwoCheckouts PROVE Unspent(r, N)
  <2>1. Unspent(r, L) BY <1>5 DEF Ledgers
  <2>2. \A q \in Path : N.at[q] = 0 => L.at[q] = 0 BY <1>2, <1>4, <1>a
  <2> QED BY <1>4, <2>1, <2>2 DEF Unspent
<1> QED BY <1>4, <1>5 DEF Ledgers, N

\* A diff that was applied to other content is no more than noted.
LEMMA SlidIn ==
  ASSUME NEW r \in Root, NEW L \in Ledgers(r), NEW b \in BOOLEAN
  PROVE  /\ [L EXCEPT !.slid = b] \in Ledgers(r)
         /\ [L EXCEPT !.slid = b].at = L.at
<1> DEFINE N == [L EXCEPT !.slid = b]
<1>1. L \in LedgerType BY DEF Ledgers
<1>2. /\ N \in LedgerType /\ N.last = L.last /\ N.respent = L.respent /\ N.tomb = L.tomb
      /\ N.at = L.at
  BY <1>1 DEF LedgerType
<1> HIDE DEF N
<1>3. ASSUME TwoCheckouts PROVE Unspent(r, N)
  <2>1. Unspent(r, L) BY <1>3 DEF Ledgers
  <2> QED BY <1>2, <2>1 DEF Unspent
<1>4. N \in Ledgers(r) /\ N.at = L.at BY <1>2, <1>3 DEF Ledgers
<1> QED BY <1>4 DEF N

\* Nor is a commit that was left out.
LEMMA LeftOutIn ==
  ASSUME NEW r \in Root, NEW L \in Ledgers(r)
  PROVE  LeftOut(L) \in Ledgers(r)
<1> DEFINE b == L.missed \/ Tracks(L)
           N == [L EXCEPT !.missed = b]
<1>1. L \in LedgerType BY DEF Ledgers
<1>2. b \in BOOLEAN BY <1>1 DEF LedgerType, Tracks
<1> HIDE DEF b
<1>3. /\ N \in LedgerType /\ N.last = L.last /\ N.respent = L.respent /\ N.tomb = L.tomb
      /\ N.at = L.at
  BY <1>1, <1>2 DEF LedgerType
<1> HIDE DEF N
<1>4. ASSUME TwoCheckouts PROVE Unspent(r, N)
  <2>1. Unspent(r, L) BY <1>4 DEF Ledgers
  <2> QED BY <1>3, <2>1 DEF Unspent
<1>5. N \in Ledgers(r) BY <1>3, <1>4 DEF Ledgers
<1> QED BY <1>5 DEF LeftOut, N, b

LEMMA RaisedIn ==
  ASSUME Marks, NEW r \in Root, NEW L \in Ledgers(r), NEW p \in Path, NEW stamp \in Stamps
  PROVE  Tombstoned(L, p, stamp) \in Ledgers(r) /\ Tombstoned(L, p, stamp).at = L.at
<1> DEFINE M == Tombstoned(L, p, stamp)
<1>0. L \in LedgerType BY DEF Ledgers
<1>1. /\ M \in LedgerType /\ M.at = L.at /\ M.last = L.last /\ M.respent = L.respent
      /\ \A q \in Path \ {p} : M.tomb[q] = L.tomb[q]
      /\ L.tomb[p] <= M.tomb[p]
  BY <1>0, TombstonedIs
<1> HIDE DEF M
<1>2. ASSUME TwoCheckouts PROVE Unspent(r, M)
  <2>1. Unspent(r, L) BY <1>2 DEF Ledgers
  <2>2. ASSUME NEW q \in Path, M.at[q] = 0 PROVE M.last[q] <= M.tomb[q]
    <3>0. L.last[q] <= L.tomb[q] BY <1>1, <2>1, <2>2 DEF Unspent
    <3>1. L.last[q] \in Stamps /\ L.tomb[q] \in Stamps /\ M.tomb[q] \in Stamps
      BY <1>0, <1>1 DEF LedgerType
    <3>2. Stamps \subseteq Int BY DEF Stamps, None, Marks
    <3>3. L.tomb[q] <= M.tomb[q]
      <4>1. L.tomb[q] \in Int /\ M.tomb[q] \in Int BY <3>1, <3>2
      <4>2. CASE q = p BY <1>1, <4>2
      <4>3. CASE q # p BY <1>1, <4>1, <4>3
      <4> QED BY <4>2, <4>3
    <3>4. L.last[q] \in Int /\ L.tomb[q] \in Int /\ M.tomb[q] \in Int BY <3>1, <3>2
    <3>5. L.last[q] <= M.tomb[q] BY <3>0, <3>3, <3>4
    <3> QED BY <1>1, <3>5
  <2> QED BY <1>1, <2>1, <2>2 DEF Unspent
<1>3. M \in Ledgers(r) /\ M.at = L.at BY <1>1, <1>2 DEF Ledgers
<1> QED BY <1>3 DEF M

\* The stamps a fold writes tombstones with: what all checkouts show, or later.
Late(r, w) == /\ w \in [Path -> 0..env.writes]
              /\ \A p \in Path : Stamp(r, Root, p) <= w[p]

LEMMA CarriedIn ==
  ASSUME Marks, NEW r \in Root, NEW L \in Ledgers(r), NEW from \in Path, NEW to \in Path,
         NEW w, Late(r, w)
  PROVE  Carried(L, from, to, w) \in Ledgers(r)
<1> DEFINE follow == IF L.tomb[from] = None THEN L ELSE Tombstoned(L, to, Max({L.tomb[from], w[to]}))
           drop == [Tombstoned(follow, from, w[from]) EXCEPT !.at[from] = 0]
<1>0. L \in LedgerType BY DEF Ledgers
<1>1. follow \in Ledgers(r) /\ follow.at = L.at
  <2>1. L.tomb[from] \in Stamps BY <1>0 DEF LedgerType
  <2>2. w[to] \in 0..env.writes BY DEF Late
  <2>3. w[to] \in Stamps BY <2>2 DEF Stamps
  <2>4. Stamps \subseteq Int BY DEF Stamps, None, Marks
  <2>5. Max({L.tomb[from], w[to]}) \in {L.tomb[from], w[to]}
    <3>1. L.tomb[from] \in Int /\ w[to] \in Int BY <2>1, <2>3, <2>4
    <3> QED BY <3>1, MaxOfTwo
  <2>6. Max({L.tomb[from], w[to]}) \in Stamps BY <2>1, <2>3, <2>5
  <2>7. Tombstoned(L, to, Max({L.tomb[from], w[to]})) \in Ledgers(r)
        /\ Tombstoned(L, to, Max({L.tomb[from], w[to]})).at = L.at
    BY <2>6, RaisedIn
  <2>8. CASE L.tomb[from] = None BY <2>8
  <2>9. CASE L.tomb[from] # None BY <2>7, <2>9
  <2> QED BY <2>8, <2>9
<1> HIDE DEF follow
<1>2. w[from] \in 0..env.writes /\ Stamp(r, Root, from) <= w[from] BY DEF Late
<1>3. drop \in Ledgers(r) BY <1>1, <1>2, DroppedIn
<1>4. CASE L.at[from] = 0
  <2>1. Carried(L, from, to, w) = follow BY <1>4 DEF Carried, follow
  <2> QED BY <1>1, <2>1
<1>5. CASE L.at[from] # 0
  <2>1. L.at[from] \in 1..Len(log)
    <3>1. L.at[from] \in 0..Len(log) BY <1>0 DEF LedgerType
    <3> QED BY <1>5, <3>1
  <2>2. [drop EXCEPT !.at[to] = L.at[from]] \in Ledgers(r)
    <3> HIDE DEF drop
    <3> QED BY <1>3, <2>1, PlacedIn
  <2>3. Carried(L, from, to, w) = [drop EXCEPT !.at[to] = L.at[from]]
    <3>1. Carried(L, from, to, w) = [Tombstoned(follow, from, w[from]) EXCEPT !.at[from] = 0,
                                                                             !.at[to] = L.at[from]]
      BY <1>5 DEF Carried, follow
    <3> QED BY <3>1
  <2> QED BY <2>2, <2>3
<1> QED BY <1>4, <1>5

LEMMA RemappedIn ==
  ASSUME Marks, LogOK, NEW r \in Root, NEW L \in Ledgers(r), NEW c \in 1..Len(log), NEW p \in Hunked(c),
         NEW w, Late(r, w)
  PROVE  /\ Remapped(L, c, p, w) \in Ledgers(r)
         /\ \A q \in Path \ {p} : Remapped(L, c, p, w).at[q] = L.at[q]
<1> DEFINE bad == L.slid \/ L.at[p] # log[log[c].first].files[p]
           M == [L EXCEPT !.slid = bad]
           s == log[c].change
<1>0. L \in LedgerType BY DEF Ledgers
<1>1. log[c] \in CommitType /\ CommitOK(log, c) BY DEF LogOK
<1>2. s \in ChangeType /\ log[c].files \in [Path -> Nat] BY <1>1 DEF CommitType
<1>3. p \in Path BY <1>2 DEF Hunked, ChangeType
<1>4. M \in Ledgers(r) /\ M.at = L.at
  <2>1. L.slid \in BOOLEAN BY <1>0 DEF LedgerType
  <2>2. bad \in BOOLEAN BY <2>1
  <2> HIDE DEF bad
  <2> QED BY <2>2, SlidIn
<1>5. Remapped(L, c, p, w) = IF s.kind \in {"rewrite", "delete"}
                             THEN [Tombstoned(M, p, w[p]) EXCEPT !.at[p] = 0]
                             ELSE [M EXCEPT !.at[p] = log[c].files[p]]
  BY <1>0 DEF Remapped, LedgerType
<1> HIDE DEF M
<1>6. CASE s.kind \in {"rewrite", "delete"}
  <2>1. w[p] \in 0..env.writes /\ Stamp(r, Root, p) <= w[p] BY <1>3 DEF Late
  <2>2. /\ [Tombstoned(M, p, w[p]) EXCEPT !.at[p] = 0] \in Ledgers(r)
        /\ \A q \in Path \ {p} : [Tombstoned(M, p, w[p]) EXCEPT !.at[p] = 0].at[q] = M.at[q]
    <3>1. M \in Ledgers(r) BY <1>4
    <3> QED BY <1>3, <2>1, <3>1, DroppedIn
  <2> QED BY <1>4, <1>5, <1>6, <2>2
<1>7. CASE s.kind \notin {"rewrite", "delete"}
  <2>1. s.kind # "rename" BY DEF Hunked
  <2>2. s.kind \in {"add", "merge"} BY <1>2, <1>7, <2>1 DEF ChangeType
  <2>3. log[c].files[p] # 0
    <3>1. CASE s.kind = "add"
      <4>1. p = s.path BY <3>1 DEF Hunked
      <4> QED BY <1>1, <3>1, <4>1 DEF CommitOK
    <3>2. CASE s.kind = "merge"
      <4>1. log[c].files[p] # log[log[c].first].files[p] BY <3>2 DEF Hunked
      <4> QED BY <1>1, <1>3, <3>2, <4>1 DEF CommitOK
    <3> QED BY <2>2, <3>1, <3>2
  <2>4. log[c].files[p] \in 1..Len(log)
    <3>1. log[c].files[p] <= c BY <1>1, <1>3 DEF CommitOK
    <3>2. log[c].files[p] \in Nat BY <1>2, <1>3
    <3>3. Len(log) \in Nat BY DEF LogOK
    <3> QED BY <2>3, <3>1, <3>2, <3>3
  <2>5. [M EXCEPT !.at[p] = log[c].files[p]] \in Ledgers(r) BY <1>3, <1>4, <2>4, PlacedIn
  <2>6. \A q \in Path \ {p} : [M EXCEPT !.at[p] = log[c].files[p]].at[q] = M.at[q]
    <3>1. M \in LedgerType BY <1>4 DEF Ledgers
    <3>2. M.at \in [Path -> 0..Len(log)] BY <3>1 DEF LedgerType
    <3>3. [M EXCEPT !.at[p] = log[c].files[p]].at = [M.at EXCEPT ![p] = log[c].files[p]]
      BY <3>1 DEF LedgerType
    <3> QED BY <3>2, <3>3
  <2> QED BY <1>4, <1>5, <1>7, <2>5, <2>6
<1> QED BY <1>6, <1>7

LEMMA SeededIs ==
  ASSUME Marks, NEW L \in LedgerType, NEW c \in 1..Len(log), NEW p \in Path,
         NEW stamp \in 0..env.writes, NEW w \in [Path -> 0..env.writes]
  PROVE  /\ Seeded(L, c, p, stamp, w) \in LedgerType
         /\ Seeded(L, c, p, stamp, w).at[p] = c
         /\ Seeded(L, c, p, stamp, w).last[p] = stamp
         /\ Seeded(L, c, p, stamp, w).respent => L.respent \/ stamp <= L.last[p]
         /\ \A q \in Path \ {p} : /\ Seeded(L, c, p, stamp, w).at[q] = L.at[q]
                                  /\ Seeded(L, c, p, stamp, w).tomb[q] = L.tomb[q]
                                  /\ Seeded(L, c, p, stamp, w).last[q] = L.last[q]
<1> DEFINE M == IF L.tomb[p] = None THEN L ELSE Tombstoned(L, p, w[p])
           N == [M EXCEPT !.at[p] = c, !.last[p] = stamp, !.respent = @ \/ stamp <= L.last[p]]
<1>1. w[p] \in Stamps BY DEF Stamps
<1>2. /\ M \in LedgerType /\ M.at = L.at /\ M.last = L.last /\ M.respent = L.respent
      /\ \A q \in Path \ {p} : M.tomb[q] = L.tomb[q]
  BY <1>1, TombstonedIs
<1>3. Seeded(L, c, p, stamp, w) = N BY DEF Seeded
<1> HIDE DEF M
<1>4. N = [M EXCEPT !.at = [M.at EXCEPT ![p] = c], !.last = [M.last EXCEPT ![p] = stamp],
                    !.respent = M.respent \/ stamp <= L.last[p]]
  BY <1>2 DEF LedgerType
<1> HIDE DEF N
<1>5. c \in 0..Len(log) /\ stamp \in Stamps BY DEF Stamps
<1>6. M.at \in [Path -> 0..Len(log)] /\ M.last \in [Path -> Stamps] /\ M.respent \in BOOLEAN
  BY <1>2 DEF LedgerType
<1>7. [M.at EXCEPT ![p] = c] \in [Path -> 0..Len(log)]
      /\ [M.last EXCEPT ![p] = stamp] \in [Path -> Stamps]
      /\ (M.respent \/ stamp <= L.last[p]) \in BOOLEAN
  BY <1>5, <1>6
<1>8. /\ N.at = [M.at EXCEPT ![p] = c] /\ N.last = [M.last EXCEPT ![p] = stamp]
      /\ N.respent = (M.respent \/ stamp <= L.last[p]) /\ N.tomb = M.tomb
  BY <1>2, <1>4 DEF LedgerType
<1>9. N \in LedgerType BY <1>2, <1>4, <1>7 DEF LedgerType
<1> QED BY <1>2, <1>3, <1>6, <1>8, <1>9

\* A seed on a write that is not spent.
LEMMA SeededIn ==
  ASSUME Marks, NEW r \in Root, NEW L \in Ledgers(r), NEW c \in 1..Len(log), NEW p \in Path,
         NEW stamp \in 0..env.writes, NEW w, Late(r, w),
         TwoCheckouts => stamp <= Stamp(r, Root, p) /\ L.last[p] < stamp
  PROVE  Seeded(L, c, p, stamp, w) \in Ledgers(r)
<1> DEFINE N == Seeded(L, c, p, stamp, w)
<1>0. L \in LedgerType /\ L.at \in [Path -> 0..Len(log)] /\ L.last \in [Path -> Stamps]
  BY DEF Ledgers, LedgerType
<1>1. /\ N \in LedgerType /\ N.at[p] = c /\ N.last[p] = stamp
      /\ N.respent => L.respent \/ stamp <= L.last[p]
      /\ \A q \in Path \ {p} : N.at[q] = L.at[q] /\ N.tomb[q] = L.tomb[q] /\ N.last[q] = L.last[q]
  <2>1. w \in [Path -> 0..env.writes] BY DEF Late
  <2> QED BY <1>0, <2>1, SeededIs
<1> HIDE DEF N
<1>2. c # 0 OBVIOUS
<1>3. ASSUME TwoCheckouts PROVE Unspent(r, N)
  <2>1. Unspent(r, L) BY <1>3 DEF Ledgers
  <2>2. ~N.respent
    <3>1. L.last[p] \in Int /\ stamp \in Int
      <4>1. L.last[p] \in Stamps BY <1>0
      <4>2. Stamps \subseteq Int BY DEF Stamps, None, Marks
      <4>3. stamp \in Stamps BY DEF Stamps
      <4> QED BY <4>1, <4>2, <4>3
    <3>2. ~(stamp <= L.last[p]) BY <1>3, <3>1
    <3> QED BY <1>1, <2>1, <3>2 DEF Unspent
  <2>3. \A q \in Path : N.last[q] <= Stamp(r, Root, q)
    <3>1. N.last[p] <= Stamp(r, Root, p) BY <1>1, <1>3
    <3> QED BY <1>1, <2>1, <3>1 DEF Unspent
  <2>4. \A q \in Path : N.at[q] = 0 => N.last[q] <= N.tomb[q]
    <3>1. N.at[p] # 0 BY <1>1, <1>2
    <3> QED BY <1>1, <2>1, <3>1 DEF Unspent
  <2> QED BY <2>2, <2>3, <2>4 DEF Unspent
<1>4. N \in Ledgers(r) BY <1>1, <1>3 DEF Ledgers
<1> QED BY <1>4 DEF N

-----------------------------------------------------------------------------
(* Where the spans stand.                                                   *)

\* A ledger but for its marks, its spans and what is said of them.
Alike(M, L) == M.branch = L.branch /\ M.adopting = L.adopting /\ M.missed = L.missed

\* The spans of p are moved to content a; all else but the marks stays.
Shifted(M, L, p, a) == Alike(M, L) /\ M.slid = L.slid /\ M.at = [L.at EXCEPT ![p] = a]

\* The spans of L stand in the content of commit k.
Placed(L, k) == \A p \in Path : L.at[p] # 0 => L.at[p] = log[k].files[p]

\* The files of commit c are those of its first parent and what it changes.
FilesOK(l, c) ==
  LET f == l[c].first
      s == l[c].change
  IN  f # 0 => IF s.kind = "merge"
               THEN \A p \in Path : l[c].files[p] \in {c, l[f].files[p]}
               ELSE Fits(s, l[f].files) /\ l[c].files = FilesAfter(s, l[f].files, c)

\* The chain of c is that of its first parent and c: a line of ancestors.
ChainOK(l, c) ==
  LET f == l[c].first
  IN  /\ 1 \in l[c].chain /\ c \in l[c].chain
      /\ f = 0 => c = 1
      /\ f # 0 => l[c].chain = l[f].chain \cup {c}
      /\ \A x, y \in l[c].chain : y <= x => y \in l[x].chain

ChainInv == \A c \in 1..Len(log) : /\ ChainOK(log, c) /\ FilesOK(log, c)
                                   /\ "merge" \notin env.may => log[c].reach = log[c].chain

\* The first and the last of some commits.
LEMMA LatestIn ==
  ASSUME LogOK, NEW S \in SUBSET (1..Len(log)), S # {}
  PROVE  /\ Max(S) \in S /\ \A x \in S : x <= Max(S)
         /\ Min(S) \in S /\ \A x \in S : Min(S) <= x
<1>1. Len(log) \in Nat BY DEF LogOK
<1>2. S \in SUBSET Nat /\ \A x \in S : x <= Len(log) BY <1>1
<1> QED BY <1>1, <1>2, MaxIs, MinIs

\* The line of ancestors of h: what is older than c in it is the line of c, and its
\* first parent is the last of that.
LEMMA Ancestors ==
  ASSUME LogOK, ChainInv, NEW h \in 1..Len(log), NEW c \in log[h].chain
  PROVE  /\ c \in 1..Len(log) /\ c <= h /\ 1 \in log[h].chain /\ h \in log[h].chain
         /\ c \in log[c].chain /\ c \in log[h].reach
         /\ log[c].chain \subseteq log[h].chain /\ log[c].reach \subseteq log[h].reach
         /\ \A z \in log[h].chain : z \in 1..Len(log) /\ (z <= c <=> z \in log[c].chain)
         /\ c # 1 => /\ log[c].first \in log[c].chain /\ log[c].first < c /\ log[c].first # 0
                     /\ \A z \in log[h].chain : z < c => z <= log[c].first
<1>0. Len(log) \in Nat /\ 1..Len(log) \subseteq Nat BY DEF LogOK
<1>1. ChainOK(log, h) /\ CommitOK(log, h) BY DEF ChainInv, LogOK
<1>2. 1..h \subseteq 1..Len(log) BY <1>0
<1>3. log[h].chain \subseteq 1..h BY <1>1 DEF CommitOK
<1>4. c \in 1..Len(log) /\ c <= h BY <1>2, <1>3
<1>5. ChainOK(log, c) /\ CommitOK(log, c) /\ FilesOK(log, c) BY <1>4 DEF ChainInv, LogOK
<1>6. log[c].chain \subseteq log[h].chain BY <1>1 DEF CommitOK
<1>7. c \in log[h].reach /\ log[c].reach \subseteq log[h].reach BY <1>1 DEF CommitOK
<1>8. ASSUME NEW z \in log[h].chain PROVE z \in 1..Len(log) /\ (z <= c <=> z \in log[c].chain)
  <2>1. z \in 1..Len(log) BY <1>2, <1>3
  <2>2. z <= c => z \in log[c].chain BY <1>1 DEF ChainOK
  <2>3. z \in log[c].chain => z <= c BY <1>5 DEF CommitOK
  <2> QED BY <2>1, <2>2, <2>3
<1>9. ASSUME c # 1
      PROVE  /\ log[c].first \in log[c].chain /\ log[c].first < c /\ log[c].first # 0
             /\ \A z \in log[h].chain : z < c => z <= log[c].first
  <2> DEFINE f == log[c].first
  <2>1. f # 0 /\ log[c].chain = log[f].chain \cup {c} BY <1>5, <1>9 DEF ChainOK
  <2>2. f < c /\ f \in log[c].reach /\ log[c].reach \subseteq 1..c BY <1>5, <2>1 DEF CommitOK
  <2>3. f \in 1..Len(log)
    <3>1. 1..c \subseteq 1..Len(log) BY <1>0, <1>4
    <3> QED BY <2>2, <3>1
  <2>4. f \in log[f].chain /\ log[f].chain \subseteq 1..f BY <2>3 DEF ChainInv, ChainOK, LogOK, CommitOK
  <2>5. ASSUME NEW z \in log[h].chain, z < c PROVE z <= f
    <3>1. z \in 1..Len(log) /\ (z <= c => z \in log[c].chain) BY <1>8
    <3>2. z <= c /\ z # c BY <1>0, <1>4, <2>5, <3>1
    <3>3. z \in log[f].chain BY <2>1, <3>1, <3>2
    <3> QED BY <2>4, <3>3
  <2> QED BY <2>1, <2>2, <2>4, <2>5
<1> QED BY <1>1, <1>4, <1>5, <1>6, <1>7, <1>8, <1>9 DEF ChainOK

\* A range of first parents: all of the line from some commit on, and not the first.
LEMMA RangeIs ==
  ASSUME LogOK, ChainInv, NEW K \in 1..Len(log), NEW h \in 1..Len(log)
  PROVE  /\ Chain(K, h) \subseteq log[h].chain /\ Chain(K, h) \subseteq 1..Len(log) /\ 1 \notin Chain(K, h)
         /\ \A x \in Chain(K, h) : \A z \in log[h].chain : x <= z => z \in Chain(K, h)
         /\ K \in log[h].chain => Chain(K, h) = {z \in log[h].chain : K < z}
<1>0. Len(log) \in Nat /\ 1..Len(log) \subseteq Nat BY DEF LogOK
<1>1. ChainOK(log, h) /\ CommitOK(log, h) /\ ChainOK(log, K) /\ CommitOK(log, K)
  BY DEF ChainInv, LogOK
<1>2. Chain(K, h) \subseteq log[h].chain /\ 1 \notin Chain(K, h) BY <1>1 DEF Chain, ChainOK, CommitOK
<1>3. log[h].chain \subseteq 1..Len(log)
  <2>1. 1..h \subseteq 1..Len(log) BY <1>0
  <2> QED BY <1>1, <2>1 DEF CommitOK
<1>4. ASSUME NEW x \in Chain(K, h), NEW z \in log[h].chain, x <= z PROVE z \in Chain(K, h)
  <2>1. x \in log[z].chain BY <1>1, <1>2, <1>4 DEF ChainOK
  <2>2. z \in 1..Len(log) BY <1>3
  <2>3. x \in log[z].reach BY <2>1, <2>2 DEF LogOK, CommitOK
  <2>4. z \in log[K].reach => x \in log[K].reach BY <1>1, <2>3 DEF CommitOK
  <2> QED BY <2>4 DEF Chain
<1>5. ASSUME K \in log[h].chain PROVE Chain(K, h) = {z \in log[h].chain : K < z}
  <2>1. ASSUME NEW z \in log[h].chain PROVE z \in log[K].reach <=> ~(K < z)
    <3>1. z \in 1..Len(log) BY <1>3
    <3>2. z \in log[K].reach => z <= K BY <1>1 DEF CommitOK
    <3>3. z <= K => z \in log[K].chain BY <1>1, <1>5 DEF ChainOK
    <3>4. log[K].chain \subseteq log[K].reach BY <1>1 DEF CommitOK
    <3> QED BY <1>0, <3>1, <3>2, <3>3, <3>4
  <2> QED BY <2>1 DEF Chain
<1> QED BY <1>2, <1>3, <1>4, <1>5

LEMMA TombstonedKeeps ==
  ASSUME NEW L \in LedgerType, NEW p \in Path, NEW stamp
  PROVE  /\ Alike(Tombstoned(L, p, stamp), L) /\ Tombstoned(L, p, stamp).slid = L.slid
         /\ Tombstoned(L, p, stamp).at = L.at
  BY DEF Tombstoned, LedgerType, Alike

\* The spans of a path went along to another.
Followed(M, L, from, to) ==
  /\ Alike(M, L) /\ M.slid = L.slid
  /\ M.at = IF L.at[from] = 0 THEN L.at ELSE [L.at EXCEPT ![from] = 0, ![to] = L.at[from]]

LEMMA CarriedKeeps ==
  ASSUME NEW L \in LedgerType, NEW from \in Path, NEW to \in Path, NEW w
  PROVE  Followed(Carried(L, from, to, w), L, from, to)
<1> DEFINE risen == Max({L.tomb[from], w[to]})
           follow == IF L.tomb[from] = None THEN L ELSE Tombstoned(L, to, risen)
           drop == Tombstoned(follow, from, w[from])
           Fields(M) == M = [branch |-> M.branch, adopting |-> M.adopting, at |-> M.at, tomb |-> M.tomb,
                             last |-> M.last, respent |-> M.respent, slid |-> M.slid, missed |-> M.missed]
           Keeps(M) == Alike(M, L) /\ M.slid = L.slid /\ M.at = L.at /\ Fields(M)
<1>1. Keeps(L) BY DEF LedgerType, Alike
<1>2. ASSUME NEW M, Keeps(M), NEW p \in Path, NEW stamp PROVE Keeps(Tombstoned(M, p, stamp))
  BY <1>2 DEF Tombstoned, Alike
<1> HIDE DEF Keeps, risen
<1>3. Keeps(follow) BY <1>1, <1>2
<1>4. Carried(L, from, to, w) = IF L.at[from] = 0 THEN follow
                                ELSE [drop EXCEPT !.at[from] = 0, !.at[to] = L.at[from]]
  BY DEF Carried, risen
<1> HIDE DEF follow
<1>5. Keeps(drop) BY <1>2, <1>3
<1> HIDE DEF drop
<1>6. CASE L.at[from] = 0 BY <1>3, <1>4, <1>6 DEF Keeps, Followed
<1>7. CASE L.at[from] # 0
  <2> DEFINE N == [drop EXCEPT !.at = [drop.at EXCEPT ![from] = 0, ![to] = L.at[from]]]
  <2>1. Carried(L, from, to, w) = N BY <1>4, <1>5, <1>7 DEF Keeps
  <2>2. Alike(N, L) /\ N.slid = L.slid /\ N.at = [drop.at EXCEPT ![from] = 0, ![to] = L.at[from]]
    BY <1>5 DEF Keeps, Alike
  <2>3. drop.at = L.at BY <1>5 DEF Keeps
  <2> QED BY <1>7, <2>1, <2>2, <2>3 DEF Followed
<1> QED BY <1>6, <1>7

\* Where the hunks of c leave the spans of p.
Left(c, p) == IF log[c].change.kind \in {"rewrite", "delete"} THEN 0 ELSE log[c].files[p]

LEMMA RemappedKeeps ==
  ASSUME NEW L \in LedgerType, NEW c \in 1..Len(log), NEW p \in Path, NEW w
  PROVE  /\ Alike(Remapped(L, c, p, w), L)
         /\ L.at[p] = log[log[c].first].files[p] => Remapped(L, c, p, w).slid = L.slid
         /\ Remapped(L, c, p, w).at = [L.at EXCEPT ![p] = Left(c, p)]
<1> DEFINE bad == L.slid \/ L.at[p] # log[log[c].first].files[p]
           M == [L EXCEPT !.slid = bad]
           T == Tombstoned(M, p, w[p])
           rewritten == log[c].change.kind \in {"rewrite", "delete"}
           to == log[c].files[p]
<1>1. L.slid \in BOOLEAN BY DEF LedgerType
<1>2. L.at[p] = log[log[c].first].files[p] => bad = L.slid BY <1>1
<1>3. Remapped(L, c, p, w) = IF rewritten THEN [T EXCEPT !.at[p] = 0] ELSE [M EXCEPT !.at[p] = to]
  BY DEF Remapped, LedgerType
<1>4. bad \in BOOLEAN BY <1>1
<1> HIDE DEF bad, rewritten, to
<1>5. M \in LedgerType /\ Alike(M, L) /\ M.slid = bad /\ M.at = L.at BY <1>4 DEF LedgerType, Alike
<1> HIDE DEF M
<1>6. /\ [M EXCEPT !.at[p] = to].at = [M.at EXCEPT ![p] = to]
      /\ Alike([M EXCEPT !.at[p] = to], M) /\ [M EXCEPT !.at[p] = to].slid = M.slid
  BY <1>5 DEF LedgerType, Alike
<1>7. /\ [T EXCEPT !.at[p] = 0].at = [M.at EXCEPT ![p] = 0]
      /\ Alike([T EXCEPT !.at[p] = 0], M) /\ [T EXCEPT !.at[p] = 0].slid = M.slid
  BY <1>5 DEF Tombstoned, LedgerType, Alike
<1> HIDE DEF T
<1>8. CASE rewritten BY <1>2, <1>3, <1>5, <1>7, <1>8 DEF Alike, rewritten, Left
<1>9. CASE ~rewritten BY <1>2, <1>3, <1>5, <1>6, <1>9 DEF Alike, rewritten, to, Left
<1> QED BY <1>8, <1>9

LEMMA SeededKeeps ==
  ASSUME NEW L \in LedgerType, NEW c \in 1..Len(log), NEW p \in Path, NEW stamp \in 0..env.writes,
         NEW w \in [Path -> 0..env.writes]
  PROVE  Shifted(Seeded(L, c, p, stamp, w), L, p, c)
<1> DEFINE T == Tombstoned(L, p, w[p])
           M == IF L.tomb[p] = None THEN L ELSE T
           Fields(N) == N = [branch |-> N.branch, adopting |-> N.adopting, at |-> N.at, tomb |-> N.tomb,
                             last |-> N.last, respent |-> N.respent, slid |-> N.slid, missed |-> N.missed]
<1>1. Fields(L) BY DEF LedgerType
<1>2. Alike(T, L) /\ T.slid = L.slid /\ T.at = L.at /\ Fields(T)
  <2> DEFINE up == Max({L.tomb[p], w[p]})
  <2>1. T = [L EXCEPT !.tomb = [L.tomb EXCEPT ![p] = up]] BY <1>1 DEF Tombstoned
  <2> HIDE DEF up, T
  <2> QED BY <1>1, <2>1 DEF Alike
<1> HIDE DEF T
<1>3. Alike(M, L) /\ M.slid = L.slid /\ M.at = L.at /\ Fields(M) BY <1>1, <1>2 DEF Alike
<1>4. Seeded(L, c, p, stamp, w) =
        [M EXCEPT !.at[p] = c, !.last[p] = stamp, !.respent = @ \/ stamp <= L.last[p]]
  BY DEF Seeded, T
<1> HIDE DEF M
<1> DEFINE N == [M EXCEPT !.at[p] = c, !.last[p] = stamp, !.respent = @ \/ stamp <= L.last[p]]
<1>5. Alike(N, M) /\ N.slid = M.slid /\ N.at = [M.at EXCEPT ![p] = c] BY <1>3 DEF Alike
<1> QED BY <1>3, <1>4, <1>5 DEF Alike, Shifted

-----------------------------------------------------------------------------
(* The folds.                                                               *)

Remaps(L, c, hit, w) == FoldSet(LAMBDA p, M : Remapped(M, c, p, w), L, hit)
Seeds(L, r, c, lin, fresh, w) == FoldSet(LAMBDA p, M : Seeded(M, c, p, SeedStamp(r, lin, c, p), w), L, fresh)

LEMMA HunksAre ==
  ASSUME LogOK, NEW c \in 1..Len(log)
  PROVE  Added(c) \subseteq Hunked(c) /\ Hunked(c) \subseteq Path
<1>1. log[c] \in CommitType BY DEF LogOK
<1>2. log[c].change \in ChangeType BY <1>1 DEF CommitType
<1> QED BY <1>2 DEF Added, Hunked, ChangeType

\* The paths that are hit are remapped, no other is moved.
LEMMA RemapFold ==
  ASSUME Marks, LogOK, NEW r \in Root, NEW L \in Ledgers(r), NEW c \in 1..Len(log),
         NEW w, Late(r, w), NEW hit \in SUBSET Hunked(c), IsFiniteSet(hit)
  PROVE  /\ Remaps(L, c, hit, w) \in Ledgers(r) /\ Alike(Remaps(L, c, hit, w), L)
         /\ \A q \in Path \ hit : Remaps(L, c, hit, w).at[q] = L.at[q]
         /\ \A q \in hit : Remaps(L, c, hit, w).at[q] \in {0, log[c].files[q]}
         /\ (\A q \in hit : L.at[q] = log[log[c].first].files[q]) => Remaps(L, c, hit, w).slid = L.slid
<1> DEFINE ch == [s \in SUBSET hit |-> CHOOSE x \in s : TRUE]
           G == [x \in hit \X Ledgers(r) |-> Remapped(x[2], c, x[1], w)]
           Folds(F) == F = [s \in SUBSET hit |->
                              IF s = {} THEN L
                              ELSE Remapped(F[s \ {CHOOSE x \in s : TRUE}], c, CHOOSE x \in s : TRUE, w)]
           it == CHOOSE F : Folds(F)
           InStep == \A q \in hit : L.at[q] = log[log[c].first].files[q]
           Moved(M, s) == /\ Alike(M, L) /\ (InStep => M.slid = L.slid)
                          /\ \A q \in Path \ s : M.at[q] = L.at[q]
                          /\ \A q \in s : M.at[q] \in {0, log[c].files[q]}
           T == [s \in SUBSET hit |-> {M \in Ledgers(r) : Moved(M, s)}]
<1>1. \A s \in SUBSET hit : s # {} => ch[s] \in s OBVIOUS
<1>2. \A x \in hit : \A M \in Ledgers(r) : Remapped(M, c, x, w) \in Ledgers(r)
  BY RemappedIn
<1>3. \A x \in hit : \A M \in Ledgers(r) : G[<<x, M>>] = Remapped(M, c, x, w) OBVIOUS
<1>4. PICK F \in [SUBSET hit -> Ledgers(r)] :
        \A s \in SUBSET hit : F[s] = IF s = {} THEN L ELSE G[<<ch[s], F[s \ {ch[s]}]>>]
  <2>1. \A x \in hit : \A M \in Ledgers(r) : G[<<x, M>>] \in Ledgers(r) BY <1>2, <1>3
  <2> DEFINE T0 == Ledgers(r)
  <2>2. L \in T0 OBVIOUS
  <2>3. \A x \in hit : \A M \in T0 : G[<<x, M>>] \in T0 BY <2>1
  <2>4. \A s \in SUBSET hit : s # {} => ch[s] \in s BY <1>1
  <2> HIDE DEF ch, G, T0
  <2>5. HasFold(hit, T0, L, ch, G) BY <2>2, <2>3, <2>4, FoldExists
  <2> QED BY <2>5 DEF T0, HasFold
<1>5. Folds(F)
  <2>1. \A s \in SUBSET hit : s # {} => F[s] = Remapped(F[s \ {ch[s]}], c, ch[s], w)
    <3> HIDE DEF ch, G
    <3> SUFFICES ASSUME NEW s \in SUBSET hit, s # {} PROVE F[s] = Remapped(F[s \ {ch[s]}], c, ch[s], w)
      OBVIOUS
    <3>1. ch[s] \in hit /\ s \ {ch[s]} \in SUBSET hit BY <1>1
    <3>2. F[s \ {ch[s]}] \in Ledgers(r) BY <3>1
    <3>3. F[s] = G[<<ch[s], F[s \ {ch[s]}]>>] BY <1>4
    <3> QED BY <1>3, <3>1, <3>2, <3>3
  <2>2. \A s \in SUBSET hit : ch[s] = CHOOSE x \in s : TRUE OBVIOUS
  <2>3. F[{}] = L BY <1>4
  <2> HIDE DEF ch, G
  <2> QED BY <2>1, <2>2, <2>3
<1>6. Folds(it)
  <2> HIDE DEF Folds
  <2> QED BY <1>5
<1>7. Remaps(L, c, hit, w) = it[hit] BY DEF Remaps, FoldSet, MapThenFoldSet
<1> HIDE DEF it
<1>8. it[{}] = L BY <1>6
<1>9. \A s \in SUBSET hit : s # {} => it[s] = Remapped(it[s \ {ch[s]}], c, ch[s], w) BY <1>6
<1>10. it[{}] \in T[{}] BY <1>8 DEF Alike
<1>11. \A s \in SUBSET hit : s # {} => ch[s] \in s /\ (it[s \ {ch[s]}] \in T[s \ {ch[s]}] => it[s] \in T[s])
  <2> SUFFICES ASSUME NEW s \in SUBSET hit, s # {}, it[s \ {ch[s]}] \in T[s \ {ch[s]}]
               PROVE  it[s] \in T[s]
    BY <1>1
  <2> DEFINE x == ch[s]
             M == it[s \ {x}]
  <2>1. x \in s /\ x \in hit /\ s \ {x} \in SUBSET hit BY <1>1
  <2> HIDE DEF ch
  <2>2. M \in Ledgers(r) /\ Moved(M, s \ {x}) BY <2>1
  <2>3. it[s] = Remapped(M, c, x, w) BY <1>9
  <2> HIDE DEF x, M, InStep
  <2>4. /\ Remapped(M, c, x, w) \in Ledgers(r)
        /\ \A q \in Path \ {x} : Remapped(M, c, x, w).at[q] = M.at[q]
    BY <2>1, <2>2, RemappedIn
  <2>5. M \in LedgerType /\ x \in Path BY <2>1, <2>2, HunksAre DEF Ledgers
  <2>6. /\ Alike(Remapped(M, c, x, w), M)
        /\ M.at[x] = log[log[c].first].files[x] => Remapped(M, c, x, w).slid = M.slid
        /\ Remapped(M, c, x, w).at = [M.at EXCEPT ![x] = Left(c, x)]
    BY <2>5, RemappedKeeps
  <2>7. Remapped(M, c, x, w).at[x] = Left(c, x) BY <2>5, <2>6 DEF LedgerType
  <2>8. Left(c, x) \in {0, log[c].files[x]} BY DEF Left
  <2>9. Alike(Remapped(M, c, x, w), L) BY <2>2, <2>6 DEF Alike
  <2>10. ASSUME InStep PROVE Remapped(M, c, x, w).slid = L.slid
    <3>1. M.at[x] = L.at[x] BY <2>1, <2>2, <2>5
    <3> QED BY <2>1, <2>2, <2>6, <2>10, <3>1 DEF InStep
  <2>11. \A q \in Path \ s : Remapped(M, c, x, w).at[q] = L.at[q] BY <2>1, <2>2, <2>4
  <2>12. \A q \in s : Remapped(M, c, x, w).at[q] \in {0, log[c].files[q]}
    <3> SUFFICES ASSUME NEW q \in s PROVE Remapped(M, c, x, w).at[q] \in {0, log[c].files[q]} OBVIOUS
    <3>1. CASE q = x BY <2>7, <2>8, <3>1
    <3>2. CASE q # x
      <4>1. q \in Path /\ q \in s \ {x} BY <3>2, HunksAre
      <4> QED BY <2>2, <2>4, <3>2, <4>1
    <3> QED BY <3>1, <3>2
  <2>13. Moved(Remapped(M, c, x, w), s) BY <2>9, <2>10, <2>11, <2>12
  <2> HIDE DEF Moved
  <2> QED BY <2>3, <2>4, <2>13
<1>12. it[hit] \in T[hit]
  <2> HIDE DEF T, ch
  <2> QED BY <1>10, <1>11, FoldStays
<1>13. it[hit] \in Ledgers(r) /\ Moved(it[hit], hit)
  <2> HIDE DEF Moved
  <2> QED BY <1>12
<1> QED BY <1>7, <1>13

\* Spans of c stand in the paths of S.
Sown(M, L, S, c) == /\ Alike(M, L) /\ M.slid = L.slid
                    /\ \A q \in S : M.at[q] = c
                    /\ \A q \in Path \ S : M.at[q] = L.at[q]

\* Each path is seeded on a write that its tombstone, as the fold finds it, lets through.
LEMMA SeedFold ==
  ASSUME Marks, NEW r \in Root, NEW L \in Ledgers(r), NEW c \in 1..Len(log),
         NEW w, Late(r, w), NEW fresh \in SUBSET Path, NEW lin,
         \A p \in fresh : L.at[p] = 0 /\ SeedStamp(r, lin, c, p) # 0 /\ Authorized(L, p, SeedStamp(r, lin, c, p))
  PROVE  /\ Seeds(L, r, c, lin, fresh, w) \in Ledgers(r)
         /\ Sown(Seeds(L, r, c, lin, fresh, w), L, fresh, c)
<1> DEFINE ch == [s \in SUBSET fresh |-> CHOOSE x \in s : TRUE]
           Kept(M, p) == M.at[p] = L.at[p] /\ M.tomb[p] = L.tomb[p]
           Still == [s \in SUBSET fresh |-> {M \in Ledgers(r) : /\ \A p \in fresh \ s : Kept(M, p)
                                                              /\ Sown(M, L, s, c)}]
           Folds(F) == F = [s \in SUBSET fresh |->
                              IF s = {} THEN L
                              ELSE Seeded(F[s \ {CHOOSE x \in s : TRUE}], c, CHOOSE x \in s : TRUE,
                                          SeedStamp(r, lin, c, CHOOSE x \in s : TRUE), w)]
           it == CHOOSE F : Folds(F)
           G == [x \in fresh \X LedgerType |-> Seeded(x[2], c, x[1], SeedStamp(r, lin, c, x[1]), w)]
<1>0. IsFiniteSet(fresh) BY GitWatchAssumption, FS_Subset
<1>1. \A s \in SUBSET fresh : s # {} => ch[s] \in s OBVIOUS
<1>2. ASSUME NEW p \in fresh, NEW M \in Ledgers(r), Kept(M, p)
      PROVE  /\ Seeded(M, c, p, SeedStamp(r, lin, c, p), w) \in Ledgers(r)
             /\ \A q \in fresh \ {p} : /\ Seeded(M, c, p, SeedStamp(r, lin, c, p), w).at[q] = M.at[q]
                                       /\ Seeded(M, c, p, SeedStamp(r, lin, c, p), w).tomb[q] = M.tomb[q]
  <2> DEFINE stamp == SeedStamp(r, lin, c, p)
  <2>1. stamp \in 0..env.writes /\ (TwoCheckouts => stamp <= Stamp(r, Root, p)) BY WriteStampIs
  <2>2. M \in LedgerType BY DEF Ledgers
  <2>3. ASSUME TwoCheckouts PROVE M.last[p] < stamp
    <3>1. M.at[p] = 0 /\ Authorized(M, p, stamp)
      <4>1. L.at[p] = 0 /\ Authorized(L, p, stamp) BY <1>2
      <4> QED BY <1>2, <4>1 DEF Authorized
    <3>2. stamp # 0 BY <1>2
    <3>3. M.last[p] <= M.tomb[p] BY <2>3, <3>1 DEF Ledgers, Unspent
    <3>4. M.last[p] \in Int /\ M.tomb[p] \in Int /\ stamp \in Nat
      <4>1. M.last[p] \in Stamps /\ M.tomb[p] \in Stamps BY <2>2 DEF LedgerType
      <4>2. Stamps \subseteq Int BY DEF Stamps, None, Marks
      <4>3. 0..env.writes \subseteq Nat BY DEF Marks
      <4> QED BY <2>1, <4>1, <4>2, <4>3
    <3>5. CASE M.tomb[p] = None
      <4> HIDE DEF stamp
      <4> QED BY <3>3, <3>4, <3>5 DEF None
    <3>6. CASE M.tomb[p] # None
      <4>1. M.tomb[p] < stamp BY <3>1, <3>4, <3>6 DEF Authorized
      <4> HIDE DEF stamp
      <4> QED BY <3>3, <3>4, <4>1
    <3> QED BY <3>5, <3>6
  <2> HIDE DEF stamp
  <2>4. Seeded(M, c, p, stamp, w) \in Ledgers(r) BY <2>1, <2>3, SeededIn
  <2>5. \A q \in Path \ {p} : /\ Seeded(M, c, p, stamp, w).at[q] = M.at[q]
                               /\ Seeded(M, c, p, stamp, w).tomb[q] = M.tomb[q]
    <3>1. w \in [Path -> 0..env.writes] BY DEF Late
    <3> QED BY <2>1, <2>2, <3>1, SeededIs
  <2> QED BY <2>4, <2>5 DEF stamp
<1>3. \A x \in fresh : \A M \in LedgerType :
        Seeded(M, c, x, SeedStamp(r, lin, c, x), w) \in LedgerType
  <2> SUFFICES ASSUME NEW x \in fresh, NEW M \in LedgerType
               PROVE  Seeded(M, c, x, SeedStamp(r, lin, c, x), w) \in LedgerType
    OBVIOUS
  <2>1. SeedStamp(r, lin, c, x) \in 0..env.writes BY WriteStampIs
  <2>2. w \in [Path -> 0..env.writes] BY DEF Late
  <2> QED BY <2>1, <2>2, SeededIs
<1>4. \A x \in fresh : \A M \in LedgerType : G[<<x, M>>] = Seeded(M, c, x, SeedStamp(r, lin, c, x), w)
  OBVIOUS
<1>5. L \in LedgerType BY DEF Ledgers
<1>6. PICK F \in [SUBSET fresh -> LedgerType] :
        \A s \in SUBSET fresh : F[s] = IF s = {} THEN L ELSE G[<<ch[s], F[s \ {ch[s]}]>>]
  <2>1. \A x \in fresh : \A M \in LedgerType : G[<<x, M>>] \in LedgerType BY <1>3, <1>4
  <2> DEFINE T0 == LedgerType
  <2>2. L \in T0 BY <1>5
  <2>3. \A x \in fresh : \A M \in T0 : G[<<x, M>>] \in T0 BY <2>1
  <2>4. \A s \in SUBSET fresh : s # {} => ch[s] \in s BY <1>1
  <2> HIDE DEF ch, G, T0
  <2>5. HasFold(fresh, T0, L, ch, G) BY <1>0, <2>2, <2>3, <2>4, FoldExists
  <2> QED BY <2>5 DEF T0, HasFold
<1>7. Folds(F)
  <2>1. \A s \in SUBSET fresh : s # {} =>
          F[s] = Seeded(F[s \ {ch[s]}], c, ch[s], SeedStamp(r, lin, c, ch[s]), w)
    <3> HIDE DEF ch, G
    <3> SUFFICES ASSUME NEW s \in SUBSET fresh, s # {}
                 PROVE  F[s] = Seeded(F[s \ {ch[s]}], c, ch[s], SeedStamp(r, lin, c, ch[s]), w)
      OBVIOUS
    <3>1. ch[s] \in fresh /\ s \ {ch[s]} \in SUBSET fresh BY <1>1
    <3>2. F[s \ {ch[s]}] \in LedgerType BY <3>1
    <3>3. F[s] = G[<<ch[s], F[s \ {ch[s]}]>>] BY <1>6
    <3> QED BY <1>4, <3>1, <3>2, <3>3
  <2>2. \A s \in SUBSET fresh : ch[s] = CHOOSE x \in s : TRUE OBVIOUS
  <2>3. F[{}] = L BY <1>6
  <2> HIDE DEF ch, G
  <2> QED BY <2>1, <2>2, <2>3
<1>8. Folds(it)
  <2> HIDE DEF Folds
  <2> QED BY <1>7
<1>9. Seeds(L, r, c, lin, fresh, w) = it[fresh]
  BY DEF Seeds, FoldSet, MapThenFoldSet
<1> HIDE DEF it
<1>10. it[{}] = L BY <1>8
<1>11. \A s \in SUBSET fresh : s # {} =>
         it[s] = Seeded(it[s \ {ch[s]}], c, ch[s], SeedStamp(r, lin, c, ch[s]), w)
  BY <1>8
<1>12. it[{}] \in Still[{}] BY <1>10 DEF Alike, Sown
<1>13. \A s \in SUBSET fresh : s # {} =>
         ch[s] \in s /\ (it[s \ {ch[s]}] \in Still[s \ {ch[s]}] => it[s] \in Still[s])
  <2> SUFFICES ASSUME NEW s \in SUBSET fresh, s # {}, it[s \ {ch[s]}] \in Still[s \ {ch[s]}]
               PROVE  it[s] \in Still[s]
    BY <1>1
  <2> DEFINE x == ch[s]
             M == it[s \ {x}]
             N == Seeded(M, c, x, SeedStamp(r, lin, c, x), w)
  <2>1. x \in s /\ x \in fresh /\ s \ {x} \in SUBSET fresh BY <1>1
  <2> HIDE DEF ch
  <2>2. M \in Ledgers(r) /\ (\A q \in fresh \ (s \ {x}) : Kept(M, q)) /\ Sown(M, L, s \ {x}, c) BY <2>1
  <2>3. it[s] = N BY <1>11
  <2>4. Kept(M, x) BY <2>1, <2>2
  <2>5. N \in Ledgers(r) /\ \A q \in fresh \ {x} : N.at[q] = M.at[q] /\ N.tomb[q] = M.tomb[q]
    <3> HIDE DEF x, M, Kept
    <3> QED BY <1>2, <2>1, <2>2, <2>4
  <2>6. Sown(N, L, s, c)
    <3> DEFINE stamp == SeedStamp(r, lin, c, x)
    <3>1. M \in LedgerType /\ x \in Path /\ stamp \in 0..env.writes /\ w \in [Path -> 0..env.writes]
      <4> HIDE DEF x, M
      <4> QED BY <2>1, <2>2, WriteStampIs DEF Ledgers, Late
    <3> HIDE DEF x, M, stamp
    <3> DEFINE S == Seeded(M, c, x, stamp, w)
    <3>a. Shifted(S, M, x, c) BY <3>1, SeededKeeps
    <3> HIDE DEF S
    <3>2. Alike(S, M) /\ S.slid = M.slid /\ S.at = [M.at EXCEPT ![x] = c] BY <3>a DEF Shifted
    <3>3. \A q \in Path : S.at[q] = IF q = x THEN c ELSE M.at[q]
      <4>1. M.at \in [Path -> 0..Len(log)] BY <3>1 DEF LedgerType
      <4> QED BY <3>1, <3>2, <4>1
    <3>4. Sown(S, L, s, c)
      <4>1. Alike(S, L) /\ S.slid = L.slid BY <2>2, <3>2 DEF Alike, Sown
      <4>2. \A q \in s : S.at[q] = c BY <2>2, <3>3 DEF Sown
      <4>3. \A q \in Path \ s : S.at[q] = L.at[q] BY <2>1, <2>2, <3>3 DEF Sown
      <4> QED BY <4>1, <4>2, <4>3 DEF Sown
    <3> QED BY <3>4 DEF S, stamp
  <2> HIDE DEF x, M, N
  <2>7. \A q \in fresh \ s : Kept(N, q) BY <2>1, <2>2, <2>5
  <2> HIDE DEF Kept
  <2> QED BY <2>3, <2>5, <2>6, <2>7
<1>14. it[fresh] \in Still[fresh]
  <2> HIDE DEF Still, ch
  <2> QED BY <1>0, <1>12, <1>13, FoldStays
<1>15. it[fresh] \in Ledgers(r) /\ Sown(it[fresh], L, fresh, c)
  <2> QED BY <1>14
<1> QED BY <1>9, <1>15

\* Folding a commit keeps a ledger sound, and takes spans that stand in the content of
\* its first parent to its own.
LEMMA FoldIn ==
  ASSUME Marks, LogOK, NEW r \in Root, NEW L \in Ledgers(r), NEW c \in 1..Len(log), NEW lin, NEW seeds
  PROVE  /\ Fold(L, r, c, lin, seeds) \in Ledgers(r) /\ Alike(Fold(L, r, c, lin, seeds), L)
         /\ FilesOK(log, c) /\ log[c].first # 0 /\ Placed(L, log[c].first) =>
              Fold(L, r, c, lin, seeds).slid = L.slid /\ Placed(Fold(L, r, c, lin, seeds), c)
<1> DEFINE s     == log[c].change
           w     == [p \in Path |-> WriteStamp(r, lin, c, p)]
           moved == IF s.kind = "rename" THEN Carried(L, s.path, s.to, w) ELSE L
           hit   == {p \in Hunked(c) : moved.at[p] # 0}
           after == Remaps(moved, c, hit, w)
           fresh == {p \in Added(c) \ hit : /\ seeds /\ SeedStamp(r, lin, c, p) # 0
                                            /\ Authorized(after, p, SeedStamp(r, lin, c, p))}
<1>1. Fold(L, r, c, lin, seeds) = Seeds(after, r, c, lin, fresh, w) BY DEF Fold, Remaps, Seeds
<1>2. Late(r, w)
  <2>1. \A p \in Path : WriteStamp(r, lin, c, p) \in 0..env.writes
                        /\ Stamp(r, Root, p) <= WriteStamp(r, lin, c, p)
    BY WriteStampIs
  <2> QED BY <2>1 DEF Late
<1>3. s.path \in Path /\ s.to \in Path
  <2>1. log[c] \in CommitType BY DEF LogOK
  <2>2. s \in ChangeType BY <2>1 DEF CommitType
  <2> HIDE DEF s
  <2> QED BY <2>2 DEF ChangeType
<1> DEFINE files == log[c].files
           past == log[log[c].first].files
           renamed == s.kind = "rename"
<1>11. FilesOK(log, c) /\ log[c].first # 0 =>
         /\ s.kind = "merge" => \A q \in Path : files[q] = c \/ files[q] = past[q]
         /\ s.kind \in {"add", "rewrite"} => files = [past EXCEPT ![s.path] = c]
         /\ s.kind = "delete" => files = [past EXCEPT ![s.path] = 0]
         /\ renamed => /\ files = [past EXCEPT ![s.path] = 0, ![s.to] = past[s.path]]
                       /\ s.path # s.to /\ past[s.to] = 0
  BY DEF FilesOK, Fits, FilesAfter
<1>12. /\ s.kind \in {"add", "rewrite", "delete", "rename", "merge"}
       /\ s.kind = "rename" => Hunked(c) = {}
       /\ s.kind = "merge" => Hunked(c) = {q \in Path : files[q] # past[q]}
       /\ s.kind \in {"add", "rewrite", "delete"} => Hunked(c) = {s.path}
       /\ s.kind = "delete" => Added(c) = {}
  <2>1. log[c] \in CommitType BY DEF LogOK
  <2>2. s \in ChangeType BY <2>1 DEF CommitType
  <2> QED BY <2>2 DEF ChangeType, Hunked, Added
<1>13. log[c].first # 0 => past \in [Path -> Nat]
  <2> SUFFICES ASSUME log[c].first # 0 PROVE past \in [Path -> Nat] OBVIOUS
  <2>1. log[c].first \in log[c].reach /\ log[c].reach \subseteq 1..c /\ Len(log) \in Nat
    BY DEF LogOK, CommitOK
  <2>2. log[c].first \in 1..Len(log) BY <2>1
  <2>3. log[log[c].first] \in CommitType BY <2>2 DEF LogOK
  <2> QED BY <2>3 DEF CommitType
<1>a. Added(c) \subseteq Hunked(c) BY HunksAre
<1> HIDE DEF w, files, past
<1>4. moved \in Ledgers(r)
  <2> HIDE DEF s
  <2> QED BY <1>2, <1>3, CarriedIn
<1>14. /\ Alike(moved, L) /\ moved.slid = L.slid
       /\ ~renamed => moved = L
       /\ renamed => moved.at = IF L.at[s.path] = 0 THEN L.at
                                ELSE [L.at EXCEPT ![s.path] = 0, ![s.to] = L.at[s.path]]
  <2> HIDE DEF s
  <2>1. L \in LedgerType BY DEF Ledgers
  <2>2. CASE renamed
    <3>1. moved = Carried(L, s.path, s.to, w) BY <2>2
    <3>2. Followed(moved, L, s.path, s.to) BY <1>3, <2>1, <3>1, CarriedKeeps
    <3> QED BY <2>2, <3>2 DEF Followed
  <2>3. CASE ~renamed BY <2>3 DEF Alike
  <2> QED BY <2>2, <2>3
<1> HIDE DEF s, moved
<1>5. hit \in SUBSET Hunked(c) /\ hit \in SUBSET Path /\ IsFiniteSet(hit)
  <2>1. hit \in SUBSET Hunked(c) /\ hit \in SUBSET Path BY HunksAre
  <2> HIDE DEF hit
  <2> QED BY <2>1, GitWatchAssumption, FS_Subset
<1>6. \A p \in Added(c) \ hit : p \in Path /\ moved.at[p] = 0 BY HunksAre
<1>15. \A q \in hit : q \in Hunked(c) /\ moved.at[q] # 0 OBVIOUS
<1>16. \A q \in Path \ hit : q \in Hunked(c) => moved.at[q] = 0 OBVIOUS
<1> HIDE DEF hit
<1>7. /\ after \in Ledgers(r) /\ \A q \in Path \ hit : after.at[q] = moved.at[q]
      /\ Alike(after, moved) /\ \A q \in hit : after.at[q] \in {0, log[c].files[q]}
      /\ (\A q \in hit : moved.at[q] = log[log[c].first].files[q]) => after.slid = moved.slid
  BY <1>2, <1>4, <1>5, RemapFold
<1> HIDE DEF after
<1>8. fresh \in SUBSET Path BY <1>6
<1>9. \A p \in fresh : /\ after.at[p] = 0 /\ SeedStamp(r, lin, c, p) # 0
                       /\ Authorized(after, p, SeedStamp(r, lin, c, p))
  BY <1>6, <1>7
<1>17. \A q \in fresh : q \in Added(c) OBVIOUS
<1> HIDE DEF fresh
<1> DEFINE N == Seeds(after, r, c, lin, fresh, w)
<1>10. /\ N \in Ledgers(r) /\ Alike(N, after) /\ N.slid = after.slid
       /\ \A q \in fresh : N.at[q] = c
       /\ \A q \in Path \ fresh : N.at[q] = after.at[q]
  <2>1. N \in Ledgers(r) /\ Sown(N, after, fresh, c) BY <1>2, <1>7, <1>8, <1>9, SeedFold
  <2> QED BY <2>1 DEF Sown
<1> HIDE DEF N
<1>18. Alike(N, L) BY <1>7, <1>10, <1>14 DEF Alike
<1>19. ASSUME FilesOK(log, c), log[c].first # 0, Placed(L, log[c].first)
       PROVE  N.slid = L.slid /\ Placed(N, c)
  <2>1. \A q \in Path : L.at[q] # 0 => L.at[q] = past[q] BY <1>19 DEF Placed, past
  <2>2. \A q \in hit : moved.at[q] = past[q]
    <3> SUFFICES ASSUME NEW q \in hit PROVE moved.at[q] = past[q] OBVIOUS
    <3>1. ~renamed BY <1>12, <1>15
    <3>2. q \in Path /\ L.at[q] # 0 BY <1>5, <1>14, <1>15, <3>1
    <3> QED BY <1>14, <2>1, <3>1, <3>2
  <2>3. N.slid = L.slid BY <1>7, <1>10, <1>14, <2>2 DEF past
  <2>4. ASSUME NEW q \in Path, N.at[q] # 0 PROVE N.at[q] = files[q]
    <3>1. CASE q \in fresh
      <4>1. N.at[q] = c /\ q \in Added(c) /\ q \in Hunked(c) BY <1>10, <1>17, <1>a, <3>1
      <4>2. s.kind \in {"add", "rewrite", "merge"} BY <1>12, <4>1
      <4>3. CASE s.kind = "merge" BY <1>11, <1>12, <1>19, <4>1, <4>3
      <4>4. CASE s.kind \in {"add", "rewrite"} BY <1>3, <1>11, <1>12, <1>13, <1>19, <4>1, <4>4
      <4> QED BY <4>2, <4>3, <4>4
    <3>2. CASE q \notin fresh /\ q \in hit BY <1>7, <1>10, <2>4, <3>2 DEF files
    <3>3. CASE q \notin fresh /\ q \notin hit
      <4>1. N.at[q] = moved.at[q] /\ q \notin Hunked(c) BY <1>7, <1>10, <1>16, <2>4, <3>3
      <4>2. CASE ~renamed
        <5>1. N.at[q] = past[q] BY <1>14, <2>1, <2>4, <4>1, <4>2
        <5>2. CASE s.kind = "merge" BY <1>12, <4>1, <5>1, <5>2
        <5>3. CASE s.kind \in {"add", "rewrite"} BY <1>11, <1>12, <1>13, <1>19, <4>1, <5>1, <5>3
        <5>4. CASE s.kind = "delete" BY <1>11, <1>12, <1>13, <1>19, <4>1, <5>1, <5>4
        <5> QED BY <1>12, <4>2, <5>2, <5>3, <5>4
      <4>3. CASE renamed
        <5>1. L.at \in [Path -> 0..Len(log)] BY DEF Ledgers, LedgerType
        <5>2. /\ files = [past EXCEPT ![s.path] = 0, ![s.to] = past[s.path]]
              /\ s.path # s.to /\ past[s.to] = 0
          BY <1>11, <1>19, <4>3
        <5>3. files[q] = IF q = s.to THEN past[s.path] ELSE IF q = s.path THEN 0 ELSE past[q]
          BY <1>3, <1>13, <1>19, <5>2
        <5>4. CASE L.at[s.path] = 0
          <6>1. N.at[q] = L.at[q] BY <1>14, <4>1, <4>3, <5>4
          <6> QED BY <2>1, <2>4, <5>2, <5>3, <5>4, <6>1
        <5>5. CASE L.at[s.path] # 0
          <6>1. N.at[q] = IF q = s.to THEN L.at[s.path] ELSE IF q = s.path THEN 0 ELSE L.at[q]
            BY <1>3, <1>14, <4>1, <4>3, <5>1, <5>5
          <6> QED BY <1>3, <2>1, <2>4, <5>3, <5>5, <6>1
        <5> QED BY <5>4, <5>5
      <4> QED BY <4>2, <4>3
    <3> QED BY <3>1, <3>2, <3>3
  <2>5. Placed(N, c) BY <2>4 DEF Placed, files
  <2> QED BY <2>3, <2>5
<1> QED BY <1>1, <1>10, <1>18, <1>19 DEF N

\* So does the release of its spans.
LEMMA ReleasedIn ==
  ASSUME Marks, NEW r \in Root, NEW L \in Ledgers(r)
  PROVE  Released(L, r) \in Ledgers(r)
<1> DEFINE S == {p \in Path : L.at[p] # 0}
           Drop(M, p) == [Tombstoned(M, p, Stamp(r, Root, p)) EXCEPT !.at[p] = 0]
           ch == [s \in SUBSET S |-> CHOOSE x \in s : TRUE]
           G == [x \in S \X Ledgers(r) |-> Drop(x[2], x[1])]
           Folds(F) == F = [s \in SUBSET S |->
                              IF s = {} THEN L ELSE Drop(F[s \ {CHOOSE x \in s : TRUE}], CHOOSE x \in s : TRUE)]
           it == CHOOSE F : Folds(F)
           T == [s \in SUBSET S |-> Ledgers(r)]
<1>0. IsFiniteSet(S) BY GitWatchAssumption, FS_Subset
<1>1. \A s \in SUBSET S : s # {} => ch[s] \in s OBVIOUS
<1>2. \A x \in S : \A M \in Ledgers(r) : Drop(M, x) \in Ledgers(r)
  <2> SUFFICES ASSUME NEW x \in S, NEW M \in Ledgers(r) PROVE Drop(M, x) \in Ledgers(r)
    OBVIOUS
  <2>1. Stamp(r, Root, x) \in 0..env.writes BY StampIs
  <2>2. Stamp(r, Root, x) <= Stamp(r, Root, x) BY <2>1 DEF Marks
  <2> QED BY <2>1, <2>2, DroppedIn
<1>3. \A x \in S : \A M \in Ledgers(r) : G[<<x, M>>] = Drop(M, x) OBVIOUS
<1>9. Released(L, r) = it[S] BY DEF Released, FoldSet, MapThenFoldSet
<1> HIDE DEF Drop, S
<1>4. PICK F \in [SUBSET S -> Ledgers(r)] :
        \A s \in SUBSET S : F[s] = IF s = {} THEN L ELSE G[<<ch[s], F[s \ {ch[s]}]>>]
  <2> DEFINE T0 == Ledgers(r)
  <2>2. L \in T0 OBVIOUS
  <2>3. \A x \in S : \A M \in T0 : G[<<x, M>>] \in T0 BY <1>2, <1>3
  <2>4. \A s \in SUBSET S : s # {} => ch[s] \in s BY <1>1
  <2> HIDE DEF ch, G, T0
  <2>5. HasFold(S, T0, L, ch, G) BY <1>0, <2>2, <2>3, <2>4, FoldExists
  <2> QED BY <2>5 DEF T0, HasFold
<1>5. Folds(F)
  <2>1. \A s \in SUBSET S : s # {} => F[s] = Drop(F[s \ {ch[s]}], ch[s])
    <3> HIDE DEF ch, G
    <3> SUFFICES ASSUME NEW s \in SUBSET S, s # {} PROVE F[s] = Drop(F[s \ {ch[s]}], ch[s])
      OBVIOUS
    <3>1. ch[s] \in S /\ s \ {ch[s]} \in SUBSET S BY <1>1
    <3>2. F[s \ {ch[s]}] \in Ledgers(r) BY <3>1
    <3>3. F[s] = G[<<ch[s], F[s \ {ch[s]}]>>] BY <1>4
    <3> QED BY <1>3, <3>1, <3>2, <3>3
  <2>2. \A s \in SUBSET S : ch[s] = CHOOSE x \in s : TRUE OBVIOUS
  <2>3. F[{}] = L BY <1>4
  <2> HIDE DEF ch, G
  <2> QED BY <2>1, <2>2, <2>3
<1>6. Folds(it)
  <2> HIDE DEF Folds
  <2> QED BY <1>5
<1> HIDE DEF it
<1>7. it[{}] \in T[{}] BY <1>6
<1>8. \A s \in SUBSET S : s # {} => ch[s] \in s /\ (it[s \ {ch[s]}] \in T[s \ {ch[s]}] => it[s] \in T[s])
  <2> SUFFICES ASSUME NEW s \in SUBSET S, s # {}, it[s \ {ch[s]}] \in T[s \ {ch[s]}]
               PROVE  it[s] \in T[s]
    BY <1>1
  <2>1. ch[s] \in S /\ s \ {ch[s]} \in SUBSET S BY <1>1
  <2>2. it[s] = Drop(it[s \ {ch[s]}], ch[s]) BY <1>6
  <2>3. it[s \ {ch[s]}] \in Ledgers(r) BY <2>1
  <2> HIDE DEF ch
  <2> QED BY <1>2, <2>1, <2>2, <2>3
<1>10. it[S] \in T[S]
  <2> HIDE DEF T, ch
  <2> QED BY <1>0, <1>7, <1>8, FoldStays
<1> QED BY <1>9, <1>10

LEMMA FreshLedger ==
  ASSUME Marks, NEW r \in Root, NEW b \in Branch \cup {NoBranch, Absent}, Len(log) \in Nat
  PROVE  Ledger \in Ledgers(r) /\ Adopted(b) \in Ledgers(r)
<1>1. NoBranch \in Branch \cup {NoBranch, Absent} OBVIOUS
<1>2. None \in Stamps /\ 0 \in 0..Len(log) BY DEF Stamps
<1>3. Ledger \in LedgerType BY <1>1, <1>2 DEF Ledger, LedgerType
<1>4. /\ Adopted(b) \in LedgerType /\ Adopted(b).at = Ledger.at /\ Adopted(b).tomb = Ledger.tomb
      /\ Adopted(b).last = Ledger.last /\ Adopted(b).respent = Ledger.respent
  <2>1. Adopted(b) = [Ledger EXCEPT !.branch = b, !.adopting = TRUE] BY DEF Adopted
  <2> HIDE DEF Ledger
  <2> QED BY <1>3, <2>1 DEF LedgerType
<1>5. ~Ledger.respent BY DEF Ledger
<1>6. \A p \in Path : Ledger.last[p] = None /\ Ledger.tomb[p] = None BY DEF Ledger
<1>7. \A p \in Path : None <= Stamp(r, Root, p)
  <2> SUFFICES ASSUME NEW p \in Path PROVE None <= Stamp(r, Root, p) OBVIOUS
  <2>1. Stamp(r, Root, p) \in 0..env.writes BY StampIs
  <2> QED BY <2>1 DEF None, Marks
<1>8. None <= None BY DEF None
<1>9. Unspent(r, Ledger) BY <1>6, <1>7, <1>8 DEF Unspent, Ledger
<1>10. Unspent(r, Adopted(b))
  <2> HIDE DEF Ledger
  <2> QED BY <1>4, <1>5, <1>6, <1>7, <1>8 DEF Unspent
<1> QED BY <1>3, <1>4, <1>9, <1>10 DEF Ledgers

LEMMA FinishedIn ==
  ASSUME NEW r \in Root, NEW L \in Ledgers(r), NEW drained
  PROVE  Finished(L, drained) \in Ledgers(r)
<1> DEFINE N == [L EXCEPT !.adopting = FALSE]
<1>1. L \in LedgerType BY DEF Ledgers
<1>2. /\ N \in LedgerType /\ N.last = L.last /\ N.respent = L.respent /\ N.tomb = L.tomb /\ N.at = L.at
  BY <1>1 DEF LedgerType
<1> HIDE DEF N
<1>3. TwoCheckouts => Unspent(r, N) BY <1>2 DEF Ledgers, Unspent
<1>4. N \in Ledgers(r) BY <1>2, <1>3 DEF Ledgers
<1> QED BY <1>4 DEF Finished, N

\* So does a replay in silence of a range of commits, which takes a ledger without
\* spans to the end of the range.
Replayed(M, L, h) == Alike(M, L) /\ (~Tracks(L) => M.slid = L.slid /\ Placed(M, h))

LEMMA ColdReplayIn ==
  ASSUME Marks, LogOK, NEW r \in Root, NEW L \in Ledgers(r), NEW h \in 1..Len(log), NEW own
  PROVE  /\ ColdReplay(L, r, h, own) \in Ledgers(r)
         /\ ChainInv /\ tip[Default] \in 1..Len(log) => Replayed(ColdReplay(L, r, h, own), L, h)
<1> DEFINE range == Chain(tip[Default], h)
           Next1(M, c) == Fold(M, r, c, Lineage(r, range), c \in own)
           ch == [s \in SUBSET range |-> Max(s)]
           G == [x \in range \X Ledgers(r) |-> Next1(x[2], x[1])]
           Folds(F) == F = [s \in SUBSET range |->
                              IF s = {} THEN L ELSE Next1(F[s \ {Max(s)}], Max(s))]
           it == CHOOSE F : Folds(F)
           Line == ChainInv /\ tip[Default] \in 1..Len(log)
           Down(s) == \A x \in s : \A y \in range : y <= x => y \in s
           Good(M, s) == Line => /\ Alike(M, L) /\ (s = {} => M = L)
                                 /\ ~Tracks(L) /\ Down(s) => M.slid = L.slid
                                 /\ ~Tracks(L) /\ Down(s) /\ s # {} => Placed(M, Max(s))
           T == [s \in SUBSET range |-> {M \in Ledgers(r) : Good(M, s)}]
<1>0. Len(log) \in Nat BY DEF LogOK
<1>a. range \subseteq 1..Len(log)
  <2>1. log[h].chain \subseteq 1..h BY DEF LogOK, CommitOK
  <2>2. 1..h \subseteq 1..Len(log) BY <1>0
  <2> QED BY <2>1, <2>2 DEF Chain
<1>b. ColdReplay(L, r, h, own) \in {L, it[range]}
  <2>1. it[range] = MapThenFoldSet(LAMBDA c, M : Fold(M, r, c, Lineage(r, range), c \in own), L,
                                   LAMBDA c : c, Max, range)
    BY DEF MapThenFoldSet
  <2> HIDE DEF it
  <2> QED BY <2>1 DEF ColdReplay
<1>d. Line => /\ range \subseteq log[h].chain /\ 1 \notin range
              /\ \A x \in range : \A z \in log[h].chain : x <= z => z \in range
  BY RangeIs
<1> HIDE DEF range
<1>c. IsFiniteSet(range)
  <2>1. IsFiniteSet(1..Len(log)) BY <1>0, FS_Interval
  <2> QED BY <1>a, <2>1, FS_Subset
<1>1. \A s \in SUBSET range : s # {} => ch[s] \in s
  <2> SUFFICES ASSUME NEW s \in SUBSET range, s # {} PROVE Max(s) \in s
    OBVIOUS
  <2>1. s \in SUBSET Nat /\ \A x \in s : x <= Len(log) BY <1>a, <1>0
  <2> QED BY <1>0, <2>1, MaxIs
<1>2. \A x \in range : \A M \in Ledgers(r) : Next1(M, x) \in Ledgers(r) BY <1>a, FoldIn
<1>e. ASSUME NEW x \in range, NEW M \in Ledgers(r)
      PROVE  /\ Alike(Next1(M, x), M)
             /\ FilesOK(log, x) /\ log[x].first # 0 /\ Placed(M, log[x].first) =>
                  Next1(M, x).slid = M.slid /\ Placed(Next1(M, x), x)
  BY <1>a, FoldIn
<1>3. \A x \in range : \A M \in Ledgers(r) : G[<<x, M>>] = Next1(M, x) OBVIOUS
<1> HIDE DEF Next1
<1>4. PICK F \in [SUBSET range -> Ledgers(r)] :
        \A s \in SUBSET range : F[s] = IF s = {} THEN L ELSE G[<<ch[s], F[s \ {ch[s]}]>>]
  <2> DEFINE T0 == Ledgers(r)
  <2>2. L \in T0 OBVIOUS
  <2>3. \A x \in range : \A M \in T0 : G[<<x, M>>] \in T0 BY <1>2, <1>3
  <2>4. \A s \in SUBSET range : s # {} => ch[s] \in s BY <1>1
  <2> HIDE DEF ch, G, T0
  <2>5. HasFold(range, T0, L, ch, G) BY <1>c, <2>2, <2>3, <2>4, FoldExists
  <2> QED BY <2>5 DEF T0, HasFold
<1>5. Folds(F)
  <2>1. \A s \in SUBSET range : s # {} => F[s] = Next1(F[s \ {ch[s]}], ch[s])
    <3> HIDE DEF ch, G
    <3> SUFFICES ASSUME NEW s \in SUBSET range, s # {} PROVE F[s] = Next1(F[s \ {ch[s]}], ch[s])
      OBVIOUS
    <3>1. ch[s] \in range /\ s \ {ch[s]} \in SUBSET range BY <1>1
    <3>2. F[s \ {ch[s]}] \in Ledgers(r) BY <3>1
    <3>3. F[s] = G[<<ch[s], F[s \ {ch[s]}]>>] BY <1>4
    <3> QED BY <1>3, <3>1, <3>2, <3>3
  <2>2. \A s \in SUBSET range : ch[s] = Max(s) OBVIOUS
  <2>3. F[{}] = L BY <1>4
  <2> HIDE DEF ch, G
  <2> QED BY <2>1, <2>2, <2>3
<1>6. Folds(it)
  <2> HIDE DEF Folds
  <2> QED BY <1>5
<1> HIDE DEF it
<1>7. it[{}] \in T[{}] BY <1>6 DEF Alike
<1>f. \A s \in SUBSET range : s # {} => Max(s) \in s /\ \A x \in s : x <= Max(s) BY <1>a, LatestIn
<1>8. \A s \in SUBSET range : s # {} => ch[s] \in s /\ (it[s \ {ch[s]}] \in T[s \ {ch[s]}] => it[s] \in T[s])
  <2> SUFFICES ASSUME NEW s \in SUBSET range, s # {}, it[s \ {ch[s]}] \in T[s \ {ch[s]}]
               PROVE  it[s] \in T[s]
    BY <1>1
  <2> DEFINE c == Max(s)
             rest == s \ {c}
             M == it[rest]
  <2>1. c \in range /\ c \in s /\ rest \in SUBSET range /\ \A x \in s : x <= c BY <1>f
  <2>2. it[s] = Next1(M, c) BY <1>6
  <2>3. M \in Ledgers(r) /\ Good(M, rest) BY <2>1
  <2> HIDE DEF ch, c, rest, M
  <2>4. Next1(M, c) \in Ledgers(r) BY <1>2, <2>1, <2>3
  <2>5. ASSUME Line PROVE Alike(Next1(M, c), L) /\ s # {}
    BY <1>e, <2>1, <2>3, <2>5 DEF Alike
  <2>6. ASSUME Line, ~Tracks(L), Down(s) PROVE Next1(M, c).slid = L.slid /\ Placed(Next1(M, c), c)
    <3> DEFINE f == log[c].first
    <3>1. c \in log[h].chain /\ c # 1 /\ c \in 1..Len(log) BY <1>d, <1>a, <2>1, <2>6
    <3>2. /\ f \in log[c].chain /\ log[c].chain \subseteq log[h].chain /\ f < c /\ f # 0
          /\ \A z \in log[h].chain : z < c => z <= f
      BY <2>6, <3>1, Ancestors
    <3>3. FilesOK(log, c) BY <2>6, <3>1 DEF ChainInv
    <3>4. \A x \in range : x \in Nat BY <1>a
    <3>5. \A x \in log[h].chain : x \in Nat
      <4>1. log[h].chain \subseteq Nat BY DEF LogOK, CommitOK
      <4> QED BY <4>1
    <3>6. Down(rest)
      <4> SUFFICES ASSUME NEW x \in rest, NEW y \in range, y <= x PROVE y \in rest OBVIOUS
      <4>1. x \in s /\ x # c /\ x <= c BY <2>1 DEF rest
      <4>2. y \in s BY <2>6, <4>1
      <4>3. y # c BY <2>1, <3>4, <4>1
      <4> QED BY <4>2, <4>3 DEF rest
    <3>7. M.slid = L.slid BY <2>3, <2>6, <3>6
    <3>8. CASE rest = {}
      <4>1. M = L BY <2>3, <2>6, <3>8
      <4>2. Placed(M, f) BY <2>6, <4>1 DEF Placed, Tracks
      <4> QED BY <1>e, <2>1, <2>3, <3>2, <3>3, <3>7, <4>2
    <3>9. CASE rest # {}
      <4> DEFINE m == Max(rest)
      <4>1. m \in rest /\ \A x \in rest : x <= m BY <1>f, <2>1, <3>9
      <4>2. Placed(M, m) BY <2>3, <2>6, <3>6, <3>9
      <4> HIDE DEF m
      <4>3. m \in s /\ m # c /\ m <= c /\ m \in range BY <2>1, <4>1 DEF rest
      <4>4. m \in log[h].chain BY <1>d, <2>6, <4>3
      <4>5. m <= f BY <2>1, <3>2, <3>4, <4>3, <4>4
      <4>6. f \in range BY <1>d, <2>6, <3>2, <4>3, <4>5
      <4>7. f \in s BY <2>1, <2>6, <3>2, <3>4, <4>6
      <4>8. f \in rest BY <3>2, <3>4, <4>6, <4>7 DEF rest
      <4>9. f <= m BY <4>1, <4>8
      <4>10. f = m BY <3>4, <4>3, <4>5, <4>6, <4>9
      <4> QED BY <1>e, <2>1, <2>3, <3>2, <3>3, <3>7, <4>2, <4>10
    <3> QED BY <3>8, <3>9
  <2>7. Good(Next1(M, c), s) BY <2>5, <2>6 DEF c
  <2> HIDE DEF Good
  <2> QED BY <2>2, <2>4, <2>7
<1>10. it[range] \in T[range]
  <2> HIDE DEF T, ch
  <2> QED BY <1>7, <1>8, <1>c, FoldStays
<1>11. it[range] \in Ledgers(r) /\ Good(it[range], range)
  <2> HIDE DEF Good
  <2> QED BY <1>10
<1>12. ASSUME Line PROVE Replayed(it[range], L, h) \/ range = {}
  <2> SUFFICES ASSUME range # {} PROVE Replayed(it[range], L, h) OBVIOUS
  <2>1. Down(range) OBVIOUS
  <2>2. Max(range) \in range /\ \A x \in range : x <= Max(range) BY <1>f
  <2>3. h \in range
    <3>1. Max(range) \in log[h].chain BY <1>d, <1>12, <2>2
    <3>2. h \in log[h].chain /\ Max(range) <= h BY <1>12, <3>1, Ancestors
    <3> QED BY <1>d, <1>12, <2>2, <3>2
  <2>4. Max(range) = h
    <3>1. Max(range) \in log[h].chain BY <1>d, <1>12, <2>2
    <3>2. Max(range) <= h /\ h <= Max(range) BY <1>12, <2>2, <2>3, <3>1, Ancestors
    <3>3. Max(range) \in 1..Len(log) BY <1>a, <2>2
    <3> DEFINE m == Max(range)
    <3>4. m \in Nat /\ h \in Nat /\ m <= h /\ h <= m BY <1>0, <3>2, <3>3
    <3> HIDE DEF m
    <3>5. m = h BY <3>4
    <3> QED BY <3>5 DEF m
  <2> QED BY <1>11, <1>12, <2>1, <2>4 DEF Replayed
<1>13. Line => Replayed(L, L, h) BY DEF Replayed, Alike, Tracks, Placed
<1>14. range = {} => it[range] = L BY <1>6
<1> QED BY <1>b, <1>11, <1>12, <1>13, <1>14

-----------------------------------------------------------------------------
(* The inductive invariants.                                                *)

Repository ==
  /\ tip \in [Branch -> 0..Len(log)]
  /\ on \in [Root -> Branch \cup {NoBranch, Absent}]
  /\ head \in [Root -> 0..Len(log)] /\ \A r \in Present : head[r] # 0

FoundType == [commits : SUBSET (1..Len(log)), fold : SUBSET (1..Len(log)), drained : BOOLEAN,
              cold : 0..Len(log), to : 0..Len(log), owed : 0..Len(log), unseen : SUBSET (1..Len(log))]

Files ==
  /\ cursor \in [Root -> 0..Len(log)] /\ replay \in [Root -> 0..Len(log)]
  /\ recorded \subseteq 1..Len(log) /\ tips \subseteq 1..Len(log) /\ deferred \subseteq 1..Len(log)
  /\ rework \in [Root -> LedgerType] /\ \A r \in Root : rework[r] \in Ledgers(r)

Progress ==
  /\ pc \in {"idle", "heads", "bind", "commits", "record"}
  /\ todo \subseteq Present /\ (todo # {} => pc \in {"heads", "bind", "commits"})
  /\ pc = "commits" => todo # {}
  /\ found \in [Root -> FoundType] /\ batch \subseteq 1..Len(log) /\ (batch # {} <=> pc = "commits")
  /\ budget \in Int /\ seen \subseteq 1..Len(log) /\ emitted \subseteq 1..Len(log)

TypeInv == env \in Environments /\ LogOK /\ Marks /\ Repository /\ Files /\ Progress

\* What was sent is on disk or about to be, and known to the poll once it has read the
\* disk, unless the ledger has lost it since.
SentInv ==
  /\ AttributedOnce
  /\ sent \subseteq recorded \cup emitted \cup forgotten
  /\ pc \in {"bind", "commits", "record"} => sent \subseteq seen \cup forgotten
  /\ pc \in {"idle", "heads"} => emitted = {}

Owed == traced \cup ToSet(jobs)

\* What the cursor of a checkout is about to pass is in what the poll found, and the
\* requests of that are made.
OriginInv ==
  /\ jobs \in Seq(ToSet(jobs))
  /\ OriginsOwed
  /\ \A r \in Root : {r} \X found[r].commits \subseteq Owed
  /\ pc = "heads" =>
       \A r \in Root : (r \in todo => found[r].to = cursor[r]) /\ Over(r) \subseteq found[r].commits

-----------------------------------------------------------------------------
(* git, and the agents.                                                     *)

LEMMA Bounds ==
  ASSUME env \in Environments
  PROVE  /\ env.may \in SUBSET ConditionKinds /\ env.paths \in SUBSET Path
         /\ env.commits \in Nat /\ env.moves \in Nat /\ env.writes \in Nat /\ env.faults \in Nat
         /\ env.cap \in Nat \ {0} /\ env.total \in Nat \ {0}
<1>1. env \in EnvironmentType BY GitWatchAssumption
<1> QED BY <1>1 DEF EnvironmentType

\* What a commit on top of the log must be.
NewOK(e) ==
  /\ e \in CommitType
  /\ e.first \in 1..Len(log) /\ e.first \in e.reach
  /\ e.reach \subseteq 1..(Len(log) + 1) /\ Len(log) + 1 \in e.reach /\ e.chain \subseteq 1..(Len(log) + 1)
  /\ \A d \in e.reach : d # Len(log) + 1 => log[d].reach \subseteq e.reach
  /\ e.chain \subseteq e.reach /\ \A d \in e.chain : d # Len(log) + 1 => log[d].chain \subseteq e.chain
  /\ \A p \in Path : e.files[p] <= Len(log) + 1
  /\ e.change.kind = "add" => e.files[e.change.path] # 0
  /\ e.change.kind = "merge" => \A p \in Path : e.files[p] # log[e.first].files[p] => e.files[p] # 0

\* The log after a step keeps what it had.
Kept == /\ Len(log) <= Len(log') /\ Len(log') \in Nat
        /\ \A c \in 1..Len(log) : log'[c] = log[c]

LEMMA GrownBy ==
  ASSUME LogOK, NEW e, NewOK(e), log' = Append(log, e)
  PROVE  LogOK' /\ Kept /\ Len(log') = Len(log) + 1 /\ log'[Len(log) + 1] = e
<1> DEFINE n == Len(log)
<1>1. log \in Seq(CommitType) /\ n \in Nat /\ n >= 1 /\ \A c \in 1..n : CommitOK(log, c) BY DEF LogOK
<1>2. e \in CommitType BY DEF NewOK
<1>3. log' \in Seq(CommitType) /\ Len(log') = n + 1 BY <1>1, <1>2
<1>4. \A c \in 1..n : log'[c] = log[c] BY <1>1, <1>2
<1>5. log'[n + 1] = e BY <1>1, <1>2
<1>6. ASSUME NEW c \in 1..n PROVE CommitOK(log', c)
  <2>1. CommitOK(log, c) BY <1>1
  <2>2. log'[c] = log[c] BY <1>4
  <2>3. 1..c \subseteq 1..n BY <1>1
  <2>4. \A d \in log[c].reach : log'[d] = log[d] BY <1>4, <2>1, <2>3 DEF CommitOK
  <2>5. log[c].first # 0 => log'[log[c].first] = log[log[c].first] BY <2>1, <2>4 DEF CommitOK
  <2>6. \A d \in log[c].chain : log'[d] = log[d] BY <2>1, <2>4 DEF CommitOK
  <2> QED BY <2>1, <2>2, <2>4, <2>5, <2>6 DEF CommitOK
<1>7. CommitOK(log', n + 1)
  <2>1. \A d \in e.reach : log'[d].reach \subseteq e.reach
    <3> SUFFICES ASSUME NEW d \in e.reach PROVE log'[d].reach \subseteq e.reach OBVIOUS
    <3>1. CASE d = n + 1 BY <1>5, <3>1
    <3>2. CASE d # n + 1
      <4>1. d \in 1..n BY <1>1, <3>2 DEF NewOK
      <4> QED BY <1>4, <3>2, <4>1 DEF NewOK
    <3> QED BY <3>1, <3>2
  <2>2. log'[e.first] = log[e.first] /\ e.first # 0 /\ e.first < n + 1 BY <1>1, <1>4 DEF NewOK
  <2>3. \A d \in e.chain : log'[d].chain \subseteq e.chain
    <3> SUFFICES ASSUME NEW d \in e.chain PROVE log'[d].chain \subseteq e.chain OBVIOUS
    <3>1. CASE d = n + 1 BY <1>5, <3>1
    <3>2. CASE d # n + 1
      <4>1. d \in 1..n BY <1>1, <3>2 DEF NewOK
      <4> QED BY <1>4, <3>2, <4>1 DEF NewOK
    <3> QED BY <3>1, <3>2
  <2> QED BY <1>5, <2>1, <2>2, <2>3 DEF CommitOK, NewOK
<1>8. \A c \in 1..(n + 1) : CommitOK(log', c)
  <2>1. \A c \in 1..(n + 1) : c \in 1..n \/ c = n + 1 BY <1>1
  <2> QED BY <1>6, <1>7, <2>1
<1>9. LogOK'
  <2>1. Len(log') >= 1 BY <1>1, <1>3
  <2> QED BY <1>3, <1>8, <2>1 DEF LogOK
<1> QED BY <1>1, <1>3, <1>4, <1>5, <1>9 DEF Kept

LEMMA ShapesAre ==
  ASSUME env \in Environments, NEW s \in Shapes
  PROVE  /\ s.kind \in {"add", "rewrite", "delete", "rename"} /\ s.path \in Path /\ s.to \in Path
         /\ s \in ChangeType
<1>1. env.paths \subseteq Path BY Bounds
<1> QED BY <1>1 DEF Shapes, ChangeType

LEMMA EntryOK ==
  ASSUME LogOK, env \in Environments, NEW first \in 1..Len(log), NEW own \in BOOLEAN, NEW s \in Shapes
  PROVE  NewOK(Entry(first, own, s))
<1> DEFINE e == Entry(first, own, s)
           n == Len(log)
           old == log[first].files
<1>1. n \in Nat /\ log[first] \in CommitType /\ CommitOK(log, first) BY DEF LogOK
<1>2. /\ s.kind \in {"add", "rewrite", "delete", "rename"} /\ s.path \in Path /\ s.to \in Path
      /\ s \in ChangeType
  BY ShapesAre
<1>3. log[first].reach \in SUBSET Nat /\ log[first].chain \in SUBSET Nat /\ old \in [Path -> Nat]
  BY <1>1 DEF CommitType
<1>4. /\ e.first = first /\ e.own = own /\ e.change = s /\ e.reach = log[first].reach \cup {n + 1}
      /\ e.chain = log[first].chain \cup {n + 1} /\ e.files = FilesAfter(s, old, n + 1)
  BY DEF Entry, NewCommit
<1>5. /\ e.files \in [Path -> Nat] /\ \A p \in Path : e.files[p] <= n + 1
      /\ s.kind = "add" => e.files[s.path] # 0
  <2>1. \A p \in Path : old[p] <= n + 1 /\ old[p] \in Nat
    <3>1. \A p \in Path : old[p] <= first BY <1>1 DEF CommitOK
    <3> QED BY <1>1, <1>3, <3>1
  <2>2. CASE s.kind = "delete"
    <3>1. e.files = [old EXCEPT ![s.path] = 0] BY <1>4, <2>2 DEF FilesAfter
    <3> QED BY <1>1, <1>2, <1>3, <2>1, <2>2, <3>1
  <2>3. CASE s.kind = "rename"
    <3>1. e.files = [old EXCEPT ![s.path] = 0, ![s.to] = old[s.path]] BY <1>4, <2>3 DEF FilesAfter
    <3> DEFINE x == old[s.path]
    <3>2. x \in Nat /\ x <= n + 1 BY <1>2, <2>1
    <3>3. e.files = [[old EXCEPT ![s.path] = 0] EXCEPT ![s.to] = x] BY <3>1
    <3> HIDE DEF x, e
    <3>4. e.files \in [Path -> Nat] BY <1>2, <1>3, <3>2, <3>3
    <3>5. \A p \in Path : e.files[p] = x \/ e.files[p] = 0 \/ e.files[p] = old[p] BY <1>2, <1>3, <3>3
    <3>6. \A p \in Path : e.files[p] <= n + 1 BY <1>1, <2>1, <3>2, <3>5
    <3> QED BY <2>3, <3>4, <3>6
  <2>4. CASE s.kind \in {"add", "rewrite"}
    <3>1. e.files = [old EXCEPT ![s.path] = n + 1] BY <1>4, <2>4 DEF FilesAfter
    <3> QED BY <1>1, <1>2, <1>3, <2>1, <2>4, <3>1
  <2> QED BY <1>2, <2>2, <2>3, <2>4
<1>6. e \in CommitType
  <2>1. e.reach \in SUBSET Nat /\ e.chain \in SUBSET Nat BY <1>1, <1>3, <1>4
  <2>2. e = [first |-> e.first, own |-> e.own, change |-> e.change, reach |-> e.reach,
             chain |-> e.chain, files |-> e.files]
    BY DEF Entry
  <2>3. e.first \in Nat /\ e.own \in BOOLEAN /\ e.change \in ChangeType BY <1>1, <1>2, <1>4
  <2> HIDE DEF e
  <2> QED BY <1>5, <2>1, <2>2, <2>3 DEF CommitType
<1>7. /\ e.reach \subseteq 1..(n + 1) /\ n + 1 \in e.reach /\ e.chain \subseteq 1..(n + 1)
      /\ e.first \in e.reach
  <2>1. 1..first \subseteq 1..(n + 1) /\ n + 1 \in 1..(n + 1) BY <1>1
  <2> HIDE DEF e
  <2> QED BY <1>1, <1>4, <2>1 DEF CommitOK
<1>8. \A d \in e.reach : d # n + 1 => log[d].reach \subseteq e.reach BY <1>1, <1>4 DEF CommitOK
<1>9. e.chain \subseteq e.reach /\ \A d \in e.chain : d # n + 1 => log[d].chain \subseteq e.chain
  BY <1>1, <1>4 DEF CommitOK
<1> HIDE DEF e
<1> QED BY <1>2, <1>4, <1>5, <1>6, <1>7, <1>8, <1>9 DEF NewOK, e

LEMMA StampInt == Marks => \A r \in Root : \A p \in Path : Stamp(r, Root, p) \in Int
<1> SUFFICES ASSUME Marks, NEW r \in Root, NEW p \in Path PROVE Stamp(r, Root, p) \in Int OBVIOUS
<1>1. Stamp(r, Root, p) \in 0..env.writes BY StampIs
<1>2. 0..env.writes \subseteq Int BY DEF Marks
<1> QED BY <1>1, <1>2

LEMMA StampIntNext == Marks' => \A r \in Root : \A p \in Path : Stamp(r, Root, p)' \in Int
<1>1. (Marks => \A r \in Root : \A p \in Path : Stamp(r, Root, p) \in Int)' BY StampInt, PTL
<1> QED BY <1>1

LEMMA LedgersKept ==
  ASSUME Marks, LogOK, Kept, env' = env, Marks', NEW r \in Root,
         TwoCheckouts => \A p \in Path : Stamp(r, Root, p) <= Stamp(r, Root, p)'
  PROVE  Ledgers(r) \subseteq Ledgers(r)'
<1>1. Len(log) \in Nat /\ Len(log') \in Nat /\ Len(log) <= Len(log') BY DEF LogOK, Kept
<1>2. 0..Len(log) \subseteq 0..Len(log') BY <1>1
<1>3. Stamps' = Stamps BY DEF Stamps
<1>4. LedgerType \subseteq LedgerType' BY <1>2, <1>3 DEF LedgerType
<1> SUFFICES ASSUME NEW L \in Ledgers(r) PROVE L \in Ledgers(r)' OBVIOUS
<1>5. L \in LedgerType /\ L \in LedgerType' /\ L.last \in [Path -> Stamps] BY <1>4 DEF Ledgers, LedgerType
<1>6. ASSUME TwoCheckouts PROVE Unspent(r, L)'
  <2>1. Unspent(r, L) BY <1>6 DEF Ledgers
  <2>2. ASSUME NEW p \in Path PROVE L.last[p] <= Stamp(r, Root, p)'
    <3>1. L.last[p] <= Stamp(r, Root, p) /\ Stamp(r, Root, p) <= Stamp(r, Root, p)'
      BY <1>6, <2>1 DEF Unspent
    <3>2. L.last[p] \in Stamps BY <1>5
    <3>3. Stamps \subseteq Int BY DEF Stamps, None, Marks
    <3>4. Stamp(r, Root, p) \in Int /\ Stamp(r, Root, p)' \in Int BY StampInt, StampIntNext
    <3>5. L.last[p] \in Int BY <3>2, <3>3
    <3>6. \A a, b, c \in Int : a <= b /\ b <= c => a <= c OBVIOUS
    <3> QED BY <3>1, <3>4, <3>5, <3>6
  <2> QED BY <2>1, <2>2 DEF Unspent
<1> QED BY <1>5, <1>6 DEF Ledgers

\* The stamps are all the ledgers see of the marks.
LEMMA StampsStay ==
  ASSUME Marks, wrote' = wrote, env' = env, NEW r \in Root
  PROVE  Marks' /\ \A p \in Path : Stamp(r, Root, p) <= Stamp(r, Root, p)'
<1>1. Marks' BY DEF Marks
<1>2. \A p \in Path : Stamp(r, Root, p) \in 0..env.writes BY StampIs
<1>3. \A p \in Path : Stamp(r, Root, p)' = Stamp(r, Root, p) BY DEF Stamp
<1>4. \A p \in Path : Stamp(r, Root, p) \in Int BY <1>2 DEF Marks
<1> QED BY <1>1, <1>3, <1>4

LEMMA FilesKept ==
  ASSUME Files, Marks, Marks', LogOK, Kept, UNCHANGED <<env, fileVars>>,
         TwoCheckouts => \A r \in Root : \A p \in Path : Stamp(r, Root, p) <= Stamp(r, Root, p)'
  PROVE  Files'
<1>1. Len(log) \in Nat /\ Len(log') \in Nat /\ Len(log) <= Len(log') BY DEF LogOK, Kept
<1>2. 0..Len(log) \subseteq 0..Len(log') /\ 1..Len(log) \subseteq 1..Len(log') BY <1>1
<1>3. \A r \in Root : rework[r] \in Ledgers(r)' BY LedgersKept DEF Files
<1>4. \A r \in Root : rework[r] \in LedgerType' BY <1>3 DEF Ledgers
<1>5. UNCHANGED <<cursor, replay, recorded, tips, deferred, rework>> BY DEF fileVars
<1>6. rework' \in [Root -> LedgerType'] BY <1>4, <1>5 DEF Files
<1>7. cursor' \in [Root -> 0..Len(log')] /\ replay' \in [Root -> 0..Len(log')] BY <1>2, <1>5 DEF Files
<1>8. recorded' \subseteq 1..Len(log') /\ tips' \subseteq 1..Len(log') /\ deferred' \subseteq 1..Len(log')
  BY <1>2, <1>5 DEF Files
<1> QED BY <1>3, <1>5, <1>6, <1>7, <1>8 DEF Files

LEMMA ProgressKept ==
  ASSUME Progress, LogOK, Kept, UNCHANGED pollVars, Present \subseteq Present'
  PROVE  Progress'
<1>1. Len(log) \in Nat /\ Len(log') \in Nat /\ Len(log) <= Len(log') BY DEF LogOK, Kept
<1>2. 0..Len(log) \subseteq 0..Len(log') /\ 1..Len(log) \subseteq 1..Len(log') BY <1>1
<1>3. FoundType \subseteq FoundType' BY <1>2 DEF FoundType
<1>4. found \in [Root -> FoundType'] BY <1>3 DEF Progress
<1> QED BY <1>2, <1>4 DEF Progress, pollVars

\* A step of git leaves the watcher's state as it is.
LEMMA GitStep ==
  ASSUME TypeInv, LogOK', Kept, UNCHANGED <<env, wrote, fileVars, pollVars>>, Repository', Present \subseteq Present'
  PROVE  TypeInv'
<1>1. \A r \in Root : Marks' /\ \A p \in Path : Stamp(r, Root, p) <= Stamp(r, Root, p)'
  BY StampsStay DEF TypeInv
<1>2. Marks' BY DEF TypeInv, Marks
<1>3. Files' BY <1>1, <1>2, FilesKept DEF TypeInv
<1>4. Progress' BY ProgressKept DEF TypeInv
<1> QED BY <1>2, <1>3, <1>4 DEF TypeInv

\* What a ref reaches, and all of that, is reachable.
LEMMA ReachableIs ==
  ASSUME LogOK, Repository
  PROVE  /\ \A c \in TipsOf(tip) : c \in 1..Len(log) /\ c \in Reachable
         /\ \A r \in Present : head[r] \in 1..Len(log) /\ head[r] \in Reachable
         /\ \A c \in Reachable : c \in 1..Len(log) /\ log[c].reach \subseteq Reachable
         /\ \A c \in Reachable : \E d \in TipsOf(tip) \cup {head[r] : r \in Present} : c \in log[d].reach
<1>0. Len(log) \in Nat BY DEF LogOK
<1>1. \A c \in TipsOf(tip) : c \in 1..Len(log) BY <1>0 DEF TipsOf, Repository
<1>2. \A r \in Present : head[r] \in 1..Len(log) BY <1>0 DEF Present, Repository
<1> DEFINE Refs == TipsOf(tip) \cup {head[r] : r \in Present}
<1>3. \A c \in Refs : c \in 1..Len(log) BY <1>1, <1>2
<1>4. Reachable = UNION {log[c].reach : c \in Refs} BY DEF Reachable
<1>5. \A c \in 1..Len(log) : /\ c \in log[c].reach /\ log[c].reach \subseteq 1..c
                             /\ \A d \in log[c].reach : log[d].reach \subseteq log[c].reach
  BY DEF LogOK, CommitOK
<1>6. \A c \in Refs : c \in Reachable BY <1>3, <1>4, <1>5
<1>7. \A c \in Reachable : \E d \in Refs : c \in log[d].reach BY <1>4
<1>8. ASSUME NEW c \in Reachable PROVE c \in 1..Len(log) /\ log[c].reach \subseteq Reachable
  <2>1. PICK d \in Refs : c \in log[d].reach BY <1>7
  <2>2. d \in 1..Len(log) BY <1>3
  <2>3. 1..d \subseteq 1..Len(log) BY <1>0, <2>2
  <2>4. log[d].reach \subseteq Reachable BY <1>4
  <2> QED BY <1>5, <2>1, <2>2, <2>3, <2>4
<1> QED BY <1>1, <1>2, <1>6, <1>7, <1>8

\* A step of git that moves a HEAD, and a branch with it, to what was reached or to a new commit.
LEMMA HeadMoves ==
  ASSUME LogOK, Repository, LogOK', Kept, NEW r \in Root, NEW b \in Branch \cup {NoBranch},
         NEW c \in 1..Len(log'),
         c \in Reachable \/ log'[c].reach \subseteq Reachable \cup {Len(log) + 1},
         on' = [on EXCEPT ![r] = b], head' = [head EXCEPT ![r] = c],
         tip' = tip \/ \E x \in Branch : tip' = [tip EXCEPT ![x] = c]
  PROVE  Repository' /\ Present \subseteq Present' /\ Reachable' \subseteq Reachable \cup {Len(log) + 1}
<1>0. Len(log) \in Nat /\ Len(log') \in Nat /\ Len(log) <= Len(log') BY DEF LogOK, Kept
<1>1. 0..Len(log) \subseteq 0..Len(log') /\ c \in 0..Len(log') /\ c # 0 BY <1>0
<1>2. tip' \in [Branch -> 0..Len(log')] BY <1>1 DEF Repository
<1>3. on' \in [Root -> Branch \cup {NoBranch, Absent}] BY DEF Repository
<1>4. head' \in [Root -> 0..Len(log')] BY <1>1 DEF Repository
<1>5. b # Absent BY DEF Branch, Default, NoBranch, Absent
<1>6. /\ Present' = Present \cup {r}
      /\ \A x \in Present' : x # r => x \in Present /\ head'[x] = head[x]
      /\ head'[r] = c
  BY <1>5 DEF Present, Repository
<1>7. Repository' BY <1>1, <1>2, <1>3, <1>4, <1>6 DEF Repository
<1>8. \A d \in TipsOf(tip)' : d = c \/ d \in TipsOf(tip) BY DEF TipsOf, Repository
<1>9. ASSUME NEW d \in (TipsOf(tip)' \cup {head'[x] : x \in Present'})
      PROVE  log'[d].reach \subseteq Reachable \cup {Len(log) + 1}
  <2>1. d = c \/ d \in TipsOf(tip) \/ \E x \in Present : d = head[x] BY <1>6, <1>8
  <2>2. CASE d \in Reachable
    <3>1. d \in 1..Len(log) /\ log[d].reach \subseteq Reachable BY <2>2, ReachableIs
    <3> QED BY <3>1 DEF Kept
  <2>3. CASE d \notin Reachable
    <3>1. d = c BY <2>1, <2>3, ReachableIs
    <3> QED BY <2>3, <3>1
  <2> QED BY <2>2, <2>3
<1>10. Reachable' \subseteq Reachable \cup {Len(log) + 1}
  <2>1. Reachable' = UNION {log'[d].reach : d \in TipsOf(tip)' \cup {head'[x] : x \in Present'}}
    BY DEF Reachable, TipsOf
  <2> QED BY <1>9, <2>1
<1> QED BY <1>6, <1>7, <1>10

GitResult ==
  /\ LogOK' /\ Kept /\ Repository' /\ Present \subseteq Present'
  /\ Reachable' \subseteq Reachable \cup {Len(log) + 1}
  /\ UNCHANGED <<env, gone, wrote, fileVars, originVars, pollVars, histVars>>

\* The same commits, and a HEAD on one that was reached.
LEMMA HeadMovesBack ==
  ASSUME LogOK, Repository, NEW r \in Root, NEW b \in Branch \cup {NoBranch}, NEW c \in Reachable,
         log' = log, GitMoved(r, b, c), tip' = tip \/ \E x \in Branch : tip' = [tip EXCEPT ![x] = c]
  PROVE  GitResult
<1>1. LogOK' BY DEF LogOK
<1>2. Kept BY DEF Kept, LogOK
<1>3. c \in 1..Len(log') BY ReachableIs
<1>4. /\ on' = [on EXCEPT ![r] = b] /\ head' = [head EXCEPT ![r] = c]
      /\ UNCHANGED <<env, gone, wrote, fileVars, originVars, pollVars, histVars>>
  BY DEF GitMoved
<1>5. Repository' /\ Present \subseteq Present' /\ Reachable' \subseteq Reachable \cup {Len(log) + 1}
  BY <1>1, <1>2, <1>3, <1>4, HeadMoves
<1> QED BY <1>1, <1>2, <1>4, <1>5 DEF GitResult

\* A HEAD on a new commit, with the commits it reaches.
LEMMA HeadMovesOn ==
  ASSUME LogOK, Repository, NEW r \in Root, NEW b \in Branch \cup {NoBranch}, NEW e, NewOK(e),
         \A d \in e.reach : d \in Reachable \cup {Len(log) + 1},
         log' = Append(log, e), GitMoved(r, b, Len(log) + 1),
         tip' = tip \/ \E x \in Branch : tip' = [tip EXCEPT ![x] = Len(log) + 1]
  PROVE  GitResult
<1>1. LogOK' /\ Kept /\ Len(log') = Len(log) + 1 /\ log'[Len(log) + 1] = e BY GrownBy
<1>2. Len(log) + 1 \in 1..Len(log') BY <1>1 DEF LogOK
<1>3. /\ on' = [on EXCEPT ![r] = b] /\ head' = [head EXCEPT ![r] = Len(log) + 1]
      /\ UNCHANGED <<env, gone, wrote, fileVars, originVars, pollVars, histVars>>
  BY DEF GitMoved
<1> DEFINE c == Len(log) + 1
<1>4. log'[c].reach \subseteq Reachable \cup {Len(log) + 1} BY <1>1
<1>5. c \in 1..Len(log') /\ head' = [head EXCEPT ![r] = c]
      /\ (tip' = tip \/ \E x \in Branch : tip' = [tip EXCEPT ![x] = c])
  BY <1>2, <1>3
<1> HIDE DEF c
<1>6. Repository' /\ Present \subseteq Present' /\ Reachable' \subseteq Reachable \cup {Len(log) + 1}
  BY <1>1, <1>3, <1>4, <1>5, HeadMoves
<1> QED BY <1>1, <1>3, <1>6 DEF GitResult

LEMMA MakeCommitGit ==
  ASSUME TypeInv, NEW r \in Root, MakeCommit(r)
  PROVE  GitResult
<1>1. LogOK /\ Repository /\ env \in Environments BY DEF TypeInv
<1>2. r \in Present /\ head[r] \in 1..Len(log) /\ head[r] \in Reachable BY <1>1, ReachableIs DEF MakeCommit
<1>3. on[r] \in Branch \cup {NoBranch} BY <1>1, <1>2 DEF Present, Repository
<1>4. PICK s \in Shapes, own \in BOOLEAN : log' = Append(log, Entry(head[r], own, s)) BY DEF MakeCommit
<1> DEFINE e == Entry(head[r], own, s)
<1>5. NewOK(e) BY <1>1, <1>2, EntryOK
<1>6. e.reach = log[head[r]].reach \cup {Len(log) + 1} BY DEF Entry, NewCommit
<1>7. \A d \in e.reach : d \in Reachable \cup {Len(log) + 1} BY <1>1, <1>2, <1>6, ReachableIs
<1>8. GitMoved(r, on[r], Len(log) + 1) BY DEF MakeCommit, NewCommit
<1>9. tip' = tip \/ \E x \in Branch : tip' = [tip EXCEPT ![x] = Len(log) + 1]
  BY <1>3 DEF MakeCommit, NewCommit
<1>10. log' = Append(log, e) BY <1>4
<1> HIDE DEF e
<1> QED BY <1>1, <1>3, <1>5, <1>7, <1>8, <1>9, <1>10, HeadMovesOn

LEMMA AmendGit ==
  ASSUME TypeInv, NEW r \in Root, Amend(r)
  PROVE  GitResult
<1>1. LogOK /\ Repository /\ env \in Environments BY DEF TypeInv
<1>2. on[r] \in Branch /\ log[head[r]].first # 0 BY DEF Amend
<1>3. r \in Present BY <1>2 DEF Present, Branch, Default, Absent
<1>4. head[r] \in 1..Len(log) /\ head[r] \in Reachable BY <1>1, <1>3, ReachableIs
<1> DEFINE first == log[head[r]].first
<1>5. first \in log[head[r]].reach BY <1>1, <1>2, <1>4 DEF LogOK, CommitOK
<1>6. first \in Reachable /\ first \in 1..Len(log) BY <1>1, <1>4, <1>5, ReachableIs
<1>7. PICK s \in Shapes : log' = Append(log, Entry(first, TRUE, s)) BY DEF Amend
<1> DEFINE e == Entry(first, TRUE, s)
<1>8. NewOK(e)
  <2> HIDE DEF first
  <2> QED BY <1>1, <1>6, EntryOK
<1>9. e.reach = log[first].reach \cup {Len(log) + 1} BY DEF Entry, NewCommit
<1>10. \A d \in e.reach : d \in Reachable \cup {Len(log) + 1}
  <2> HIDE DEF e, first
  <2> QED BY <1>1, <1>6, <1>9, ReachableIs
<1>11. GitMoved(r, on[r], Len(log) + 1) BY DEF Amend, NewCommit
<1>12. \E x \in Branch : tip' = [tip EXCEPT ![x] = Len(log) + 1] BY <1>2 DEF Amend, NewCommit
<1>13. log' = Append(log, e) BY <1>7
<1> HIDE DEF e
<1> QED BY <1>1, <1>2, <1>8, <1>10, <1>11, <1>12, <1>13, HeadMovesOn

\* The commit of a merge.
Merged(r, e) ==
  /\ NewOK(e) /\ log' = Append(log, e)
  /\ e.first = head[r] /\ log[head[r]].reach \subseteq e.reach
  /\ \A d \in e.reach : d \in Reachable \cup {Len(log) + 1}
  /\ e.chain = log[head[r]].chain \cup {Len(log) + 1}
  /\ e.change.kind = "merge" /\ \A p \in Path : e.files[p] \in {Len(log) + 1, log[head[r]].files[p]}

LEMMA MergeEntry ==
  ASSUME TypeInv, NEW r \in Root, Merge(r)
  PROVE  \E e : Merged(r, e)
<1>1. LogOK /\ Repository /\ env \in Environments BY DEF TypeInv
<1>2. on[r] \in Branch BY DEF Merge
<1>3. r \in Present BY <1>2 DEF Present, Branch, Default, Absent
<1> DEFINE h == head[r]
           n == Len(log) + 1
<1>4. h \in 1..Len(log) /\ h \in Reachable BY <1>1, <1>3, ReachableIs
<1> DEFINE New(o) == [first |-> h, own |-> TRUE, change |-> MergeChange,
                      reach |-> log[h].reach \cup log[o].reach \cup {NewCommit},
                      chain |-> log[h].chain \cup {NewCommit},
                      files |-> [p \in Path |-> IF \E c \in Between(h, o) : p \in Hunked(c)
                                                THEN NewCommit ELSE log[h].files[p]]]
<1>5. PICK o \in TipsOf(tip) : log' = Append(log, New(o)) BY DEF Merge
<1>6. o \in 1..Len(log) /\ o \in Reachable BY <1>1, ReachableIs
<1> DEFINE e == New(o)
           touched == [p \in Path |-> \E c \in Between(h, o) : p \in Hunked(c)]
<1>7. n \in Nat /\ n # 0 /\ n = NewCommit /\ Len(log) \in Nat BY <1>1 DEF LogOK, NewCommit
<1>8. /\ log[h] \in CommitType /\ CommitOK(log, h) /\ log[o] \in CommitType /\ CommitOK(log, o)
  BY <1>1, <1>4, <1>6 DEF LogOK
<1>9. /\ log[h].reach \in SUBSET Nat /\ log[o].reach \in SUBSET Nat /\ log[h].chain \in SUBSET Nat
      /\ log[h].files \in [Path -> Nat]
  BY <1>8 DEF CommitType
<1>10. /\ e.first = h /\ e.own = TRUE /\ e.change = MergeChange
       /\ e.reach = log[h].reach \cup log[o].reach \cup {n} /\ e.chain = log[h].chain \cup {n}
       /\ e.files = [p \in Path |-> IF touched[p] THEN n ELSE log[h].files[p]]
  BY DEF NewCommit
<1>11. MergeChange \in ChangeType /\ MergeChange.kind = "merge"
  <2>1. AnyPath \in Path BY GitWatchAssumption DEF AnyPath
  <2> QED BY <2>1 DEF MergeChange, ChangeType
<1>12. e \in CommitType
  <2>1. e.files \in [Path -> Nat] BY <1>7, <1>9, <1>10
  <2>2. h \in Nat BY <1>4, <1>7
  <2>3. e.reach \in SUBSET Nat /\ e.chain \in SUBSET Nat BY <1>7, <1>9, <1>10
  <2>4. e = [first |-> e.first, own |-> e.own, change |-> e.change, reach |-> e.reach,
             chain |-> e.chain, files |-> e.files]
    OBVIOUS
  <2> HIDE DEF e
  <2> QED BY <1>10, <1>11, <2>1, <2>2, <2>3, <2>4 DEF CommitType
<1>13. log' = Append(log, e) BY <1>5
<1> HIDE DEF e, touched, New
<1>14. 1..h \subseteq 1..n /\ 1..o \subseteq 1..n /\ n \in 1..n BY <1>4, <1>6, <1>7
<1>15. /\ e.first \in 1..Len(log) /\ e.first \in e.reach /\ e.reach \subseteq 1..n /\ n \in e.reach
       /\ e.chain \subseteq 1..n
  BY <1>4, <1>8, <1>10, <1>14 DEF CommitOK
<1>16. \A d \in e.reach : d # n => log[d].reach \subseteq e.reach BY <1>8, <1>10 DEF CommitOK
<1>17. \A p \in Path : e.files[p] <= n
  <2> SUFFICES ASSUME NEW p \in Path PROVE e.files[p] <= n OBVIOUS
  <2>1. log[h].files[p] <= h /\ log[h].files[p] \in Nat BY <1>8, <1>9 DEF CommitOK
  <2>2. log[h].files[p] <= n /\ n <= n BY <1>4, <1>7, <2>1
  <2> QED BY <1>10, <2>2
<1>18. \A p \in Path : e.files[p] # log[e.first].files[p] => e.files[p] # 0 BY <1>7, <1>10
<1>a. e.chain \subseteq e.reach /\ \A d \in e.chain : d # n => log[d].chain \subseteq e.chain
  BY <1>8, <1>10 DEF CommitOK
<1>19. NewOK(e) BY <1>10, <1>11, <1>12, <1>15, <1>16, <1>17, <1>18, <1>a DEF NewOK
<1>20. \A d \in e.reach : d \in Reachable \cup {n} BY <1>1, <1>4, <1>6, <1>10, ReachableIs
<1>21. \A p \in Path : e.files[p] \in {n, log[h].files[p]} BY <1>10
<1> QED BY <1>10, <1>11, <1>13, <1>19, <1>20, <1>21 DEF Merged

LEMMA MergeGit ==
  ASSUME TypeInv, NEW r \in Root, Merge(r)
  PROVE  GitResult
<1>1. LogOK /\ Repository /\ on[r] \in Branch BY DEF TypeInv, Merge
<1>2. PICK e : Merged(r, e) BY MergeEntry
<1>3. GitMoved(r, on[r], Len(log) + 1) /\ \E x \in Branch : tip' = [tip EXCEPT ![x] = Len(log) + 1]
  BY <1>1 DEF Merge, NewCommit
<1> QED BY <1>1, <1>2, <1>3, HeadMovesOn DEF Merged

LEMMA SwitchGit ==
  ASSUME TypeInv, NEW r \in Root, Switch(r)
  PROVE  GitResult
<1>1. LogOK /\ Repository BY DEF TypeInv
<1>2. r \in Present /\ log' = log BY DEF Switch
<1>3. PICK b \in Free : LET c == IF tip[b] = 0 THEN head[r] ELSE tip[b]
                        IN  tip' = [tip EXCEPT ![b] = c] /\ GitMoved(r, b, c)
  BY DEF Switch
<1> DEFINE c == IF tip[b] = 0 THEN head[r] ELSE tip[b]
<1>4. b \in Branch BY DEF Free
<1>5. c \in Reachable
  <2>1. CASE tip[b] = 0 BY <1>1, <1>2, <2>1, ReachableIs
  <2>2. CASE tip[b] # 0
    <3>1. tip[b] \in TipsOf(tip) BY <1>4, <2>2 DEF TipsOf
    <3> QED BY <1>1, <2>2, <3>1, ReachableIs
  <2> QED BY <2>1, <2>2
<1>6. tip' = [tip EXCEPT ![b] = c] /\ GitMoved(r, b, c) BY <1>3
<1> HIDE DEF c
<1> QED BY <1>1, <1>2, <1>4, <1>5, <1>6, HeadMovesBack

LEMMA DetachGit ==
  ASSUME TypeInv, NEW r \in Root, Detach(r)
  PROVE  GitResult
<1>1. LogOK /\ Repository BY DEF TypeInv
<1>2. PICK c \in Reachable : GitMoved(r, NoBranch, c) BY DEF Detach
<1>3. log' = log /\ tip' = tip BY DEF Detach
<1> QED BY <1>1, <1>2, <1>3, HeadMovesBack

LEMMA ReattachGit ==
  ASSUME TypeInv, NEW r \in Root, Reattach(r)
  PROVE  GitResult
<1>1. LogOK /\ Repository BY DEF TypeInv
<1>2. PICK b \in Free : tip[b] # 0 /\ GitMoved(r, b, tip[b]) BY DEF Reattach
<1>3. log' = log /\ tip' = tip BY DEF Reattach
<1>4. b \in Branch BY DEF Free
<1>5. tip[b] \in TipsOf(tip) BY <1>2, <1>4 DEF TipsOf
<1>6. tip[b] \in Reachable BY <1>1, <1>5, ReachableIs
<1> QED BY <1>1, <1>2, <1>3, <1>4, <1>6, HeadMovesBack

LEMMA AddWorktreeGit ==
  ASSUME TypeInv, NEW r \in Root, AddWorktree(r)
  PROVE  GitResult
<1>1. LogOK /\ Repository BY DEF TypeInv
<1>2. PICK b \in Free : \E c \in IF tip[b] = 0 THEN TipsOf(tip) ELSE {tip[b]} :
                          tip' = [tip EXCEPT ![b] = c] /\ GitMoved(r, b, c)
  BY DEF AddWorktree
<1>3. log' = log BY DEF AddWorktree
<1>4. b \in Branch BY DEF Free
<1>5. PICK c \in IF tip[b] = 0 THEN TipsOf(tip) ELSE {tip[b]} :
             tip' = [tip EXCEPT ![b] = c] /\ GitMoved(r, b, c)
  BY <1>2
<1>6. c \in TipsOf(tip)
  <2>1. tip[b] # 0 => tip[b] \in TipsOf(tip) BY <1>4 DEF TipsOf
  <2> QED BY <1>5, <2>1
<1>7. c \in Reachable BY <1>1, <1>6, ReachableIs
<1> QED BY <1>1, <1>3, <1>4, <1>5, <1>7, HeadMovesBack

LEMMA FastForwardGit ==
  ASSUME TypeInv, NEW r \in Root, FastForward(r)
  PROVE  GitResult
<1>1. LogOK /\ Repository BY DEF TypeInv
<1>2. on[r] \in Branch /\ log' = log BY DEF FastForward
<1>3. r \in Present BY <1>2 DEF Present, Branch, Default, Absent
<1>4. PICK o \in TipsOf(tip) : tip' = [tip EXCEPT ![on[r]] = o] /\ GitMoved(r, on[r], o)
  BY DEF FastForward
<1>5. o \in Reachable BY <1>1, ReachableIs
<1> QED BY <1>1, <1>2, <1>3, <1>4, <1>5, HeadMovesBack

\* The moves of git, all of them but the agents'.
GitMove(r) == \/ MakeCommit(r) \/ Switch(r) \/ Detach(r) \/ Reattach(r) \/ AddWorktree(r)
              \/ Merge(r) \/ FastForward(r) \/ Amend(r)

LEMMA GitMoveResult ==
  ASSUME TypeInv, NEW r \in Root, GitMove(r)
  PROVE  GitResult /\ TypeInv'
<1>1. GitResult
  BY MakeCommitGit, SwitchGit, DetachGit, ReattachGit, AddWorktreeGit, MergeGit, FastForwardGit,
     AmendGit
     DEF GitMove
<1>2. TypeInv' BY <1>1, GitStep DEF GitResult
<1> QED BY <1>1, <1>2

\* An agent writes later than every mark.
LEMMA LastStampIs ==
  ASSUME Marks
  PROVE  LastStamp \in Nat /\ \A r \in Root : \A p \in Path : wrote[r][p] <= LastStamp
<1> DEFINE All == {0} \cup UNION {{wrote[r][p] : p \in Path} : r \in Root}
<1>1. env.writes \in Nat /\ \A r \in Root : \A p \in Path : wrote[r][p] \in 0..env.writes BY DEF Marks
<1>2. All \in SUBSET Nat /\ All # {} /\ \A x \in All : x <= env.writes BY <1>1
<1>3. LastStamp = Max(All) BY DEF LastStamp
<1>4. \A r \in Root : \A p \in Path : wrote[r][p] \in All OBVIOUS
<1> HIDE DEF All
<1>5. Max(All) \in All /\ \A x \in All : x <= Max(All) BY <1>1, <1>2, MaxIs
<1> QED BY <1>2, <1>3, <1>4, <1>5

\* What a checkout sees for p: its own mark, or that of another one.
Sees(r, p) ==
  /\ wrote[r][p] # 0 => Stamp(r, Root, p) = wrote[r][p]
  /\ wrote[r][p] = 0 =>
       \/ Stamp(r, Root, p) = 0 /\ \A x \in Root : wrote[x][p] = 0
       \/ \E x \in Root : wrote[x][p] # 0 /\ Stamp(r, Root, p) = wrote[x][p]

LEMMA StampSees == Marks => \A r \in Root : \A p \in Path : Sees(r, p)
<1> SUFFICES ASSUME Marks, NEW r \in Root, NEW p \in Path PROVE Sees(r, p) OBVIOUS
<1> QED BY StampIs DEF Sees

LEMMA StampSeesNext == Marks' => \A r \in Root : \A p \in Path : Sees(r, p)'
<1>1. (Marks => \A r \in Root : \A p \in Path : Sees(r, p))' BY StampSees, PTL
<1> QED BY <1>1

\* Of two checkouts, each has one other.
LEMMA OneOther ==
  ASSUME TwoCheckouts, NEW x \in Root, NEW y \in Root, NEW z \in Root, y # x, z # x
  PROVE  y = z
<1>1. PICK i \in DOMAIN RootOrder : x = RootOrder[i] BY Roots
<1>2. PICK j \in DOMAIN RootOrder : y = RootOrder[j] BY Roots
<1>3. PICK k \in DOMAIN RootOrder : z = RootOrder[k] BY Roots
<1>4. i # j /\ i # k BY <1>1, <1>2, <1>3
<1>5. i \in 1..2 /\ j \in 1..2 /\ k \in 1..2 BY Roots DEF TwoCheckouts
<1>6. j = k BY <1>4, <1>5
<1> QED BY <1>2, <1>3, <1>6

LEMMA AgentWritesType ==
  ASSUME TypeInv, NEW r \in Root, NEW p \in Path, AgentWrites(r, p)
  PROVE  TypeInv'
<1>1. LogOK /\ Marks /\ Repository /\ Files /\ Progress BY DEF TypeInv
<1>2. /\ wrote' = [wrote EXCEPT ![r][p] = LastStamp + 1] /\ LastStamp < env.writes
      /\ UNCHANGED <<env, moves, faults, log, gone, tip, on, head, fileVars, originVars, pollVars, histVars>>
  BY DEF AgentWrites
<1>3. env.writes \in Nat /\ wrote \in [Root -> [Path -> 0..env.writes]] BY <1>1 DEF Marks
<1> DEFINE stamp == LastStamp + 1
<1>4. stamp \in 0..env.writes /\ stamp # 0 /\ \A x \in Root : \A q \in Path : wrote[x][q] <= stamp
  <2>1. LastStamp \in Nat /\ \A x \in Root : \A q \in Path : wrote[x][q] <= LastStamp BY <1>1, LastStampIs
  <2>2. \A x \in Root : \A q \in Path : wrote[x][q] \in Nat BY <1>3
  <2> QED BY <1>2, <1>3, <2>1, <2>2
<1>5. wrote' = [wrote EXCEPT ![r][p] = stamp] BY <1>2
<1> HIDE DEF stamp
<1>6. \A x \in Root : \A q \in Path : wrote'[x][q] = IF x = r /\ q = p THEN stamp ELSE wrote[x][q]
  BY <1>3, <1>5
<1>7. wrote' \in [Root -> [Path -> 0..env.writes]] BY <1>3, <1>4, <1>5
<1>8. Marks' BY <1>2, <1>3, <1>7 DEF Marks
<1>9. \A x \in Root : \A q \in Path : wrote'[x][q] >= wrote[x][q] BY <1>3, <1>4, <1>6
<1>10. ASSUME TwoCheckouts, NEW x \in Root, NEW q \in Path
       PROVE  Stamp(x, Root, q) <= Stamp(x, Root, q)'
  <2>1. Sees(x, q) /\ Sees(x, q)' BY <1>1, <1>8, StampSees, StampSeesNext
  <2>2. CASE wrote'[x][q] # 0
    <3>1. Stamp(x, Root, q)' = wrote'[x][q] BY <2>1, <2>2 DEF Sees
    <3>2. CASE x = r /\ q = p
      <4>1. wrote'[x][q] = stamp BY <1>6, <3>2
      <4>2. stamp \in Nat BY <1>3, <1>4
      <4> QED BY <1>4, <2>1, <3>1, <4>1, <4>2 DEF Sees
    <3>3. CASE ~(x = r /\ q = p)
      <4>1. wrote'[x][q] = wrote[x][q] BY <1>6, <3>3
      <4>2. Stamp(x, Root, q) = wrote[x][q] BY <2>1, <2>2, <4>1 DEF Sees
      <4>3. wrote[x][q] \in Nat BY <1>3
      <4> QED BY <3>1, <4>1, <4>2, <4>3
    <3> QED BY <3>2, <3>3
  <2>3. CASE wrote'[x][q] = 0
    <3>1. wrote[x][q] = 0 BY <1>4, <1>6, <2>3
    <3>2. Stamp(x, Root, q)' \in Nat /\ Stamp(x, Root, q) \in Nat
      BY <1>3, <1>7, <2>1 DEF Sees
    <3>3. CASE Stamp(x, Root, q) = 0 BY <3>2, <3>3
    <3>4. CASE Stamp(x, Root, q) # 0
      <4>1. PICK y \in Root : wrote[y][q] # 0 /\ Stamp(x, Root, q) = wrote[y][q]
        BY <2>1, <3>1, <3>4 DEF Sees
      <4>2. wrote'[y][q] # 0 BY <1>4, <1>6, <4>1
      <4>3. PICK z \in Root : wrote'[z][q] # 0 /\ Stamp(x, Root, q)' = wrote'[z][q]
        BY <2>1, <2>3, <4>2 DEF Sees
      <4>4. y = z BY <1>10, <2>3, <3>1, <4>1, <4>3, OneOther
      <4> QED BY <1>9, <3>2, <4>1, <4>3, <4>4
    <3> QED BY <3>3, <3>4
  <2> QED BY <2>2, <2>3
<1>11. LogOK' /\ Repository' /\ Kept /\ Present' = Present
  BY <1>1, <1>2 DEF LogOK, Repository, Kept, Present
<1>12. Files' BY <1>1, <1>2, <1>8, <1>10, <1>11, FilesKept
<1>13. Progress' BY <1>1, <1>2, <1>11, ProgressKept
<1> QED BY <1>2, <1>8, <1>11, <1>12, <1>13 DEF TypeInv

-----------------------------------------------------------------------------
(* The types through a poll.                                                *)

LEMMA FirstIn ==
  ASSUME NEW S \in SUBSET Root, S # {}
  PROVE  First(S) \in S
<1> DEFINE I == {i \in DOMAIN RootOrder : RootOrder[i] \in S}
<1>1. I \in SUBSET Nat /\ I # {} BY Roots
<1>2. \A i \in I : RootOrder[i] \in S OBVIOUS
<1>3. First(S) = RootOrder[Min(I)] BY DEF First
<1> HIDE DEF I
<1>4. Min(I) \in I BY <1>1, MinIs
<1> QED BY <1>2, <1>3, <1>4

\* Where git and the agents rest.
LEMMA Resting ==
  ASSUME TypeInv, UNCHANGED <<env, gitVars>>
  PROVE  /\ env' \in Environments /\ LogOK' /\ Marks' /\ Repository'
         /\ Present' = Present /\ FoundType' = FoundType /\ LedgerType' = LedgerType
         /\ Len(log') = Len(log)
         /\ \A r \in Root : Ledgers(r)' = Ledgers(r)
<1>1. UNCHANGED <<env, log, gone, tip, on, head, wrote>> BY DEF gitVars
<1>2. LogOK' BY <1>1 DEF TypeInv, LogOK
<1>3. Marks' BY <1>1 DEF TypeInv, Marks
<1>4. Present' = Present BY <1>1 DEF Present
<1>5. Repository' BY <1>1, <1>4 DEF TypeInv, Repository
<1>6. FoundType' = FoundType /\ LedgerType' = LedgerType BY <1>1 DEF FoundType, LedgerType, Stamps
<1>7. \A r \in Root : \A p \in Path : Stamp(r, Root, p)' = Stamp(r, Root, p) BY <1>1 DEF Stamp
<1>8. ASSUME NEW r \in Root PROVE Ledgers(r)' = Ledgers(r)
  <2>1. \A L \in LedgerType : Unspent(r, L)' <=> Unspent(r, L) BY <1>7 DEF Unspent
  <2> QED BY <1>6, <2>1 DEF Ledgers
<1> QED BY <1>1, <1>2, <1>3, <1>4, <1>5, <1>6, <1>8 DEF TypeInv

LEMMA FilesRest ==
  ASSUME TypeInv, UNCHANGED <<env, gitVars, fileVars>>
  PROVE  Files'
<1>1. UNCHANGED <<cursor, replay, recorded, tips, deferred, rework>> BY DEF fileVars
<1> QED BY <1>1, Resting DEF TypeInv, Files

LEMMA NothingFound ==
  ASSUME TypeInv, NEW c \in 0..Len(log), NEW d \in 0..Len(log)
  PROVE  [Nothing EXCEPT !.to = c, !.owed = d] \in FoundType /\ Nothing \in FoundType
<1>1. 0 \in 0..Len(log) BY DEF TypeInv, LogOK
<1> QED BY <1>1 DEF Nothing, FoundType

LEMMA StartPollType ==
  ASSUME TypeInv, StartPoll
  PROVE  TypeInv'
<1>1. UNCHANGED <<env, gitVars, fileVars, batch, seen, emitted>> BY DEF StartPoll
<1>2. /\ env' \in Environments /\ LogOK' /\ Marks' /\ Repository'
      /\ Present' = Present /\ FoundType' = FoundType /\ Len(log') = Len(log)
  BY <1>1, Resting
<1>3. Files' BY <1>1, FilesRest
<1>4. pc = "idle" /\ pc' = "heads" /\ todo' = Present BY DEF StartPoll, Go
<1>a. budget' \in Int
  <2>1. env \in Environments BY DEF TypeInv
  <2>2. env.total \in Nat \ {0} BY <2>1, Bounds
  <2>3. env.total \in Nat BY <2>2
  <2>4. budget' = env.total BY DEF StartPoll
  <2> QED BY <2>3, <2>4
<1>5. found' \in [Root -> FoundType]
  <2>1. found' = [r \in Root |-> [Nothing EXCEPT !.to = cursor[r], !.owed = replay[r]]] BY DEF StartPoll
  <2>2. \A r \in Root : cursor[r] \in 0..Len(log) /\ replay[r] \in 0..Len(log) BY DEF TypeInv, Files
  <2>3. \A r \in Root : [Nothing EXCEPT !.to = cursor[r], !.owed = replay[r]] \in FoundType
    BY <2>2, NothingFound
  <2> QED BY <2>1, <2>3
<1>6. Progress' BY <1>1, <1>2, <1>4, <1>5, <1>a DEF TypeInv, Progress
<1> QED BY <1>2, <1>3, <1>6 DEF TypeInv

LEMMA RecentBaseIn ==
  ASSUME LogOK, NEW h \in 1..Len(log)
  PROVE  /\ RecentBase(h) \in 0..Len(log)
         /\ RecentBase(h) # 0 => RecentBase(h) \in log[h].reach
<1> DEFINE own == Chain(tip[Default], h)
<1>0. Len(log) \in Nat BY DEF LogOK
<1>1. own \subseteq 1..h BY DEF Chain, LogOK, CommitOK
<1>2. RecentBase(h) = IF own = {} THEN 0 ELSE log[Min(own)].first BY DEF RecentBase
<1> HIDE DEF own
<1>3. ASSUME own # {} PROVE log[Min(own)].first \in 0..Len(log)
  <2>1. own \in SUBSET Nat BY <1>1
  <2>a. Min(own) \in own BY <1>3, <2>1, MinIs
  <2>b. 1..h \subseteq 1..Len(log) BY <1>0
  <2>2. Min(own) \in 1..Len(log) BY <1>1, <2>a, <2>b
  <2>3. log[Min(own)].first \in Nat /\ log[Min(own)].first < Min(own)
    <3>1. log[Min(own)] \in CommitType /\ CommitOK(log, Min(own)) BY <2>2 DEF LogOK
    <3> QED BY <3>1 DEF CommitType, CommitOK
  <2> QED BY <1>0, <2>2, <2>3
<1>4. ASSUME own # {}, log[Min(own)].first # 0 PROVE log[Min(own)].first \in log[h].reach
  <2>1. own \in SUBSET Nat BY <1>1
  <2>2. Min(own) \in own BY <1>4, <2>1, MinIs
  <2>3. Min(own) \in log[h].chain BY <2>2 DEF own, Chain
  <2>4. CommitOK(log, h) BY DEF LogOK
  <2>5. Min(own) \in log[h].reach /\ log[Min(own)].reach \subseteq log[h].reach BY <2>3, <2>4 DEF CommitOK
  <2>6. 1..h \subseteq 1..Len(log) BY <1>0
  <2>7. Min(own) \in 1..Len(log) BY <1>1, <2>2, <2>6
  <2>8. log[Min(own)].first \in log[Min(own)].reach BY <1>4, <2>7 DEF LogOK, CommitOK
  <2> QED BY <2>5, <2>8
<1> QED BY <1>0, <1>2, <1>3, <1>4

LEMMA SelectedIn ==
  ASSUME NEW S, NEW n
  PROVE  Oldest(S, n) \subseteq S /\ Newest(S, n) \subseteq S
BY DEF Oldest, Newest

\* The oldest are the first of their order.
LEMMA OldestFirst ==
  ASSUME NEW S \in SUBSET Nat, IsFiniteSet(S), NEW n \in Int, NEW m \in Oldest(S, n), NEW x \in S, x <= m
  PROVE  x \in Oldest(S, n)
<1> DEFINE Below(y) == {d \in S : d < y}
<1>1. m \in S /\ Cardinality(Below(m)) < n BY DEF Oldest
<1>2. Below(x) \subseteq Below(m)
  <2> SUFFICES ASSUME NEW d \in S, d < x PROVE d < m OBVIOUS
  <2>1. d \in Nat /\ x \in Nat /\ m \in Nat BY <1>1
  <2>2. x <= m OBVIOUS
  <2> QED BY <2>1, <2>2
<1>3. Below(m) \subseteq S OBVIOUS
<1>4. IsFiniteSet(Below(m)) BY <1>3, FS_Subset
<1>5. Cardinality(Below(x)) <= Cardinality(Below(m)) /\ IsFiniteSet(Below(x)) BY <1>2, <1>4, FS_Subset
<1> HIDE DEF Below
<1>6. Cardinality(Below(x)) \in Nat /\ Cardinality(Below(m)) \in Nat BY <1>4, <1>5, FS_CardinalityType
<1>7. Cardinality(Below(x)) < n BY <1>1, <1>5, <1>6
<1> QED BY <1>7 DEF Oldest, Below

LEMMA CommitsFinite ==
  ASSUME LogOK, NEW S \in SUBSET (1..Len(log))
  PROVE  IsFiniteSet(S) /\ S \in SUBSET Nat /\ Cardinality(S) \in Nat
<1>1. Len(log) \in Nat BY DEF LogOK
<1>2. IsFiniteSet(1..Len(log)) /\ 1..Len(log) \subseteq Nat BY <1>1, FS_Interval
<1>3. IsFiniteSet(S) BY <1>2, FS_Subset
<1> QED BY <1>2, <1>3, FS_CardinalityType

\* What is older than one of the oldest is among them, and some are where there are any.
LEMMA OldestDown ==
  ASSUME LogOK, NEW all \in SUBSET (1..Len(log)), NEW n \in Int, NEW k \in Int,
         NEW m \in Oldest(Oldest(all, n), k), NEW x \in all, x <= m
  PROVE  x \in Oldest(Oldest(all, n), k)
<1> DEFINE range == Oldest(all, n)
<1>1. range \subseteq all /\ m \in range BY SelectedIn
<1>2. range \in SUBSET (1..Len(log)) BY <1>1
<1>3. IsFiniteSet(all) /\ all \in SUBSET Nat /\ IsFiniteSet(range) /\ range \in SUBSET Nat
  BY <1>2, CommitsFinite
<1>4. x \in range BY <1>1, <1>3, OldestFirst
<1> HIDE DEF range
<1>5. m \in Oldest(range, k) BY DEF range
<1>6. x \in Oldest(range, k) BY <1>3, <1>4, <1>5, OldestFirst
<1> QED BY <1>6 DEF range

LEMMA OldestSome ==
  ASSUME LogOK, NEW S \in SUBSET (1..Len(log)), NEW n \in Nat \ {0}, Oldest(S, n) = {}
  PROVE  S = {}
<1> SUFFICES ASSUME S # {} PROVE FALSE OBVIOUS
<1>1. Min(S) \in S /\ \A x \in S : Min(S) <= x BY LatestIn
<1>2. S \in SUBSET Nat BY CommitsFinite
<1> DEFINE m == Min(S)
<1>3. m \in Nat /\ \A x \in S : x \in Nat /\ m <= x BY <1>1, <1>2
<1> HIDE DEF m
<1>4. \A x \in S : ~(x < m) BY <1>3
<1>5. {d \in S : d < m} = {} BY <1>4
<1>6. Cardinality({d \in S : d < m}) < n BY <1>5, FS_EmptySet
<1>7. m \in Oldest(S, n) BY <1>1, <1>6 DEF Oldest, m
<1> QED BY <1>7

\* A cursor that moves to the last of the oldest passes over no other commit.
LEMMA OldestCover ==
  ASSUME LogOK, NEW old \in 1..Len(log), NEW h \in 1..Len(log), NEW n \in Int, NEW k \in Int,
         Oldest(Oldest(Between(old, h), n), k) # {}
  PROVE  LET take == Oldest(Oldest(Between(old, h), n), k)
         IN  Max(take) \in 1..Len(log) /\ Between(old, Max(take)) \subseteq take
<1> DEFINE all == Between(old, h)
           range == Oldest(all, n)
           take == Oldest(range, k)
           m == Max(take)
<1>0. Len(log) \in Nat BY DEF LogOK
<1>1. /\ log[h].reach \subseteq 1..h
      /\ \A d \in log[h].reach : log[d].reach \subseteq log[h].reach
  BY DEF LogOK, CommitOK
<1>2. 1..h \subseteq 1..Len(log) BY <1>0
<1>3. all \in SUBSET (1..Len(log)) /\ all \subseteq log[h].reach BY <1>1, <1>2 DEF Between
<1>4. range \subseteq all /\ take \subseteq range BY SelectedIn
<1>5. take \in SUBSET (1..Len(log)) /\ range \in SUBSET (1..Len(log)) BY <1>3, <1>4
<1> HIDE DEF take
<1>6. m \in take /\ \A x \in take : x <= m
  <2>1. take # {} BY DEF take
  <2> QED BY <1>5, <2>1, LatestIn
<1>7. m \in 1..Len(log) /\ m \in range /\ m \in all BY <1>4, <1>5, <1>6
<1> HIDE DEF m
<1>8. log[m].reach \subseteq log[h].reach /\ log[m].reach \subseteq 1..m
  BY <1>1, <1>3, <1>7 DEF LogOK, CommitOK
<1>9. ASSUME NEW x \in Between(old, m) PROVE x \in take
  <2>1. x \in all /\ x <= m BY <1>8 DEF Between
  <2>2. m \in Oldest(Oldest(all, n), k) BY <1>6 DEF take
  <2> HIDE DEF all
  <2> QED BY <1>3, <2>1, <2>2, OldestDown DEF take
<1> QED BY <1>7, <1>9 DEF take, m

LEMMA OldestCoverChain ==
  ASSUME LogOK, NEW old \in 1..Len(log), NEW h \in 1..Len(log), NEW n \in Int, NEW k \in Int,
         Oldest(Oldest(Chain(old, h), n), k) # {}
  PROVE  LET take == Oldest(Oldest(Chain(old, h), n), k)
         IN  /\ log[Max(take)].chain \subseteq log[h].chain /\ Chain(old, Max(take)) \subseteq take
             /\ h \in take => Chain(old, h) \subseteq take
<1> DEFINE all == Chain(old, h)
           take == Oldest(Oldest(all, n), k)
           m == Max(take)
<1>1. CommitOK(log, h) /\ Len(log) \in Nat BY DEF LogOK
<1>2. 1..h \subseteq 1..Len(log) BY <1>1
<1>3. all \in SUBSET (1..Len(log)) /\ all \subseteq log[h].chain BY <1>1, <1>2 DEF Chain, CommitOK
<1>4. take \subseteq all BY SelectedIn
<1>5. m \in take
  <2>1. take # {} /\ take \in SUBSET (1..Len(log)) BY <1>3, <1>4
  <2> HIDE DEF take
  <2> QED BY <2>1, LatestIn
<1>6. \A y \in take : \A x \in all : x <= y => x \in take
  <2> HIDE DEF all
  <2> QED BY <1>3, OldestDown
<1>7. m \in log[h].chain /\ m \in 1..Len(log) BY <1>3, <1>4, <1>5
<1> HIDE DEF m
<1>8. log[m].chain \subseteq log[h].chain /\ log[m].chain \subseteq 1..m
  BY <1>1, <1>7 DEF LogOK, CommitOK
<1>9. Chain(old, m) \subseteq take
  <2> SUFFICES ASSUME NEW x \in Chain(old, m) PROVE x \in take OBVIOUS
  <2>1. x \in all /\ x <= m BY <1>8 DEF Chain
  <2> HIDE DEF all, take
  <2> QED BY <1>5, <1>6, <2>1
<1>10. \A x \in all : x <= h BY <1>1 DEF Chain, CommitOK
<1>11. h \in take => all \subseteq take
  <2> HIDE DEF all, take
  <2> QED BY <1>6, <1>10
<1> QED BY <1>8, <1>9, <1>11 DEF m

\* What the cursor passes over and git has listed is known to the poll, once the visit of
\* r has found g.
Passes(r, g) ==
  \/ g.to = 0
  \/ (IF cursor[r] = 0 THEN log[g.to].chain \ baseline'
      ELSE IF replay[r] # 0 THEN Chain(cursor[r], g.to)
      ELSE Between(cursor[r], g.to)) \ g.unseen \subseteq g.commits

Due(r, g) == found[r].to = cursor[r] => Passes(r, g)

\* What a visit of a HEAD finds: nothing new, or a range whose requests are made.
Same(r, g) == g.commits = found[r].commits

Asks(r, g, S, n) ==
  /\ jobs' = Published(r, S, n)
  /\ Same(r, g) \/ (n = Cardinality(S) /\ g.commits = S)

Finds(r, g) ==
  /\ g \in FoundType /\ found' = [found EXCEPT ![r] = g] /\ Due(r, g)
  /\ \/ jobs' = jobs /\ Same(r, g)
     \/ \E S \in SUBSET (1..Len(log)) : \E n \in Int : Asks(r, g, S, n)

LEMMA PollHeadFinds ==
  ASSUME TypeInv, NEW r \in Root, PollHead(r)
  PROVE  budget' \in Int /\ \E g : Finds(r, g)
<1>0. PICK based \in BOOLEAN, lists \in BOOLEAN : Visit(r, based, lists) BY DEF PollHead
<1> DEFINE h       == head[r]
           cold    == cursor[r] = 0
           recent  == IF cold /\ \E x \in Root : cursor[x] # 0 THEN RecentBase(h) ELSE 0
           base    == IF based THEN recent ELSE 0
           old     == IF cold THEN base ELSE cursor[r]
           target  == IF cold THEN h ELSE replay[r]
           replays == target # 0
           listed  == lists /\ {old, target} \cap gone = {}
           range   == IF replays THEN Oldest(Chain(old, target), env.cap)
                      ELSE IF old = h THEN {} ELSE NewCommits(old, h, listed)
           take    == Oldest(range, budget)
           f       == [found[r] EXCEPT !.cold = IF cold THEN h ELSE 0]
           back    == IF cold THEN [f EXCEPT !.to = old, !.owed = target] ELSE f
           last    == range = {} \/ target \in take
           Found(g)   == found' = [found EXCEPT ![r] = g]
           Skipped(g) == Found(g) /\ jobs' = jobs /\ budget' = budget
           Took(g) ==
             \E n \in 0..Cardinality(take) :
               /\ jobs' = Published(r, take, n)
               /\ IF n = Cardinality(take)
                  THEN Found([g EXCEPT !.commits = take]) /\ budget' = budget - n
                  ELSE Found(back) /\ budget' = budget
           lost    == IF recent = 0 THEN {} ELSE Chain(recent, h)
           given   == Between(old, h) \cup Chain(old, target) \cup Between(target, h)
           passing == IF listed THEN {} ELSE Between(old, Max(take)) \ take
<1>1. \/ /\ cold /\ base = 0
         /\ Skipped([f EXCEPT !.to = h, !.drained = TRUE, !.unseen = lost])
      \/ /\ old # 0 /\ ~replays /\ range = {}
         /\ Skipped([f EXCEPT !.to = h, !.drained = TRUE])
      \/ /\ old # 0 /\ replays
         /\ Skipped([f EXCEPT !.to = h, !.owed = 0, !.unseen = given])
      \/ old # 0 /\ replays /\ Skipped([f EXCEPT !.to = old, !.owed = target])
      \/ Skipped(f)
      \/ /\ old # 0 /\ replays /\ (range = {} \/ take # {})
         /\ Took([f EXCEPT !.to = IF last THEN target ELSE Max(take),
                           !.owed = IF last THEN 0 ELSE target,
                           !.drained = last /\ target = h])
      \/ /\ old # 0 /\ ~replays /\ take # {}
         /\ Took([f EXCEPT !.to = Max(take), !.fold = Foldable(old, h, listed), !.drained = Max(take) = h,
                           !.unseen = passing])
  <2> HIDE DEF h, recent, base, old, listed, range, take
  <2> QED BY <1>0 DEF Visit, h, recent, base, old, listed, range, take
<1>a. cold => (IF recent = 0 THEN log[h].reach ELSE log[h].reach \ Chain(recent, h)) \subseteq baseline'
  <2> HIDE DEF recent, h
  <2> QED BY <1>0 DEF Visit, recent, h
<1>2. LogOK /\ Repository /\ Files /\ Progress /\ env \in Environments BY DEF TypeInv
<1>3. Len(log) \in Nat /\ 0 \in 0..Len(log) /\ 1..Len(log) \subseteq 0..Len(log) BY <1>2 DEF LogOK
<1>4. h \in 1..Len(log)
  <2>1. todo \in SUBSET Root /\ todo # {} /\ r = First(todo) /\ todo \subseteq Present
    BY <1>2 DEF PollHead, At, Progress, Present
  <2>2. r \in Present BY <2>1, FirstIn
  <2> QED BY <1>2, <2>2, ReachableIs
<1> HIDE DEF h
<1>b. base # 0 => base = recent OBVIOUS
<1>u. recent # 0 => recent \in log[h].reach BY <1>2, <1>4, RecentBaseIn
<1>c. base # 0 => base \in log[h].reach BY <1>b, <1>u
<1>d. CommitOK(log, h) /\ h # 0 BY <1>2, <1>3, <1>4 DEF LogOK
<1>e. base # 0 => base \in 1..Len(log) /\ log[base].chain \subseteq log[h].reach
  <2> HIDE DEF base
  <2>1. 1..h \subseteq 1..Len(log) BY <1>3, <1>4
  <2>2. base # 0 => base \in 1..Len(log) /\ log[base].reach \subseteq log[h].reach
    BY <1>c, <1>d, <2>1 DEF CommitOK
  <2>3. base # 0 => log[base].chain \subseteq log[base].reach BY <1>2, <2>2 DEF LogOK, CommitOK
  <2> QED BY <2>2, <2>3
<1>f. old # 0 /\ cold => old = base /\ target = h BY DEF old, target
<1>g. ~cold => target = replay[r] BY DEF target
<1> HIDE DEF base
<1>5. old \in 0..Len(log) /\ target \in 0..Len(log) /\ (~cold => old = cursor[r])
  <2>1. base \in 0..Len(log) BY <1>2, <1>3, <1>4, RecentBaseIn DEF base, recent
  <2> QED BY <1>2, <1>3, <1>4, <2>1 DEF Files, old, target, cold
<1>6. /\ f \in FoundType /\ f.commits = found[r].commits /\ f.to = found[r].to
  <2>1. found[r] \in FoundType BY <1>2 DEF Progress
  <2>2. (IF cold THEN h ELSE 0) \in 0..Len(log) BY <1>3, <1>4
  <2> HIDE DEF cold
  <2> QED BY <2>1, <2>2 DEF FoundType
<1> HIDE DEF old, target, f, cold
<1>8. /\ back \in FoundType /\ back.commits = found[r].commits
      /\ back.to = IF cold THEN old ELSE f.to
  BY <1>5, <1>6 DEF FoundType
<1>h. cold <=> cursor[r] = 0 BY DEF cold
<1>i. ASSUME NEW g, old # 0, target # 0, g.to \in 1..Len(log), Chain(old, g.to) \ g.unseen \subseteq g.commits,
             cold => log[g.to].chain \subseteq log[h].reach
      PROVE  (cold \/ replay[r] # 0) => Passes(r, g)
  <2>1. CASE cold
    <3>1. cursor[r] = 0 /\ log[h].reach \ Chain(old, h) \subseteq baseline' BY <1>a, <1>b, <1>f, <1>h, <1>i, <2>1
    <3>2. Chain(old, h) \subseteq log[h].chain \ log[old].reach BY DEF Chain
    <3>3. log[g.to].chain \ baseline' \subseteq Chain(old, g.to) BY <1>i, <2>1, <3>1, <3>2 DEF Chain
    <3> QED BY <1>i, <3>1, <3>3 DEF Passes
  <2>2. CASE ~cold BY <1>5, <1>h, <1>i, <2>2 DEF Passes
  <2> QED BY <2>1, <2>2
<1>j. ASSUME NEW c \in 1..Len(log) PROVE Chain(c, c) = {} /\ Between(c, c) = {}
  BY <1>2 DEF Chain, Between, LogOK, CommitOK
<1>9. range \subseteq 1..Len(log)
  <2>1. CASE replays
    <3>1. target \in 1..Len(log) BY <1>3, <1>5, <2>1
    <3>2. log[target].chain \subseteq 1..target BY <1>2, <3>1 DEF LogOK, CommitOK
    <3>3. 1..target \subseteq 1..Len(log) BY <1>3, <3>1
    <3> QED BY <2>1, <3>2, <3>3, SelectedIn DEF Chain
  <2>2. CASE ~replays
    <3>1. log[h].reach \subseteq 1..h BY <1>2, <1>4 DEF LogOK, CommitOK
    <3>2. 1..h \subseteq 1..Len(log) BY <1>3, <1>4
    <3>3. NewCommits(old, h, listed) \subseteq log[h].reach BY SelectedIn DEF NewCommits, Between
    <3> QED BY <2>2, <3>1, <3>2, <3>3
  <2> QED BY <2>1, <2>2
<1> HIDE DEF replays
<1>10. take \in SUBSET (1..Len(log)) /\ take \subseteq range BY <1>9, SelectedIn
<1>11. Cardinality(take) \in Nat BY <1>2, <1>10, CommitsFinite
<1>12. budget \in Int BY <1>2 DEF Progress
<1>13. ASSUME take # {} PROVE Max(take) \in 1..Len(log) /\ Max(take) \in 0..Len(log)
  <2> HIDE DEF take
  <2>1. Max(take) \in take BY <1>2, <1>10, <1>13, LatestIn
  <2> QED BY <1>3, <1>10, <2>1
<1>k. env.cap \in Nat \ {0} /\ env.cap \in Int
  <2>1. env.cap \in Nat \ {0} BY <1>2, Bounds
  <2> QED BY <2>1
<1>l. ASSUME old # 0, replays PROVE old \in 1..Len(log) /\ target \in 1..Len(log)
  BY <1>3, <1>5, <1>l DEF replays
<1>m. ASSUME old # 0, replays, range = {} PROVE Chain(old, target) = {}
  <2>1. Oldest(Chain(old, target), env.cap) = {} BY <1>m DEF range
  <2>2. Chain(old, target) \in SUBSET (1..Len(log))
    <3>1. target \in 1..Len(log) BY <1>l, <1>m
    <3>2. log[target].chain \subseteq 1..target /\ 1..target \subseteq 1..Len(log)
      BY <1>2, <1>3, <3>1 DEF LogOK, CommitOK
    <3> QED BY <3>2 DEF Chain
  <2> QED BY <1>2, <1>k, <2>1, <2>2, OldestSome
<1>n. ASSUME old # 0, replays, take # {}
      PROVE  /\ log[Max(take)].chain \subseteq log[target].chain /\ Chain(old, Max(take)) \subseteq take
             /\ target \in take => Chain(old, target) \subseteq take
  <2>1. take = Oldest(Oldest(Chain(old, target), env.cap), budget) BY <1>n DEF take, range
  <2>2. old \in 1..Len(log) /\ target \in 1..Len(log) BY <1>l, <1>n
  <2> HIDE DEF take
  <2> QED BY <1>2, <1>12, <1>k, <1>n, <2>1, <2>2, OldestCoverChain
<1>o. ASSUME old # 0, ~replays PROVE ~cold /\ old = cursor[r] /\ cursor[r] \in 1..Len(log) /\ replay[r] = 0
  <2>1. target = 0 /\ ~cold BY <1>d, <1>f, <1>o DEF replays
  <2>2. cursor[r] \in 0..Len(log) BY <1>2 DEF Files
  <2> QED BY <1>3, <1>5, <1>g, <1>o, <2>1, <2>2
<1>p. ASSUME old # 0, ~replays, range = {} PROVE Between(cursor[r], h) = {}
  <2>1. CASE old = h BY <1>4, <1>j, <1>o, <1>p, <2>1
  <2>2. CASE old # h /\ listed
    <3>1. Oldest(Between(cursor[r], h), env.cap) = {} BY <1>o, <1>p, <2>2 DEF range, NewCommits
    <3>2. Between(cursor[r], h) \in SUBSET (1..Len(log))
      <4>1. log[h].reach \subseteq 1..h /\ 1..h \subseteq 1..Len(log) BY <1>3, <1>4, <1>d DEF CommitOK
      <4> QED BY <4>1 DEF Between
    <3> QED BY <1>2, <1>k, <3>1, <3>2, OldestSome
  <2>3. CASE old # h /\ ~listed
    <3>1. range = Newest(log[h].reach, env.cap) BY <1>p, <2>3 DEF range, NewCommits
    <3>2. h \in log[h].reach /\ log[h].reach \subseteq 1..h BY <1>d DEF CommitOK
    <3>3. \A d \in log[h].reach : ~(d > h) BY <1>3, <1>4, <3>2
    <3>4. {d \in log[h].reach : d > h} = {} BY <3>3
    <3>5. Cardinality({d \in log[h].reach : d > h}) < env.cap BY <1>k, <3>4, FS_EmptySet
    <3>6. h \in Newest(log[h].reach, env.cap) BY <3>2, <3>5 DEF Newest
    <3> QED BY <1>p, <3>1, <3>6
  <2> QED BY <2>1, <2>2, <2>3
<1>q. ASSUME old # 0, ~replays, take # {}, listed
      PROVE  Max(take) \in 1..Len(log) /\ Between(cursor[r], Max(take)) \subseteq take
  <2>0. old # h BY <1>q, SelectedIn DEF range, take
  <2>1. range = Oldest(Between(old, h), env.cap) BY <1>q, <2>0 DEF range, NewCommits
  <2>2. take = Oldest(Oldest(Between(old, h), env.cap), budget) BY <2>1 DEF take
  <2>3. old \in 1..Len(log) /\ old = cursor[r] BY <1>o, <1>q
  <2> QED BY <1>2, <1>4, <1>12, <1>k, <1>q, <2>2, <2>3, OldestCover
<1>v. lost \subseteq 1..Len(log) /\ (replays => given \subseteq 1..Len(log))
  <2>1. \A c \in 1..Len(log) : log[c].chain \subseteq 1..Len(log) /\ log[c].reach \subseteq 1..Len(log)
    <3> SUFFICES ASSUME NEW c \in 1..Len(log)
                 PROVE  log[c].chain \subseteq 1..Len(log) /\ log[c].reach \subseteq 1..Len(log)
      OBVIOUS
    <3>1. CommitOK(log, c) BY <1>2 DEF LogOK
    <3>2. 1..c \subseteq 1..Len(log) BY <1>3
    <3> QED BY <3>1, <3>2 DEF CommitOK
  <2> HIDE DEF recent
  <2>2. lost \subseteq log[h].chain BY DEF Chain, lost
  <2>3. given \subseteq log[h].reach \cup log[target].chain BY DEF Chain, Between, given
  <2>4. target # 0 => log[target].chain \subseteq 1..Len(log) BY <1>3, <1>5, <2>1
  <2> QED BY <1>4, <2>1, <2>2, <2>3, <2>4 DEF replays
<1>w. ASSUME take # {} PROVE passing \subseteq 1..Len(log)
  <2> DEFINE m == Max(take)
  <2>1. m \in 1..Len(log) BY <1>13, <1>w
  <2> HIDE DEF m
  <2>2. log[m].reach \subseteq 1..m BY <1>2, <2>1 DEF LogOK, CommitOK
  <2>3. 1..m \subseteq 1..Len(log) BY <1>3, <2>1
  <2> QED BY <2>2, <2>3 DEF Between, passing, m
<1>x. ASSUME old # 0, ~replays, take # {}
      PROVE  Between(cursor[r], Max(take)) \ passing \subseteq take
  <2>1. CASE listed BY <1>q, <1>x, <2>1
  <2>2. CASE ~listed BY <1>o, <1>x, <2>2 DEF passing
  <2> QED BY <2>1, <2>2
<1>y. lost = (IF recent = 0 THEN {} ELSE Chain(recent, h)) /\ Between(old, h) \subseteq given BY DEF lost, given
<1> HIDE DEF listed, range, take, back, Skipped, Took, last, lost, given, passing, recent
\* What stays where the checkout was passes over nothing.
<1>r. ASSUME NEW g, g.commits = found[r].commits, g.to = found[r].to, ~cold PROVE Due(r, g)
  <2> SUFFICES ASSUME found[r].to = cursor[r] PROVE Passes(r, g) BY DEF Due
  <2>1. cursor[r] \in 1..Len(log) /\ cursor[r] # 0
    <3>1. cursor[r] \in 0..Len(log) BY <1>2 DEF Files
    <3> QED BY <1>3, <1>h, <1>r, <3>1
  <2>2. Chain(cursor[r], g.to) = {} /\ Between(cursor[r], g.to) = {} BY <1>j, <1>r, <2>1
  <2> QED BY <2>1, <2>2 DEF Passes
<1>s. ASSUME NEW g, g.to = old, cold, old # 0 PROVE Due(r, g)
  <2>1. old \in 1..Len(log) BY <1>3, <1>5, <1>s
  <2>2. Chain(old, old) = {} BY <1>j, <2>1
  <2>3. target # 0 /\ log[old].chain \subseteq log[h].reach BY <1>d, <1>e, <1>f, <1>s
  <2> QED BY <1>i, <1>s, <2>1, <2>2, <2>3 DEF Due
<1>t. old # 0 => Due(r, back)
  <2> SUFFICES ASSUME old # 0 PROVE Due(r, back) OBVIOUS
  <2>1. CASE cold
    <3>1. back.to = old BY <1>8, <2>1
    <3> QED BY <1>s, <2>1, <3>1
  <2>2. CASE ~cold
    <3>1. back.to = found[r].to /\ back.commits = found[r].commits BY <1>6, <1>8, <2>2
    <3> QED BY <1>r, <2>2, <3>1
  <2> QED BY <2>1, <2>2
<1>14. ASSUME NEW g \in FoundType, Same(r, g), Due(r, g), Skipped(g) PROVE budget' \in Int /\ \E x : Finds(r, x)
  <2>1. found' = [found EXCEPT ![r] = g] /\ jobs' = jobs /\ budget' = budget BY <1>14 DEF Skipped
  <2>2. Finds(r, g) BY <1>14, <2>1 DEF Finds
  <2> QED BY <1>12, <2>1, <2>2
<1>15. ASSUME old # 0, NEW g \in FoundType, Took(g), Due(r, [g EXCEPT !.commits = take])
       PROVE  budget' \in Int /\ \E x : Finds(r, x)
  <2>1. PICK n \in 0..Cardinality(take) :
          /\ jobs' = Published(r, take, n)
          /\ IF n = Cardinality(take)
             THEN Found([g EXCEPT !.commits = take]) /\ budget' = budget - n
             ELSE Found(back) /\ budget' = budget
    BY <1>15 DEF Took
  <2>2. n \in Int /\ budget' \in Int BY <1>11, <1>12, <2>1
  <2> DEFINE gt == [g EXCEPT !.commits = take]
  <2>3. gt \in FoundType /\ gt.commits = take BY <1>10 DEF FoundType
  <2>4. CASE n = Cardinality(take)
    <3>1. Asks(r, gt, take, n) BY <1>15, <2>1, <2>3, <2>4 DEF Asks
    <3>2. found' = [found EXCEPT ![r] = gt] BY <2>1, <2>4
    <3>3. Due(r, gt) BY <1>15
    <3> HIDE DEF gt
    <3>4. Finds(r, gt) BY <1>10, <2>2, <2>3, <3>1, <3>2, <3>3 DEF Finds
    <3> QED BY <2>2, <3>4
  <2>5. CASE n # Cardinality(take)
    <3>1. Asks(r, back, take, n) BY <1>8, <2>1, <2>5 DEF Asks, Same
    <3>2. found' = [found EXCEPT ![r] = back] BY <2>1, <2>5
    <3>3. Finds(r, back) BY <1>8, <1>10, <1>15, <1>t, <2>2, <3>1, <3>2 DEF Finds
    <3> QED BY <2>2, <3>3
  <2> QED BY <2>4, <2>5
<1>16. CASE /\ cold /\ base = 0
            /\ Skipped([f EXCEPT !.to = h, !.drained = TRUE, !.unseen = lost])
  <2> DEFINE g == [f EXCEPT !.to = h, !.drained = TRUE, !.unseen = lost]
  <2>1. h \in 0..Len(log) BY <1>3, <1>4
  <2>2. g \in FoundType /\ Same(r, g) /\ g.to = h /\ g.unseen = lost BY <1>6, <1>v, <2>1 DEF FoundType, Same
  <2> HIDE DEF g
  <2>3. Due(r, g)
    <3>1. log[h].chain \subseteq log[h].reach BY <1>d DEF CommitOK
    <3>2. cursor[r] = 0 BY <1>h, <1>16
    <3>3. (log[g.to].chain \ baseline') \ g.unseen = {} BY <1>a, <1>y, <1>16, <2>2, <3>1
    <3> QED BY <3>2, <3>3 DEF Due, Passes
  <2> QED BY <1>14, <1>16, <2>2, <2>3 DEF g
<1>23. CASE /\ old # 0 /\ ~replays /\ range = {}
            /\ Skipped([f EXCEPT !.to = h, !.drained = TRUE])
  <2> DEFINE g == [f EXCEPT !.to = h, !.drained = TRUE]
  <2>1. h \in 0..Len(log) BY <1>3, <1>4
  <2>2. g \in FoundType /\ Same(r, g) /\ g.to = h BY <1>6, <2>1 DEF FoundType, Same
  <2> HIDE DEF g
  <2>3. Due(r, g)
    <3>1. cursor[r] \in 1..Len(log) /\ cursor[r] # 0 /\ replay[r] = 0 BY <1>3, <1>h, <1>o, <1>23
    <3>2. Between(cursor[r], g.to) = {} BY <1>p, <1>23, <2>2
    <3> QED BY <3>1, <3>2 DEF Due, Passes
  <2> QED BY <1>14, <1>23, <2>2, <2>3 DEF g
<1>17. CASE /\ old # 0 /\ replays
            /\ Skipped([f EXCEPT !.to = h, !.owed = 0, !.unseen = given])
  <2> DEFINE g == [f EXCEPT !.to = h, !.owed = 0, !.unseen = given]
  <2>1. h \in 0..Len(log) BY <1>3, <1>4
  <2>2. g \in FoundType /\ Same(r, g) /\ g.to = h /\ g.unseen = given
    BY <1>3, <1>6, <1>v, <1>17, <2>1 DEF FoundType, Same
  <2> HIDE DEF g
  <2>3. Due(r, g)
    <3>0. log[h].chain \subseteq log[h].reach BY <1>d DEF CommitOK
    <3>1. Chain(old, g.to) \ g.unseen = {} BY <1>y, <2>2, <3>0 DEF Chain, Between
    <3>2. (cold \/ replay[r] # 0) => Passes(r, g) BY <1>4, <1>i, <1>17, <2>2, <3>0, <3>1 DEF replays
    <3>3. cold \/ replay[r] # 0 BY <1>g, <1>17 DEF replays
    <3> QED BY <3>2, <3>3 DEF Due
  <2> QED BY <1>14, <1>17, <2>2, <2>3 DEF g
<1>18. CASE old # 0 /\ replays /\ Skipped([f EXCEPT !.to = old, !.owed = target])
  <2> DEFINE g == [f EXCEPT !.to = old, !.owed = target]
  <2>1. g \in FoundType /\ Same(r, g) /\ g.to = old /\ g.commits = f.commits BY <1>5, <1>6 DEF FoundType, Same
  <2> HIDE DEF g
  <2>2. Due(r, g)
    <3>1. CASE cold BY <1>18, <1>s, <2>1, <3>1
    <3>2. CASE ~cold
      <4> SUFFICES ASSUME found[r].to = cursor[r] PROVE Due(r, g) BY DEF Due
      <4>1. g.to = found[r].to /\ g.commits = found[r].commits BY <1>5, <1>6, <2>1, <3>2
      <4> QED BY <1>r, <3>2, <4>1
    <3> QED BY <3>1, <3>2
  <2> QED BY <1>14, <1>18, <2>1, <2>2 DEF g
<1>19. CASE Skipped(f)
  <2>1. CASE cold
    <3> SUFFICES ASSUME found[r].to = cursor[r] PROVE Passes(r, f) BY <1>6, <1>14, <1>19 DEF Due, Same
    <3> QED BY <1>6, <1>h, <2>1 DEF Passes
  <2>2. CASE ~cold BY <1>6, <1>14, <1>19, <1>r, <2>2 DEF Same
  <2> QED BY <2>1, <2>2
<1>20. CASE /\ old # 0 /\ replays /\ (range = {} \/ take # {})
            /\ Took([f EXCEPT !.to = IF last THEN target ELSE Max(take),
                              !.owed = IF last THEN 0 ELSE target,
                              !.drained = last /\ target = h])
  <2> DEFINE a == IF last THEN target ELSE Max(take)
             b == IF last THEN 0 ELSE target
             d == last /\ target = h
             g == [f EXCEPT !.to = a, !.owed = b, !.drained = d]
             gt == [g EXCEPT !.commits = take]
  <2>0. old # 0 /\ replays /\ (range = {} \/ take # {}) BY <1>20
  <2>1. a \in 0..Len(log) /\ b \in 0..Len(log) /\ d \in BOOLEAN BY <1>3, <1>5, <1>13, <2>0 DEF last
  <2>2. Took(g) BY <1>20
  <2>3. a \in 1..Len(log) BY <1>13, <1>l, <2>0 DEF last
  <2>4. Chain(old, a) \subseteq take
    <3>1. CASE range = {} BY <1>m, <2>0, <3>1 DEF last
    <3>2. CASE take # {} /\ range # {} BY <1>n, <2>0, <3>2 DEF last
    <3> QED BY <2>0, <3>1, <3>2
  <2>5. cold => log[a].chain \subseteq log[h].reach
    <3> SUFFICES ASSUME cold PROVE log[a].chain \subseteq log[h].reach OBVIOUS
    <3>1. target = h /\ log[h].chain \subseteq log[h].reach BY <1>d, <1>f, <2>0 DEF CommitOK
    <3>2. a = target \/ log[a].chain \subseteq log[target].chain BY <1>n, <2>0 DEF last
    <3> QED BY <3>1, <3>2
  <2> HIDE DEF a, b, d
  <2>6. g \in FoundType /\ g.to = a BY <1>6, <2>1 DEF FoundType
  <2> HIDE DEF g
  <2>7. gt.to = a /\ gt.commits = take BY <1>10, <2>6 DEF FoundType
  <2>8. Due(r, gt)
    <3> HIDE DEF gt
    <3>1. cold \/ replay[r] # 0 BY <1>g, <2>0 DEF replays
    <3>2. target # 0 BY <2>0 DEF replays
    <3>3. (cold \/ replay[r] # 0) => Passes(r, gt) BY <1>i, <2>0, <2>3, <2>4, <2>5, <2>7, <3>2
    <3> QED BY <3>1, <3>3 DEF Due
  <2> QED BY <1>15, <2>0, <2>2, <2>6, <2>8
<1>21. CASE /\ old # 0 /\ ~replays /\ take # {}
            /\ Took([f EXCEPT !.to = Max(take), !.fold = Foldable(old, h, listed), !.drained = Max(take) = h,
                              !.unseen = passing])
  <2> DEFINE d == Max(take) = h
             m == Max(take)
             F == Foldable(old, h, listed)
             g == [f EXCEPT !.to = m, !.fold = F, !.drained = d, !.unseen = passing]
             gt == [g EXCEPT !.commits = take]
  <2>1. Took(g) /\ old # 0 BY <1>21
  <2>2. d \in BOOLEAN /\ m \in 0..Len(log) /\ m \in 1..Len(log) BY <1>13, <1>21
  <2>3. F \in SUBSET (1..Len(log))
    <3>1. log[h].chain \subseteq 1..h BY <1>2, <1>4 DEF LogOK, CommitOK
    <3>2. 1..h \subseteq 1..Len(log) BY <1>3, <1>4
    <3> QED BY <3>1, <3>2 DEF Foldable, Chain
  <2>4. cursor[r] \in 1..Len(log) /\ cursor[r] # 0 /\ replay[r] = 0 BY <1>3, <1>h, <1>o, <1>21
  <2>5. Between(cursor[r], m) \ passing \subseteq take BY <1>x, <1>21
  <2>a. passing \subseteq 1..Len(log) BY <1>w, <1>21
  <2> HIDE DEF d, m, F
  <2>6. g \in FoundType /\ g.to = m /\ g.unseen = passing BY <1>6, <2>2, <2>3, <2>a DEF FoundType
  <2> HIDE DEF g
  <2>7. gt.to = m /\ gt.commits = take /\ gt.unseen = passing BY <1>10, <2>6 DEF FoundType
  <2>8. Due(r, gt)
    <3> HIDE DEF gt
    <3> QED BY <2>2, <2>4, <2>5, <2>7 DEF Due, Passes
  <2> QED BY <1>15, <2>1, <2>6, <2>8
<1> QED BY <1>1, <1>16, <1>17, <1>18, <1>19, <1>20, <1>21, <1>23

LEMMA PollHeadType ==
  ASSUME TypeInv, NEW r \in Root, PollHead(r)
  PROVE  TypeInv'
<1>1. UNCHANGED <<env, gitVars, fileVars, batch, seen, emitted>> BY DEF PollHead
<1>2. /\ env' \in Environments /\ LogOK' /\ Marks' /\ Repository'
      /\ Present' = Present /\ FoundType' = FoundType /\ Len(log') = Len(log)
  BY <1>1, Resting
<1>3. Files' BY <1>1, FilesRest
<1>4. pc = "heads" /\ pc' = "heads" /\ todo' = todo \ {r} BY DEF PollHead, At, Go, Rest
<1>5. budget' \in Int /\ found' \in [Root -> FoundType]
  <2>1. PICK g : Finds(r, g) BY PollHeadFinds
  <2>2. found \in [Root -> FoundType] BY DEF TypeInv, Progress
  <2> QED BY <2>1, <2>2, PollHeadFinds DEF Finds
<1>6. Progress' BY <1>1, <1>2, <1>4, <1>5 DEF TypeInv, Progress
<1> QED BY <1>2, <1>3, <1>6 DEF TypeInv

LEMMA SaveCursorsType ==
  ASSUME TypeInv, NEW saved \in BOOLEAN, SaveCursors(saved)
  PROVE  TypeInv'
<1>1. UNCHANGED <<env, gitVars, recorded, tips, deferred, rework, found, budget, batch, emitted>>
  BY DEF SaveCursors
<1>2. /\ env' \in Environments /\ LogOK' /\ Marks' /\ Repository'
      /\ Present' = Present /\ FoundType' = FoundType /\ LedgerType' = LedgerType
      /\ Len(log') = Len(log) /\ \A r \in Root : Ledgers(r)' = Ledgers(r)
  BY <1>1, Resting
<1>3. cursor' \in [Root -> 0..Len(log)] /\ replay' \in [Root -> 0..Len(log)]
  <2>1. CASE saved
    <3>1. cursor' = [r \in Root |-> found[r].to] /\ replay' = [r \in Root |-> found[r].owed]
      BY <2>1 DEF SaveCursors
    <3>2. \A r \in Root : found[r].to \in 0..Len(log) /\ found[r].owed \in 0..Len(log)
      BY DEF TypeInv, Progress, FoundType
    <3> QED BY <3>1, <3>2
  <2>2. CASE ~saved BY <2>2 DEF SaveCursors, TypeInv, Files
  <2> QED BY <2>1, <2>2
<1>4. Files' BY <1>1, <1>2, <1>3 DEF TypeInv, Files
<1>5. pc = "heads" /\ pc' = "bind" /\ todo' = Present /\ seen' \subseteq recorded BY DEF SaveCursors, Go
<1>6. Progress' BY <1>1, <1>2, <1>5 DEF TypeInv, Files, Progress
<1> QED BY <1>2, <1>4, <1>6 DEF TypeInv

LEMMA BindRootType ==
  ASSUME TypeInv, NEW r \in Root, BindRoot(r)
  PROVE  TypeInv'
<1> DEFINE f     == found[r]
           b     == on[r]
           adopt == b # rework[r].branch
           L     == IF adopt THEN Adopted(b) ELSE rework[r]
<1>1. UNCHANGED <<env, gitVars, cursor, replay, recorded, tips, deferred, found, budget, seen, emitted>>
  BY DEF BindRoot
<1>2. /\ env' \in Environments /\ LogOK' /\ Marks' /\ Repository'
      /\ Present' = Present /\ FoundType' = FoundType /\ LedgerType' = LedgerType
      /\ Len(log') = Len(log) /\ \A x \in Root : Ledgers(x)' = Ledgers(x)
  BY <1>1, Resting
<1>3. LogOK /\ Marks /\ Repository /\ Files /\ Progress BY DEF TypeInv
<1>4. f \in FoundType /\ f.commits \subseteq 1..Len(log) BY <1>3 DEF Progress, FoundType
<1>5. rework[r] \in Ledgers(r) BY <1>3 DEF Files
<1>6. L \in Ledgers(r) /\ Ledger \in Ledgers(r)
  <2>1. b \in Branch \cup {NoBranch, Absent} BY <1>3 DEF Repository
  <2>2. Len(log) \in Nat BY <1>3 DEF LogOK
  <2>3. Adopted(b) \in Ledgers(r) /\ Ledger \in Ledgers(r)
    <3> HIDE DEF b
    <3> QED BY <1>3, <2>1, <2>2, FreshLedger
  <2> QED BY <1>5, <2>3
<1> HIDE DEF L
<1>7. \A probed \in BOOLEAN : Bound(r, probed) \subseteq Ledgers(r)
  <2> SUFFICES ASSUME NEW probed \in BOOLEAN, NEW M \in Bound(r, probed) PROVE M \in Ledgers(r) OBVIOUS
  <2>1. M = L \/ \E own : f.cold # 0 /\ M = ColdReplay(L, r, f.cold, own) BY DEF Bound, L
  <2>2. ASSUME f.cold # 0 PROVE f.cold \in 1..Len(log)
    <3>1. f.cold \in 0..Len(log) BY <1>4 DEF FoundType
    <3> QED BY <1>3, <2>2, <3>1 DEF LogOK
  <2> QED BY <1>3, <1>6, <2>1, <2>2, ColdReplayIn
<1>8. \E M \in Ledgers(r) : rework' = [rework EXCEPT ![r] = M]
  <2>1. \/ rework' = [rework EXCEPT ![r] = Ledger]
        \/ rework' = [rework EXCEPT ![r] = IF f.commits = {} THEN @ ELSE Released(@, r)]
        \/ \E probed \in BOOLEAN : \E M \in Bound(r, probed) :
             rework' = [rework EXCEPT ![r] = IF f.commits = {} THEN Finished(M, f.drained) ELSE M]
    BY DEF BindRoot
  <2>2. Released(rework[r], r) \in Ledgers(r) BY <1>3, <1>5, ReleasedIn
  <2>3. \A M \in Ledgers(r) : Finished(M, f.drained) \in Ledgers(r) BY FinishedIn
  <2>4. r \in DOMAIN rework BY <1>3 DEF Files
  <2> QED BY <1>5, <1>6, <1>7, <2>1, <2>2, <2>3, <2>4
<1>9. Files' BY <1>1, <1>2, <1>3, <1>8 DEF Files, Ledgers
<1>10. pc = "bind" /\ todo # {} /\ batch' = f.commits BY DEF BindRoot, At
<1>11. IF f.commits = {} THEN pc' = "bind" /\ todo' = todo \ {r} ELSE pc' = "commits" /\ todo' = todo
  BY DEF BindRoot, Go, Rest
<1>12. Progress'
  <2>1. CASE f.commits = {} BY <1>1, <1>2, <1>3, <1>4, <1>10, <1>11, <2>1 DEF Progress
  <2>2. CASE f.commits # {} BY <1>1, <1>2, <1>3, <1>4, <1>10, <1>11, <2>2 DEF Progress
  <2> QED BY <2>1, <2>2
<1> QED BY <1>2, <1>9, <1>12 DEF TypeInv

LEMMA AttributeCommitType ==
  ASSUME TypeInv, NEW r \in Root, AttributeCommit(r)
  PROVE  TypeInv'
<1> DEFINE c == Min(batch)
           left == batch \ {c}
           folds  == mode # "skip" /\ c \in found[r].fold
           Ends(L) == IF left = {} /\ mode = "adopt" THEN Finished(L, found[r].drained) ELSE L
           seeds  == c \in ours /\ Added(c) # {}
<1>1. UNCHANGED <<env, gitVars, cursor, replay, recorded, tips, deferred, found, budget>>
  BY DEF AttributeCommit
<1>2. /\ env' \in Environments /\ LogOK' /\ Marks' /\ Repository'
      /\ Present' = Present /\ FoundType' = FoundType /\ LedgerType' = LedgerType
      /\ Len(log') = Len(log) /\ \A x \in Root : Ledgers(x)' = Ledgers(x)
  BY <1>1, Resting
<1>3. LogOK /\ Marks /\ Repository /\ Files /\ Progress BY DEF TypeInv
<1>4. pc = "commits" /\ todo # {} /\ batch # {} BY <1>3 DEF AttributeCommit, At, Progress
<1>5. c \in batch /\ c \in 1..Len(log)
  <2>1. batch \subseteq 1..Len(log) BY <1>3 DEF Progress
  <2> QED BY <1>3, <1>4, <2>1, LatestIn
<1> HIDE DEF c
<1>6. rework[r] \in Ledgers(r) /\ r \in DOMAIN rework BY <1>3 DEF Files
<1>7. \A x \in BOOLEAN : Fold(rework[r], r, c, held, x) \in Ledgers(r) BY <1>3, <1>5, <1>6, FoldIn
<1>8. \A L \in Ledgers(r) : Ends(L) \in Ledgers(r) BY FinishedIn
<1>9. \E L \in Ledgers(r) : rework' = [rework EXCEPT ![r] = Ends(L)]
  <2>1. \/ rework' = [rework EXCEPT ![r] = Ends(rework[r])]
        \/ rework' = [rework EXCEPT ![r] = Ends(Fold(rework[r], r, c, held, seeds))]
        \/ rework' = [rework EXCEPT ![r] = Ends(Fold(rework[r], r, c, held, FALSE))]
        \/ rework' = [rework EXCEPT ![r] = Ends(Fold(rework[r], r, c, held, TRUE))]
        \/ rework' = [rework EXCEPT ![r] = Ends(LeftOut(rework[r]))]
    BY DEF AttributeCommit, c
  <2>2. seeds \in BOOLEAN OBVIOUS
  <2>3. LeftOut(rework[r]) \in Ledgers(r) BY <1>6, LeftOutIn
  <2> HIDE DEF seeds, Ends
  <2> QED BY <1>6, <1>7, <2>1, <2>2, <2>3
<1>10. \E M \in Ledgers(r) : rework' = [rework EXCEPT ![r] = M]
  <2> HIDE DEF Ends
  <2> QED BY <1>8, <1>9
<1>11. Files' BY <1>1, <1>2, <1>3, <1>10 DEF Files, Ledgers
<1>12. /\ (seen' = seen /\ emitted' = emitted) \/ (seen' = seen \cup {c} /\ emitted' = emitted \cup {c})
       /\ batch' = left
       /\ IF left = {} THEN pc' = "bind" /\ todo' = todo \ {r} ELSE pc' = "commits" /\ todo' = todo
  BY DEF AttributeCommit, Remember, c, Go, Rest
<1>13. Progress'
  <2>1. seen' \subseteq 1..Len(log) /\ emitted' \subseteq 1..Len(log) /\ left \subseteq 1..Len(log)
    BY <1>3, <1>5, <1>12 DEF Progress
  <2>2. CASE left = {} BY <1>1, <1>2, <1>3, <1>12, <2>1, <2>2 DEF Progress
  <2>3. CASE left # {} BY <1>1, <1>2, <1>3, <1>4, <1>12, <2>1, <2>3 DEF Progress
  <2> QED BY <2>2, <2>3
<1> QED BY <1>2, <1>11, <1>13 DEF TypeInv

\* Commits that are not in the ledger, and on no HEAD.
Unseen(S) == S \cap seen = {} /\ \A x \in Present : S \cap log[head[x]].reach = {}

LEMMA FreshAre ==
  ASSUME TypeInv
  PROVE  LET hidden == UNION {log[c].reach : c \in {head[x] : x \in Present} \cup (tips \ gone)}
             fresh  == {c \in (UNION {log[t].reach : t \in TipsOf(tip)}) \ hidden :
                          log[c].own /\ c \notin seen \cup deferred}
         IN  \A n : Oldest(fresh, n) \in SUBSET (1..Len(log)) /\ Unseen(Oldest(fresh, n))
<1> DEFINE hidden == UNION {log[c].reach : c \in {head[x] : x \in Present} \cup (tips \ gone)}
           fresh  == {c \in (UNION {log[t].reach : t \in TipsOf(tip)}) \ hidden :
                        log[c].own /\ c \notin seen \cup deferred}
<1>1. LogOK /\ Repository BY DEF TypeInv
<1>2. ASSUME NEW t \in TipsOf(tip) PROVE log[t].reach \subseteq 1..Len(log)
  <2>1. t \in Reachable BY <1>1, ReachableIs
  <2>2. log[t].reach \subseteq Reachable BY <1>1, <2>1, ReachableIs
  <2> QED BY <1>1, <2>2, ReachableIs
<1>3. fresh \subseteq 1..Len(log) /\ Unseen(fresh)
  <2>1. \A x \in Present : log[head[x]].reach \subseteq hidden OBVIOUS
  <2> HIDE DEF hidden
  <2>2. fresh \cap seen = {} /\ fresh \cap hidden = {} OBVIOUS
  <2>3. fresh \subseteq 1..Len(log) BY <1>2
  <2> HIDE DEF fresh
  <2> QED BY <2>1, <2>2, <2>3 DEF Unseen
<1> HIDE DEF fresh
<1>4. \A n : Oldest(fresh, n) \subseteq fresh BY SelectedIn
<1>5. \A n : Oldest(fresh, n) \in SUBSET (1..Len(log)) /\ Unseen(Oldest(fresh, n))
  BY <1>3, <1>4 DEF Unseen
<1> QED BY <1>5 DEF fresh

\* What the step over the commits off the HEADs does: their requests first, then what is
\* known of them, each of them sent at most once.
OffHeadWith(few, n, out, done) ==
  /\ Unseen(few) /\ out \subseteq done
  /\ skipped \subseteq skipped' /\ \A c \in done \ out : Added(c) = {} \/ c \in skipped'
  /\ seen' = seen \cup done /\ emitted' = emitted \cup done /\ Send(out)
  /\ jobs' = Published(First(Present), few, n) \/ (few = {} /\ jobs' = jobs)
  /\ passed' = passed \/ (passed' = passed \cup ({First(Present)} \X few) /\ n = Cardinality(few))
  /\ tips' \in {tips, TipsOf(tip)} /\ deferred' \subseteq deferred \cup few

OffHeadDoes ==
  \E few \in SUBSET (1..Len(log)) : \E n \in Int : \E out, done \in SUBSET few :
    OffHeadWith(few, n, out, done)

LEMMA OffHeadIs ==
  ASSUME TypeInv, OffHead
  PROVE  OffHeadDoes
<1> DEFINE r      == First(Present)
           now    == TipsOf(tip)
           heads  == {head[x] : x \in Present}
           hidden == UNION {log[c].reach : c \in heads \cup (tips \ gone)}
           fresh  == {c \in (UNION {log[t].reach : t \in now}) \ hidden :
                        log[c].own /\ c \notin seen \cup deferred}
           few    == Oldest(fresh, Min({env.total, env.cap}))
           lin    == Lineage(r, few)
           known  == {c \in few : \E p \in Added(c) : SeedStamp(r, lin, c, p) # 0}
           silent == {c \in few : Added(c) = {}}
           Settle(done, left, lost) ==
             /\ tips' = IF left THEN tips ELSE now
             /\ deferred' = IF left THEN deferred \cup (few \ (known \cup silent \cup lost)) ELSE {}
             /\ seen' = seen \cup done /\ emitted' = emitted \cup done
<1>1. few \in SUBSET (1..Len(log)) /\ Unseen(few) BY FreshAre
<1>2. known \subseteq few /\ silent \subseteq few OBVIOUS
<1>3. \/ /\ tips' \in {tips, now}
         /\ UNCHANGED <<deferred, seen, emitted, sent, forgotten, resent, jobs, passed, skipped>>
      \/ \E n \in 0..Cardinality(few) :
             /\ jobs' = Published(r, few, n)
             /\ \/ UNCHANGED <<tips, deferred, seen, emitted, sent, forgotten, resent, passed, skipped>>
                \/ /\ n = Cardinality(few)
                   /\ \E bad \in {{}} \cup {{c} : c \in few}, why \in {"refused", "showFails"} :
                        LET out  == known \ bad
                            lost == IF why = "showFails" THEN bad ELSE {}
                        IN  /\ Settle(out \cup silent \cup lost, bad # lost \/ few # fresh, lost)
                            /\ Send(out) /\ skipped' = skipped \cup lost
                   /\ passed' = passed \cup ({r} \X few)
  <2> HIDE DEF r, few, known, silent, fresh, now
  <2> QED BY DEF OffHead, r, few, lin, known, silent, fresh, now, hidden, heads
<1> HIDE DEF r, few, known, silent, fresh
<1>4. LogOK BY DEF TypeInv
<1>5. Cardinality(few) \in Nat BY <1>1, <1>4, CommitsFinite
<1>s. ASSUME UNCHANGED <<sent, forgotten, resent>> PROVE Send({}) BY <1>s DEF Send
<1>6. CASE /\ tips' \in {tips, now}
           /\ UNCHANGED <<deferred, seen, emitted, sent, forgotten, resent, jobs, passed, skipped>>
  <2> DEFINE S == {}
  <2>1. S \in SUBSET (1..Len(log)) /\ 0 \in Int /\ S \in SUBSET S OBVIOUS
  <2>2. OffHeadWith(S, 0, S, S) BY <1>6, <1>s DEF OffHeadWith, Unseen
  <2> HIDE DEF S
  <2> QED BY <2>1, <2>2 DEF OffHeadDoes
<1>7. ASSUME NEW n \in 0..Cardinality(few), jobs' = Published(r, few, n),
             UNCHANGED <<tips, deferred, seen, emitted, sent, forgotten, resent, passed, skipped>>
      PROVE  OffHeadDoes
  <2>1. n \in Int BY <1>5
  <2> DEFINE S == {}
  <2>2. S \in SUBSET few OBVIOUS
  <2>3. OffHeadWith(few, n, S, S) BY <1>1, <1>7, <1>s DEF OffHeadWith, r
  <2> HIDE DEF S
  <2> QED BY <1>1, <2>1, <2>2, <2>3 DEF OffHeadDoes
<1>8. ASSUME NEW n \in 0..Cardinality(few), jobs' = Published(r, few, n), n = Cardinality(few),
             passed' = passed \cup ({r} \X few),
             NEW bad \in {{}} \cup {{c} : c \in few}, NEW why \in {"refused", "showFails"},
             NEW out, NEW lost, out = known \ bad, lost = IF why = "showFails" THEN bad ELSE {},
             NEW done, done = out \cup silent \cup lost,
             Settle(done, bad # lost \/ few # fresh, lost),
             Send(out), skipped' = skipped \cup lost
      PROVE  OffHeadDoes
  <2>1. n \in Int BY <1>5
  <2>2. bad \subseteq few /\ lost \subseteq few BY <1>8
  <2>3. out \in SUBSET few /\ done \in SUBSET few /\ out \subseteq done BY <1>2, <1>8, <2>2 DEF known, silent
  <2>a. skipped \subseteq skipped' /\ \A c \in done \ out : Added(c) = {} \/ c \in skipped' BY <1>8 DEF silent
  <2>4. tips' \in {tips, now} /\ deferred' \subseteq deferred \cup few BY <1>8
  <2>5. seen' = seen \cup done /\ emitted' = emitted \cup done BY <1>8
  <2>6. OffHeadWith(few, n, out, done) BY <1>1, <1>8, <2>3, <2>4, <2>5, <2>a DEF OffHeadWith, r
  <2> QED BY <1>1, <2>1, <2>3, <2>6 DEF OffHeadDoes
<1>9. ASSUME NEW n \in 0..Cardinality(few), jobs' = Published(r, few, n), n = Cardinality(few),
             passed' = passed \cup ({r} \X few),
             NEW bad \in {{}} \cup {{c} : c \in few}, NEW why \in {"refused", "showFails"},
             LET out  == known \ bad
                 lost == IF why = "showFails" THEN bad ELSE {}
             IN  /\ Settle(out \cup silent \cup lost, bad # lost \/ few # fresh, lost)
                 /\ Send(out) /\ skipped' = skipped \cup lost
      PROVE  OffHeadDoes
  <2> DEFINE out  == known \ bad
             lost == IF why = "showFails" THEN bad ELSE {}
             done == out \cup silent \cup lost
  <2>1. /\ Settle(done, bad # lost \/ few # fresh, lost)
        /\ Send(out) /\ skipped' = skipped \cup lost
    BY <1>9
  <2>2. out = known \ bad /\ lost = (IF why = "showFails" THEN bad ELSE {}) /\ done = out \cup silent \cup lost
    OBVIOUS
  <2>3. jobs' = Published(r, few, n) /\ n = Cardinality(few) /\ passed' = passed \cup ({r} \X few)
    BY <1>9
  <2> HIDE DEF out, lost, done, Settle
  <2>4. \A o, l, d : /\ o = known \ bad /\ l = (IF why = "showFails" THEN bad ELSE {}) /\ d = o \cup silent \cup l
                     /\ Settle(d, bad # l \/ few # fresh, l)
                     /\ Send(o) /\ skipped' = skipped \cup l
                     => OffHeadDoes
    BY <1>8, <2>3
  <2> QED BY <2>1, <2>2, <2>4
<1>10. ASSUME NEW n \in 0..Cardinality(few), jobs' = Published(r, few, n),
              \/ UNCHANGED <<tips, deferred, seen, emitted, sent, forgotten, resent, passed, skipped>>
              \/ /\ n = Cardinality(few)
                 /\ \E bad \in {{}} \cup {{c} : c \in few}, why \in {"refused", "showFails"} :
                      LET out  == known \ bad
                          lost == IF why = "showFails" THEN bad ELSE {}
                      IN  /\ Settle(out \cup silent \cup lost, bad # lost \/ few # fresh, lost)
                          /\ Send(out) /\ skipped' = skipped \cup lost
                 /\ passed' = passed \cup ({r} \X few)
       PROVE  OffHeadDoes
  <2> HIDE DEF Settle
  <2> QED BY <1>7, <1>9, <1>10
<1> HIDE DEF Settle
<1> QED BY <1>3, <1>6, <1>10

LEMMA OffHeadType ==
  ASSUME TypeInv, OffHead
  PROVE  TypeInv'
<1>1. UNCHANGED <<env, gitVars, cursor, replay, recorded, rework, found, budget, batch>> BY DEF OffHead
<1>2. /\ env' \in Environments /\ LogOK' /\ Marks' /\ Repository'
      /\ Present' = Present /\ FoundType' = FoundType /\ LedgerType' = LedgerType
      /\ Len(log') = Len(log) /\ \A r \in Root : Ledgers(r)' = Ledgers(r)
  BY <1>1, Resting
<1>3. pc = "bind" /\ pc' = "record" /\ todo' = {} BY DEF OffHead, Go
<1>4. PICK few \in SUBSET (1..Len(log)) : \E done \in SUBSET few :
        /\ seen' = seen \cup done /\ emitted' = emitted \cup done
        /\ tips' \in {tips, TipsOf(tip)} /\ deferred' \subseteq deferred \cup few
  BY OffHeadIs DEF OffHeadDoes, OffHeadWith
<1>5. LogOK /\ Repository /\ Files /\ Progress BY DEF TypeInv
<1>6. TipsOf(tip) \subseteq 1..Len(log) BY <1>5, ReachableIs
<1>a. PICK done \in SUBSET few :
        /\ seen' = seen \cup done /\ emitted' = emitted \cup done
        /\ tips' \in {tips, TipsOf(tip)} /\ deferred' \subseteq deferred \cup few
  BY <1>4
<1>7. Files' BY <1>1, <1>2, <1>a, <1>5, <1>6 DEF Files
<1>8. Progress' BY <1>1, <1>2, <1>3, <1>a, <1>5 DEF Progress
<1> QED BY <1>2, <1>7, <1>8 DEF TypeInv

LEMMA EndPollType ==
  ASSUME TypeInv, EndPoll, UNCHANGED <<env, gitVars>>, Files'
  PROVE  TypeInv'
<1>1. /\ env' \in Environments /\ LogOK' /\ Marks' /\ Repository'
      /\ FoundType' = FoundType /\ Len(log') = Len(log)
  BY Resting
<1>2. 0 \in 0..Len(log) BY DEF TypeInv, LogOK
<1>3. Nothing \in FoundType BY <1>2, NothingFound
<1>4. Progress' BY <1>1, <1>3 DEF EndPoll, Go, Progress
<1> QED BY <1>1, <1>4 DEF TypeInv

LEMMA RecordType ==
  ASSUME TypeInv, Record
  PROVE  TypeInv'
<1>1. /\ UNCHANGED <<env, gitVars, cursor, replay, tips, deferred, rework>>
      /\ recorded' \subseteq recorded \cup emitted /\ EndPoll
  BY DEF Record
<1>2. /\ LedgerType' = LedgerType /\ Len(log') = Len(log) /\ \A r \in Root : Ledgers(r)' = Ledgers(r)
  BY <1>1, Resting
<1>3. Files' BY <1>1, <1>2 DEF TypeInv, Files, Progress
<1> QED BY <1>1, <1>3, EndPollType

LEMMA CrashType ==
  ASSUME TypeInv, Crash
  PROVE  TypeInv'
<1>1. EndPoll /\ UNCHANGED <<env, gitVars, fileVars>> BY DEF Crash
<1> QED BY <1>1, FilesRest, EndPollType

LEMMA PollRests ==
  ASSUME TypeInv, UNCHANGED <<env, log, tip, on, head, wrote, fileVars, pollVars>>
  PROVE  TypeInv'
<1>1. LogOK' /\ Kept /\ Present' = Present BY DEF TypeInv, LogOK, Kept, Present
<1>2. Repository' BY <1>1 DEF TypeInv, Repository
<1> QED BY <1>1, <1>2, GitStep

LEMMA PruneType ==
  ASSUME TypeInv, Prune
  PROVE  TypeInv'
BY PollRests DEF Prune

LEMMA TraceType ==
  ASSUME TypeInv, Trace
  PROVE  TypeInv'
<1>1. UNCHANGED <<env, log, tip, on, head, wrote, fileVars, pollVars>> BY DEF Trace, gitVars
<1> QED BY <1>1, PollRests

LEMMA InitType ==
  ASSUME Init
  PROVE  TypeInv
<1>1. env \in Environments BY DEF Init
<1>2. AnyPath \in Path BY GitWatchAssumption DEF AnyPath
<1> DEFINE e == [first |-> 0, own |-> TRUE, change |-> [kind |-> "add", path |-> AnyPath, to |-> AnyPath],
                 reach |-> {1}, chain |-> {1},
                 files |-> [p \in Path |-> IF p = AnyPath THEN 1 ELSE 0]]
<1>3. log = <<e>> BY DEF Init
<1>4. /\ e.first = 0 /\ e.own = TRUE /\ e.change = [kind |-> "add", path |-> AnyPath, to |-> AnyPath]
      /\ e.reach = {1} /\ e.chain = {1} /\ e.files \in [Path -> {0, 1}] /\ e.files[AnyPath] = 1
  BY <1>2
<1>5. e \in CommitType
  <2>1. e.change \in ChangeType BY <1>2 DEF ChangeType
  <2>2. e.files \in [Path -> Nat] BY <1>4
  <2> QED BY <2>1, <2>2 DEF CommitType
<1> HIDE DEF e
<1>6. log \in Seq(CommitType) /\ Len(log) = 1 /\ log[1] = e BY <1>3, <1>5
<1>7. CommitOK(log, 1)
  <2>1. /\ e.change.kind = "add" /\ e.change.path = AnyPath BY <1>4
  <2>2. \A p \in Path : e.files[p] <= 1
    <3> SUFFICES ASSUME NEW p \in Path PROVE e.files[p] <= 1 OBVIOUS
    <3>1. e.files[p] \in {0, 1} BY <1>4
    <3> QED BY <3>1
  <2>3. e.first < 1 /\ 1 \in 1..1 BY <1>4
  <2>4. e.reach = {1} /\ e.chain = {1} /\ e.files[AnyPath] # 0 BY <1>4
  <2> QED BY <1>4, <1>6, <2>1, <2>2, <2>3, <2>4 DEF CommitOK
<1>8. LogOK
  <2>1. \A c \in 1..Len(log) : c = 1 BY <1>6
  <2> QED BY <1>6, <1>7, <2>1 DEF LogOK
<1>9. Marks
  <2>1. env.writes \in Nat BY <1>1, Bounds
  <2>2. wrote = [r \in Root |-> [p \in Path |-> 0]] BY DEF Init
  <2> QED BY <2>1, <2>2 DEF Marks
<1>10. Repository
  <2>1. tip \in [Branch -> 0..Len(log)] BY <1>6 DEF Init
  <2>2. on \in [Root -> Branch \cup {NoBranch, Absent}] BY DEF Init, Branch
  <2>3. head \in [Root -> 0..Len(log)] /\ \A r \in Present : head[r] # 0 BY <1>6 DEF Init, Present
  <2> QED BY <2>1, <2>2, <2>3 DEF Repository
<1>11. \A r \in Root : Ledger \in Ledgers(r) BY <1>6, <1>9, FreshLedger
<1>12. Files
  <2>1. cursor \in [Root -> 0..Len(log)] /\ replay \in [Root -> 0..Len(log)] BY <1>6 DEF Init
  <2>2. rework = [r \in Root |-> Ledger] BY DEF Init
  <2>3. \A r \in Root : Ledger \in LedgerType BY <1>11 DEF Ledgers
  <2>4. rework \in [Root -> LedgerType] /\ \A r \in Root : rework[r] \in Ledgers(r) BY <1>11, <2>2, <2>3
  <2> QED BY <2>1, <2>4 DEF Init, Files
<1>13. Progress
  <2>1. Nothing \in FoundType
    <3>1. 0 \in 0..Len(log) BY <1>6
    <3> QED BY <3>1 DEF Nothing, FoundType
  <2>2. found \in [Root -> FoundType] BY <2>1 DEF Init
  <2> QED BY <2>2 DEF Init, Progress
<1> QED BY <1>1, <1>8, <1>9, <1>10, <1>12, <1>13 DEF TypeInv

LEMMA NextType ==
  ASSUME TypeInv, [Next]_vars
  PROVE  TypeInv'
<1>1. CASE Poll
  <2>1. CASE StartPoll BY <2>1, StartPollType
  <2>2. CASE OffHead BY <2>2, OffHeadType
  <2>3. CASE Record BY <2>3, RecordType
  <2>4. CASE \E r \in Root : PollHead(r) \/ BindRoot(r) \/ AttributeCommit(r)
    BY <2>4, PollHeadType, BindRootType, AttributeCommitType
  <2>5. CASE \E saved \in BOOLEAN : SaveCursors(saved) BY <2>5, SaveCursorsType
  <2> QED BY <1>1, <2>1, <2>2, <2>3, <2>4, <2>5 DEF Poll
<1>2. CASE Crash BY <1>2, CrashType
<1>3. CASE Trace BY <1>3, TraceType
<1>4. CASE Prune BY <1>4, PruneType
<1>5. CASE \E r \in Root : Git(r)
  <2>1. PICK r \in Root : Git(r) BY <1>5
  <2>2. CASE GitMove(r) BY <2>2, GitMoveResult
  <2>3. CASE \E p \in env.paths : AgentWrites(r, p)
    <3>1. env.paths \subseteq Path BY Bounds DEF TypeInv
    <3> QED BY <2>3, <3>1, AgentWritesType
  <2> QED BY <2>1, <2>2, <2>3 DEF Git, GitMove
<1>6. CASE UNCHANGED vars
  <2>1. UNCHANGED <<env, log, tip, on, head, wrote, fileVars, pollVars>> BY <1>6 DEF vars, gitVars
  <2> QED BY <2>1, PollRests
<1> QED BY <1>1, <1>2, <1>3, <1>4, <1>5, <1>6 DEF Next

LEMMA TypesHold == Spec => []TypeInv
<1>1. Init => TypeInv BY InitType
<1>2. TypeInv /\ [Next]_vars => TypeInv' BY NextType
<1> QED BY <1>1, <1>2, PTL DEF Spec

\* The types of the state, and what belongs to which step of a poll (pollGitWatchWorkspace).
THEOREM TypeCorrect == Spec => []TypeOK
<1>1. TypeInv => TypeOK
  <2> SUFFICES ASSUME TypeInv PROVE TypeOK OBVIOUS
  <2>1. Commit = 1..Len(log) /\ 0..Len(log) = {0} \cup Commit BY DEF TypeInv, LogOK, Commit
  <2>2. \A r \in Root : /\ rework[r].at \in [Path -> 0..Len(log)]
                        /\ rework[r].tomb \in [Path -> {None} \cup 0..env.writes]
    BY DEF TypeInv, Files, LedgerType, Stamps
  <2>3. \A r \in Root : cursor[r] \in 0..Len(log) /\ replay[r] \in 0..Len(log) BY DEF TypeInv, Files
  <2> QED BY <2>1, <2>2, <2>3 DEF TypeOK, TypeInv, Files, Progress
<1> QED BY <1>1, TypesHold, PTL

\* Of two checkouts, neither lets an AI write be spent twice: each seed of a path while a
\* checkout is bound to a branch is made on a later write than the one before
\* (reworkSeedAuthorized, writeStampFor, applyReworkRenames).
THEOREM EvidenceIsFresh == ASSUME TwoCheckouts PROVE Spec => []EvidenceFresh
<1>1. TypeInv => EvidenceFresh BY DEF TypeInv, Files, Ledgers, Unspent, EvidenceFresh
<1> QED BY <1>1, TypesHold, PTL

-----------------------------------------------------------------------------
(* A commit is reported once.                                               *)

LEMMA SentRests ==
  ASSUME SentInv, UNCHANGED <<env, fileVars, pollVars, histVars>>
  PROVE  SentInv'
BY DEF SentInv, AttributedOnce, fileVars, pollVars, histVars

LEMMA AttributeCommitSent ==
  ASSUME TypeInv, SentInv, NEW r \in Root, AttributeCommit(r)
  PROVE  SentInv'
<1> DEFINE c == Min(batch)
<1>1. /\ pc = "commits" /\ pc' \in {"bind", "commits"}
      /\ UNCHANGED <<env, recorded>>
  BY DEF AttributeCommit, At, Go
<1>2. \/ UNCHANGED <<seen, emitted, sent, forgotten, resent>>
      \/ seen' = seen \cup {c} /\ emitted' = emitted \cup {c} /\ UNCHANGED <<sent, forgotten, resent>>
      \/ c \notin seen /\ seen' = seen \cup {c} /\ emitted' = emitted \cup {c} /\ Send({c})
  <2> HIDE DEF c
  <2> QED BY DEF AttributeCommit, Remember, c
<1> HIDE DEF c
<1>3. resent = {} /\ sent \subseteq seen \cup forgotten /\ sent \subseteq recorded \cup emitted \cup forgotten
  BY <1>1 DEF SentInv, AttributedOnce
<1>4. resent' = {} BY <1>2, <1>3 DEF Send
<1>5. sent' \subseteq seen' \cup forgotten' BY <1>2, <1>3 DEF Send
<1>6. sent' \subseteq recorded' \cup emitted' \cup forgotten' BY <1>1, <1>2, <1>3 DEF Send
<1> QED BY <1>1, <1>4, <1>5, <1>6 DEF SentInv, AttributedOnce

LEMMA OffHeadSent ==
  ASSUME TypeInv, SentInv, OffHead
  PROVE  SentInv'
<1>1. pc = "bind" /\ pc' = "record" /\ UNCHANGED <<env, recorded>> BY DEF OffHead, Go
<1>2. PICK few \in SUBSET (1..Len(log)) : \E n \in Int : \E out, done \in SUBSET few :
        OffHeadWith(few, n, out, done)
  BY OffHeadIs DEF OffHeadDoes
<1>3. PICK out \in SUBSET few, done \in SUBSET few :
        /\ few \cap seen = {} /\ out \subseteq done
        /\ seen' = seen \cup done /\ emitted' = emitted \cup done /\ Send(out)
  BY <1>2 DEF OffHeadWith, Unseen
<1>4. resent = {} /\ sent \subseteq seen \cup forgotten /\ sent \subseteq recorded \cup emitted \cup forgotten
  BY <1>1 DEF SentInv, AttributedOnce
<1>5. out \cap seen = {} BY <1>3
<1>6. resent' = {} BY <1>3, <1>4, <1>5 DEF Send
<1>7. sent' \subseteq seen' \cup forgotten' BY <1>3, <1>4 DEF Send
<1>8. sent' \subseteq recorded' \cup emitted' \cup forgotten' BY <1>1, <1>3, <1>4 DEF Send
<1> QED BY <1>1, <1>6, <1>7, <1>8 DEF SentInv, AttributedOnce

LEMMA RecordSent ==
  ASSUME SentInv, Record
  PROVE  SentInv'
<1>1. EndPoll /\ UNCHANGED <<sent, resent>> BY DEF Record
<1>2. sent \subseteq recorded \cup emitted \cup forgotten /\ resent = {} BY DEF SentInv, AttributedOnce
<1>3. sent' \subseteq recorded' \cup forgotten' BY <1>2 DEF Record
<1> QED BY <1>1, <1>2, <1>3 DEF SentInv, AttributedOnce, EndPoll, Go

LEMMA CrashSent ==
  ASSUME SentInv, Crash
  PROVE  SentInv'
<1>1. EndPoll /\ UNCHANGED <<recorded, sent, resent>> /\ forgotten' = forgotten \cup emitted
  BY DEF Crash, fileVars
<1> QED BY <1>1 DEF SentInv, AttributedOnce, EndPoll, Go

LEMMA SaveCursorsSent ==
  ASSUME SentInv, NEW saved \in BOOLEAN, SaveCursors(saved)
  PROVE  SentInv'
<1>1. pc = "heads" /\ pc' = "bind" /\ UNCHANGED <<recorded, emitted, sent, resent>> BY DEF SaveCursors, Go
<1>2. PICK known \in SUBSET recorded : seen' = known /\ forgotten' = forgotten \cup (recorded \ known)
  BY DEF SaveCursors
<1>3. sent \subseteq recorded \cup forgotten /\ emitted = {} /\ resent = {} BY <1>1 DEF SentInv, AttributedOnce
<1> QED BY <1>1, <1>2, <1>3 DEF SentInv, AttributedOnce

LEMMA NextSent ==
  ASSUME TypeInv, SentInv, [Next]_vars
  PROVE  SentInv'
<1>1. CASE StartPoll
  BY <1>1 DEF StartPoll, SentInv, AttributedOnce, Go, fileVars, histVars
<1>2. CASE OffHead BY <1>2, OffHeadSent
<1>3. CASE Record BY <1>3, RecordSent
<1>4. CASE \E r \in Root : PollHead(r)
  BY <1>4 DEF PollHead, At, SentInv, AttributedOnce, Go, fileVars
<1>5. CASE \E saved \in BOOLEAN : SaveCursors(saved) BY <1>5, SaveCursorsSent
<1>6. CASE \E r \in Root : BindRoot(r)
  BY <1>6 DEF BindRoot, At, SentInv, AttributedOnce, Go, histVars
<1>7. CASE \E r \in Root : AttributeCommit(r) BY <1>7, AttributeCommitSent
<1>8. CASE Crash BY <1>8, CrashSent
<1>9. CASE Trace BY <1>9, SentRests DEF Trace
<1>10. CASE Prune BY <1>10, SentRests DEF Prune
<1>11. CASE \E r \in Root : Git(r)
  <2>1. PICK r \in Root : Git(r) BY <1>11
  <2>2. CASE GitMove(r) BY <2>2, GitMoveResult, SentRests DEF GitResult
  <2>3. CASE \E p \in env.paths : AgentWrites(r, p) BY <2>3, SentRests DEF AgentWrites
  <2> QED BY <2>1, <2>2, <2>3 DEF Git, GitMove
<1>12. CASE UNCHANGED vars BY <1>12, SentRests DEF vars
<1> QED BY <1>1, <1>2, <1>3, <1>4, <1>5, <1>6, <1>7, <1>8, <1>9, <1>10, <1>11, <1>12 DEF Next, Poll

\* A commit is reported once, whichever checkouts and refs it is seen from, and once more
\* for each time that the ledger has lost its report: the daemon died before the end of
\* the poll, or attributed-commits.json could not be written or read, or let it go
\* (attributedCommits, recordAttributedCommits).
THEOREM ReportedAtMostOnce == Spec => []AttributedOnce
<1>1. Init => SentInv
  BY DEF Init, SentInv, AttributedOnce
<1>2. TypeInv /\ SentInv /\ [Next]_vars => SentInv' BY NextSent
<1>3. SentInv => AttributedOnce BY DEF SentInv
<1> QED BY <1>1, <1>2, <1>3, TypesHold, PTL DEF Spec

-----------------------------------------------------------------------------
(* The requests for line origins.                                           *)

\* Every element of a set is the latest of some number of its oldest.
LEMMA LatestOf ==
  ASSUME NEW S \in SUBSET Nat, IsFiniteSet(S), NEW c \in S
  PROVE  \E i \in 1..Cardinality(S) : Max(Oldest(S, i)) = c
<1> DEFINE Upto == {d \in S : d <= c}
           Below(x) == {d \in S : d < x}
           i == Cardinality(Upto)
<1>1. Upto \subseteq S /\ c \in Upto OBVIOUS
<1>2. IsFiniteSet(Upto) /\ i \in Nat /\ i <= Cardinality(S) /\ Cardinality(S) \in Nat
  BY <1>1, FS_Subset, FS_CardinalityType
<1>3. i # 0 BY <1>1, <1>2, FS_EmptySet
<1>4. i \in 1..Cardinality(S) BY <1>2, <1>3
<1>5. ASSUME NEW x \in S, x <= c PROVE Cardinality(Below(x)) < i
  <2>1. Below(x) \subseteq Upto \ {x}
    <3> SUFFICES ASSUME NEW d \in S, d < x PROVE d <= c /\ d # x OBVIOUS
    <3>1. d \in Nat /\ x \in Nat /\ c \in Nat /\ x <= c BY <1>5
    <3> QED BY <3>1
  <2>2. x \in Upto BY <1>5
  <2>3. IsFiniteSet(Upto \ {x}) /\ Cardinality(Upto \ {x}) = i - 1 BY <1>2, <2>2, FS_RemoveElement
  <2> HIDE DEF Below, Upto
  <2>4. Cardinality(Below(x)) <= Cardinality(Upto \ {x}) /\ IsFiniteSet(Below(x)) BY <2>1, <2>3, FS_Subset
  <2>5. Cardinality(Below(x)) \in Nat BY <2>4, FS_CardinalityType
  <2> QED BY <1>2, <2>3, <2>4, <2>5
<1>6. ASSUME NEW x \in S, ~(x <= c) PROVE ~(Cardinality(Below(x)) < i)
  <2>1. Upto \subseteq Below(x) /\ Below(x) \subseteq S
    <3> SUFFICES ASSUME NEW d \in S, d <= c PROVE d < x OBVIOUS
    <3>1. d \in Nat /\ x \in Nat /\ c \in Nat /\ ~(x <= c) BY <1>6
    <3> QED BY <3>1
  <2> HIDE DEF Below, Upto
  <2>2. IsFiniteSet(Below(x)) BY <2>1, FS_Subset
  <2>3. Cardinality(Upto) <= Cardinality(Below(x)) BY <2>1, <2>2, FS_Subset
  <2>4. Cardinality(Below(x)) \in Nat BY <2>2, FS_CardinalityType
  <2> QED BY <1>2, <2>3, <2>4
<1>7. Oldest(S, i) = Upto
  <2>1. Oldest(S, i) = {x \in S : Cardinality(Below(x)) < i} BY DEF Oldest
  <2> HIDE DEF Below, i
  <2> QED BY <1>5, <1>6, <2>1
<1>8. Max(Upto) = c
  <2>1. Upto \in SUBSET Nat /\ Upto # {} /\ \A x \in Upto : x <= c BY <1>1
  <2>2. c \in Nat OBVIOUS
  <2> HIDE DEF Upto
  <2>3. Max(Upto) \in Upto /\ \A x \in Upto : x <= Max(Upto) BY <2>1, <2>2, MaxIs
  <2>4. Max(Upto) <= c /\ c <= Max(Upto) /\ Max(Upto) \in Nat BY <1>1, <2>1, <2>3
  <2> QED BY <2>2, <2>4
<1> QED BY <1>4, <1>7, <1>8

LEMMA OldestAll ==
  ASSUME NEW S \in SUBSET Nat, IsFiniteSet(S)
  PROVE  Oldest(S, Cardinality(S)) = S
<1> SUFFICES ASSUME NEW c \in S PROVE Cardinality({d \in S : d < c}) < Cardinality(S)
  BY DEF Oldest
<1> DEFINE B == {d \in S : d < c}
<1>1. B \subseteq S \ {c} OBVIOUS
<1>2. IsFiniteSet(S \ {c}) /\ Cardinality(S \ {c}) = Cardinality(S) - 1 BY FS_RemoveElement
<1> HIDE DEF B
<1>3. Cardinality(B) <= Cardinality(S \ {c}) /\ IsFiniteSet(B) BY <1>1, <1>2, FS_Subset
<1>4. Cardinality(B) \in Nat /\ Cardinality(S) \in Nat BY <1>3, FS_CardinalityType
<1>5. Cardinality(B) < Cardinality(S) BY <1>2, <1>3, <1>4
<1> QED BY <1>5 DEF B

LEMMA SeqOfItself ==
  ASSUME NEW T, NEW s \in Seq(T)
  PROVE  s \in Seq(ToSet(s))
BY DEF ToSet

\* The requests on disk stay, and every commit of the range has one.
LEMMA PublishedIs ==
  ASSUME LogOK, jobs \in Seq(ToSet(jobs)), NEW r, NEW S \in SUBSET (1..Len(log)), NEW n \in Int
  PROVE  /\ Published(r, S, n) \in Seq(ToSet(Published(r, S, n)))
         /\ ToSet(jobs) \subseteq ToSet(Published(r, S, n))
         /\ {r} \X Oldest(S, n) \subseteq ToSet(Published(r, S, n))
<1> DEFINE new == {c \in Oldest(S, n) : <<r, c>> \notin ToSet(jobs)}
           K == Cardinality(new)
           t == [i \in 1..K |-> <<r, Max(Oldest(new, i))>>]
           T == {<<r, Max(Oldest(new, i))>> : i \in 1..K}
           U == ToSet(jobs) \cup T
           all == jobs \o t
<1>1. new \subseteq S BY SelectedIn
<1>2. new \in SUBSET Nat /\ IsFiniteSet(new) /\ K \in Nat BY <1>1, CommitsFinite
<1>3. Published(r, S, n) = all BY DEF Published
<1>4. \A c \in Oldest(S, n) : c \in new \/ <<r, c>> \in ToSet(jobs) OBVIOUS
<1>5. \A c \in new : \E i \in 1..K : Max(Oldest(new, i)) = c
  <2> HIDE DEF new
  <2> QED BY <1>2, LatestOf
<1> HIDE DEF new
<1>6. t \in Seq(T) /\ Len(t) = K /\ \A i \in 1..K : t[i] = <<r, Max(Oldest(new, i))>>
  <2> HIDE DEF K
  <2>1. t \in [1..K -> T] /\ \A i \in 1..K : t[i] = <<r, Max(Oldest(new, i))>> OBVIOUS
  <2> HIDE DEF t, T
  <2>2. t \in Seq(T) BY <1>2, <2>1
  <2>3. DOMAIN t = 1..K BY <2>1
  <2>4. Len(t) = K BY <1>2, <2>2, <2>3
  <2> QED BY <2>1, <2>2, <2>4
<1>7. jobs \in Seq(U) /\ t \in Seq(U)
  <2> HIDE DEF T, t
  <2> QED BY <1>6
<1> HIDE DEF t, K, U, T
<1>8. /\ all \in Seq(U) /\ Len(all) = Len(jobs) + K
      /\ \A i \in 1..Len(jobs) : all[i] = jobs[i]
      /\ \A i \in 1..K : all[Len(jobs) + i] = t[i]
  BY <1>2, <1>6, <1>7
<1>9. Len(jobs) \in Nat /\ DOMAIN jobs = 1..Len(jobs) /\ DOMAIN all = 1..(Len(jobs) + K)
  BY <1>8
<1> HIDE DEF all
<1>10. ASSUME NEW j \in ToSet(jobs) PROVE j \in ToSet(all)
  <2>1. PICK i \in 1..Len(jobs) : j = jobs[i] BY <1>9 DEF ToSet
  <2>2. i \in DOMAIN all /\ all[i] = j BY <1>2, <1>8, <1>9, <2>1
  <2> QED BY <2>2 DEF ToSet
<1>11. ASSUME NEW c \in new PROVE <<r, c>> \in ToSet(all)
  <2>1. PICK i \in 1..K : Max(Oldest(new, i)) = c BY <1>5
  <2>2. Len(jobs) + i \in DOMAIN all /\ all[Len(jobs) + i] = <<r, c>> BY <1>2, <1>6, <1>8, <1>9, <2>1
  <2> QED BY <2>2 DEF ToSet
<1>12. all \in Seq(ToSet(all)) BY <1>8, SeqOfItself
<1> QED BY <1>3, <1>4, <1>10, <1>11, <1>12

\* A poll leaves the repository alone.
LEMMA PollKeeps ==
  ASSUME Poll
  PROVE  UNCHANGED <<env, gitVars>>
<1>1. StartPoll \/ OffHead \/ Record => UNCHANGED <<env, gitVars>> BY DEF StartPoll, OffHead, Record
<1>2. ASSUME NEW r \in Root PROVE PollHead(r) => UNCHANGED <<env, gitVars>> BY DEF PollHead
<1>3. ASSUME NEW r \in Root PROVE BindRoot(r) => UNCHANGED <<env, gitVars>> BY DEF BindRoot
<1>4. ASSUME NEW r \in Root PROVE AttributeCommit(r) => UNCHANGED <<env, gitVars>> BY DEF AttributeCommit
<1>5. ASSUME NEW saved \in BOOLEAN PROVE SaveCursors(saved) => UNCHANGED <<env, gitVars>> BY DEF SaveCursors
<1> QED BY <1>1, <1>2, <1>3, <1>4, <1>5 DEF Poll

\* What a cursor is about to pass does not grow under the poll: a baseline only takes
\* from it.
LEMMA OverRests ==
  ASSUME TypeInv, Kept, baseline \subseteq baseline', UNCHANGED <<cursor, replay>>,
         NEW r \in Root, found'[r] = found[r], Over(r) \subseteq found[r].commits
  PROVE  Over(r)' \subseteq found'[r].commits
<1> DEFINE to == found[r].to
           c == cursor[r]
           u == found[r].unseen
<1>1. c \in 0..Len(log) /\ to \in 0..Len(log) /\ Len(log) \in Nat
  BY DEF TypeInv, LogOK, Files, Progress, FoundType
<1>2. Over(r)' = (IF to = 0 THEN {}
                  ELSE IF c = 0 THEN log'[to].chain \ baseline'
                  ELSE IF replay[r] # 0 THEN log'[to].chain \ log'[c].reach
                  ELSE log'[to].reach \ log'[c].reach) \ u
  BY DEF Over, Chain, Between
<1>3. Over(r) = (IF to = 0 THEN {}
                 ELSE IF c = 0 THEN log[to].chain \ baseline
                 ELSE IF replay[r] # 0 THEN log[to].chain \ log[c].reach
                 ELSE log[to].reach \ log[c].reach) \ u
  BY DEF Over, Chain, Between
<1>4. /\ to # 0 => log'[to] = log[to]
      /\ c # 0 => log'[c] = log[c]
  <2> HIDE DEF to, c
  <2>1. \A x \in 0..Len(log) : x # 0 => x \in 1..Len(log) BY <1>1
  <2> QED BY <1>1, <2>1 DEF Kept
<1> HIDE DEF to, c, u
<1>5. Over(r)' \subseteq Over(r) BY <1>2, <1>3, <1>4
<1> QED BY <1>5

\* What the poll found and what it owes stay, whatever git does meanwhile.
LEMMA OriginRests ==
  ASSUME TypeInv, OriginInv, Kept, Owed \subseteq Owed', jobs' \in Seq(ToSet(jobs')),
         UNCHANGED <<passed, found, cursor, replay, baseline, pc, todo>>
  PROVE  OriginInv'
<1>1. OriginsOwed' BY DEF OriginInv, OriginsOwed, Owed
<1>2. ASSUME NEW r \in Root, pc = "heads" PROVE Over(r)' \subseteq found'[r].commits
  <2>1. Over(r) \subseteq found[r].commits BY <1>2 DEF OriginInv
  <2> QED BY <2>1, OverRests
<1>3. \A r \in Root : {r} \X found'[r].commits \subseteq Owed' BY DEF OriginInv
<1> QED BY <1>1, <1>2, <1>3 DEF OriginInv

\* Past the HEADs only the requests matter.
LEMMA OriginPast ==
  ASSUME OriginInv, Owed \subseteq Owed', jobs' \in Seq(ToSet(jobs')), UNCHANGED <<passed, found>>, pc' # "heads"
  PROVE  OriginInv'
<1>1. OriginsOwed'
  <2>1. passed \subseteq Owed BY DEF OriginInv, OriginsOwed, Owed
  <2> QED BY <2>1 DEF OriginsOwed, Owed
<1> QED BY <1>1 DEF OriginInv

LEMMA StartPollOrigin ==
  ASSUME TypeInv, OriginInv, StartPoll
  PROVE  OriginInv'
<1>1. UNCHANGED <<log, gone, jobs, traced, passed, cursor, replay>>
  BY DEF StartPoll, originVars, histVars, gitVars, fileVars
<1>2. \A r \in Root : found'[r].commits = {} /\ found'[r].to = cursor[r] BY DEF StartPoll, Nothing
<1>3. Owed' = Owed /\ OriginsOwed' BY <1>1 DEF Owed, OriginsOwed, OriginInv
<1>4. ASSUME NEW r \in Root PROVE Over(r)' \subseteq found'[r].commits
  <2>1. CASE cursor[r] = 0 BY <1>1, <1>2, <2>1 DEF Over
  <2>2. CASE cursor[r] # 0 BY <1>1, <1>2, <2>2 DEF Over, Chain, Between, TypeInv, LogOK, CommitOK, Files
  <2> QED BY <2>1, <2>2
<1> QED BY <1>1, <1>2, <1>3, <1>4 DEF OriginInv

LEMMA EndPollOrigin ==
  ASSUME OriginInv, EndPoll, UNCHANGED <<jobs, traced, passed>>
  PROVE  OriginInv'
<1>1. \A r \in Root : found'[r].commits = {} BY DEF EndPoll, Nothing
<1>2. Owed' = Owed /\ OriginsOwed' BY DEF Owed, OriginsOwed, OriginInv
<1>3. pc' = "idle" BY DEF EndPoll, Go
<1> QED BY <1>1, <1>2, <1>3 DEF OriginInv

LEMMA PollHeadOrigin ==
  ASSUME TypeInv, OriginInv, NEW r \in Root, PollHead(r)
  PROVE  OriginInv'
<1>1. LogOK /\ found \in [Root -> FoundType] BY DEF TypeInv, Progress
<1>2. /\ UNCHANGED <<traced, passed, log, gone, cursor, replay>> /\ pc = "heads" /\ pc' = "heads"
      /\ todo' = todo \ {r} /\ baseline \subseteq baseline'
  <2>1. /\ UNCHANGED <<traced, passed, log, gone, cursor, replay>> /\ pc = "heads" /\ pc' = "heads"
        /\ todo' = todo \ {r}
    BY DEF PollHead, At, Go, Rest, fileVars, gitVars
  <2>2. PICK based \in BOOLEAN, lists \in BOOLEAN : Visit(r, based, lists) BY DEF PollHead
  <2>3. \E S : baseline' = baseline \cup S BY <2>2, Zenon DEF Visit
  <2> QED BY <2>1, <2>3
<1>3. PICK g : Finds(r, g) BY PollHeadFinds
<1>4. g \in FoundType /\ found' = [found EXCEPT ![r] = g] /\ Due(r, g) BY <1>3 DEF Finds
<1>5. found'[r] = g /\ \A x \in Root : x # r => found'[x] = found[x] BY <1>1, <1>4
<1>6. Passes(r, g)
  <2>1. todo \in SUBSET Root BY DEF TypeInv, Progress, Present
  <2>2. r \in todo BY <2>1, FirstIn DEF PollHead, At
  <2> QED BY <1>2, <1>4, <2>2 DEF OriginInv, Due
<1>7. /\ jobs' \in Seq(ToSet(jobs')) /\ ToSet(jobs) \subseteq ToSet(jobs')
      /\ Same(r, g) \/ {r} \X g.commits \subseteq ToSet(jobs')
  <2>1. jobs \in Seq(ToSet(jobs)) BY DEF OriginInv
  <2>2. CASE jobs' = jobs /\ Same(r, g) BY <2>1, <2>2
  <2>3. CASE \E S \in SUBSET (1..Len(log)) : \E n \in Int : Asks(r, g, S, n)
    <3>1. PICK S \in SUBSET (1..Len(log)), n \in Int : Asks(r, g, S, n) BY <2>3
    <3>2. jobs' = Published(r, S, n) /\ (Same(r, g) \/ (n = Cardinality(S) /\ g.commits = S))
      BY <3>1 DEF Asks
    <3>3. /\ jobs' \in Seq(ToSet(jobs')) /\ ToSet(jobs) \subseteq ToSet(jobs')
          /\ {r} \X Oldest(S, n) \subseteq ToSet(jobs')
      BY <1>1, <2>1, <3>2, PublishedIs
    <3>4. n = Cardinality(S) => Oldest(S, n) = S BY <1>1, CommitsFinite, OldestAll
    <3> QED BY <3>2, <3>3, <3>4
  <2> QED BY <1>3, <2>2, <2>3 DEF Finds
<1>8. Owed \subseteq Owed' BY <1>2, <1>7 DEF Owed
<1>9. OriginsOwed' BY <1>2, <1>8 DEF OriginInv, OriginsOwed, Owed
<1>10. ASSUME NEW x \in Root PROVE {x} \X found'[x].commits \subseteq Owed'
  <2>1. {x} \X found[x].commits \subseteq Owed BY DEF OriginInv
  <2>2. CASE x = r
    <3>1. found'[x].commits = found[r].commits \/ {r} \X found'[x].commits \subseteq ToSet(jobs')
      BY <1>5, <1>7, <2>2 DEF Same
    <3> QED BY <1>8, <2>1, <2>2, <3>1 DEF Owed
  <2>3. CASE x # r BY <1>5, <1>8, <2>1, <2>3
  <2> QED BY <2>2, <2>3
<1>11. ASSUME NEW x \in Root
       PROVE  (x \in todo' => found'[x].to = cursor'[x]) /\ Over(x)' \subseteq found'[x].commits
  <2>1. CASE x = r
    <3>1. x \notin todo' BY <1>2, <2>1
    <3>2. Over(x)' \subseteq g.commits BY <1>2, <1>5, <1>6, <2>1 DEF Passes, Over, Chain, Between
    <3> QED BY <1>5, <2>1, <3>1, <3>2
  <2>2. CASE x # r
    <3>1. found'[x] = found[x] /\ cursor'[x] = cursor[x] BY <1>2, <1>5, <2>2
    <3>2. Over(x) \subseteq found[x].commits /\ (x \in todo' => found[x].to = cursor[x]) BY <1>2 DEF OriginInv
    <3>3. Kept BY <1>1, <1>2 DEF Kept, LogOK
    <3> QED BY <1>2, <3>1, <3>2, <3>3, OverRests
  <2> QED BY <2>1, <2>2
<1> QED BY <1>7, <1>9, <1>10, <1>11 DEF OriginInv

LEMMA SaveCursorsOrigin ==
  ASSUME TypeInv, OriginInv, NEW saved \in BOOLEAN, SaveCursors(saved)
  PROVE  OriginInv'
<1>1. UNCHANGED <<jobs, traced, found>> /\ pc = "heads" /\ pc' = "bind" BY DEF SaveCursors, Go, originVars
<1>2. passed' = passed \/ passed' = passed \cup UNION {{r} \X Over(r) : r \in Root} BY DEF SaveCursors
<1>3. \A r \in Root : {r} \X Over(r) \subseteq Owed BY <1>1 DEF OriginInv
<1>4. passed' \subseteq Owed BY <1>2, <1>3 DEF OriginInv, OriginsOwed, Owed
<1>5. Owed' = Owed /\ OriginsOwed' BY <1>1, <1>4 DEF Owed, OriginsOwed
<1> QED BY <1>1, <1>5 DEF OriginInv

LEMMA OffHeadOrigin ==
  ASSUME TypeInv, OriginInv, OffHead
  PROVE  OriginInv'
<1>1. UNCHANGED <<traced, found>> /\ pc' = "record" BY DEF OffHead, Go
<1>2. PICK few \in SUBSET (1..Len(log)), n \in Int : \E out, done \in SUBSET few : OffHeadWith(few, n, out, done)
  BY OffHeadIs DEF OffHeadDoes
<1> DEFINE r == First(Present)
<1>3. /\ jobs' = Published(r, few, n) \/ (few = {} /\ jobs' = jobs)
      /\ passed' = passed \/ (passed' = passed \cup ({r} \X few) /\ n = Cardinality(few))
  BY <1>2 DEF OffHeadWith
<1> HIDE DEF r
<1>4. LogOK /\ jobs \in Seq(ToSet(jobs)) /\ passed \subseteq Owed BY DEF TypeInv, OriginInv, OriginsOwed, Owed
<1>5. n = Cardinality(few) => Oldest(few, n) = few BY <1>4, CommitsFinite, OldestAll
<1>6. /\ jobs' \in Seq(ToSet(jobs')) /\ ToSet(jobs) \subseteq ToSet(jobs')
      /\ n = Cardinality(few) => {r} \X few \subseteq ToSet(jobs')
  <2>1. CASE jobs' = Published(r, few, n) BY <1>4, <1>5, <2>1, PublishedIs
  <2>2. CASE few = {} /\ jobs' = jobs BY <1>4, <2>2
  <2> QED BY <1>3, <2>1, <2>2
<1>7. Owed \subseteq Owed' BY <1>1, <1>6 DEF Owed
<1>8. OriginsOwed' BY <1>3, <1>4, <1>6, <1>7 DEF OriginsOwed, Owed
<1> QED BY <1>1, <1>6, <1>7, <1>8 DEF OriginInv

LEMMA TraceOrigin ==
  ASSUME TypeInv, OriginInv, Trace
  PROVE  OriginInv'
<1>1. jobs # <<>> /\ UNCHANGED <<log, gone, passed, found, cursor, replay, baseline, pc, todo>>
  BY DEF Trace, gitVars, fileVars, pollVars, histVars
<1>2. jobs \in Seq(ToSet(jobs)) BY DEF OriginInv
<1>3. Kept BY <1>1 DEF TypeInv, LogOK, Kept
<1> DEFINE T == ToSet(jobs)
           e == Head(jobs)
           q == Tail(jobs)
<1>4. /\ e \in T /\ q \in Seq(T) /\ Len(q) = Len(jobs) - 1 /\ Len(jobs) \in Nat /\ Len(jobs) >= 1
      /\ jobs[1] = e /\ \A i \in 1..Len(q) : q[i] = jobs[i + 1]
  <2> DEFINE U == ToSet(jobs)
  <2>1. jobs \in Seq(U) BY <1>2
  <2> HIDE DEF U
  <2>2. /\ Head(jobs) \in U /\ Tail(jobs) \in Seq(U) /\ Len(Tail(jobs)) = Len(jobs) - 1
        /\ Len(jobs) \in Nat /\ Len(jobs) >= 1
        /\ jobs[1] = Head(jobs) /\ \A i \in 1..Len(Tail(jobs)) : Tail(jobs)[i] = jobs[i + 1]
    BY <1>1, <2>1
  <2> QED BY <2>2 DEF U
<1>5. T \subseteq ToSet(q) \cup {e}
  <2> SUFFICES ASSUME NEW i \in DOMAIN jobs PROVE jobs[i] \in ToSet(q) \cup {e} BY DEF ToSet
  <2>0. DOMAIN jobs = 1..Len(jobs) /\ DOMAIN q = 1..Len(q) BY <1>2, <1>4
  <2>1. CASE i = 1 BY <1>4, <2>1
  <2>2. CASE i # 1
    <3>1. i - 1 \in 1..Len(q) /\ (i - 1) + 1 = i BY <1>4, <2>0, <2>2
    <3>2. q[i - 1] = jobs[i] BY <1>4, <3>1
    <3> QED BY <2>0, <3>1, <3>2 DEF ToSet
  <2> QED BY <2>1, <2>2
<1>6. jobs' \in Seq(ToSet(jobs')) /\ Owed \subseteq Owed'
  <2> HIDE DEF e, q, T
  <2>1. CASE traced' = traced \cup {e} /\ jobs' = q
    <3>1. jobs' \in Seq(ToSet(jobs')) BY <1>4, <2>1, SeqOfItself
    <3> QED BY <1>5, <2>1, <3>1 DEF Owed, T
  <2>2. CASE jobs' = Append(q, e) /\ traced' = traced
    <3>1. /\ jobs' \in Seq(T) /\ Len(jobs') = Len(q) + 1 /\ jobs'[Len(q) + 1] = e
          /\ \A i \in 1..Len(q) : jobs'[i] = q[i] /\ i \in 1..Len(jobs')
          /\ Len(q) + 1 \in 1..Len(jobs')
      BY <1>4, <2>2
    <3>2. DOMAIN jobs' = 1..Len(jobs') /\ DOMAIN q = 1..Len(q) BY <1>4, <3>1
    <3>3. ToSet(q) \subseteq ToSet(jobs') /\ e \in ToSet(jobs') BY <3>1, <3>2 DEF ToSet
    <3>4. jobs' \in Seq(ToSet(jobs')) BY <3>1, SeqOfItself
    <3> QED BY <1>5, <2>2, <3>3, <3>4 DEF Owed, T
  <2> QED BY <2>1, <2>2 DEF Trace, Requeued, e, q
<1> QED BY <1>1, <1>3, <1>6, OriginRests

LEMMA NextOrigin ==
  ASSUME TypeInv, OriginInv, [Next]_vars
  PROVE  OriginInv'
<1>1. CASE StartPoll BY <1>1, StartPollOrigin
<1>2. CASE \E r \in Root : PollHead(r) BY <1>2, PollHeadOrigin
<1>3. CASE \E saved \in BOOLEAN : SaveCursors(saved) BY <1>3, SaveCursorsOrigin
<1>4. CASE \E r \in Root : BindRoot(r) \/ AttributeCommit(r)
  <2>1. UNCHANGED <<jobs, traced, passed, found>> /\ pc' # "heads"
    BY <1>4 DEF BindRoot, AttributeCommit, Go, originVars, histVars
  <2>2. Owed' = Owed BY <2>1 DEF Owed
  <2>3. jobs' \in Seq(ToSet(jobs')) BY <2>1 DEF OriginInv
  <2> QED BY <2>1, <2>2, <2>3, OriginPast
<1>5. CASE OffHead BY <1>5, OffHeadOrigin
<1>6. CASE Record \/ Crash BY <1>6, EndPollOrigin DEF Record, Crash, originVars, histVars
<1>7. CASE Trace BY <1>7, TraceOrigin
<1>8. CASE \E r \in Root : GitMove(r)
  <2>1. Kept /\ UNCHANGED <<jobs, traced, passed, found, cursor, replay, baseline, pc, todo>>
    BY <1>8, GitMoveResult DEF GitResult, originVars, histVars, fileVars, pollVars
  <2>2. Owed' = Owed /\ jobs' \in Seq(ToSet(jobs')) BY <2>1 DEF Owed, OriginInv
  <2> QED BY <2>1, <2>2, OriginRests
<1>9. CASE Prune \/ UNCHANGED vars \/ \E r \in Root : \E p \in env.paths : AgentWrites(r, p)
  <2>1. UNCHANGED <<log, jobs, traced, passed, found, cursor, replay, baseline, pc, todo>>
    BY <1>9 DEF Prune, AgentWrites, vars, gitVars, originVars, histVars, fileVars, pollVars
  <2>2. Kept /\ Owed' = Owed /\ jobs' \in Seq(ToSet(jobs')) BY <2>1 DEF Kept, TypeInv, LogOK, Owed, OriginInv
  <2> QED BY <2>1, <2>2, OriginRests
<1> QED BY <1>1, <1>2, <1>3, <1>4, <1>5, <1>6, <1>7, <1>8, <1>9 DEF Next, Poll, Git, GitMove

\* Whatever fails, dies or is pruned: a commit that a cursor has passed has its
\* line-origin receipt, or its request is still on disk (requestLineOrigins before
\* saveGitWatchCursors, drainLineOriginPending); but for the commits of a range that git
\* could not list, for which none is made.
THEOREM OriginsAreOwed == Spec => []OriginsOwed
<1>1. Init => OriginInv
  <2> SUFFICES ASSUME Init PROVE OriginInv OBVIOUS
  <2>1. jobs = <<>> /\ passed = {} /\ pc = "idle" /\ \A r \in Root : found[r].commits = {}
    BY DEF Init, Nothing
  <2>2. jobs \in Seq(ToSet(jobs)) BY <2>1
  <2> QED BY <2>1, <2>2 DEF OriginInv, OriginsOwed
<1>2. TypeInv /\ OriginInv /\ [Next]_vars => OriginInv' BY NextOrigin
<1>3. OriginInv => OriginsOwed BY DEF OriginInv
<1> QED BY <1>1, <1>2, <1>3, TypesHold, PTL DEF Spec

\* A commit that several checkouts, refs and polls come upon counts once
\* (attributeCommits, rememberAttributed, requestLineOrigins), but for what its ledger
\* has lost and what git could not list.
THEOREM CommitsCountOnce == Spec => []ReportedOnce
BY ReportedAtMostOnce, OriginsAreOwed, PTL DEF ReportedOnce

-----------------------------------------------------------------------------
(* Hunks only move spans that stand in the content they apply to.           *)

\* Where SpansInPlace is promised.
Straight ==
  /\ Undisturbed({"amend", "detach", "midpoll", "refused", "showFails", "crash", "ioFails", "rangeFails"})
  /\ "merge" \in env.may => Whole /\ "fastForward" \notin env.may

\* Nothing is lost, and every HEAD is the tip of a branch of its own.
HeadInv ==
  /\ gone = {} /\ Present # {} /\ tip[Default] # 0
  /\ \A c \in 1..Len(log) : \E b \in Branch : tip[b] # 0 /\ c \in log[tip[b]].reach
  /\ \A r \in Present : on[r] \in Branch /\ tip[on[r]] # 0 /\ head[r] = tip[on[r]]
  /\ \A r, s \in Present : on[r] = on[s] => r = s

\* S is what is left of the way along the chain of h from k to the cursor K, or to
\* the end of the replay R that is owed.
Way(k, K, R, S, h) ==
  /\ k \in log[h].chain
  /\ \/ R # 0 /\ k = R /\ S = {}
     \/ R = 0 /\ K \in log[h].chain /\ k \in log[K].chain /\ S = {z \in log[K].chain : k < z}

\* The spans of L stand in a commit of its branch, with S between it and the cursor.
Stands(L, K, R, S) ==
  L.branch # NoBranch =>
    /\ L.branch \in Branch /\ tip[L.branch] # 0
    /\ ~L.adopting => R = 0
    /\ Tracks(L) \/ ~L.adopting \/ S # {} =>
         \E k \in 1..Len(log) : Way(k, K, R, S, tip[L.branch]) /\ (L.missed \/ Placed(L, k))

\* A checkout that the poll has not visited, and one that it has.
Unvisited(r) == found[r] = [Nothing EXCEPT !.to = cursor[r], !.owed = replay[r]]

VisitOK(r, f) ==
  LET h == head[r]
      K == cursor[r]
      R == replay[r]
  IN  /\ f.to # 0
      /\ f.drained => f.to = h /\ f.owed = 0
      /\ \/ f.commits = {} /\ f.fold = {} /\ f.cold = 0 /\ f.to = K /\ f.owed = R
         \/ /\ K # 0 /\ R = 0 /\ h \in log[K].reach
            /\ f.commits = {} /\ f.fold = {} /\ f.cold = 0 /\ f.to = h /\ f.owed = 0
         \/ /\ K # 0 /\ R = 0 /\ f.cold = 0 /\ f.owed = 0
            /\ f.fold = Chain(K, h) /\ f.to \in f.fold
            /\ f.commits \cap f.fold = Chain(K, f.to) /\ f.commits \subseteq log[f.to].reach
         \/ /\ K # 0 /\ R # 0 /\ f.cold = 0 /\ f.fold = {}
            /\ f.owed = R \/ (f.owed = 0 /\ f.to = R)
         \/ /\ K = 0 /\ f.cold = h /\ f.fold = {}
            /\ \/ f.owed = h /\ \E x \in Root : cursor[x] # 0
               \/ f.owed = 0 /\ f.to = h /\ f.commits = {}
               \/ f.owed = 0 /\ f.to = h /\ \E x \in Root : cursor[x] # 0

Visited(r) == VisitOK(r, found[r])

Now(r) == found[r].commits \cap found[r].fold

\* A checkout that is not bound yet, once its cursor has moved to K.
Waiting(r, K, R) ==
  LET f == found[r]
      h == head[r]
  IN  /\ K # 0 /\ (f.drained => K = h /\ R = 0)
      /\ Now(r) # {} => \E k \in 1..Len(log) : Way(k, K, R, Now(r), h)
      /\ f.cold # 0 => f.cold = h /\ f.fold = {} /\ (IF R # 0 THEN R ELSE K) = h
      /\ on[r] = rework[r].branch => Stands(rework[r], K, R, Now(r))

Waits(r) == Waiting(r, cursor[r], replay[r])

\* The checkout whose commits are being attributed.
Busy(r) ==
  LET f == found[r]
      L == rework[r]
  IN  /\ cursor[r] # 0 /\ (f.drained => cursor[r] = head[r] /\ replay[r] = 0)
      /\ batch \subseteq f.commits
      /\ L.branch = IF mode = "skip" THEN NoBranch ELSE on[r]
      /\ mode # "skip" => (mode = "adopt" <=> L.adopting)
      /\ Stands(L, cursor[r], replay[r], batch \cap f.fold)

Rests(r) == Stands(rework[r], cursor[r], replay[r], {})

SpotInv ==
  \A r \in Root : /\ rework[r].slid => rework[r].missed
                  /\ cursor[r] = 0 => replay[r] = 0 /\ rework[r].branch = NoBranch
                  /\ r \notin Present => cursor[r] = 0

PollInv ==
  /\ pc \in {"idle", "heads", "record"} => \A r \in Root : Rests(r)
  /\ pc = "heads" =>
       /\ \A r \in Root : IF r \in Present \ todo THEN Visited(r) ELSE Unvisited(r)
       /\ "merge" \in env.may => budget >= Cardinality(todo) * Len(log)
  /\ pc \in {"bind", "commits"} =>
       \A r \in Root : /\ r \notin todo => Rests(r)
                       /\ r \in todo => IF pc = "commits" /\ r = First(todo) THEN Busy(r) ELSE Waits(r)

Known == recorded \cup seen \cup emitted
Lone(r) == Present = {r} /\ "fastForward" \notin env.may

\* What a bound ledger is still to fold has not been reported.
Unmet(L, K, S) ==
  L.branch # NoBranch /\ ~L.adopting =>
    ((log[tip[L.branch]].chain \ log[K].reach) \cup S) \cap Known = {}

LoneInv ==
  \A r \in Root : Lone(r) =>
    LET L == rework[r]
        K == cursor[r]
        f == found[r]
    IN  /\ replay[r] = 0 /\ ~L.missed
        /\ pc \in {"idle", "heads", "record"} => Unmet(L, K, {})
        /\ pc = "bind" /\ r \in todo => (on[r] = L.branch => Unmet(L, K, Now(r)))
        /\ pc = "bind" /\ r \notin todo => L.branch \in {NoBranch, on[r]} /\ Unmet(L, K, {})
        /\ pc \in {"bind", "commits"} /\ r \in todo => f.commits \subseteq log[K].reach
        /\ pc = "commits" => Unmet(L, K, batch \cap f.fold)

SpansInv == HeadInv /\ SpotInv /\ PollInv /\ LoneInv

-----------------------------------------------------------------------------
(* The lines of the commits.                                                *)

\* What a commit on top of the log must be for the lines to go on.
LineOK(e) ==
  LET f == e.first
      n == Len(log) + 1
      s == e.change
  IN  /\ e.chain = log[f].chain \cup {n}
      /\ IF s.kind = "merge" THEN \A p \in Path : e.files[p] \in {n, log[f].files[p]}
         ELSE Fits(s, log[f].files) /\ e.files = FilesAfter(s, log[f].files, n)
      /\ "merge" \notin env.may => e.reach = log[f].reach \cup {n}

LEMMA ChainGrows ==
  ASSUME LogOK, ChainInv, NEW e, NewOK(e), LineOK(e), log' = Append(log, e), env' = env
  PROVE  ChainInv'
<1> DEFINE n == Len(log) + 1
           f == e.first
<1>1. LogOK' /\ Kept /\ Len(log') = n /\ log'[n] = e BY GrownBy
<1>2. Len(log) \in Nat /\ n \in Nat /\ n # 0 BY DEF LogOK
<1>3. \A c \in 1..n : c \in 1..Len(log) \/ c = n BY <1>2
<1>4. f \in 1..Len(log) /\ f # 0 BY <1>2 DEF NewOK
<1>5. ChainOK(log, f) /\ CommitOK(log, f) BY <1>4 DEF ChainInv, LogOK
<1>6. ASSUME NEW c \in 1..Len(log)
      PROVE  /\ ChainOK(log', c) /\ FilesOK(log', c)
             /\ "merge" \notin env.may => log'[c].reach = log'[c].chain
  <2>1. ChainOK(log, c) /\ FilesOK(log, c) /\ CommitOK(log, c)
        /\ ("merge" \notin env.may => log[c].reach = log[c].chain)
    BY DEF ChainInv, LogOK
  <2>2. \A d \in 1..Len(log) : log'[d] = log[d] BY <1>1 DEF Kept
  <2>3. 1..c \subseteq 1..Len(log) BY <1>2
  <2>4. \A d \in log[c].chain : log'[d] = log[d] BY <2>1, <2>2, <2>3 DEF CommitOK
  <2>5. log[c].first # 0 => log'[log[c].first] = log[log[c].first]
    BY <2>1, <2>2, <2>3 DEF CommitOK
  <2>6. ChainOK(log', c) BY <2>1, <2>2, <2>4, <2>5 DEF ChainOK
  <2>7. FilesOK(log', c) BY <2>1, <2>2, <2>5 DEF FilesOK
  <2> QED BY <2>1, <2>2, <2>6, <2>7
<1>7. /\ ChainOK(log', n) /\ FilesOK(log', n)
      /\ "merge" \notin env.may => log'[n].reach = log'[n].chain
  <2>1. log'[f] = log[f] BY <1>1, <1>4 DEF Kept
  <2>2. e.chain = log[f].chain \cup {n} BY DEF LineOK
  <2>3. \A d \in log[f].chain : d \in 1..Len(log) /\ log'[d] = log[d]
    <3>1. 1..f \subseteq 1..Len(log) BY <1>2, <1>4
    <3> QED BY <1>1, <1>5, <3>1 DEF CommitOK, Kept
  <2>4. ASSUME NEW x \in e.chain, NEW y \in e.chain, y <= x PROVE y \in log'[x].chain
    <3>1. CASE x = n BY <1>1, <3>1
    <3>2. CASE x # n
      <4>1. x \in log[f].chain BY <2>2, <3>2
      <4>2. x \in 1..Len(log) BY <2>3, <4>1
      <4>3. y # n BY <1>2, <2>4, <4>2
      <4>4. y \in log[f].chain BY <2>2, <4>3
      <4> QED BY <1>5, <2>3, <2>4, <4>1, <4>4 DEF ChainOK
    <3> QED BY <3>1, <3>2
  <2>5. ChainOK(log', n) BY <1>1, <1>4, <1>5, <2>1, <2>2, <2>4 DEF ChainOK
  <2>6. FilesOK(log', n) BY <1>1, <2>1 DEF FilesOK, LineOK
  <2>7. ASSUME "merge" \notin env.may PROVE e.reach = e.chain
    <3>1. log[f].reach = log[f].chain BY <1>4, <2>7 DEF ChainInv
    <3> QED BY <2>2, <2>7, <3>1 DEF LineOK
  <2> QED BY <1>1, <2>5, <2>6, <2>7
<1> QED BY <1>1, <1>3, <1>6, <1>7 DEF ChainInv

LEMMA EntryLine ==
  ASSUME LogOK, env \in Environments, NEW first \in 1..Len(log), NEW own \in BOOLEAN, NEW s \in Shapes,
         Fits(s, log[first].files)
  PROVE  LineOK(Entry(first, own, s))
<1> DEFINE e == Entry(first, own, s)
           n == Len(log) + 1
<1>1. /\ e.first = first /\ e.change = s /\ e.reach = log[first].reach \cup {n}
      /\ e.chain = log[first].chain \cup {n} /\ e.files = FilesAfter(s, log[first].files, n)
  BY DEF Entry, NewCommit
<1>2. s.kind # "merge"
  <2>1. s.kind \in {"add", "rewrite", "delete", "rename"} BY ShapesAre
  <2> QED BY <2>1
<1> HIDE DEF e, n
<1> QED BY <1>1, <1>2 DEF LineOK, e, n

-----------------------------------------------------------------------------
(* git keeps the lines of the branches, and the HEADs on them.              *)

\* A branch is only moved on.
Onward(b, c) ==
  /\ log[tip[b]].chain \subseteq log'[c].chain
  /\ "fastForward" \notin env.may => log'[c].chain \subseteq log[tip[b]].chain \cup {Len(log) + 1}

BranchesOnward == \A b \in Branch : tip[b] # 0 => tip'[b] # 0 /\ Onward(b, tip'[b])

GitSpans == ChainInv' /\ HeadInv' /\ BranchesOnward

LEMMA HeadsOnward ==
  ASSUME LogOK, Repository, HeadInv, LogOK', Kept, NEW r \in Root, NEW b \in Branch,
         b \in Free \/ b = on[r], NEW c \in 1..Len(log'),
         gone' = gone, on' = [on EXCEPT ![r] = b], head' = [head EXCEPT ![r] = c],
         tip' = [tip EXCEPT ![b] = c],
         tip[b] # 0 => log[tip[b]].reach \subseteq log'[c].reach /\ Onward(b, c),
         \A d \in 1..Len(log') : d \notin 1..Len(log) => d \in log'[c].reach
  PROVE  HeadInv' /\ BranchesOnward
<1>1. Len(log) \in Nat /\ Len(log') \in Nat /\ \A d \in 1..Len(log) : log'[d] = log[d] BY DEF LogOK, Kept
<1>2. c # 0 /\ tip'[b] = c BY <1>1 DEF Repository
<1>3. \A x \in Branch : x # b => tip'[x] = tip[x] BY DEF Repository
<1>4. \A x \in Branch : tip[x] # 0 => tip[x] \in 1..Len(log) BY <1>1 DEF Repository
<1>5. b # Absent BY DEF Branch, Default, Absent
<1>6. /\ Present' = Present \cup {r}
      /\ \A x \in Present' : x # r => x \in Present /\ on'[x] = on[x] /\ head'[x] = head[x]
      /\ on'[r] = b /\ head'[r] = c
  BY <1>5 DEF Present, Repository
<1>7. \A x \in Present : x # r => on[x] # b
  <2> SUFFICES ASSUME NEW x \in Present, x # r, on[x] = b PROVE FALSE OBVIOUS
  <2>1. CASE b \in Free BY <2>1 DEF Free, Present
  <2>2. CASE b = on[r]
    <3>1. r \in Present BY <1>5, <2>2 DEF Present
    <3> QED BY <2>2, <3>1 DEF HeadInv
  <2> QED BY <2>1, <2>2
<1>8. \A x \in Present' : on'[x] \in Branch /\ tip'[on'[x]] # 0 /\ head'[x] = tip'[on'[x]]
  <2> SUFFICES ASSUME NEW x \in Present'
               PROVE  on'[x] \in Branch /\ tip'[on'[x]] # 0 /\ head'[x] = tip'[on'[x]]
    OBVIOUS
  <2>1. CASE x = r BY <1>2, <1>6, <2>1
  <2>2. CASE x # r
    <3>1. x \in Present /\ on'[x] = on[x] /\ head'[x] = head[x] /\ on[x] # b BY <1>6, <1>7, <2>2
    <3>2. on[x] \in Branch /\ tip[on[x]] # 0 /\ head[x] = tip[on[x]] BY <3>1 DEF HeadInv
    <3> QED BY <1>3, <3>1, <3>2
  <2> QED BY <2>1, <2>2
<1>9. \A x, y \in Present' : on'[x] = on'[y] => x = y
  <2> SUFFICES ASSUME NEW x \in Present', NEW y \in Present', on'[x] = on'[y], x # y PROVE FALSE OBVIOUS
  <2>1. CASE x = r BY <1>6, <1>7, <2>1
  <2>2. CASE y = r BY <1>6, <1>7, <2>2
  <2>3. CASE x # r /\ y # r
    <3>1. x \in Present /\ y \in Present /\ on[x] = on[y] BY <1>6, <2>3
    <3> QED BY <3>1 DEF HeadInv
  <2> QED BY <2>1, <2>2, <2>3
<1>10. ASSUME NEW d \in 1..Len(log') PROVE \E x \in Branch : tip'[x] # 0 /\ d \in log'[tip'[x]].reach
  <2>1. CASE d \notin 1..Len(log) BY <1>2, <2>1
  <2>2. CASE d \in 1..Len(log)
    <3>1. PICK x \in Branch : tip[x] # 0 /\ d \in log[tip[x]].reach BY <2>2 DEF HeadInv
    <3>2. CASE x = b BY <1>2, <3>1, <3>2
    <3>3. CASE x # b BY <1>1, <1>3, <1>4, <3>1, <3>3
    <3> QED BY <3>2, <3>3
  <2> QED BY <2>1, <2>2
<1>11. tip'[Default] # 0 BY <1>2, <1>3 DEF HeadInv, Branch
<1>12. gone' = {} /\ Present' # {} BY <1>6 DEF HeadInv
<1>13. HeadInv' BY <1>8, <1>9, <1>10, <1>11, <1>12 DEF HeadInv
<1>14. ASSUME NEW x \in Branch, tip[x] # 0 PROVE tip'[x] # 0 /\ Onward(x, tip'[x])
  <2>1. CASE x = b BY <1>2, <1>14, <2>1
  <2>2. CASE x # b
    <3>1. tip'[x] = tip[x] /\ log'[tip[x]] = log[tip[x]] BY <1>1, <1>3, <1>4, <1>14, <2>2
    <3> QED BY <1>14, <3>1 DEF Onward
  <2> QED BY <2>1, <2>2
<1> QED BY <1>13, <1>14 DEF BranchesOnward

\* A commit on top of a HEAD.
LEMMA OnTop ==
  ASSUME LogOK, Repository, ChainInv, HeadInv, NEW r \in Present, NEW e, NewOK(e), LineOK(e),
         e.first = head[r], log[head[r]].reach \subseteq e.reach,
         log' = Append(log, e), GitMoved(r, on[r], Len(log) + 1), tip' = [tip EXCEPT ![on[r]] = Len(log) + 1]
  PROVE  GitSpans
<1> DEFINE n == Len(log) + 1
<1>1. LogOK' /\ Kept /\ Len(log') = n /\ log'[n] = e BY GrownBy
<1>2. /\ on' = [on EXCEPT ![r] = on[r]] /\ head' = [head EXCEPT ![r] = n] /\ gone' = gone /\ env' = env
  BY DEF GitMoved
<1>3. ChainInv' BY <1>2, ChainGrows
<1>4. on[r] \in Branch /\ tip[on[r]] # 0 /\ head[r] = tip[on[r]] /\ r \in Root BY DEF HeadInv, Present
<1>5. Len(log) \in Nat BY DEF LogOK
<1>6. n \in 1..Len(log') /\ n \in Nat BY <1>1, <1>5
<1>7. log'[n].reach = e.reach /\ e.chain = log[head[r]].chain \cup {n} /\ n \in e.reach
  BY <1>1 DEF LineOK, NewOK
<1>8. Onward(on[r], n) BY <1>1, <1>4, <1>7 DEF Onward
<1>9. \A d \in 1..Len(log') : d \notin 1..Len(log) => d \in log'[n].reach
  <2>1. \A d \in 1..Len(log') : d \notin 1..Len(log) => d = n BY <1>1, <1>5
  <2> QED BY <1>7, <2>1
<1> DEFINE b == on[r]
           c == n
<1>10. /\ b \in Branch /\ c \in 1..Len(log') /\ on' = [on EXCEPT ![r] = b] /\ head' = [head EXCEPT ![r] = c]
       /\ tip' = [tip EXCEPT ![b] = c] /\ (b \in Free \/ b = on[r]) /\ gone' = gone /\ r \in Root
       /\ (tip[b] # 0 => log[tip[b]].reach \subseteq log'[c].reach /\ Onward(b, c))
       /\ (\A d \in 1..Len(log') : d \notin 1..Len(log) => d \in log'[c].reach)
  BY <1>2, <1>4, <1>6, <1>7, <1>8, <1>9
<1>11. LogOK' /\ Kept BY <1>1
<1> HIDE DEF b, c
<1>12. HeadInv' /\ BranchesOnward BY <1>10, <1>11, HeadsOnward
<1> QED BY <1>3, <1>12 DEF GitSpans

\* A HEAD on a commit that is there.
LEMMA OnAlong ==
  ASSUME LogOK, Repository, ChainInv, HeadInv, NEW r \in Root, NEW b \in Branch, b \in Free \/ b = on[r],
         NEW c \in 1..Len(log), log' = log, GitMoved(r, b, c), tip' = [tip EXCEPT ![b] = c],
         tip[b] # 0 => log[tip[b]].reach \subseteq log'[c].reach /\ Onward(b, c)
  PROVE  GitSpans
<1>1. LogOK' /\ Kept BY DEF LogOK, Kept
<1>2. on' = [on EXCEPT ![r] = b] /\ head' = [head EXCEPT ![r] = c] /\ gone' = gone /\ env' = env
  BY DEF GitMoved
<1>3. ChainInv' BY <1>2 DEF ChainInv
<1>4. c \in 1..Len(log') /\ \A d \in 1..Len(log') : d \notin 1..Len(log) => d \in log'[c].reach OBVIOUS
<1>5. HeadInv' /\ BranchesOnward BY <1>1, <1>2, <1>4, HeadsOnward
<1> QED BY <1>3, <1>5 DEF GitSpans

LEMMA StillOnward == ASSUME log' = log, NEW b \in Branch PROVE Onward(b, tip[b])
BY DEF Onward

LEMMA MakeCommitSpans ==
  ASSUME TypeInv, ChainInv, HeadInv, NEW r \in Root, MakeCommit(r)
  PROVE  GitSpans
<1>1. LogOK /\ Repository /\ env \in Environments BY DEF TypeInv
<1>2. r \in Present /\ head[r] \in 1..Len(log) BY <1>1, ReachableIs DEF MakeCommit
<1>3. PICK s \in Shapes, own \in BOOLEAN : /\ Fits(s, log[head[r]].files)
                                          /\ log' = Append(log, Entry(head[r], own, s))
  BY DEF MakeCommit
<1> DEFINE e == Entry(head[r], own, s)
<1>4. NewOK(e) BY <1>1, <1>2, EntryOK
<1>5. LineOK(e) BY <1>1, <1>2, <1>3, EntryLine
<1>6. e.first = head[r] /\ log[head[r]].reach \subseteq e.reach /\ log' = Append(log, e)
  BY <1>3 DEF Entry
<1>7. on[r] # NoBranch BY <1>2 DEF HeadInv, Branch, Default, NoBranch
<1>8. GitMoved(r, on[r], Len(log) + 1) /\ tip' = [tip EXCEPT ![on[r]] = Len(log) + 1]
  BY <1>7 DEF MakeCommit, NewCommit
<1> HIDE DEF e
<1> QED BY <1>1, <1>2, <1>4, <1>5, <1>6, <1>8, OnTop

LEMMA MergeSpans ==
  ASSUME TypeInv, ChainInv, HeadInv, NEW r \in Root, Merge(r)
  PROVE  GitSpans
<1>1. LogOK /\ Repository BY DEF TypeInv
<1>2. r \in Present BY DEF Merge, Present, Branch, Default, Absent
<1>3. PICK e : Merged(r, e) BY MergeEntry
<1>4. "merge" \in env.may BY DEF Merge, May
<1>5. GitMoved(r, on[r], Len(log) + 1) /\ tip' = [tip EXCEPT ![on[r]] = Len(log) + 1]
  BY DEF Merge, NewCommit
<1>6. LineOK(e) BY <1>3, <1>4 DEF LineOK, Merged
<1> QED BY <1>1, <1>2, <1>3, <1>5, <1>6, OnTop DEF Merged

LEMMA SwitchSpans ==
  ASSUME TypeInv, ChainInv, HeadInv, NEW r \in Root, Switch(r)
  PROVE  GitSpans
<1>1. LogOK /\ Repository BY DEF TypeInv
<1>2. r \in Present /\ log' = log BY DEF Switch
<1>3. PICK b \in Free : LET c == IF tip[b] = 0 THEN head[r] ELSE tip[b]
                        IN  tip' = [tip EXCEPT ![b] = c] /\ GitMoved(r, b, c)
  BY DEF Switch
<1> DEFINE c == IF tip[b] = 0 THEN head[r] ELSE tip[b]
<1>4. b \in Branch BY DEF Free
<1>5. tip' = [tip EXCEPT ![b] = c] /\ GitMoved(r, b, c) BY <1>3
<1>6. c \in 1..Len(log)
  <2>1. tip[b] # 0 => tip[b] \in TipsOf(tip) BY <1>4 DEF TipsOf
  <2> QED BY <1>1, <1>2, <2>1, ReachableIs
<1>7. tip[b] # 0 => log[tip[b]].reach \subseteq log'[c].reach /\ Onward(b, c)
  BY <1>2, <1>4, StillOnward
<1> HIDE DEF c
<1> QED BY <1>1, <1>2, <1>4, <1>5, <1>6, <1>7, OnAlong

LEMMA AddWorktreeSpans ==
  ASSUME TypeInv, ChainInv, HeadInv, NEW r \in Root, AddWorktree(r)
  PROVE  GitSpans
<1>1. LogOK /\ Repository BY DEF TypeInv
<1>2. log' = log BY DEF AddWorktree
<1>3. PICK b \in Free : \E c \in IF tip[b] = 0 THEN TipsOf(tip) ELSE {tip[b]} :
                          tip' = [tip EXCEPT ![b] = c] /\ GitMoved(r, b, c)
  BY DEF AddWorktree
<1>4. b \in Branch BY DEF Free
<1>5. PICK c \in IF tip[b] = 0 THEN TipsOf(tip) ELSE {tip[b]} :
             tip' = [tip EXCEPT ![b] = c] /\ GitMoved(r, b, c)
  BY <1>3
<1>6. c \in 1..Len(log)
  <2>1. tip[b] # 0 => tip[b] \in TipsOf(tip) BY <1>4 DEF TipsOf
  <2> QED BY <1>1, <1>5, <2>1, ReachableIs
<1>7. tip[b] # 0 => log[tip[b]].reach \subseteq log'[c].reach /\ Onward(b, c)
  BY <1>2, <1>4, <1>5, StillOnward
<1> QED BY <1>1, <1>2, <1>4, <1>5, <1>6, <1>7, OnAlong

LEMMA FastForwardSpans ==
  ASSUME TypeInv, ChainInv, HeadInv, NEW r \in Root, FastForward(r), Straight
  PROVE  GitSpans
<1>1. LogOK /\ Repository BY DEF TypeInv
<1>2. on[r] \in Branch /\ log' = log BY DEF FastForward
<1>3. r \in Present BY <1>2 DEF Present, Branch, Default, Absent
<1>4. PICK o \in TipsOf(tip) : /\ head[r] \in log[o].reach \ {o}
                               /\ tip' = [tip EXCEPT ![on[r]] = o] /\ GitMoved(r, on[r], o)
  BY DEF FastForward
<1>5. o \in 1..Len(log) BY <1>1, ReachableIs
<1>6. "fastForward" \in env.may /\ "merge" \notin env.may BY DEF FastForward, May, Straight
<1>7. head[r] = tip[on[r]] BY <1>3 DEF HeadInv
<1>8. log[head[r]].reach \subseteq log[o].reach BY <1>1, <1>4, <1>5 DEF LogOK, CommitOK
<1>9. log[head[r]].chain \subseteq log[o].chain
  <2>1. log[o].reach = log[o].chain BY <1>5, <1>6 DEF ChainInv
  <2> QED BY <1>1, <1>4, <1>5, <2>1 DEF LogOK, CommitOK
<1>10. Onward(on[r], o) BY <1>2, <1>6, <1>7, <1>9 DEF Onward
<1> QED BY <1>1, <1>2, <1>4, <1>5, <1>7, <1>8, <1>10, OnAlong

\* Where the promise is made, git moves in no other way.
LEMMA GitMoveSpans ==
  ASSUME TypeInv, ChainInv, HeadInv, Straight, NEW r \in Root, GitMove(r)
  PROVE  GitSpans
<1>1. ~Detach(r) /\ ~Reattach(r) /\ ~Amend(r)
  BY DEF Straight, Undisturbed, Detach, Reattach, Amend, May
<1> QED BY <1>1, MakeCommitSpans, MergeSpans, SwitchSpans, AddWorktreeSpans, FastForwardSpans DEF GitMove

-----------------------------------------------------------------------------
(* Between two polls the spans stay where they are.                         *)

LEMMA RestsOn ==
  ASSUME LogOK, Repository, Files, Kept, BranchesOnward, UNCHANGED <<rework, cursor, replay>>,
         NEW r \in Root, Rests(r)
  PROVE  Rests(r)'
<1> DEFINE L == rework[r]
           K == cursor[r]
           R == replay[r]
           h == tip[L.branch]
<1>0. Len(log) \in Nat /\ Len(log') \in Nat /\ Len(log) <= Len(log')
      /\ \A c \in 1..Len(log) : log'[c] = log[c]
  BY DEF LogOK, Kept
<1>1. SUFFICES ASSUME L.branch # NoBranch PROVE Rests(r)' BY DEF Rests, Stands
<1>2. L.branch \in Branch /\ h # 0 /\ (~L.adopting => R = 0) BY <1>1 DEF Rests, Stands
<1>3. tip'[L.branch] # 0 /\ log[h].chain \subseteq log'[tip'[L.branch]].chain
  BY <1>2 DEF BranchesOnward, Onward
<1>4. SUFFICES ASSUME Tracks(L) \/ ~L.adopting
               PROVE  \E k \in 1..Len(log') : Way(k, K, R, {}, tip[L.branch])' /\ (L.missed \/ Placed(L, k)')
  BY <1>2, <1>3 DEF Rests, Stands, Tracks, Placed, Way
<1>5. PICK k \in 1..Len(log) : Way(k, K, R, {}, h) /\ (L.missed \/ Placed(L, k))
  BY <1>1, <1>4 DEF Rests, Stands
<1>6. k \in 1..Len(log') /\ log'[k] = log[k] BY <1>0
<1>7. Placed(L, k)' <=> Placed(L, k) BY <1>6 DEF Placed
<1>8. Way(k, K, R, {}, tip[L.branch])'
  <2>1. k \in log'[tip'[L.branch]].chain BY <1>3, <1>5 DEF Way
  <2>2. CASE R # 0 BY <1>5, <2>1, <2>2 DEF Way
  <2>3. CASE R = 0
    <3>1. K \in log[h].chain /\ k \in log[K].chain /\ {} = {z \in log[K].chain : k < z} BY <1>5, <2>3 DEF Way
    <3>2. K \in 1..Len(log)
      <4>1. h \in 1..Len(log) BY <1>0, <1>2 DEF Repository
      <4>2. log[h].chain \subseteq 1..h /\ 1..h \subseteq 1..Len(log) BY <1>0, <4>1 DEF LogOK, CommitOK
      <4> QED BY <3>1, <4>2
    <3>3. log'[K] = log[K] BY <1>0, <3>2
    <3> QED BY <1>3, <2>1, <2>3, <3>1, <3>3 DEF Way
  <2> QED BY <2>2, <2>3
<1> QED BY <1>5, <1>6, <1>7, <1>8

LEMMA KnownAre == ASSUME TypeInv PROVE Known \subseteq 1..Len(log)
BY DEF TypeInv, Files, Progress, Known

\* The steps of git, between two polls.
LEMMA GitKeepsSpans ==
  ASSUME TypeInv, HeadInv, SpotInv, PollInv, LoneInv, GitSpans, Kept, Present \subseteq Present',
         pc = "idle", UNCHANGED <<env, fileVars, pollVars>>
  PROVE  SpansInv'
<1>1. LogOK /\ Repository /\ Files BY DEF TypeInv
<1>2. UNCHANGED <<cursor, replay, recorded, rework, pc, todo, found, seen, emitted, env>>
  BY DEF fileVars, pollVars
<1>3. HeadInv' BY DEF GitSpans
<1>4. SpotInv' BY <1>2 DEF SpotInv
<1>5. PollInv'
  <2>1. \A r \in Root : Rests(r) BY DEF PollInv
  <2>2. \A r \in Root : Rests(r)' BY <1>1, <1>2, <2>1, RestsOn DEF GitSpans
  <2> QED BY <1>2, <2>2 DEF PollInv
<1>6. LoneInv'
  <2> SUFFICES ASSUME NEW r \in Root, Lone(r)' PROVE ~rework[r].missed /\ replay[r] = 0 /\ Unmet(rework[r], cursor[r], {})'
    BY <1>2 DEF LoneInv
  <2> DEFINE L == rework[r]
             K == cursor[r]
  <2>1. Lone(r) BY <1>2 DEF HeadInv, Lone
  <2>2. /\ ~L.missed /\ replay[r] = 0 /\ Unmet(L, K, {}) BY <2>1 DEF LoneInv
  <2>3. ASSUME L.branch # NoBranch, ~L.adopting
        PROVE  ((log'[tip'[L.branch]].chain \ log'[K].reach) \cup {}) \cap Known' = {}
    <3>1. ((log[tip[L.branch]].chain \ log[K].reach) \cup {}) \cap Known = {} BY <2>2, <2>3 DEF Unmet
    <3>2. K # 0 /\ K \in 1..Len(log)
      <4>1. K # 0 BY <2>3 DEF SpotInv
      <4>2. K \in 0..Len(log) BY <1>1 DEF Files
      <4> QED BY <1>1, <4>1, <4>2 DEF LogOK
    <3>3. log'[K] = log[K] BY <3>2 DEF Kept
    <3>4. L.branch \in Branch /\ tip[L.branch] # 0 BY <2>3 DEF PollInv, Rests, Stands
    <3>5. log'[tip'[L.branch]].chain \subseteq log[tip[L.branch]].chain \cup {Len(log) + 1}
      <4>1. "fastForward" \notin env.may BY <2>1 DEF Lone
      <4> QED BY <3>4, <4>1 DEF GitSpans, BranchesOnward, Onward
    <3>6. Known' = Known BY <1>2 DEF Known
    <3>7. Len(log) + 1 \notin Known
      <4>1. Len(log) \in Nat BY <1>1 DEF LogOK
      <4>2. Known \subseteq 1..Len(log) BY KnownAre
      <4> QED BY <4>1, <4>2
    <3> QED BY <3>1, <3>3, <3>5, <3>6, <3>7
  <2> QED BY <1>2, <2>2, <2>3 DEF Unmet
<1> QED BY <1>3, <1>4, <1>5, <1>6 DEF SpansInv

-----------------------------------------------------------------------------
(* The visits of a poll.                                                    *)

LEMMA RootsFinite == IsFiniteSet(Root) /\ Present \subseteq Root /\ \A S \in SUBSET Root : IsFiniteSet(S)
<1> DEFINE I == 1..Len(RootOrder)
<1>1. RootOrder \in [I -> Root] /\ Len(RootOrder) \in Nat /\ DOMAIN RootOrder = I BY GitWatchAssumption
<1>2. IsFiniteSet(I) BY <1>1, FS_Interval
<1>3. \A r \in Root : \E i \in I : RootOrder[i] = r BY <1>1 DEF Root, ToSet
<1>4. RootOrder \in Surjection(I, Root) BY <1>1, <1>3 DEF Surjection
<1>5. IsFiniteSet(Root) BY <1>2, <1>4, FS_Surjection
<1> QED BY <1>5, FS_Subset DEF Present

\* Where git rests, so does what is known of it.
LEMMA LinesRest == ASSUME ChainInv, HeadInv, UNCHANGED <<env, gitVars>> PROVE ChainInv' /\ HeadInv'
<1>1. UNCHANGED <<env, log, gone, tip, on, head>> BY DEF gitVars
<1>2. Present' = Present BY <1>1 DEF Present
<1>3. ChainInv' BY <1>1 DEF ChainInv
<1>4. HeadInv' BY <1>1, <1>2 DEF HeadInv
<1> QED BY <1>3, <1>4

LEMMA StartPollSpans ==
  ASSUME TypeInv, HeadInv, SpotInv, PollInv, LoneInv, ChainInv, Straight, StartPoll
  PROVE  SpansInv'
<1>1. pc = "idle" /\ UNCHANGED <<env, gitVars, fileVars, seen, emitted>> /\ todo' = Present /\ pc' = "heads"
  BY DEF StartPoll, Go
<1>2. UNCHANGED <<env, log, gone, tip, on, head, cursor, replay, recorded, rework, seen, emitted>>
  BY <1>1 DEF gitVars, fileVars
<1>3. Present' = Present /\ HeadInv' BY <1>1, <1>2, LinesRest DEF Present
<1>4. SpotInv' BY <1>2, <1>3 DEF SpotInv
<1>5. \A r \in Root : Rests(r)' BY <1>1, <1>2 DEF PollInv, Rests, Stands, Way, Tracks, Placed
<1>6. \A r \in Root : Unvisited(r)'
  <2>1. found' = [r \in Root |-> [Nothing EXCEPT !.to = cursor[r], !.owed = replay[r]]] BY DEF StartPoll
  <2> QED BY <1>2, <2>1 DEF Unvisited
<1>7. "merge" \in env.may => budget' >= Cardinality(Present) * Len(log)
  <2> SUFFICES ASSUME "merge" \in env.may PROVE budget' >= Cardinality(Present) * Len(log) OBVIOUS
  <2>1. Cardinality(Root) * Len(log) <= env.total BY DEF Straight, Whole
  <2>2. Cardinality(Present) \in Nat /\ Cardinality(Root) \in Nat /\ Cardinality(Present) <= Cardinality(Root)
    BY RootsFinite, FS_Subset, FS_CardinalityType
  <2>3. Len(log) \in Nat /\ env.total \in Nat BY Bounds DEF TypeInv, LogOK
  <2>4. \A a, b, l \in Nat : a <= b => a * l <= b * l OBVIOUS
  <2>5. Cardinality(Present) * Len(log) <= Cardinality(Root) * Len(log) BY <2>2, <2>3, <2>4
  <2>6. \A a, b, l \in Nat : a * l \in Nat OBVIOUS
  <2>7. Cardinality(Present) * Len(log) \in Nat /\ Cardinality(Root) * Len(log) \in Nat BY <2>2, <2>3, <2>6
  <2>8. budget' = env.total BY DEF StartPoll
  <2> QED BY <2>1, <2>3, <2>5, <2>7, <2>8
<1>8. PollInv' BY <1>1, <1>2, <1>3, <1>5, <1>6, <1>7 DEF PollInv
<1>9. LoneInv'
  <2> SUFFICES ASSUME NEW r \in Root, Lone(r)'
               PROVE  ~rework[r].missed /\ replay[r] = 0 /\ Unmet(rework[r], cursor[r], {})'
    BY <1>1, <1>2 DEF LoneInv
  <2>1. Lone(r) BY <1>2, <1>3 DEF Lone
  <2>2. ~rework[r].missed /\ replay[r] = 0 /\ Unmet(rework[r], cursor[r], {}) BY <1>1, <2>1 DEF LoneInv
  <2> QED BY <1>2, <2>2 DEF Unmet, Known
<1> QED BY <1>3, <1>4, <1>8, <1>9 DEF SpansInv

LEMMA OldestWhole ==
  ASSUME LogOK, NEW S \in SUBSET (1..Len(log)), NEW n \in Int, n >= Len(log)
  PROVE  Oldest(S, n) = S
<1>1. Len(log) \in Nat BY DEF LogOK
<1> SUFFICES ASSUME NEW c \in S PROVE Cardinality({d \in S : d < c}) < n BY DEF Oldest
<1> DEFINE B == {d \in S : d < c}
<1>2. c \in 1..Len(log) /\ c - 1 \in Nat /\ c - 1 < n BY <1>1
<1>3. B \subseteq 1..(c - 1)
  <2> SUFFICES ASSUME NEW d \in S, d < c PROVE d \in 1..(c - 1) OBVIOUS
  <2>1. d \in 1..Len(log) OBVIOUS
  <2> QED BY <1>1, <1>2, <2>1
<1>4. IsFiniteSet(1..(c - 1)) /\ Cardinality(1..(c - 1)) = c - 1
  <2> DEFINE e == c - 1
  <2>1. 1 \in Int /\ e \in Int /\ e >= 0 BY <1>2
  <2> HIDE DEF e
  <2>2. IsFiniteSet(1..e) /\ Cardinality(1..e) = IF 1 > e THEN 0 ELSE e - 1 + 1 BY <2>1, FS_Interval
  <2>3. Cardinality(1..e) = e BY <2>1, <2>2
  <2> QED BY <2>2, <2>3 DEF e
<1> HIDE DEF B
<1>5. Cardinality(B) <= c - 1 /\ IsFiniteSet(B) BY <1>3, <1>4, FS_Subset
<1>6. Cardinality(B) \in Nat BY <1>5, FS_CardinalityType
<1>7. Cardinality(B) < n BY <1>2, <1>5, <1>6
<1> QED BY <1>7 DEF B

\* What a poll takes of the way to a HEAD ends on its line, and holds all of the line up to there.
LEMMA TakenIs ==
  ASSUME LogOK, ChainInv, Straight, env \in Environments, NEW K \in 1..Len(log), NEW h \in 1..Len(log),
         NEW b \in Int, "merge" \in env.may => b >= Len(log), NEW take,
         take = Oldest(Oldest(Between(K, h), env.cap), b), take # {}
  PROVE  /\ Max(take) \in Chain(K, h) /\ take \cap Chain(K, h) = Chain(K, Max(take))
         /\ take \subseteq log[Max(take)].reach
<1> DEFINE all == Between(K, h)
           m == Max(take)
<1>1. CommitOK(log, h) /\ CommitOK(log, K) /\ Len(log) \in Nat BY DEF LogOK
<1>2. 1..h \subseteq 1..Len(log) BY <1>1
<1>3. all \in SUBSET (1..Len(log)) /\ all \subseteq log[h].reach /\ take \subseteq all
  BY <1>1, <1>2, SelectedIn DEF Between, CommitOK
<1>4. m \in take /\ \A x \in take : x <= m
  <2>1. take \in SUBSET (1..Len(log)) BY <1>3
  <2> QED BY <2>1, LatestIn
<1>5. Chain(K, h) \subseteq all /\ env.cap \in Int
  <2>1. Chain(K, h) \subseteq all BY <1>1 DEF Chain, Between, CommitOK
  <2>2. env.cap \in Nat \ {0} BY Bounds
  <2> QED BY <2>1, <2>2
<1>6. CASE "merge" \notin env.may
  <2>1. log[h].reach = log[h].chain BY <1>6 DEF ChainInv
  <2>2. all = Chain(K, h) BY <2>1 DEF Between, Chain
  <2>3. m \in Chain(K, h) /\ m \in log[h].chain BY <1>3, <1>4, <2>2 DEF Chain
  <2>4. \A x \in all : x <= m => x \in take
    <3> HIDE DEF all, m
    <3>1. take = Oldest(Oldest(all, env.cap), b) BY DEF all
    <3> QED BY <1>3, <1>4, <1>5, <3>1, OldestDown
  <2>5. log[m].chain \subseteq log[h].chain /\ \A z \in log[h].chain : z <= m <=> z \in log[m].chain
    BY <2>3, Ancestors
  <2>6. take = Chain(K, m)
    <3>1. ASSUME NEW x \in take PROVE x \in Chain(K, m) BY <1>3, <1>4, <2>2, <2>5, <3>1 DEF Chain
    <3>2. ASSUME NEW x \in Chain(K, m) PROVE x \in take
      <4>1. x \in log[m].chain /\ x \in log[h].chain /\ x \in all BY <2>2, <2>5 DEF Chain
      <4> QED BY <2>4, <2>5, <4>1
    <3> QED BY <3>1, <3>2
  <2>7. log[m].chain \subseteq log[m].reach
    <3>1. m \in 1..Len(log) BY <1>3, <1>4
    <3> HIDE DEF m
    <3> QED BY <3>1 DEF LogOK, CommitOK
  <2>8. take \subseteq log[m].reach BY <2>6, <2>7 DEF Chain
  <2> QED BY <1>3, <2>2, <2>3, <2>6, <2>8
<1>7. CASE "merge" \in env.may
  <2>1. Len(log) <= env.cap BY <1>7 DEF Straight, Whole
  <2>2. Oldest(all, env.cap) = all BY <1>1, <1>3, <1>5, <2>1, OldestWhole
  <2>3. take = all BY <1>1, <1>3, <1>7, <2>2, OldestWhole
  <2>4. h \notin log[K].reach
    <3> SUFFICES ASSUME h \in log[K].reach PROVE FALSE OBVIOUS
    <3>1. log[h].reach \subseteq log[K].reach BY <1>1 DEF CommitOK
    <3> QED BY <2>3, <3>1 DEF Between
  <2>5. h \in all /\ h \in Chain(K, h) BY <1>1, <2>4 DEF Between, Chain, CommitOK, ChainInv, ChainOK
  <2>6. m = h
    <3>1. h <= m BY <1>4, <2>3, <2>5
    <3>2. m \in 1..h BY <1>1, <1>3, <1>4 DEF CommitOK
    <3> HIDE DEF m
    <3> QED BY <1>1, <3>1, <3>2
  <2>7. take \cap Chain(K, h) = Chain(K, h) BY <1>5, <2>3
  <2> QED BY <1>3, <2>5, <2>6, <2>7
<1> QED BY <1>6, <1>7

\* What the visit of a HEAD finds, where nothing is lost.
Gets(r, g) ==
  /\ found' = [found EXCEPT ![r] = g] /\ VisitOK(r, g)
  /\ \E n \in Nat : n <= Len(log) /\ budget' = budget - n

LEMMA PollHeadGets ==
  ASSUME TypeInv, ChainInv, HeadInv, SpotInv, PollInv, Straight, NEW r \in Root, PollHead(r)
  PROVE  \E g : Gets(r, g)
<1> DEFINE h       == head[r]
           cold    == cursor[r] = 0
           base    == IF cold /\ \E x \in Root : cursor[x] # 0 THEN RecentBase(h) ELSE 0
           old     == IF cold THEN base ELSE cursor[r]
           target  == IF cold THEN h ELSE replay[r]
           replays == target # 0
           range   == IF replays THEN Oldest(Chain(old, target), env.cap)
                      ELSE IF old = h THEN {} ELSE NewCommits(old, h, TRUE)
           take    == Oldest(range, budget)
           f       == [found[r] EXCEPT !.cold = IF cold THEN h ELSE 0]
           last    == range = {} \/ target \in take
           Found(g)   == found' = [found EXCEPT ![r] = g]
           Skipped(g) == Found(g) /\ budget' = budget
           Took(g)    == Found([g EXCEPT !.commits = take]) /\ budget' = budget - Cardinality(take)
<1>1. \/ /\ (cold /\ base = 0) \/ (old # 0 /\ ~replays /\ range = {})
         /\ \/ Skipped([f EXCEPT !.to = h, !.drained = TRUE])
            \/ Skipped([f EXCEPT !.to = h, !.drained = TRUE, !.unseen = {}])
      \/ old # 0 /\ replays /\ take = {} /\ Skipped([f EXCEPT !.to = old, !.owed = target])
      \/ old # 0 /\ ~replays /\ Skipped(f)
      \/ /\ old # 0 /\ replays /\ (range = {} \/ take # {})
         /\ Took([f EXCEPT !.to = IF last THEN target ELSE Max(take),
                           !.owed = IF last THEN 0 ELSE target,
                           !.drained = last /\ target = h])
      \/ /\ old # 0 /\ ~replays /\ take # {}
         /\ Took([f EXCEPT !.to = Max(take), !.fold = Foldable(old, h, TRUE), !.drained = Max(take) = h,
                           !.unseen = {}])
  <2>1. gone = {} /\ ~May("ioFails") /\ ~May("rangeFails") BY DEF HeadInv, Straight, Undisturbed, May
  <2>2. {old, target} \cap gone = {} BY <2>1
  <2>3. \A ok : Outcome("ioFails", ok) => ok BY <2>1 DEF Outcome
  <2>4. Visit(r, TRUE, TRUE)
    <3>1. PICK based, lists \in BOOLEAN : Works("rangeFails", based /\ lists) /\ Visit(r, based, lists)
      BY DEF PollHead
    <3>2. based = TRUE /\ lists = TRUE BY <2>1, <3>1 DEF Works
    <3> QED BY <3>1, <3>2
  <2> HIDE DEF h, base, old, range, take
  <2> QED BY <2>2, <2>3, <2>4 DEF Visit, h, base, old, range, take
<1>2. /\ LogOK /\ Repository /\ Files /\ Progress /\ env \in Environments /\ budget \in Int
      /\ Len(log) \in Nat /\ 0 \in 0..Len(log) /\ 1..Len(log) \subseteq 0..Len(log)
  BY DEF TypeInv, Progress, LogOK
<1>3. r \in Present /\ h \in 1..Len(log) /\ r \in todo /\ pc = "heads" /\ Present \in SUBSET Root
  <2>1. /\ todo \in SUBSET Root /\ todo # {} /\ r = First(todo) /\ todo \subseteq Present /\ pc = "heads"
        /\ Present \in SUBSET Root
    BY <1>2 DEF PollHead, At, Progress, Present
  <2> QED BY <1>2, <2>1, FirstIn, ReachableIs
<1>4. Unvisited(r) BY <1>3 DEF PollInv
<1>5. found \in [Root -> FoundType] BY <1>2 DEF Progress
<1>6. f = [Nothing EXCEPT !.to = cursor[r], !.owed = replay[r], !.cold = IF cold THEN h ELSE 0]
  BY <1>4 DEF Unvisited, Nothing
<1>7. "merge" \in env.may => budget >= Len(log)
  <2> SUFFICES ASSUME "merge" \in env.may PROVE budget >= Len(log) OBVIOUS
  <2>1. budget >= Cardinality(todo) * Len(log) BY <1>3 DEF PollInv
  <2>2. todo \in SUBSET Root /\ todo # {} BY <1>2, <1>3 DEF Progress
  <2>3. Cardinality(todo) \in Nat /\ Cardinality(todo) # 0
    BY <2>2, RootsFinite, FS_CardinalityType, FS_EmptySet
  <2>4. \A a, l \in Nat : a # 0 => a * l >= l OBVIOUS
  <2>5. \A a, l \in Nat : a * l \in Nat OBVIOUS
  <2> QED BY <1>2, <2>1, <2>3, <2>4, <2>5
<1>8. cursor[r] \in 0..Len(log) /\ replay[r] \in 0..Len(log) /\ (cold => replay[r] = 0)
  BY <1>2 DEF Files, SpotInv
<1>9. base # 0 => (cold /\ \E x \in Root : cursor[x] # 0) /\ base \in 1..Len(log)
  <2>1. RecentBase(h) \in 0..Len(log) BY <1>2, <1>3, RecentBaseIn
  <2> HIDE DEF h
  <2> QED BY <1>2, <2>1
<1>10. h # 0 /\ h \in 0..Len(log) BY <1>2, <1>3
<1>11. cold => old = base /\ target = h OBVIOUS
<1>12. ~cold => old = cursor[r] /\ target = replay[r] /\ cursor[r] \in 1..Len(log) BY <1>2, <1>8
<1>13. old # 0 /\ ~replays => ~cold /\ replay[r] = 0 BY <1>10, <1>11, <1>12
<1>14. old # 0 /\ replays => old \in 1..Len(log) /\ target \in 1..Len(log)
  BY <1>2, <1>3, <1>8, <1>9, <1>11, <1>12
<1>15. range \subseteq 1..Len(log)
  <2>1. \A c \in 1..Len(log) : log[c].chain \subseteq 1..Len(log) /\ log[c].reach \subseteq 1..Len(log)
    <3> SUFFICES ASSUME NEW c \in 1..Len(log)
                 PROVE  log[c].chain \subseteq 1..Len(log) /\ log[c].reach \subseteq 1..Len(log)
      OBVIOUS
    <3>1. 1..c \subseteq 1..Len(log) BY <1>2
    <3> QED BY <1>2, <3>1 DEF LogOK, CommitOK
  <2>2. CASE replays
    <3>1. target \in 1..Len(log) BY <1>2, <1>3, <1>8, <1>11, <1>12, <2>2
    <3>2. log[target].chain \subseteq 1..Len(log) BY <2>1, <3>1
    <3> QED BY <2>2, <3>2, SelectedIn DEF Chain
  <2>3. CASE ~replays
    <3>1. log[h].reach \subseteq 1..Len(log) BY <1>3, <2>1
    <3>2. NewCommits(old, h, TRUE) \subseteq log[h].reach BY SelectedIn DEF NewCommits, Between
    <3> QED BY <2>3, <3>1, <3>2
  <2> QED BY <2>2, <2>3
<1>16. take \in SUBSET (1..Len(log)) /\ Cardinality(take) \in Nat /\ Cardinality(take) <= Len(log)
  <2>1. take \in SUBSET (1..Len(log)) BY <1>15, SelectedIn
  <2>2. IsFiniteSet(1..Len(log)) /\ Cardinality(1..Len(log)) = Len(log)
    <3> DEFINE e == Len(log)
    <3>1. 1 \in Int /\ e \in Int /\ e >= 0 BY <1>2
    <3> HIDE DEF e
    <3>2. IsFiniteSet(1..e) /\ Cardinality(1..e) = IF 1 > e THEN 0 ELSE e - 1 + 1 BY <3>1, FS_Interval
    <3>3. Cardinality(1..e) = e BY <3>1, <3>2
    <3> QED BY <3>2, <3>3 DEF e
  <2> HIDE DEF take
  <2>3. IsFiniteSet(take) /\ Cardinality(take) <= Cardinality(1..Len(log)) BY <2>1, <2>2, FS_Subset
  <2>4. Cardinality(take) \in Nat BY <2>3, FS_CardinalityType
  <2> QED BY <2>1, <2>2, <2>3, <2>4
<1>17. ASSUME NEW g, Skipped(g), VisitOK(r, g) PROVE \E x : Gets(r, x)
  <2>1. budget' = budget - 0 /\ 0 \in Nat /\ 0 <= Len(log) BY <1>2, <1>17
  <2> QED BY <1>17, <2>1 DEF Gets
<1>18. ASSUME NEW g, Took(g), VisitOK(r, [g EXCEPT !.commits = take]) PROVE \E x : Gets(r, x)
  <2> DEFINE gt == [g EXCEPT !.commits = take]
  <2>1. found' = [found EXCEPT ![r] = gt] /\ VisitOK(r, gt) BY <1>18
  <2>2. budget' = budget - Cardinality(take) BY <1>18
  <2> HIDE DEF gt, take
  <2> QED BY <1>16, <2>1, <2>2 DEF Gets
<1> DEFINE cursors == \E x \in Root : cursor[x] # 0
<1>19. CASE /\ (cold /\ base = 0) \/ (old # 0 /\ ~replays /\ range = {})
            /\ \/ Skipped([f EXCEPT !.to = h, !.drained = TRUE])
               \/ Skipped([f EXCEPT !.to = h, !.drained = TRUE, !.unseen = {}])
  <2> DEFINE g == [f EXCEPT !.to = h, !.drained = TRUE]
  <2>0. g = [f EXCEPT !.to = h, !.drained = TRUE, !.unseen = {}] BY <1>6 DEF Nothing
  <2>1. /\ g.to = h /\ g.owed = replay[r] /\ g.commits = {} /\ g.fold = {}
        /\ g.cold = IF cold THEN h ELSE 0
    BY <1>6 DEF Nothing
  <2>4. VisitOK(r, g)
    <3>1. CASE cold /\ base = 0
      <4> HIDE DEF g, h
      <4> QED BY <1>8, <1>10, <2>1, <3>1 DEF VisitOK, h
    <3>2. CASE old # 0 /\ ~replays /\ range = {}
      <4>1. ~cold /\ replay[r] = 0 BY <1>13, <3>2
      <4>2. cursor[r] # h => Between(cursor[r], h) = {}
        <5> SUFFICES ASSUME cursor[r] # h PROVE Between(cursor[r], h) = {} OBVIOUS
        <5>1. Oldest(Between(cursor[r], h), env.cap) = {} BY <1>12, <3>2, <4>1 DEF NewCommits
        <5>2. Between(cursor[r], h) \in SUBSET (1..Len(log))
          <6>1. log[h].reach \subseteq 1..h /\ 1..h \subseteq 1..Len(log) BY <1>2, <1>3 DEF LogOK, CommitOK
          <6> QED BY <6>1 DEF Between
        <5>3. env.cap \in Nat \ {0} BY <1>2, Bounds
        <5> QED BY <1>2, <5>1, <5>2, <5>3, OldestSome
      <4>3. h \in log[cursor[r]].reach BY <1>2, <1>3, <4>2 DEF Between, LogOK, CommitOK
      <4> HIDE DEF g, range, take
      <4> QED BY <1>10, <2>1, <4>1, <4>3 DEF VisitOK
    <3> QED BY <1>19, <3>1, <3>2
  <2> HIDE DEF g
  <2>5. Skipped(g) BY <1>19, <2>0 DEF g
  <2> HIDE DEF Skipped
  <2> QED BY <1>17, <2>4, <2>5
<1>20. CASE old # 0 /\ replays /\ take = {} /\ Skipped([f EXCEPT !.to = old, !.owed = target])
  <2> DEFINE g == [f EXCEPT !.to = old, !.owed = target]
  <2>1. /\ g.to = old /\ g.owed = target /\ g.commits = {} /\ g.fold = {} /\ g.drained = FALSE
        /\ g.cold = IF cold THEN h ELSE 0
    BY <1>6 DEF Nothing
  <2>2. Skipped(g) /\ old # 0 BY <1>20
  <2> HIDE DEF g, range, take
  <2>3. VisitOK(r, g)
    <3>1. CASE cold BY <1>9, <1>11, <2>1, <2>2, <3>1 DEF VisitOK
    <3>2. CASE ~cold BY <1>12, <2>1, <2>2, <3>2 DEF VisitOK
    <3> QED BY <3>1, <3>2
  <2> HIDE DEF Skipped
  <2> QED BY <1>17, <2>2, <2>3
<1>21. CASE old # 0 /\ ~replays /\ Skipped(f)
  <2>1. ~cold BY <1>13, <1>21
  <2>2. f.to = cursor[r] /\ f.owed = replay[r] /\ f.commits = {} /\ f.fold = {} /\ f.drained = FALSE /\ f.cold = 0
    BY <1>6, <2>1 DEF Nothing
  <2>3. Skipped(f) BY <1>21
  <2> HIDE DEF f, range, take
  <2>4. VisitOK(r, f) BY <2>1, <2>2 DEF VisitOK
  <2> HIDE DEF Skipped
  <2> QED BY <1>17, <2>3, <2>4
<1>22. CASE /\ old # 0 /\ replays /\ (range = {} \/ take # {})
            /\ Took([f EXCEPT !.to = IF last THEN target ELSE Max(take),
                              !.owed = IF last THEN 0 ELSE target,
                              !.drained = last /\ target = h])
  <2> DEFINE a == IF last THEN target ELSE Max(take)
             b == IF last THEN 0 ELSE target
             d == last /\ target = h
             g == [f EXCEPT !.to = a, !.owed = b, !.drained = d]
             gt == [g EXCEPT !.commits = take]
  <2>1. gt.to = a /\ gt.owed = b /\ gt.drained = d /\ gt.fold = {} /\ gt.cold = IF cold THEN h ELSE 0
    BY <1>6 DEF Nothing
  <2>2. a # 0 /\ (b = target \/ (b = 0 /\ a = target)) /\ (d => a = h /\ b = 0)
    <3>1. ~last => take # {} BY <1>22
    <3>2. take # {} => Max(take) \in take BY <1>2, <1>16, LatestIn
    <3>3. ~last => Max(take) \in 1..Len(log) BY <1>16, <3>1, <3>2
    <3>4. target \in 1..Len(log) BY <1>14, <1>22
    <3> HIDE DEF last, take, target
    <3> QED BY <1>2, <3>3, <3>4
  <2>3. Took(g) /\ old # 0 /\ replays BY <1>22
  <2> HIDE DEF a, b, d
  <2>4. VisitOK(r, gt)
    <3> HIDE DEF gt, range, take
    <3>1. CASE cold BY <1>9, <1>11, <2>1, <2>2, <2>3, <3>1 DEF VisitOK
    <3>2. CASE ~cold BY <1>12, <2>1, <2>2, <2>3, <3>2 DEF VisitOK
    <3> QED BY <3>1, <3>2
  <2> HIDE DEF g, Took
  <2> QED BY <1>18, <2>3, <2>4
<1>23. CASE /\ old # 0 /\ ~replays /\ take # {}
            /\ Took([f EXCEPT !.to = Max(take), !.fold = Foldable(old, h, TRUE), !.drained = Max(take) = h,
                              !.unseen = {}])
  <2> DEFINE m == Max(take)
             d == m = h
             F == Foldable(old, h, TRUE)
             g == [f EXCEPT !.to = m, !.fold = F, !.drained = d, !.unseen = {}]
             gt == [g EXCEPT !.commits = take]
             K == cursor[r]
  <2>1. ~cold /\ replay[r] = 0 /\ old = K /\ K \in 1..Len(log) BY <1>12, <1>13, <1>23
  <2>2. /\ gt.to = m /\ gt.owed = 0 /\ gt.drained = d /\ gt.fold = F /\ gt.cold = 0
        /\ gt.commits = take
    BY <1>6, <2>1 DEF Nothing
  <2>3. F = Chain(K, h) BY <2>1 DEF Foldable
  <2>4. take = Oldest(Oldest(Between(K, h), env.cap), budget)
    <3>1. old # h
      <4> SUFFICES ASSUME old = h PROVE take = {} BY <1>23
      <4> QED BY <1>23, SelectedIn
    <3> QED BY <1>23, <2>1, <3>1 DEF NewCommits
  <2>5. Took(g) /\ take # {} BY <1>23
  <2> HIDE DEF take, K
  <2>6. /\ m \in Chain(K, h) /\ take \cap Chain(K, h) = Chain(K, m) /\ take \subseteq log[m].reach
    BY <1>2, <1>3, <1>7, <2>1, <2>4, <2>5, TakenIs
  <2>7. m # 0 /\ (d => m = h) BY <1>2, <1>16, <2>5, LatestIn
  <2> HIDE DEF m, d, F
  <2>8. VisitOK(r, gt)
    <3> HIDE DEF gt, range
    <3> QED BY <2>1, <2>2, <2>3, <2>6, <2>7 DEF VisitOK, K
  <2> HIDE DEF g, Took
  <2> QED BY <1>18, <2>5, <2>8 DEF take
<1> QED BY <1>1, <1>19, <1>20, <1>21, <1>22, <1>23

LEMMA PollHeadSpans ==
  ASSUME TypeInv, HeadInv, SpotInv, PollInv, LoneInv, ChainInv, Straight, NEW r \in Root, PollHead(r)
  PROVE  SpansInv'
<1>1. UNCHANGED <<env, gitVars, fileVars, seen, emitted>> /\ pc = "heads" /\ pc' = "heads" /\ todo' = todo \ {r}
  BY DEF PollHead, At, Go, Rest
<1>2. UNCHANGED <<env, log, gone, tip, on, head, cursor, replay, recorded, rework, seen, emitted>>
  BY <1>1 DEF gitVars, fileVars
<1>3. Present' = Present /\ HeadInv' BY <1>1, <1>2, LinesRest DEF Present
<1>4. SpotInv' BY <1>2, <1>3 DEF SpotInv
<1>5. r \in todo /\ todo \in SUBSET Root /\ todo \subseteq Present
  <2>1. /\ todo \in SUBSET Root /\ todo # {} /\ r = First(todo) /\ todo \subseteq Present
    BY DEF PollHead, At, TypeInv, Progress, Present
  <2> QED BY <2>1, FirstIn
<1>6. PICK g : Gets(r, g) BY PollHeadGets
<1>7. \A x \in Root : Rests(x)'
  <2>1. \A x \in Root : Rests(x) BY <1>1 DEF PollInv
  <2> QED BY <1>2, <2>1 DEF Rests, Stands, Way, Tracks, Placed
<1>8. \A x \in Root : IF x \in Present' \ todo' THEN Visited(x)' ELSE Unvisited(x)'
  <2>1. found \in [Root -> FoundType] BY DEF TypeInv, Progress
  <2>2. ASSUME NEW x \in Root, x # r
        PROVE  IF x \in Present' \ todo' THEN Visited(x)' ELSE Unvisited(x)'
    <3>1. found'[x] = found[x] BY <1>6, <2>1, <2>2 DEF Gets
    <3>2. IF x \in Present \ todo THEN Visited(x) ELSE Unvisited(x) BY <1>1 DEF PollInv
    <3>3. Visited(x)' <=> Visited(x) BY <1>2, <3>1 DEF Visited, VisitOK, Chain
    <3>4. Unvisited(x)' <=> Unvisited(x) BY <1>2, <3>1 DEF Unvisited
    <3> QED BY <1>1, <1>3, <2>2, <3>2, <3>3, <3>4
  <2>3. Visited(r)'
    <3>1. found'[r] = g /\ VisitOK(r, g) BY <1>6, <2>1 DEF Gets
    <3> QED BY <1>2, <3>1 DEF Visited, VisitOK, Chain
  <2>4. r \in Present' \ todo' BY <1>1, <1>3, <1>5
  <2> QED BY <2>2, <2>3, <2>4
<1>9. "merge" \in env.may => budget' >= Cardinality(todo') * Len(log)
  <2> SUFFICES ASSUME "merge" \in env.may PROVE budget' >= Cardinality(todo') * Len(log) OBVIOUS
  <2>1. budget >= Cardinality(todo) * Len(log) BY <1>1 DEF PollInv
  <2>2. IsFiniteSet(todo) BY <1>5, RootsFinite
  <2>3. Cardinality(todo') = Cardinality(todo) - 1 /\ IsFiniteSet(todo \ {r})
    BY <1>1, <1>5, <2>2, FS_RemoveElement
  <2>4. Cardinality(todo) \in Nat /\ Cardinality(todo') \in Nat BY <1>1, <2>2, <2>3, FS_CardinalityType
  <2>5. PICK n \in Nat : n <= Len(log) /\ budget' = budget - n BY <1>6 DEF Gets
  <2>6. Len(log) \in Nat /\ budget \in Int BY DEF TypeInv, LogOK, Progress
  <2>7. \A a, b, l \in Nat : a = b - 1 => a * l = b * l - l OBVIOUS
  <2>8. \A a, l \in Nat : a * l \in Nat OBVIOUS
  <2>9. Cardinality(todo') * Len(log) = Cardinality(todo) * Len(log) - Len(log) BY <2>3, <2>4, <2>6, <2>7
  <2>10. Cardinality(todo') * Len(log) \in Nat /\ Cardinality(todo) * Len(log) \in Nat BY <2>4, <2>6, <2>8
  <2> DEFINE x == Cardinality(todo') * Len(log)
             y == Cardinality(todo) * Len(log)
  <2>11. x = y - Len(log) /\ x \in Nat /\ y \in Nat /\ budget >= y BY <2>1, <2>9, <2>10
  <2> HIDE DEF x, y
  <2>12. budget' >= x BY <2>5, <2>6, <2>11
  <2> QED BY <2>12 DEF x
<1>10. PollInv' BY <1>1, <1>2, <1>7, <1>8, <1>9 DEF PollInv
<1>11. LoneInv'
  <2> SUFFICES ASSUME NEW x \in Root, Lone(x)'
               PROVE  ~rework[x].missed /\ replay[x] = 0 /\ Unmet(rework[x], cursor[x], {})'
    BY <1>1, <1>2 DEF LoneInv
  <2>1. Lone(x) BY <1>2, <1>3 DEF Lone
  <2>2. ~rework[x].missed /\ replay[x] = 0 /\ Unmet(rework[x], cursor[x], {}) BY <1>1, <2>1 DEF LoneInv
  <2> QED BY <1>2, <2>2 DEF Unmet, Known
<1> QED BY <1>3, <1>4, <1>10, <1>11 DEF SpansInv

-----------------------------------------------------------------------------
(* The cursors move on.                                                     *)

\* A range along a line is what is above one of its commits.
LEMMA RangeAbove ==
  ASSUME LogOK, ChainInv, NEW K \in 1..Len(log), NEW t \in 1..Len(log), Chain(K, t) # {}
  PROVE  \E k \in 1..Len(log) : k \in log[t].chain /\ Chain(K, t) = {z \in log[t].chain : k < z}
<1> DEFINE S == Chain(K, t)
           c == Min(S)
           k == log[c].first
<1>1. S \subseteq log[t].chain /\ S \subseteq 1..Len(log) /\ 1 \notin S /\ S # {}
      /\ \A x \in S : \A z \in log[t].chain : x <= z => z \in S
  BY RangeIs
<1>2. c \in S /\ \A x \in S : c <= x
  <2> HIDE DEF S
  <2> QED BY <1>1, LatestIn
<1>3. c \in log[t].chain /\ c # 1 BY <1>1, <1>2
<1> HIDE DEF c
<1>4. /\ k \in log[c].chain /\ k < c /\ k # 0 /\ \A z \in log[t].chain : z < c => z <= k
      /\ log[c].chain \subseteq log[t].chain /\ \A z \in log[t].chain : z \in 1..Len(log)
  BY <1>3, Ancestors
<1>5. k \in log[t].chain /\ k \in 1..Len(log) /\ c \in 1..Len(log) BY <1>3, <1>4
<1>6. Len(log) \in Nat BY DEF LogOK
<1> HIDE DEF k
<1>7. ASSUME NEW z \in log[t].chain PROVE k < z <=> z \in S
  <2>1. z \in 1..Len(log) BY <1>4
  <2>2. z \in S => k < z BY <1>2, <1>4, <1>5, <1>6, <2>1
  <2>3. k < z => c <= z BY <1>4, <1>5, <1>6, <2>1
  <2> QED BY <1>1, <1>2, <2>2, <2>3
<1>8. S = {z \in log[t].chain : k < z} BY <1>1, <1>7
<1> QED BY <1>5, <1>8

LEMMA VisitWaits ==
  ASSUME LogOK, ChainInv, HeadInv, SpotInv, Repository, Files, NEW r \in Present, Visited(r), Rests(r), found[r].to \in 1..Len(log)
  PROVE  Waiting(r, found[r].to, found[r].owed)
<1> DEFINE f == found[r]
           h == head[r]
           K == cursor[r]
           R == replay[r]
           L == rework[r]
<1>0. Len(log) \in Nat /\ r \in Root BY DEF LogOK, Present
<1>1. VisitOK(r, f) BY DEF Visited
<1>2. /\ h \in 1..Len(log) /\ on[r] \in Branch /\ h = tip[on[r]] /\ h # 0 /\ on[r] # NoBranch
  BY <1>0, ReachableIs DEF HeadInv, Branch, Default, NoBranch
<1>3. f.to # 0 /\ (f.drained => f.to = h /\ f.owed = 0) BY <1>1 DEF VisitOK
<1>4. K # 0 => K \in 1..Len(log)
  <2>1. K \in 0..Len(log) BY <1>0 DEF Files
  <2> QED BY <1>0, <2>1
<1>5. f.cold # 0 => f.cold = h /\ f.fold = {} /\ (IF f.owed # 0 THEN f.owed ELSE f.to) = h
  BY <1>1, <1>2 DEF VisitOK
<1> DEFINE Ranged == /\ K # 0 /\ R = 0 /\ f.cold = 0 /\ f.owed = 0
                     /\ f.fold = Chain(K, h) /\ f.to \in f.fold
                     /\ f.commits \cap f.fold = Chain(K, f.to) /\ f.commits \subseteq log[f.to].reach
<1>6. Now(r) # {} => Ranged BY <1>1 DEF VisitOK, Now
<1>7. ASSUME Ranged
      PROVE  /\ f.to \in log[h].chain /\ log[f.to].chain \subseteq log[h].chain /\ Now(r) = Chain(K, f.to)
             /\ K \in log[h].chain => /\ K \in log[f.to].chain
                                      /\ Now(r) = {z \in log[f.to].chain : K < z}
  <2>1. f.to \in log[h].chain /\ f.to \notin log[K].reach /\ Now(r) = Chain(K, f.to) BY <1>7 DEF Chain, Now
  <2>2. log[f.to].chain \subseteq log[h].chain /\ \A z \in log[h].chain : z <= f.to <=> z \in log[f.to].chain
    BY <1>2, <2>1, Ancestors
  <2>3. ASSUME K \in log[h].chain PROVE K \in log[f.to].chain
    <3>1. \A z \in log[h].chain : z <= K <=> z \in log[K].chain BY <1>2, <2>3, Ancestors
    <3>2. log[K].chain \subseteq log[K].reach BY <1>4, <1>7 DEF LogOK, CommitOK
    <3>3. K <= f.to BY <1>0, <1>4, <1>7, <2>1, <3>1, <3>2
    <3> QED BY <2>2, <2>3, <3>3
  <2>4. K \in log[h].chain => Chain(K, f.to) = {z \in log[f.to].chain : K < z}
    BY <1>4, <1>7, <2>3, RangeIs
  <2> QED BY <2>1, <2>2, <2>3, <2>4
<1>8. Now(r) # {} => \E k \in 1..Len(log) : Way(k, f.to, f.owed, Now(r), h)
  <2> SUFFICES ASSUME Now(r) # {} PROVE \E k \in 1..Len(log) : Way(k, f.to, f.owed, Now(r), h) OBVIOUS
  <2>1. Ranged BY <1>6
  <2>2. Chain(K, f.to) # {} /\ K \in 1..Len(log) BY <1>4, <1>7, <2>1
  <2>3. PICK k \in 1..Len(log) : k \in log[f.to].chain /\ Chain(K, f.to) = {z \in log[f.to].chain : k < z}
    BY <2>2, RangeAbove
  <2>4. Way(k, f.to, f.owed, Now(r), h) BY <1>7, <2>1, <2>3 DEF Way
  <2> QED BY <2>4
<1>9. ASSUME on[r] = L.branch PROVE Stands(L, f.to, f.owed, Now(r))
  <2>1. /\ L.branch \in Branch /\ tip[L.branch] # 0 /\ (~L.adopting => R = 0)
        /\ Tracks(L) \/ ~L.adopting =>
             \E k \in 1..Len(log) : Way(k, K, R, {}, h) /\ (L.missed \/ Placed(L, k))
    BY <1>2, <1>9 DEF Rests, Stands
  <2>2. K # 0 /\ K \in 1..Len(log) BY <1>0, <1>2, <1>4, <1>9 DEF SpotInv
  <2>3. ~L.adopting => f.owed = 0 BY <1>1, <2>1, <2>2 DEF VisitOK
  <2>4. ASSUME Tracks(L) \/ ~L.adopting
        PROVE  \E k \in 1..Len(log) : Way(k, f.to, f.owed, Now(r), h) /\ (L.missed \/ Placed(L, k))
    <3>1. PICK k \in 1..Len(log) : Way(k, K, R, {}, h) /\ (L.missed \/ Placed(L, k)) BY <2>1, <2>4
    <3>2. R = 0 => k = K /\ K \in log[h].chain
      <4> SUFFICES ASSUME R = 0 PROVE k = K /\ K \in log[h].chain OBVIOUS
      <4>1. K \in log[h].chain /\ k \in log[K].chain /\ {} = {z \in log[K].chain : k < z} BY <3>1 DEF Way
      <4>2. K \in log[K].chain /\ \A z \in log[K].chain : z <= K BY <2>2 DEF ChainInv, ChainOK, LogOK, CommitOK
      <4>3. ~(k < K) /\ k <= K BY <4>1, <4>2
      <4> QED BY <1>0, <2>2, <4>1, <4>3
    <3>3. CASE f.to = K /\ f.owed = R /\ Now(r) = {} BY <3>1, <3>3
    <3>4. CASE R = 0 /\ h \in log[K].reach /\ f.to = h /\ f.owed = 0 /\ Now(r) = {}
      <4>1. h <= K BY <2>2, <3>4 DEF LogOK, CommitOK
      <4>2. K <= h BY <1>2, <3>2, <3>4 DEF LogOK, CommitOK
      <4>3. K = h BY <1>0, <1>2, <2>2, <4>1, <4>2
      <4> QED BY <3>1, <3>4, <4>3
    <3>5. CASE Ranged
      <4>1. Way(k, f.to, f.owed, Now(r), h) BY <1>7, <3>2, <3>5 DEF Way
      <4> QED BY <3>1, <4>1
    <3>6. CASE R # 0 /\ Now(r) = {} /\ (f.owed = R \/ (f.owed = 0 /\ f.to = R))
      <4>1. k = R /\ R \in log[h].chain BY <3>1, <3>6 DEF Way
      <4>2. Way(k, f.to, f.owed, Now(r), h)
        <5>1. CASE f.owed = R BY <3>6, <4>1, <5>1 DEF Way
        <5>2. CASE f.owed = 0 /\ f.to = R
          <6>1. R \in log[R].chain /\ log[R].chain \subseteq 1..R BY <4>1 DEF ChainInv, ChainOK, LogOK, CommitOK
          <6>2. {z \in log[R].chain : R < z} = {}
            <7> SUFFICES ASSUME NEW z \in 1..R, R < z PROVE FALSE BY <6>1
            <7>1. R \in 1..Len(log) BY <4>1
            <7> QED BY <1>0, <7>1
          <6> QED BY <3>6, <4>1, <5>2, <6>1, <6>2 DEF Way
        <5> QED BY <3>6, <5>1, <5>2
      <4> QED BY <3>1, <4>2
    <3> QED BY <1>1, <2>2, <3>3, <3>4, <3>5, <3>6 DEF VisitOK, Now
  <2>5. ASSUME ~Tracks(L), Now(r) # {}
        PROVE  \E k \in 1..Len(log) : Way(k, f.to, f.owed, Now(r), h) /\ (L.missed \/ Placed(L, k))
    BY <1>8, <2>5 DEF Tracks, Placed
  <2> QED BY <1>2, <1>9, <2>1, <2>3, <2>4, <2>5 DEF Stands
<1> QED BY <1>3, <1>5, <1>8, <1>9 DEF Waiting

LEMMA SaveCursorsSpans ==
  ASSUME TypeInv, HeadInv, SpotInv, PollInv, LoneInv, ChainInv, Straight, NEW saved \in BOOLEAN,
         SaveCursors(saved)
  PROVE  SpansInv'
<1>1. saved BY DEF SaveCursors, Outcome, Straight, Undisturbed, May
<1>2. /\ UNCHANGED <<env, gitVars, recorded, rework, found, batch, mode, emitted>>
      /\ cursor' = [r \in Root |-> found[r].to] /\ replay' = [r \in Root |-> found[r].owed]
      /\ seen' \subseteq recorded /\ pc = "heads" /\ todo = {} /\ pc' = "bind" /\ todo' = Present
  BY <1>1 DEF SaveCursors, Go
<1>3. UNCHANGED <<env, log, gone, tip, on, head, recorded, rework, found, batch, mode, emitted>>
  BY <1>2 DEF gitVars
<1>4. Present' = Present /\ HeadInv' BY <1>2, <1>3, LinesRest DEF Present
<1>5. LogOK /\ Repository /\ Files /\ Progress /\ Len(log) \in Nat /\ Present \subseteq Root
  BY DEF TypeInv, LogOK, Present
<1>6. \A r \in Root : IF r \in Present THEN Visited(r) ELSE Unvisited(r) BY <1>2 DEF PollInv
<1>7. \A r \in Root : Rests(r) BY <1>2 DEF PollInv
<1>8. \A r \in Present : found[r].to # 0 /\ found[r].to \in 1..Len(log) /\ VisitOK(r, found[r])
  <2> SUFFICES ASSUME NEW r \in Present
               PROVE  found[r].to # 0 /\ found[r].to \in 1..Len(log) /\ VisitOK(r, found[r])
    OBVIOUS
  <2>1. VisitOK(r, found[r]) BY <1>5, <1>6 DEF Visited
  <2>2. found[r] \in FoundType BY <1>5 DEF Progress
  <2>3. found[r].to \in 0..Len(log) BY <2>2 DEF FoundType
  <2>4. found[r].to # 0 BY <2>1 DEF VisitOK
  <2> QED BY <1>5, <2>1, <2>3, <2>4
<1>9. \A r \in Root : r \notin Present => /\ cursor[r] = 0 /\ replay[r] = 0 /\ rework[r].branch = NoBranch
                                         /\ cursor'[r] = 0 /\ replay'[r] = 0
  <2> SUFFICES ASSUME NEW r \in Root, r \notin Present
               PROVE  /\ cursor[r] = 0 /\ replay[r] = 0 /\ rework[r].branch = NoBranch
                      /\ cursor'[r] = 0 /\ replay'[r] = 0
    OBVIOUS
  <2>1. cursor[r] = 0 /\ replay[r] = 0 /\ rework[r].branch = NoBranch BY DEF SpotInv
  <2>2. found[r].to = 0 /\ found[r].owed = 0 BY <1>6, <2>1 DEF Unvisited, Nothing
  <2> QED BY <1>2, <2>1, <2>2
<1>10. SpotInv'
  <2> SUFFICES ASSUME NEW r \in Root
               PROVE  /\ rework[r].slid => rework[r].missed
                      /\ cursor'[r] = 0 => replay'[r] = 0 /\ rework[r].branch = NoBranch
                      /\ r \notin Present => cursor'[r] = 0
    BY <1>3, <1>4 DEF SpotInv
  <2>1. r \in Present => cursor'[r] # 0 BY <1>2, <1>8
  <2> QED BY <1>9, <2>1 DEF SpotInv
<1>11. \A r \in Present : Waits(r)'
  <2> SUFFICES ASSUME NEW r \in Present PROVE Waits(r)' OBVIOUS
  <2>1. Waiting(r, found[r].to, found[r].owed) BY <1>5, <1>6, <1>7, <1>8, VisitWaits
  <2>2. cursor'[r] = found[r].to /\ replay'[r] = found[r].owed BY <1>2, <1>5
  <2> QED BY <1>3, <2>1, <2>2 DEF Waits, Waiting, Stands, Way, Tracks, Placed, Now
<1>12. \A r \in Root : r \notin Present => Rests(r)' BY <1>3, <1>9 DEF Rests, Stands
<1>13. PollInv' BY <1>2, <1>4, <1>11, <1>12 DEF PollInv
<1>14. ASSUME NEW r \in Root, Lone(r)
       PROVE  /\ replay'[r] = 0 /\ ~rework[r].missed /\ found[r].commits \subseteq log[found[r].to].reach
              /\ on[r] = rework[r].branch => Unmet(rework[r], found[r].to, Now(r))'
  <2> DEFINE f == found[r]
             L == rework[r]
             K == cursor[r]
             h == head[r]
  <2>1. r \in Present /\ replay[r] = 0 /\ ~L.missed /\ Unmet(L, K, {})
    BY <1>2, <1>14 DEF Lone, LoneInv
  <2>2. \A x \in Root : cursor[x] # 0 => x = r BY <1>9, <1>14 DEF Lone
  <2>3. VisitOK(r, f) /\ f.to \in 1..Len(log) BY <1>8, <2>1
  <2>4. f.owed = 0 BY <2>1, <2>2, <2>3 DEF VisitOK
  <2>5. f.commits \subseteq log[f.to].reach BY <2>1, <2>2, <2>3 DEF VisitOK
  <2>6. ASSUME on[r] = L.branch, ~L.adopting
        PROVE  ((log[tip[L.branch]].chain \ log[f.to].reach) \cup Now(r)) \cap Known' = {}
    <3>1. h = tip[L.branch] /\ L.branch \in Branch /\ L.branch # NoBranch /\ h \in 1..Len(log)
      BY <1>5, <2>1, <2>6, ReachableIs DEF HeadInv, Branch, Default, NoBranch
    <3>2. (log[h].chain \ log[K].reach) \cap Known = {} BY <2>1, <2>6, <3>1 DEF Unmet
    <3>3. Known' \subseteq Known BY <1>2 DEF Known
    <3>4. K # 0 /\ K \in 1..Len(log)
      <4>1. K # 0 BY <2>6, <3>1 DEF SpotInv
      <4>2. K \in 0..Len(log) BY <1>5 DEF Files
      <4> QED BY <1>5, <4>1, <4>2
    <3>5. K \in log[h].chain
      <4>1. \E k \in 1..Len(log) : Way(k, K, replay[r], {}, h) BY <1>7, <2>6, <3>1 DEF Rests, Stands
      <4> QED BY <2>1, <4>1 DEF Way
    <3>6. CASE f.to = K /\ Now(r) = {} BY <3>1, <3>2, <3>3, <3>6
    <3>7. CASE f.to = h /\ Now(r) = {}
      <4>1. log[h].chain \subseteq log[h].reach BY <1>5, <3>1 DEF LogOK, CommitOK
      <4> QED BY <3>1, <3>7, <4>1
    <3>8. CASE f.fold = Chain(K, h) /\ f.to \in f.fold /\ f.commits \cap f.fold = Chain(K, f.to)
      <4>1. f.to \in log[h].chain /\ f.to \notin log[K].reach BY <3>8 DEF Chain
      <4>2. log[f.to].chain \subseteq log[h].chain /\ \A z \in log[h].chain : z <= f.to <=> z \in log[f.to].chain
        BY <1>5, <3>1, <4>1, Ancestors
      <4>3. \A z \in log[h].chain : z <= K <=> z \in log[K].chain BY <1>5, <3>1, <3>5, Ancestors
      <4>4. log[K].chain \subseteq log[K].reach BY <1>5, <3>4 DEF LogOK, CommitOK
      <4>5. K <= f.to BY <1>5, <2>3, <3>4, <4>1, <4>3, <4>4
      <4>6. K \in log[f.to].chain BY <3>5, <4>2, <4>5
      <4>7. log[K].reach \subseteq log[f.to].reach BY <1>5, <2>3, <4>6, Ancestors
      <4>8. Now(r) \subseteq log[h].chain \ log[K].reach BY <3>8, <4>2 DEF Now, Chain
      <4> QED BY <3>1, <3>2, <3>3, <4>7, <4>8
    <3> QED BY <2>1, <2>3, <3>4, <3>6, <3>7, <3>8 DEF VisitOK, Now
  <2>7. on[r] = L.branch => Unmet(L, f.to, Now(r))' BY <1>3, <2>6 DEF Unmet, Now
  <2>8. replay'[r] = 0 BY <1>2, <2>4
  <2> QED BY <2>1, <2>5, <2>7, <2>8
<1>15. LoneInv'
  <2> SUFFICES ASSUME NEW r \in Root, Lone(r)'
               PROVE  /\ replay'[r] = 0 /\ ~rework[r].missed
                      /\ r \in Present /\ (on[r] = rework[r].branch => Unmet(rework[r], cursor[r], Now(r))')
                      /\ found[r].commits \subseteq log[cursor'[r]].reach
    BY <1>2, <1>3 DEF LoneInv
  <2>1. Lone(r) BY <1>3, <1>4 DEF Lone
  <2>2. r \in Present /\ cursor'[r] = found[r].to BY <1>2, <2>1 DEF Lone
  <2>3. on[r] = rework[r].branch => Unmet(rework[r], cursor[r], Now(r))' BY <1>3, <1>14, <2>1, <2>2 DEF Unmet, Now
  <2> QED BY <1>14, <2>1, <2>2, <2>3
<1> QED BY <1>4, <1>10, <1>13, <1>15 DEF SpansInv

-----------------------------------------------------------------------------
(* A checkout is bound to its branch.                                       *)

LEMMA EndOfLine ==
  ASSUME LogOK, ChainInv, NEW h \in 1..Len(log), NEW K, NEW R, (IF R # 0 THEN R ELSE K) = h
  PROVE  Way(h, K, R, {}, h)
<1>1. h \in log[h].chain /\ log[h].chain \subseteq 1..h BY DEF ChainInv, ChainOK, LogOK, CommitOK
<1>2. {z \in log[h].chain : h < z} = {}
  <2> SUFFICES ASSUME NEW z \in 1..h, h < z PROVE FALSE BY <1>1
  <2>1. Len(log) \in Nat BY DEF LogOK
  <2> QED BY <2>1
<1> QED BY <1>1, <1>2 DEF Way

BoundTo(r, M) ==
  /\ rework' = [rework EXCEPT ![r] = M] /\ (M.slid => M.missed) /\ (M.missed => rework[r].missed)
  /\ M.branch = IF mode' = "skip" THEN NoBranch ELSE on[r]
  /\ mode' # "skip" /\ found[r].commits # {} => (mode' = "adopt" <=> M.adopting)
  /\ Stands(M, cursor[r], replay[r], Now(r))
  /\ M.branch # NoBranch /\ ~M.adopting =>
       \/ head[r] = cursor[r] /\ Now(r) = {}
       \/ on[r] = rework[r].branch /\ ~rework[r].adopting

LEMMA BindRootBinds ==
  ASSUME TypeInv, HeadInv, SpotInv, ChainInv, NEW r \in Root, r \in Present, Waits(r), BindRoot(r)
  PROVE  \E M : BoundTo(r, M)
<1> DEFINE f     == found[r]
           b     == on[r]
           h     == head[r]
           K     == cursor[r]
           R     == replay[r]
           adopt == b # rework[r].branch
           L     == IF adopt THEN Adopted(b) ELSE rework[r]
           Folded(bound) == IF f.commits = {} THEN Finished(bound, f.drained) ELSE bound
<1>1. LogOK /\ Marks /\ Repository /\ Files /\ Len(log) \in Nat BY DEF TypeInv, LogOK
<1>2. /\ b \in Branch /\ b # NoBranch /\ tip[b] # 0 /\ h = tip[b] /\ h \in 1..Len(log)
      /\ b \in Branch \cup {NoBranch, Absent}
  BY <1>1, ReachableIs DEF HeadInv, Branch, Default, NoBranch
<1>3. CASE rework' = [rework EXCEPT ![r] = Ledger] /\ mode' = "skip"
  <2>1. Ledger.branch = NoBranch /\ Ledger.slid = FALSE /\ Ledger.missed = FALSE BY DEF Ledger
  <2>2. BoundTo(r, Ledger)
    <3> DEFINE N == Ledger
    <3>1. N.branch = NoBranch /\ N.slid = FALSE /\ N.missed = FALSE /\ rework' = [rework EXCEPT ![r] = N]
      BY <1>3, <2>1
    <3> HIDE DEF N
    <3>2. BoundTo(r, N) BY <1>3, <3>1 DEF BoundTo, Stands
    <3> QED BY <3>2 DEF N
  <2> QED BY <2>2
<1>4. ASSUME NEW probed, NEW bound \in Bound(r, probed), rework' = [rework EXCEPT ![r] = Folded(bound)],
             mode' = IF bound.adopting THEN "adopt" ELSE "fold"
      PROVE  \E M : BoundTo(r, M)
  <2> DEFINE M == Folded(bound)
  <2>0. \/ bound = L
        \/ adopt /\ f.cold # 0 /\ \E own : bound = ColdReplay(L, r, f.cold, own)
    BY <1>4, Zenon DEF Bound
  <2>1. rework[r] \in Ledgers(r) BY <1>1 DEF Files
  <2>2. Adopted(b) \in Ledgers(r)
    <3> HIDE DEF b
    <3> QED BY <1>1, <1>2, FreshLedger
  <2>3. L \in Ledgers(r) /\ L \in LedgerType /\ L.branch = b
    <3>1. Adopted(b).branch = b BY DEF Adopted, Ledger
    <3> QED BY <2>1, <2>2, <3>1 DEF Ledgers
  <2>4. /\ adopt => L.adopting = TRUE /\ L.slid = FALSE /\ L.missed = FALSE /\ ~Tracks(L)
        /\ ~adopt => L = rework[r]
    <3>1. Adopted(b).adopting = TRUE /\ Adopted(b).slid = FALSE /\ Adopted(b).missed = FALSE
          /\ \A p \in Path : Adopted(b).at[p] = 0
      BY DEF Adopted, Ledger
    <3> QED BY <3>1 DEF Tracks
  <2>5. f.cold # 0 => f.cold = h /\ Now(r) = {} /\ (IF R # 0 THEN R ELSE K) = h
    BY DEF Waits, Waiting, Now
  <2> HIDE DEF L
  <2>6. tip[Default] \in 1..Len(log)
    <3>1. tip[Default] \in 0..Len(log) /\ tip[Default] # 0 BY <1>1 DEF Repository, HeadInv, Branch
    <3> QED BY <1>1, <3>1
  <2>7. /\ bound \in Ledgers(r) /\ Alike(bound, L)
        /\ adopt /\ f.cold = 0 => bound = L
        /\ adopt /\ f.cold # 0 => bound.slid = FALSE /\ Placed(bound, h)
        /\ ~adopt => bound = rework[r]
    <3>1. ASSUME adopt, f.cold # 0, NEW own, bound = ColdReplay(L, r, f.cold, own)
          PROVE  bound \in Ledgers(r) /\ Alike(bound, L) /\ bound.slid = FALSE /\ Placed(bound, h)
      <4>1. bound = ColdReplay(L, r, h, own) BY <2>5, <3>1
      <4>2. ColdReplay(L, r, h, own) \in Ledgers(r) /\ Replayed(ColdReplay(L, r, h, own), L, h)
        <5> HIDE DEF h
        <5> QED BY <1>1, <1>2, <2>3, <2>6, ColdReplayIn
      <4> QED BY <2>4, <3>1, <4>1, <4>2 DEF Replayed
    <3>2. CASE bound = L
      <4>1. adopt => Placed(bound, h) BY <2>4, <3>2 DEF Tracks, Placed
      <4> QED BY <2>3, <2>4, <3>2, <4>1 DEF Alike
    <3> QED BY <2>0, <3>1, <3>2
  <2>8. (bound.slid => bound.missed) /\ (bound.missed => rework[r].missed) /\ bound.branch = b
    BY <2>3, <2>4, <2>7 DEF Alike, SpotInv
  <2>9. bound.adopting = FALSE => ~adopt /\ ~rework[r].adopting BY <2>4, <2>7 DEF Alike
  <2>10. Stands(bound, K, R, Now(r))
    <3>1. CASE ~adopt BY <2>7, <3>1 DEF Waits, Waiting
    <3>2. CASE adopt
      <4>1. bound.adopting = TRUE BY <2>4, <2>7, <3>2 DEF Alike
      <4>2. ASSUME Tracks(bound) \/ Now(r) # {}
            PROVE  \E k \in 1..Len(log) : Way(k, K, R, Now(r), h) /\ Placed(bound, k)
        <5>1. CASE f.cold = 0
          <6>1. ~Tracks(bound) BY <2>4, <2>7, <3>2, <5>1
          <6>2. \A k : Placed(bound, k) BY <6>1 DEF Tracks, Placed
          <6> QED BY <4>2, <6>1, <6>2 DEF Waits, Waiting
        <5>2. CASE f.cold # 0
          <6>1. Way(h, K, R, {}, h)
            <7>1. (IF R # 0 THEN R ELSE K) = h BY <2>5, <5>2
            <7> HIDE DEF K, R, h
            <7> QED BY <1>1, <1>2, <7>1, EndOfLine
          <6> QED BY <1>2, <2>5, <2>7, <3>2, <5>2, <6>1
        <5> QED BY <5>1, <5>2
      <4> QED BY <1>2, <2>8, <4>1, <4>2 DEF Stands
    <3> QED BY <3>1, <3>2
  <2>11. CASE ~(f.commits = {} /\ f.drained)
    <3>1. M = bound BY <2>11 DEF Finished
    <3>2. BoundTo(r, bound)
      <4>1. rework' = [rework EXCEPT ![r] = bound] BY <1>4, <3>1
      <4>2. mode' = (IF bound.adopting THEN "adopt" ELSE "fold") BY <1>4
      <4>3. bound.adopting \in BOOLEAN BY <2>7 DEF Ledgers, LedgerType
      <4> QED BY <2>8, <2>9, <2>10, <4>1, <4>2, <4>3 DEF BoundTo
    <3> QED BY <3>2
  <2>12. CASE f.commits = {} /\ f.drained
    <3>1. M = [bound EXCEPT !.adopting = FALSE] BY <2>12 DEF Finished
    <3>2. /\ M.adopting = FALSE /\ M.branch = b /\ M.slid = bound.slid /\ M.missed = bound.missed
          /\ M.at = bound.at
      BY <2>7, <2>8, <3>1 DEF Ledgers, LedgerType
    <3>3. K = h /\ R = 0 /\ Now(r) = {} BY <2>12 DEF Waits, Waiting, Now
    <3>4. mode' # "skip" /\ rework' = [rework EXCEPT ![r] = M] BY <1>4
    <3> HIDE DEF M
    <3>5. Stands(M, K, R, Now(r))
      <4>1. Way(h, K, R, {}, h)
        <5>1. (IF R # 0 THEN R ELSE K) = h BY <3>3
        <5> HIDE DEF K, R, h
        <5> QED BY <1>1, <1>2, <5>1, EndOfLine
      <4>2. \E k \in 1..Len(log) : Way(k, K, R, {}, h) /\ (bound.missed \/ Placed(bound, k))
        <5>1. CASE Tracks(bound) BY <1>2, <2>8, <2>10, <3>3, <5>1 DEF Stands
        <5>2. CASE ~Tracks(bound)
          <6>1. Placed(bound, h) BY <5>2 DEF Tracks, Placed
          <6> QED BY <1>2, <4>1, <6>1
        <5> QED BY <5>1, <5>2
      <4>3. PICK k \in 1..Len(log) : Way(k, K, R, {}, h) /\ (bound.missed \/ Placed(bound, k)) BY <4>2
      <4>4. M.missed \/ Placed(M, k) BY <3>2, <4>3 DEF Placed
      <4> QED BY <1>2, <3>2, <3>3, <4>3, <4>4 DEF Stands
    <3>6. BoundTo(r, M) BY <1>2, <2>8, <2>12, <3>2, <3>3, <3>4, <3>5 DEF BoundTo
    <3> QED BY <3>6
  <2> QED BY <2>11, <2>12
<1>5. \/ rework' = [rework EXCEPT ![r] = Ledger] /\ mode' = "skip"
      \/ \E probed \in BOOLEAN : \E bound \in Bound(r, probed) :
           /\ rework' = [rework EXCEPT ![r] = Folded(bound)]
           /\ mode' = IF bound.adopting THEN "adopt" ELSE "fold"
  <2>1. b # NoBranch BY <1>2
  <2> QED BY <2>1 DEF BindRoot
<1> QED BY <1>3, <1>4, <1>5

\* What a step leaves of the others, while r is at hand.
LEMMA OthersWait ==
  ASSUME NEW r \in Root, NEW M, rework' = [rework EXCEPT ![r] = M], rework \in [Root -> LedgerType],
         UNCHANGED <<log, tip, on, head, cursor, replay, found>>
  PROVE  /\ rework'[r] = M
         /\ \A x \in Root : x # r => /\ rework'[x] = rework[x]
                                     /\ Rests(x) => Rests(x)'
                                     /\ Waits(x) => Waits(x)'
<1>1. rework'[r] = M /\ \A x \in Root : x # r => rework'[x] = rework[x] OBVIOUS
<1> SUFFICES ASSUME NEW x \in Root, x # r PROVE (Rests(x) => Rests(x)') /\ (Waits(x) => Waits(x)')
  BY <1>1
<1>2. rework'[x] = rework[x] BY <1>1
<1> QED BY <1>2 DEF Rests, Waits, Waiting, Stands, Way, Tracks, Placed, Now

LEMMA BindRootSpans ==
  ASSUME TypeInv, HeadInv, SpotInv, PollInv, LoneInv, ChainInv, Straight, NEW r \in Root, BindRoot(r)
  PROVE  SpansInv'
<1>1. /\ UNCHANGED <<env, gitVars, cursor, replay, recorded, found, seen, emitted>>
      /\ pc = "bind" /\ todo # {} /\ r = First(todo) /\ batch' = found[r].commits
      /\ IF found[r].commits = {} THEN pc' = "bind" /\ todo' = todo \ {r} ELSE pc' = "commits" /\ todo' = todo
  BY DEF BindRoot, At, Go, Rest
<1>2. UNCHANGED <<env, log, gone, tip, on, head, cursor, replay, recorded, found, seen, emitted>>
  BY <1>1 DEF gitVars
<1>3. Present' = Present /\ HeadInv' BY <1>1, <1>2, LinesRest DEF Present
<1>4. r \in todo /\ todo \subseteq Present /\ r \in Present
  <2>1. todo \in SUBSET Root /\ todo \subseteq Present BY DEF TypeInv, Progress, Present
  <2> QED BY <1>1, <2>1, FirstIn
<1>5. Waits(r) BY <1>1, <1>4 DEF PollInv
<1>6. PICK M : BoundTo(r, M) BY <1>4, <1>5, BindRootBinds
<1>7. rework' = [rework EXCEPT ![r] = M] /\ rework \in [Root -> LedgerType]
  BY <1>6 DEF BoundTo, TypeInv, Files
<1>8. rework'[r] = M /\ \A x \in Root : x # r => /\ rework'[x] = rework[x]
                                                 /\ Rests(x) => Rests(x)'
                                                 /\ Waits(x) => Waits(x)'
  BY <1>2, <1>7, OthersWait
<1>9. SpotInv'
  <2> SUFFICES ASSUME NEW x \in Root
               PROVE  /\ rework'[x].slid => rework'[x].missed
                      /\ cursor[x] = 0 => replay[x] = 0 /\ rework'[x].branch = NoBranch
                      /\ x \notin Present => cursor[x] = 0
    BY <1>2, <1>3 DEF SpotInv
  <2>1. CASE x = r BY <1>4, <1>5, <1>6, <1>8, <2>1 DEF BoundTo, Waits, Waiting
  <2>2. CASE x # r BY <1>8, <2>2 DEF SpotInv
  <2> QED BY <2>1, <2>2
<1>10. Stands(rework[r], cursor[r], replay[r], Now(r))'
  <2>1. Stands(M, cursor[r], replay[r], Now(r)) BY <1>6 DEF BoundTo
  <2> QED BY <1>2, <1>8, <2>1 DEF Stands, Way, Tracks, Placed, Now
<1>11. CASE found[r].commits = {}
  <2>1. Rests(r)'
    <3>1. Now(r)' = {} BY <1>2, <1>11 DEF Now
    <3> QED BY <1>10, <3>1 DEF Rests
  <2>2. pc' = "bind" /\ todo' = todo \ {r} BY <1>1, <1>11
  <2>3. \A x \in Root : (x \notin todo' => Rests(x)') /\ (x \in todo' => Waits(x)')
    BY <1>1, <1>8, <2>1, <2>2 DEF PollInv
  <2>4. PollInv' BY <2>2, <2>3 DEF PollInv
  <2>5. LoneInv'
    <3> SUFFICES ASSUME NEW x \in Root, Lone(x)'
                 PROVE  /\ replay[x] = 0 /\ ~rework'[x].missed
                        /\ x \notin todo' /\ rework'[x].branch \in {NoBranch, on[x]}
                        /\ Unmet(rework[x], cursor[x], {})'
      BY <1>2, <2>2 DEF LoneInv
    <3>1. Lone(x) BY <1>2, <1>3 DEF Lone
    <3>2. x = r BY <1>4, <3>1 DEF Lone
    <3>3. replay[r] = 0 /\ ~rework[r].missed
          /\ (on[r] = rework[r].branch => Unmet(rework[r], cursor[r], Now(r)))
      BY <1>1, <1>4, <3>1, <3>2 DEF LoneInv
    <3>4. ~M.missed /\ M.branch \in {NoBranch, on[r]} BY <1>6, <3>3 DEF BoundTo
    <3>5. Unmet(M, cursor[r], {})
      <4> SUFFICES ASSUME M.branch # NoBranch, ~M.adopting
                   PROVE  (log[tip[M.branch]].chain \ log[cursor[r]].reach) \cap Known = {}
        BY DEF Unmet
      <4>1. M.branch = on[r] /\ head[r] = tip[M.branch] BY <1>4, <3>4 DEF HeadInv
      <4>2. CASE head[r] = cursor[r]
        <5>1. head[r] \in 1..Len(log) /\ LogOK BY <1>4, ReachableIs DEF TypeInv
        <5>2. log[head[r]].chain \subseteq log[head[r]].reach BY <5>1 DEF LogOK, CommitOK
        <5> QED BY <4>1, <4>2, <5>2
      <4>3. CASE on[r] = rework[r].branch /\ ~rework[r].adopting
        BY <3>3, <4>1, <4>3 DEF Unmet
      <4> QED BY <1>6, <4>2, <4>3 DEF BoundTo
    <3>6. Unmet(rework[r], cursor[r], {})' BY <1>2, <1>8, <3>5 DEF Unmet, Known
    <3> QED BY <1>8, <2>2, <3>2, <3>3, <3>4, <3>6
  <2> QED BY <1>3, <1>9, <2>4, <2>5 DEF SpansInv
<1>12. CASE found[r].commits # {}
  <2>1. pc' = "commits" /\ todo' = todo /\ batch' = found[r].commits BY <1>1, <1>12
  <2>2. Busy(r)'
    <3>1. (batch \cap found[r].fold)' = Now(r)' BY <1>2, <2>1 DEF Now
    <3>2. cursor[r] # 0 /\ (found[r].drained => cursor[r] = head[r] /\ replay[r] = 0)
      BY <1>5 DEF Waits, Waiting
    <3>3. /\ M.branch = IF mode' = "skip" THEN NoBranch ELSE on[r]
          /\ mode' # "skip" => (mode' = "adopt" <=> M.adopting)
      BY <1>6, <1>12 DEF BoundTo
    <3>4. Stands(rework[r], cursor[r], replay[r], batch \cap found[r].fold)' BY <1>10, <3>1
    <3> QED BY <1>2, <1>8, <2>1, <3>2, <3>3, <3>4 DEF Busy
  <2>3. \A x \in Root : /\ x \notin todo' => Rests(x)'
                        /\ x \in todo' => IF x = First(todo') THEN Busy(x)' ELSE Waits(x)'
    BY <1>1, <1>4, <1>8, <2>1, <2>2 DEF PollInv
  <2>4. PollInv'
    <3>1. First(todo)' = First(todo') BY DEF First
    <3> QED BY <2>1, <2>3, <3>1 DEF PollInv
  <2>5. LoneInv'
    <3> SUFFICES ASSUME NEW x \in Root, Lone(x)'
                 PROVE  /\ replay[x] = 0 /\ ~rework'[x].missed
                        /\ found[x].commits \subseteq log[cursor[x]].reach
                        /\ Unmet(rework[x], cursor[x], batch \cap found[x].fold)'
      BY <1>2, <2>1 DEF LoneInv
    <3>1. Lone(x) BY <1>2, <1>3 DEF Lone
    <3>2. x = r BY <1>4, <3>1 DEF Lone
    <3>3. /\ replay[r] = 0 /\ ~rework[r].missed /\ found[r].commits \subseteq log[cursor[r]].reach
          /\ (on[r] = rework[r].branch => Unmet(rework[r], cursor[r], Now(r)))
      BY <1>1, <1>4, <3>1, <3>2 DEF LoneInv
    <3>4. ~M.missed /\ M.branch \in {NoBranch, on[r]} BY <1>6, <3>3 DEF BoundTo
    <3>5. Unmet(M, cursor[r], Now(r))
      <4> SUFFICES ASSUME M.branch # NoBranch, ~M.adopting
                   PROVE  ((log[tip[M.branch]].chain \ log[cursor[r]].reach) \cup Now(r)) \cap Known = {}
        BY DEF Unmet
      <4>1. M.branch = on[r] /\ head[r] = tip[M.branch] BY <1>4, <3>4 DEF HeadInv
      <4>2. CASE head[r] = cursor[r] /\ Now(r) = {}
        <5>1. head[r] \in 1..Len(log) /\ LogOK BY <1>4, ReachableIs DEF TypeInv
        <5>2. log[head[r]].chain \subseteq log[head[r]].reach BY <5>1 DEF LogOK, CommitOK
        <5> QED BY <4>1, <4>2, <5>2
      <4>3. CASE on[r] = rework[r].branch /\ ~rework[r].adopting
        BY <3>3, <4>1, <4>3 DEF Unmet
      <4> QED BY <1>6, <4>2, <4>3 DEF BoundTo
    <3>6. Unmet(rework[r], cursor[r], batch \cap found[r].fold)'
      BY <1>2, <1>8, <2>1, <3>5 DEF Unmet, Known, Now
    <3> QED BY <1>8, <3>2, <3>3, <3>4, <3>6
  <2> QED BY <1>3, <1>9, <2>4, <2>5 DEF SpansInv
<1> QED BY <1>11, <1>12

-----------------------------------------------------------------------------
(* The commits are attributed.                                              *)

\* A checkout that has reached its HEAD is no longer adopting.
LEMMA FinishedStands ==
  ASSUME LogOK, ChainInv, NEW L \in LedgerType, L.branch # NoBranch => tip[L.branch] \in 1..Len(log),
         NEW K, NEW R, NEW drained, Stands(L, K, R, {}),
         L.branch # NoBranch /\ drained => K = tip[L.branch] /\ R = 0
  PROVE  Stands(Finished(L, drained), K, R, {})
<1> DEFINE N == [L EXCEPT !.adopting = FALSE]
           h == tip[L.branch]
<1>1. CASE ~drained BY <1>1 DEF Finished
<1>2. CASE drained
  <2>1. Finished(L, drained) = N BY <1>2 DEF Finished
  <2>2. N.branch = L.branch /\ N.at = L.at /\ N.missed = L.missed BY DEF LedgerType
  <2> HIDE DEF N
  <2>3. SUFFICES ASSUME L.branch # NoBranch PROVE Stands(N, K, R, {}) BY <2>1, <2>2 DEF Stands
  <2>4. h \in 1..Len(log) /\ K = h /\ R = 0 /\ L.branch \in Branch /\ h # 0 BY <1>2, <2>3 DEF Stands
  <2>5. \E k \in 1..Len(log) : Way(k, K, R, {}, h) /\ (L.missed \/ Placed(L, k))
    <3>1. CASE Tracks(L) BY <2>3, <3>1 DEF Stands
    <3>2. CASE ~Tracks(L)
      <4>1. Placed(L, h) BY <3>2 DEF Tracks, Placed
      <4>2. Way(h, K, R, {}, h)
        <5>1. (IF R # 0 THEN R ELSE K) = h BY <2>4
        <5> HIDE DEF h
        <5> QED BY <2>4, <5>1, EndOfLine
      <4> QED BY <2>4, <4>1, <4>2
    <3> QED BY <3>1, <3>2
  <2>6. PICK k \in 1..Len(log) : Way(k, K, R, {}, h) /\ (L.missed \/ Placed(L, k)) BY <2>5
  <2>7. N.missed \/ Placed(N, k) BY <2>2, <2>6 DEF Placed
  <2>8. Stands(N, K, R, {}) BY <2>2, <2>4, <2>6, <2>7 DEF Stands
  <2> QED BY <2>8
<1> QED BY <1>1, <1>2

\* The first commit of what is left stands on the one the spans are in.
OnTopOf(k, c) == k = log[c].first /\ k # 0 /\ FilesOK(log, c)

LEMMA StepAlong ==
  ASSUME LogOK, ChainInv, NEW h \in 1..Len(log), NEW k \in 1..Len(log), NEW K, NEW R, NEW S,
         Way(k, K, R, S, h), NEW c \in S, \A x \in S : c <= x
  PROVE  OnTopOf(k, c) /\ Way(c, K, R, S \ {c}, h)
<1>1. R = 0 /\ K \in log[h].chain /\ k \in log[K].chain /\ S = {z \in log[K].chain : k < z} BY DEF Way
<1>2. K \in 1..Len(log) /\ log[K].chain \subseteq log[h].chain BY <1>1, Ancestors
<1>3. c \in log[K].chain /\ k < c BY <1>1
<1>4. /\ c \in 1..Len(log) /\ log[c].chain \subseteq log[K].chain
      /\ \A z \in log[K].chain : z \in 1..Len(log)
      /\ c # 1 => /\ log[c].first \in log[c].chain /\ log[c].first < c /\ log[c].first # 0
                  /\ \A z \in log[K].chain : z < c => z <= log[c].first
  BY <1>2, <1>3, Ancestors
<1>5. Len(log) \in Nat BY DEF LogOK
<1>6. c # 1 BY <1>3, <1>4, <1>5
<1>7. k = log[c].first
  <2>1. k <= log[c].first BY <1>1, <1>3, <1>4, <1>6
  <2>2. log[c].first \in log[K].chain /\ log[c].first \in 1..Len(log) BY <1>4, <1>6
  <2>3. ~(k < log[c].first)
    <3> SUFFICES ASSUME k < log[c].first PROVE FALSE OBVIOUS
    <3>1. log[c].first \in S BY <1>1, <2>2
    <3>2. c <= log[c].first BY <3>1
    <3> QED BY <1>4, <1>5, <1>6, <2>2, <3>2
  <2> QED BY <1>5, <2>1, <2>2, <2>3
<1>8. S \ {c} = {z \in log[K].chain : c < z}
  <2>1. ASSUME NEW z \in log[K].chain PROVE (k < z /\ z # c) <=> c < z
    <3>1. z \in 1..Len(log) BY <1>4
    <3>2. k < z => c <= z BY <1>1
    <3> QED BY <1>3, <1>4, <1>5, <3>1, <3>2
  <2> QED BY <1>1, <2>1
<1>9. Way(c, K, R, S \ {c}, h) BY <1>1, <1>2, <1>3, <1>8 DEF Way
<1>10. FilesOK(log, c) BY <1>4 DEF ChainInv
<1> QED BY <1>4, <1>5, <1>7, <1>9, <1>10 DEF OnTopOf

\* What becomes of a ledger by one commit.
Applies(r, c, M) ==
  LET L     == rework[r]
      folds == mode # "skip" /\ c \in found[r].fold
  IN  \/ ~folds /\ M = L
      \/ folds /\ (c \in seen => mode = "adopt") /\ \E seeds \in BOOLEAN : M = Fold(L, r, c, held, seeds)
      \/ folds /\ c \in seen /\ mode # "adopt" /\ M = LeftOut(L)

Advanced(r, c, M) ==
  LET L == rework[r]
      S == batch \cap found[r].fold
  IN  /\ M \in LedgerType /\ M.branch = L.branch /\ M.adopting = L.adopting /\ (M.slid => M.missed)
      /\ M.missed => L.missed \/ (c \in S /\ c \in seen /\ L.branch # NoBranch /\ ~L.adopting)
      /\ Stands(M, cursor[r], replay[r], S \ {c})

LEMMA AppliesWell ==
  ASSUME TypeInv, HeadInv, SpotInv, ChainInv, NEW r \in Root, r \in Present, Busy(r),
         NEW c \in batch, c \in 1..Len(log), \A x \in batch : c <= x, NEW M, Applies(r, c, M)
  PROVE  Advanced(r, c, M)
<1> DEFINE L == rework[r]
           K == cursor[r]
           R == replay[r]
           S == batch \cap found[r].fold
           h == head[r]
<1>1. LogOK /\ Marks /\ Repository /\ Files BY DEF TypeInv
<1>2. L \in Ledgers(r) /\ L \in LedgerType BY <1>1 DEF Files, Ledgers
<1>3. /\ on[r] \in Branch /\ on[r] # NoBranch /\ h = tip[on[r]] /\ h \in 1..Len(log)
  BY <1>1, ReachableIs DEF HeadInv, Branch, Default, NoBranch
<1>4. Stands(L, K, R, S) /\ (mode = "skip" => L.branch = NoBranch) BY DEF Busy
<1>5. L.slid => L.missed BY DEF SpotInv
<1>6. CASE ~(mode # "skip" /\ c \in found[r].fold) /\ M = L
  <2>1. L.branch = NoBranch \/ S \ {c} = S BY <1>4, <1>6
  <2>2. Stands(L, K, R, S \ {c}) BY <1>4, <2>1 DEF Stands
  <2> QED BY <1>2, <1>5, <1>6, <2>2 DEF Advanced
<1>7. CASE mode # "skip" /\ c \in found[r].fold
  <2>1. c \in S /\ \A x \in S : c <= x BY <1>7
  <2>2. L.branch = on[r] /\ (mode = "adopt" <=> L.adopting) BY <1>7 DEF Busy
  <2>3. PICK k \in 1..Len(log) : Way(k, K, R, S, h) /\ (L.missed \/ Placed(L, k))
    BY <1>3, <1>4, <2>1, <2>2 DEF Stands
  <2>4. k = log[c].first /\ k # 0 /\ FilesOK(log, c) /\ Way(c, K, R, S \ {c}, h)
    <3>1. LogOK /\ h \in 1..Len(log) /\ Way(k, K, R, S, h) BY <1>1, <1>3, <2>3
    <3> HIDE DEF S, K, R, h
    <3>2. OnTopOf(k, c) BY <2>1, <3>1, StepAlong
    <3>3. Way(c, K, R, S \ {c}, h) BY <1>1, <2>1, <3>1, StepAlong
    <3> QED BY <3>2, <3>3 DEF OnTopOf
  <2>5. L.branch \in Branch /\ tip[L.branch] # 0 /\ (~L.adopting => R = 0) BY <1>3, <1>4, <2>2 DEF Stands
  <2>6. ASSUME NEW seeds \in BOOLEAN, M = Fold(L, r, c, held, seeds) PROVE Advanced(r, c, M)
    <3>1. M \in Ledgers(r) /\ Alike(M, L) /\ (Placed(L, k) => M.slid = L.slid /\ Placed(M, c))
      <4>1. L \in Ledgers(r) BY <1>2
      <4> HIDE DEF L
      <4> QED BY <1>1, <2>4, <2>6, <4>1, FoldIn
    <3>2. M \in LedgerType BY <3>1 DEF Ledgers
    <3>3. M.missed \/ Placed(M, c) BY <2>3, <3>1 DEF Alike
    <3>4. M.slid => M.missed BY <1>5, <2>3, <3>1 DEF Alike
    <3>5. Stands(M, K, R, S \ {c}) BY <1>3, <2>2, <2>4, <2>5, <3>1, <3>3 DEF Stands, Alike
    <3> QED BY <3>1, <3>2, <3>4, <3>5 DEF Advanced, Alike
  <2>7. ASSUME c \in seen, mode # "adopt", M = LeftOut(L) PROVE Advanced(r, c, M)
    <3> DEFINE b == L.missed \/ Tracks(L)
    <3>1. LeftOut(L) \in Ledgers(r) BY <1>2, LeftOutIn
    <3>2. M \in LedgerType BY <2>7, <3>1 DEF Ledgers
    <3>3. /\ M.branch = L.branch /\ M.adopting = L.adopting /\ M.slid = L.slid /\ M.at = L.at
          /\ M.missed = b
      <4>1. M = [L EXCEPT !.missed = b] BY <2>7 DEF LeftOut
      <4> HIDE DEF b
      <4> QED BY <1>2, <4>1 DEF LedgerType
    <3>4. M.missed \/ Placed(M, c) BY <3>3 DEF Tracks, Placed
    <3>5. Stands(M, K, R, S \ {c}) BY <1>3, <2>2, <2>4, <2>5, <3>3, <3>4 DEF Stands
    <3> QED BY <1>3, <1>5, <2>1, <2>2, <2>7, <3>2, <3>3, <3>5 DEF Advanced
  <2> QED BY <1>7, <2>6, <2>7 DEF Applies
<1> QED BY <1>6, <1>7 DEF Applies

LEMMA AttributeCommitSpans ==
  ASSUME TypeInv, HeadInv, SpotInv, PollInv, LoneInv, ChainInv, Straight, NEW r \in Root, AttributeCommit(r)
  PROVE  SpansInv'
<1> DEFINE c == Min(batch)
           left == batch \ {c}
           Ends(L) == IF left = {} /\ mode = "adopt" THEN Finished(L, found[r].drained) ELSE L
           K == cursor[r]
           R == replay[r]
           h == head[r]
           S == batch \cap found[r].fold
<1>1. /\ UNCHANGED <<env, gitVars, cursor, replay, recorded, found>>
      /\ pc = "commits" /\ todo # {} /\ r = First(todo) /\ batch' = left
      /\ IF left = {} THEN pc' = "bind" /\ todo' = todo \ {r} ELSE pc' = "commits" /\ todo' = todo
      /\ mode' = IF left = {} THEN "skip" ELSE mode
      /\ seen' \subseteq seen \cup {c} /\ emitted' \subseteq emitted \cup {c}
  BY DEF AttributeCommit, At, Go, Rest, Remember
<1>2. UNCHANGED <<env, log, gone, tip, on, head, cursor, replay, recorded, found>> BY <1>1 DEF gitVars
<1>3. Present' = Present /\ HeadInv' BY <1>1, <1>2, LinesRest DEF Present
<1>4. r \in todo /\ todo \subseteq Present /\ r \in Present
  <2>1. todo \in SUBSET Root /\ todo \subseteq Present BY DEF TypeInv, Progress, Present
  <2> QED BY <1>1, <2>1, FirstIn
<1>5. /\ LogOK /\ Repository /\ Len(log) \in Nat /\ rework \in [Root -> LedgerType]
      /\ batch \subseteq 1..Len(log) /\ batch # {}
  BY <1>1 DEF TypeInv, Files, Progress, LogOK
<1>6. c \in batch /\ c \in 1..Len(log) /\ \A x \in batch : c <= x BY <1>5, LatestIn
<1>7. Busy(r) BY <1>1, <1>4 DEF PollInv
<1>8. /\ on[r] \in Branch /\ on[r] # NoBranch /\ h = tip[on[r]] /\ h \in 1..Len(log)
  BY <1>4, <1>5, ReachableIs DEF HeadInv, Branch, Default, NoBranch
<1>9. \E M : Applies(r, c, M) /\ rework' = [rework EXCEPT ![r] = Ends(M)]
  <2> DEFINE folds  == mode # "skip" /\ c \in found[r].fold
             seeds  == c \in ours /\ Added(c) # {}
  <2>1. ~May("refused") /\ ~May("showFails") BY DEF Straight, Undisturbed, May
  <2>2. ~Outcome("showFails", FALSE) /\ \A q : Outcome("refused", q) => q BY <2>1 DEF Outcome
  <2>3. seeds \in BOOLEAN OBVIOUS
  <2> DEFINE N(x) == Fold(rework[r], r, c, held, x)
  <2>4. \/ ~folds /\ rework' = [rework EXCEPT ![r] = Ends(rework[r])]
        \/ folds /\ c \in seen /\ mode = "adopt" /\ rework' = [rework EXCEPT ![r] = Ends(N(seeds))]
        \/ folds /\ c \in seen /\ mode # "adopt" /\ rework' = [rework EXCEPT ![r] = Ends(LeftOut(rework[r]))]
        \/ folds /\ c \notin seen /\ rework' = [rework EXCEPT ![r] = Ends(N(FALSE))]
        \/ folds /\ c \notin seen /\ rework' = [rework EXCEPT ![r] = Ends(N(TRUE))]
    <3> HIDE DEF c
    <3> QED BY <2>2 DEF AttributeCommit, c
  <2> HIDE DEF Ends, seeds, c
  <2>5. CASE ~folds /\ rework' = [rework EXCEPT ![r] = Ends(rework[r])] BY <2>5 DEF Applies
  <2>6. ASSUME NEW x \in BOOLEAN, folds, c \in seen => mode = "adopt", rework' = [rework EXCEPT ![r] = Ends(N(x))]
        PROVE  \E M : Applies(r, c, M) /\ rework' = [rework EXCEPT ![r] = Ends(M)]
    <3>1. Applies(r, c, N(x)) BY <2>6 DEF Applies
    <3> QED BY <2>6, <3>1
  <2>7. CASE folds /\ c \in seen /\ mode # "adopt" /\ rework' = [rework EXCEPT ![r] = Ends(LeftOut(rework[r]))]
    <3>1. Applies(r, c, LeftOut(rework[r])) BY <2>7 DEF Applies
    <3> QED BY <2>7, <3>1
  <2> QED BY <2>3, <2>4, <2>5, <2>6, <2>7
<1> HIDE DEF c
<1>10. PICK M : Applies(r, c, M) /\ rework' = [rework EXCEPT ![r] = Ends(M)] BY <1>9
<1>11. Advanced(r, c, M) BY <1>4, <1>6, <1>7, <1>10, AppliesWell
<1> DEFINE N == Ends(M)
<1>12. /\ M \in LedgerType /\ M.branch = rework[r].branch /\ M.adopting = rework[r].adopting /\ (M.slid => M.missed)
       /\ M.missed => rework[r].missed \/ (c \in S /\ c \in seen /\ M.branch # NoBranch /\ ~M.adopting)
       /\ Stands(M, K, R, S \ {c})
  BY <1>11 DEF Advanced
<1>13. K # 0 /\ (found[r].drained => K = h /\ R = 0) /\ batch \subseteq found[r].commits BY <1>7 DEF Busy
<1>14. M.branch = (IF mode = "skip" THEN NoBranch ELSE on[r]) /\ (mode # "skip" => (mode = "adopt" <=> M.adopting))
  BY <1>7, <1>12 DEF Busy
<1>15. /\ N.branch = M.branch /\ N.slid = M.slid /\ N.missed = M.missed
       /\ left # {} => N = M
       /\ N.adopting # M.adopting => left = {} /\ found[r].drained
  BY <1>12 DEF Finished, LedgerType
<1>16. Stands(N, K, R, S \ {c})
  <2>1. CASE left = {} /\ mode = "adopt"
    <3>1. S \ {c} = {} BY <2>1
    <3>2. M.branch # NoBranch => tip[M.branch] \in 1..Len(log) BY <1>8, <1>14
    <3>3. M.branch # NoBranch /\ found[r].drained => K = tip[M.branch] /\ R = 0 BY <1>8, <1>13, <1>14
    <3>4. Stands(M, K, R, {}) BY <1>12, <3>1
    <3>5. N = Finished(M, found[r].drained) BY <2>1
    <3> HIDE DEF N, K, R, S
    <3>6. Stands(N, K, R, {}) BY <1>5, <1>12, <3>2, <3>3, <3>4, <3>5, FinishedStands
    <3> QED BY <3>1, <3>6
  <2>2. CASE ~(left = {} /\ mode = "adopt") BY <1>12, <2>2
  <2> QED BY <2>1, <2>2
<1>17. rework' = [rework EXCEPT ![r] = N] BY <1>10
<1> HIDE DEF N
<1>18. rework'[r] = N /\ \A x \in Root : x # r => /\ rework'[x] = rework[x]
                                                  /\ Rests(x) => Rests(x)'
                                                  /\ Waits(x) => Waits(x)'
  BY <1>2, <1>5, <1>17, OthersWait
<1>19. SpotInv'
  <2> SUFFICES ASSUME NEW x \in Root
               PROVE  /\ rework'[x].slid => rework'[x].missed
                      /\ cursor[x] = 0 => replay[x] = 0 /\ rework'[x].branch = NoBranch
                      /\ x \notin Present => cursor[x] = 0
    BY <1>2, <1>3 DEF SpotInv
  <2>1. CASE x = r BY <1>4, <1>12, <1>13, <1>15, <1>18, <2>1
  <2>2. CASE x # r BY <1>18, <2>2 DEF SpotInv
  <2> QED BY <2>1, <2>2
<1>20. (batch \cap found[r].fold)' = S \ {c} BY <1>1, <1>2
<1>21. Stands(rework[r], cursor[r], replay[r], batch \cap found[r].fold)'
  BY <1>2, <1>16, <1>18, <1>20 DEF Stands, Way, Tracks, Placed
<1>22. ASSUME Lone(r)'
       PROVE  /\ R = 0 /\ ~N.missed /\ found[r].commits \subseteq log[K].reach
              /\ Unmet(rework[r], cursor[r], batch \cap found[r].fold)'
  <2>1. Lone(r) BY <1>2, <1>3, <1>22 DEF Lone
  <2>2. /\ R = 0 /\ ~rework[r].missed /\ found[r].commits \subseteq log[K].reach
        /\ Unmet(rework[r], K, S)
    BY <1>1, <1>4, <2>1 DEF LoneInv
  <2>3. M.branch # NoBranch /\ ~M.adopting => ((log[tip[M.branch]].chain \ log[K].reach) \cup S) \cap Known = {}
    BY <1>12, <2>2 DEF Unmet
  <2>4. ~N.missed BY <1>12, <1>15, <2>2, <2>3 DEF Known
  <2>5. c \in log[K].reach BY <1>6, <1>13, <2>2
  <2>6. Known' \subseteq Known \cup {c} BY <1>1 DEF Known
  <2>7. ASSUME N.branch # NoBranch, ~N.adopting
        PROVE  ((log[tip[N.branch]].chain \ log[K].reach) \cup (S \ {c})) \cap Known' = {}
    <3>1. CASE ~M.adopting
      <4>1. N.branch = M.branch BY <1>15
      <4> HIDE DEF S, K
      <4> QED BY <2>3, <2>5, <2>6, <2>7, <3>1, <4>1
    <3>2. CASE M.adopting
      <4>1. left = {} /\ K = h /\ h = tip[N.branch] BY <1>8, <1>13, <1>14, <1>15, <2>7, <3>2
      <4>2. log[h].chain \subseteq log[h].reach BY <1>5, <1>8 DEF LogOK, CommitOK
      <4>3. S \ {c} = {} BY <4>1
      <4> QED BY <4>1, <4>2, <4>3
    <3> QED BY <3>1, <3>2
  <2>8. Unmet(rework[r], cursor[r], batch \cap found[r].fold)' BY <1>2, <1>18, <1>20, <2>7 DEF Unmet
  <2> QED BY <2>2, <2>4, <2>8
<1>23. CASE left = {}
  <2>1. pc' = "bind" /\ todo' = todo \ {r} /\ batch' = {} BY <1>1, <1>23
  <2>2. Rests(r)' BY <1>21, <2>1 DEF Rests
  <2>3. \A x \in Root : (x \notin todo' => Rests(x)') /\ (x \in todo' => Waits(x)')
    <3>1. \A x \in Root : x # r => (x \notin todo => Rests(x)) /\ (x \in todo => Waits(x)) BY <1>1 DEF PollInv
    <3> QED BY <1>18, <2>1, <2>2, <3>1
  <2>4. PollInv' BY <2>1, <2>3 DEF PollInv
  <2>5. LoneInv'
    <3> SUFFICES ASSUME NEW x \in Root, Lone(x)'
                 PROVE  /\ replay[x] = 0 /\ ~rework'[x].missed
                        /\ x \notin todo' /\ rework'[x].branch \in {NoBranch, on[x]}
                        /\ Unmet(rework[x], cursor[x], {})'
      BY <1>2, <2>1 DEF LoneInv
    <3>1. x = r BY <1>2, <1>3, <1>4 DEF Lone
    <3>2. (batch \cap found[r].fold)' = {} BY <2>1
    <3>3. Unmet(rework[r], cursor[r], {})' BY <1>22, <3>1, <3>2 DEF Unmet
    <3> QED BY <1>14, <1>15, <1>18, <1>22, <2>1, <3>1, <3>3
  <2> QED BY <1>3, <1>19, <2>4, <2>5 DEF SpansInv
<1>24. CASE left # {}
  <2>1. pc' = "commits" /\ todo' = todo /\ batch' = left /\ mode' = mode /\ N = M BY <1>1, <1>15, <1>24
  <2>2. Busy(r)'
    <3>1. cursor'[r] # 0 /\ (found'[r].drained => cursor'[r] = head'[r] /\ replay'[r] = 0) BY <1>2, <1>13
    <3>2. batch' \subseteq found'[r].commits BY <1>2, <1>13, <2>1
    <3>3. /\ N.branch = IF mode' = "skip" THEN NoBranch ELSE on'[r]
          /\ mode' # "skip" => (mode' = "adopt" <=> N.adopting)
      BY <1>2, <1>14, <2>1
    <3> QED BY <1>18, <1>21, <3>1, <3>2, <3>3 DEF Busy
  <2>3. \A x \in Root : /\ x \notin todo' => Rests(x)'
                        /\ x \in todo' => IF x = First(todo') THEN Busy(x)' ELSE Waits(x)'
    <3>1. \A x \in Root : x # r => (x \notin todo => Rests(x)) /\ (x \in todo => Waits(x)) BY <1>1 DEF PollInv
    <3> QED BY <1>1, <1>4, <1>18, <2>1, <2>2, <3>1
  <2>4. PollInv'
    <3>1. First(todo)' = First(todo') BY DEF First
    <3> QED BY <2>1, <2>3, <3>1 DEF PollInv
  <2>5. LoneInv'
    <3> SUFFICES ASSUME NEW x \in Root, Lone(x)'
                 PROVE  /\ replay[x] = 0 /\ ~rework'[x].missed
                        /\ found[x].commits \subseteq log[cursor[x]].reach
                        /\ Unmet(rework[x], cursor[x], batch \cap found[x].fold)'
      BY <1>2, <2>1 DEF LoneInv
    <3>1. x = r BY <1>2, <1>3, <1>4 DEF Lone
    <3> QED BY <1>18, <1>22, <3>1
  <2> QED BY <1>3, <1>19, <2>4, <2>5 DEF SpansInv
<1> QED BY <1>23, <1>24

-----------------------------------------------------------------------------
(* The other steps, and the theorem.                                        *)

LEMMA OffHeadSpans ==
  ASSUME TypeInv, HeadInv, SpotInv, PollInv, LoneInv, ChainInv, OffHead
  PROVE  SpansInv'
<1>1. /\ UNCHANGED <<env, gitVars, cursor, replay, recorded, rework, found>>
      /\ pc = "bind" /\ todo = {} /\ pc' = "record" /\ todo' = {}
  BY DEF OffHead, Go
<1>2. UNCHANGED <<env, log, gone, tip, on, head, cursor, replay, recorded, rework, found>> BY <1>1 DEF gitVars
<1>3. Present' = Present /\ HeadInv' BY <1>1, <1>2, LinesRest DEF Present
<1>4. SpotInv' BY <1>2, <1>3 DEF SpotInv
<1>5. PollInv'
  <2>1. \A x \in Root : Rests(x) BY <1>1 DEF PollInv
  <2>2. ASSUME NEW x \in Root PROVE Rests(x)'
    <3>1. Rests(x) BY <2>1
    <3> QED BY <1>2, <3>1 DEF Rests, Stands, Way, Tracks, Placed
  <2> QED BY <1>1, <2>2 DEF PollInv
<1>6. PICK few \in SUBSET (1..Len(log)) : \E done \in SUBSET few :
        Unseen(few) /\ seen' = seen \cup done /\ emitted' = emitted \cup done
  BY OffHeadIs DEF OffHeadDoes, OffHeadWith
<1>7. Known' \subseteq Known \cup few BY <1>2, <1>6 DEF Known
<1>8. LoneInv'
  <2> SUFFICES ASSUME NEW r \in Root, Lone(r)'
               PROVE  ~rework[r].missed /\ replay[r] = 0 /\ Unmet(rework[r], cursor[r], {})'
    BY <1>1, <1>2 DEF LoneInv
  <2> DEFINE L == rework[r]
  <2>1. Lone(r) BY <1>2, <1>3 DEF Lone
  <2>2. /\ ~L.missed /\ replay[r] = 0 /\ Unmet(L, cursor[r], {}) /\ L.branch \in {NoBranch, on[r]}
    BY <1>1, <2>1 DEF LoneInv
  <2>3. ASSUME L.branch # NoBranch PROVE few \cap log[tip[L.branch]].chain = {}
    <3>1. r \in Present BY <2>1 DEF Lone
    <3>2. L.branch = on[r] /\ head[r] = tip[L.branch] BY <2>2, <2>3, <3>1 DEF HeadInv
    <3>3. head[r] \in 1..Len(log) /\ LogOK BY <3>1, ReachableIs DEF TypeInv
    <3>4. log[head[r]].chain \subseteq log[head[r]].reach BY <3>3 DEF LogOK, CommitOK
    <3> QED BY <1>6, <3>1, <3>2, <3>4 DEF Unseen
  <2> QED BY <1>2, <1>7, <2>2, <2>3 DEF Unmet
<1> QED BY <1>3, <1>4, <1>5, <1>8 DEF SpansInv

LEMMA RecordSpans ==
  ASSUME TypeInv, HeadInv, SpotInv, PollInv, LoneInv, ChainInv, Record
  PROVE  SpansInv'
<1>1. /\ UNCHANGED <<env, gitVars, cursor, replay, rework>> /\ pc = "record" /\ pc' = "idle"
      /\ recorded' \subseteq recorded \cup emitted /\ seen' = {} /\ emitted' = {}
  BY DEF Record, EndPoll, Go
<1>2. UNCHANGED <<env, log, gone, tip, on, head, cursor, replay, rework>> BY <1>1 DEF gitVars
<1>3. Present' = Present /\ HeadInv' BY <1>1, <1>2, LinesRest DEF Present
<1>4. SpotInv' BY <1>2, <1>3 DEF SpotInv
<1>5. PollInv'
  <2>1. \A x \in Root : Rests(x) BY <1>1 DEF PollInv
  <2>2. ASSUME NEW x \in Root PROVE Rests(x)'
    <3>1. Rests(x) BY <2>1
    <3> QED BY <1>2, <3>1 DEF Rests, Stands, Way, Tracks, Placed
  <2> QED BY <1>1, <2>2 DEF PollInv
<1>6. Known' \subseteq Known BY <1>1 DEF Known
<1>7. LoneInv'
  <2> SUFFICES ASSUME NEW r \in Root, Lone(r)'
               PROVE  ~rework[r].missed /\ replay[r] = 0 /\ Unmet(rework[r], cursor[r], {})'
    BY <1>1, <1>2 DEF LoneInv
  <2>1. Lone(r) BY <1>2, <1>3 DEF Lone
  <2>2. ~rework[r].missed /\ replay[r] = 0 /\ Unmet(rework[r], cursor[r], {}) BY <1>1, <2>1 DEF LoneInv
  <2> QED BY <1>2, <1>6, <2>2 DEF Unmet
<1> QED BY <1>3, <1>4, <1>5, <1>7 DEF SpansInv

\* What does not touch the branches, the cursors or the poll.
LEMMA SpansRest ==
  ASSUME HeadInv, SpotInv, PollInv, LoneInv, UNCHANGED <<env, log, gone, tip, on, head, fileVars, pollVars>>
  PROVE  SpansInv'
<1>1. /\ UNCHANGED <<cursor, replay, recorded, rework>>
      /\ UNCHANGED <<pc, todo, found, budget, batch, mode, seen, emitted>>
  BY DEF fileVars, pollVars
<1>2. Present' = Present BY DEF Present
<1>3. HeadInv' /\ SpotInv' BY <1>1, <1>2 DEF HeadInv, SpotInv
<1>4. \A r \in Root : (Rests(r)' <=> Rests(r)) /\ (Waits(r)' <=> Waits(r)) /\ (Busy(r)' <=> Busy(r))
  <2> SUFFICES ASSUME NEW r \in Root
               PROVE  (Rests(r)' <=> Rests(r)) /\ (Waits(r)' <=> Waits(r)) /\ (Busy(r)' <=> Busy(r))
    OBVIOUS
  <2>2. Rests(r)' <=> Rests(r) BY <1>1 DEF Rests, Stands, Way, Tracks, Placed
  <2>3. Waits(r)' <=> Waits(r) BY <1>1 DEF Waits, Waiting, Now, Stands, Way, Tracks, Placed
  <2>4. Busy(r)' <=> Busy(r) BY <1>1 DEF Busy, Stands, Way, Tracks, Placed
  <2> QED BY <2>2, <2>3, <2>4
<1>5. \A r \in Root : (Visited(r)' <=> Visited(r)) /\ (Unvisited(r)' <=> Unvisited(r))
  BY <1>1 DEF Visited, VisitOK, Unvisited, Chain
<1>6. PollInv'
  <2>1. First(todo)' = First(todo) BY <1>1 DEF First
  <2> QED BY <1>1, <1>2, <1>4, <1>5, <2>1 DEF PollInv
<1>7. LoneInv' BY <1>1, <1>2 DEF LoneInv, Lone, Unmet, Known, Now
<1> QED BY <1>3, <1>6, <1>7 DEF SpansInv

\* Where every branch keeps its commits, there is nothing to prune.
LEMMA NothingGone == ASSUME TypeInv, HeadInv PROVE ~Prune
<1> SUFFICES ASSUME Prune PROVE FALSE OBVIOUS
<1>1. gone' = Commit \ Reachable /\ gone' # {} BY DEF Prune, HeadInv
<1>2. Commit = 1..Len(log) BY DEF TypeInv, LogOK, Commit
<1>3. PICK c \in 1..Len(log) : c \notin Reachable BY <1>1, <1>2
<1>4. PICK b \in Branch : tip[b] # 0 /\ c \in log[tip[b]].reach BY DEF HeadInv
<1>5. tip[b] \in TipsOf(tip) BY <1>4 DEF TipsOf
<1>6. log[tip[b]].reach \subseteq Reachable BY <1>5, ReachableIs DEF TypeInv
<1> QED BY <1>3, <1>4, <1>6

\* The lines of the commits hold wherever git moves, the promise or none.
LEMMA GitMoveLines ==
  ASSUME TypeInv, ChainInv, NEW r \in Root, GitMove(r)
  PROVE  ChainInv'
<1>1. LogOK /\ Repository /\ env' = env BY GitMoveResult DEF TypeInv, GitResult
<1>2. CASE Switch(r) \/ Detach(r) \/ Reattach(r) \/ AddWorktree(r) \/ FastForward(r)
  <2>1. log' = log BY <1>2 DEF Switch, Detach, Reattach, AddWorktree, FastForward
  <2> QED BY <1>1, <2>1 DEF ChainInv
<1>3. CASE MakeCommit(r)
  <2>1. head[r] \in 1..Len(log) BY <1>1, <1>3, ReachableIs DEF MakeCommit
  <2>2. PICK s \in Shapes, own \in BOOLEAN : Fits(s, log[head[r]].files) /\ log' = Append(log, Entry(head[r], own, s))
    BY <1>3 DEF MakeCommit
  <2>3. NewOK(Entry(head[r], own, s)) /\ LineOK(Entry(head[r], own, s))
    BY <1>1, <2>1, <2>2, EntryOK, EntryLine DEF TypeInv
  <2> QED BY <1>1, <2>2, <2>3, ChainGrows
<1>4. CASE Amend(r)
  <2> DEFINE f == log[head[r]].first
  <2>1. r \in Present /\ f # 0 BY <1>4 DEF Amend, Present, Branch, Default, Absent
  <2>2. head[r] \in 1..Len(log) BY <1>1, <2>1, ReachableIs
  <2>3. f \in 1..Len(log) BY <1>1, <2>1, <2>2 DEF LogOK, CommitOK
  <2>4. PICK s \in Shapes : Fits(s, log[f].files) /\ log' = Append(log, Entry(f, TRUE, s)) BY <1>4 DEF Amend
  <2> HIDE DEF f
  <2>5. NewOK(Entry(f, TRUE, s)) /\ LineOK(Entry(f, TRUE, s)) BY <1>1, <2>3, <2>4, EntryOK, EntryLine DEF TypeInv
  <2> QED BY <1>1, <2>4, <2>5, ChainGrows
<1>5. CASE Merge(r)
  <2>1. PICK e : Merged(r, e) BY <1>5, MergeEntry
  <2>2. "merge" \in env.may BY <1>5 DEF Merge, May
  <2>3. LineOK(e) BY <2>1, <2>2 DEF LineOK, Merged
  <2> QED BY <1>1, <2>1, <2>3, ChainGrows DEF Merged
<1> QED BY <1>2, <1>3, <1>4, <1>5 DEF GitMove

LEMMA InitSpans ==
  ASSUME Init
  PROVE  ChainInv /\ SpansInv
<1> DEFINE first == Head(RootOrder)
           e == [first |-> 0, own |-> TRUE, change |-> [kind |-> "add", path |-> AnyPath, to |-> AnyPath],
                 reach |-> {1}, chain |-> {1},
                 files |-> [p \in Path |-> IF p = AnyPath THEN 1 ELSE 0]]
<1>1. TypeInv BY InitType
<1>2. log = <<e>> BY DEF Init
<1>3. e.first = 0 /\ e.reach = {1} /\ e.chain = {1} OBVIOUS
<1> HIDE DEF e
<1>4. Len(log) = 1 /\ log[1] = e BY <1>2
<1>5. \A c \in 1..Len(log) : c = 1 BY <1>4
<1>6. ChainInv BY <1>3, <1>4, <1>5 DEF ChainInv, ChainOK, FilesOK
<1>7. first \in Root
  <2>1. RootOrder \in Seq(Root) /\ RootOrder # <<>> BY GitWatchAssumption
  <2> QED BY <2>1
<1> HIDE DEF first
<1>8. /\ on = [r \in Root |-> IF r = first THEN Default ELSE Absent]
      /\ head = [r \in Root |-> IF r = first THEN 1 ELSE 0]
      /\ tip = [b \in Branch |-> IF b = Default THEN 1 ELSE 0] /\ gone = {}
  BY DEF Init, first
<1>9. Default \in Branch /\ Default # Absent /\ tip[Default] = 1 BY <1>8 DEF Branch, Default, Absent
<1>10. Present = {first} BY <1>7, <1>8, <1>9 DEF Present
<1>11. HeadInv
  <2>1. \A c \in 1..Len(log) : tip[Default] # 0 /\ c \in log[tip[Default]].reach BY <1>3, <1>4, <1>5, <1>9
  <2>2. on[first] = Default /\ head[first] = 1 BY <1>7, <1>8
  <2> QED BY <1>8, <1>9, <1>10, <2>1, <2>2 DEF HeadInv
<1>12. /\ cursor = [r \in Root |-> 0] /\ replay = [r \in Root |-> 0] /\ rework = [r \in Root |-> Ledger]
       /\ pc = "idle" /\ recorded = {} /\ seen = {} /\ emitted = {} /\ todo = {}
  BY DEF Init
<1>13. /\ Ledger.branch = NoBranch /\ Ledger.slid = FALSE /\ Ledger.missed = FALSE BY DEF Ledger
<1>14. SpotInv BY <1>12, <1>13 DEF SpotInv
<1>15. PollInv BY <1>12, <1>13 DEF PollInv, Rests, Stands
<1>16. LoneInv BY <1>12, <1>13 DEF LoneInv, Unmet
<1> QED BY <1>6, <1>11, <1>14, <1>15, <1>16 DEF SpansInv

PlaceInv == TypeInv /\ ChainInv /\ (Straight => SpansInv)

\* A promise that is kept now was kept before.
LEMMA StraightBefore ==
  ASSUME TypeInv, Straight', env' = env, Len(log) <= Len(log'), Len(log') \in Nat
  PROVE  Straight
<1>1. Undisturbed({"amend", "detach", "midpoll", "refused", "showFails", "crash", "ioFails", "rangeFails"})
      /\ ("merge" \in env.may => "fastForward" \notin env.may)
  BY DEF Straight, Undisturbed
<1>2. ASSUME "merge" \in env.may PROVE Whole
  <2>1. Len(log') <= env.cap /\ Cardinality(Root) * Len(log') <= env.total BY <1>2 DEF Straight, Whole
  <2>2. env.cap \in Nat /\ env.total \in Nat BY Bounds DEF TypeInv
  <2>3. Len(log) \in Nat BY DEF TypeInv, LogOK
  <2>4. Cardinality(Root) \in Nat BY RootsFinite, FS_CardinalityType
  <2> DEFINE n == Len(log)
             m == Len(log')
             k == Cardinality(Root)
  <2>5. n <= env.cap BY <2>1, <2>2, <2>3
  <2>6. k * n <= env.total
    <3> HIDE DEF n, m, k
    <3>1. \A a, b, d \in Nat : a <= b => d * a <= d * b
      <4> TAKE a, b, d \in Nat
      <4> QED OBVIOUS
    <3>2. k * n <= k * m BY <2>3, <2>4, <3>1 DEF n, m, k
    <3>3. k * m <= env.total BY <2>1 DEF k, m
    <3>4. k * n \in Nat /\ k * m \in Nat BY <2>3, <2>4 DEF n, m, k
    <3> QED BY <2>2, <3>2, <3>3, <3>4
  <2> QED BY <2>5, <2>6 DEF Whole
<1> QED BY <1>1, <1>2 DEF Straight

LEMMA PollSpans ==
  ASSUME TypeInv, ChainInv, SpansInv, Straight, Poll
  PROVE  SpansInv'
<1>1. HeadInv /\ SpotInv /\ PollInv /\ LoneInv BY DEF SpansInv
<1>2. CASE StartPoll BY <1>1, <1>2, StartPollSpans
<1>3. CASE OffHead BY <1>1, <1>3, OffHeadSpans
<1>4. CASE Record BY <1>1, <1>4, RecordSpans
<1>5. CASE \E r \in Root : PollHead(r) BY <1>1, <1>5, PollHeadSpans
<1>6. CASE \E r \in Root : BindRoot(r) BY <1>1, <1>6, BindRootSpans
<1>7. CASE \E r \in Root : AttributeCommit(r) BY <1>1, <1>7, AttributeCommitSpans
<1>8. CASE \E saved \in BOOLEAN : SaveCursors(saved) BY <1>1, <1>8, SaveCursorsSpans
<1> QED BY <1>2, <1>3, <1>4, <1>5, <1>6, <1>7, <1>8 DEF Poll

LEMMA NextSpans ==
  ASSUME PlaceInv, [Next]_vars
  PROVE  PlaceInv'
<1>1. TypeInv /\ ChainInv /\ (Straight => SpansInv) BY DEF PlaceInv
<1>2. TypeInv' BY <1>1, NextType
<1>3. ASSUME UNCHANGED <<env, log>>, Straight /\ SpansInv => SpansInv' PROVE PlaceInv'
  <2>1. ChainInv' BY <1>1, <1>3 DEF ChainInv
  <2>2. Straight' <=> Straight BY <1>3 DEF Straight, Undisturbed, Whole
  <2> QED BY <1>1, <1>2, <1>3, <2>1, <2>2 DEF PlaceInv
<1>4. CASE Poll
  <2>1. UNCHANGED <<env, log>> BY <1>4, PollKeeps DEF gitVars
  <2>2. Straight /\ SpansInv => SpansInv' BY <1>1, <1>4, PollSpans
  <2> QED BY <1>3, <2>1, <2>2
<1>5. CASE Crash
  <2>1. UNCHANGED <<env, log>> BY <1>5 DEF Crash, gitVars
  <2>2. ~Straight BY <1>5 DEF Crash, Outcome, May, Straight, Undisturbed
  <2> QED BY <1>3, <2>1, <2>2
<1>6. CASE Prune
  <2>1. UNCHANGED <<env, log>> BY <1>6 DEF Prune
  <2>2. ~SpansInv BY <1>1, <1>6, NothingGone DEF SpansInv
  <2> QED BY <1>3, <2>1, <2>2
<1>7. CASE Trace \/ UNCHANGED vars \/ \E r \in Root : \E p \in env.paths : AgentWrites(r, p)
  <2>1. UNCHANGED <<env, log, gone, tip, on, head, fileVars, pollVars>>
    BY <1>7 DEF Trace, AgentWrites, vars, gitVars
  <2>2. Straight /\ SpansInv => SpansInv' BY <2>1, SpansRest DEF SpansInv
  <2> QED BY <1>3, <2>1, <2>2
<1>8. CASE \E r \in Root : GitMove(r)
  <2>1. PICK r \in Root : GitMove(r) BY <1>8
  <2>2. ChainInv' BY <1>1, <2>1, GitMoveLines
  <2>3. GitResult BY <1>1, <2>1, GitMoveResult
  <2>4. Kept /\ Present \subseteq Present' /\ UNCHANGED <<env, fileVars, pollVars>> BY <2>3 DEF GitResult
  <2>5. ASSUME Straight' PROVE SpansInv'
    <3>1. Straight BY <1>1, <2>4, <2>5, StraightBefore DEF Kept
    <3>2. HeadInv /\ SpotInv /\ PollInv /\ LoneInv BY <1>1, <3>1 DEF SpansInv
    <3>3. GitSpans BY <1>1, <2>1, <3>1, <3>2, GitMoveSpans
    <3>4. pc = "idle"
      <4>1. "midpoll" \notin env.may BY <3>1 DEF Straight, Undisturbed
      <4> QED BY <2>1, <4>1 DEF GitMove, MakeCommit, Switch, Detach, Reattach, AddWorktree, Merge,
                                FastForward, Amend, Move, BetweenSteps, May
    <3> QED BY <1>1, <2>4, <3>2, <3>3, <3>4, GitKeepsSpans
  <2> QED BY <1>2, <2>2, <2>5 DEF PlaceInv
<1> QED BY <1>4, <1>5, <1>6, <1>7, <1>8 DEF Next, Git, GitMove

\* Where no commit is lost, git lists every range and no HEAD goes back or aside, whatever
\* the clamps, the other probes that fail, the adoptions, cold starts, replays and renames: the hunks of a commit are only
\* applied to spans that stand in the content it was made on (applyReworkHunks, reached from
\* pollGitWatchWorkspace), unless a commit was left out before; and a lone checkout leaves
\* out none without a fast-forward.
THEOREM SpansStayInPlace == Spec => []SpansInPlace
<1>1. Init => PlaceInv BY InitType, InitSpans DEF PlaceInv
<1>2. PlaceInv /\ [Next]_vars => PlaceInv' BY NextSpans
<1>3. PlaceInv => SpansInPlace
  <2> SUFFICES ASSUME PlaceInv, Straight, NEW r \in Root
               PROVE  /\ rework[r].slid => rework[r].missed
                      /\ rework[r].missed => Present # {r} \/ "fastForward" \in env.may
    BY DEF SpansInPlace, Straight
  <2>1. SpotInv /\ LoneInv BY DEF PlaceInv, SpansInv
  <2>2. rework[r].slid => rework[r].missed BY <2>1 DEF SpotInv
  <2>3. Lone(r) => ~rework[r].missed BY <2>1 DEF LoneInv
  <2> QED BY <2>2, <2>3 DEF Lone
<1> QED BY <1>1, <1>2, <1>3, PTL DEF Spec

-----------------------------------------------------------------------------
(* What the cursors are over has been reported.                             *)

Mine == {c \in 1..Len(log) : log[c].own /\ Added(c) # {}}

\* What need not be reported any more.
Reported == sent \cup skipped \cup declined
Told     == Reported \cup baseline

\* What is under the cursor K, or else under the end of the replay R that is owed and not
\* in that replay, has been told or is in S.
AnswersIn(l, mine, told, K, R, S) ==
  /\ K = 0 => R = 0
  /\ K # 0 /\ R = 0 => l[K].reach \cap mine \subseteq told \cup S
  /\ R # 0 => (l[R].reach \ (l[R].chain \ l[K].reach)) \cap mine \subseteq told \cup S

Answers(K, R, S) == AnswersIn(log, Mine, Told, K, R, S)

TellInv ==
  /\ Known \cap Mine \subseteq Reported
  /\ \A r \in Root : /\ found[r].commits # {} => r \in Present
                     /\ Answers(cursor[r], replay[r], Pending(r))
  /\ pc = "heads" =>
       \A r \in Root : /\ r \in todo => Unvisited(r)
                       /\ Answers(found[r].to, found[r].owed, found[r].commits \cup found[r].unseen)

LEMMA MineKept ==
  ASSUME LogOK, Kept
  PROVE  Mine' \cap (1..Len(log)) = Mine /\ Mine \subseteq Mine'
<1>1. Len(log) \in Nat /\ Len(log') \in Nat /\ Len(log) <= Len(log') /\ \A c \in 1..Len(log) : log'[c] = log[c]
  BY DEF LogOK, Kept
<1>2. ASSUME NEW c \in 1..Len(log) PROVE Added(c)' = Added(c)
  <2>1. log'[c] = log[c] BY <1>1
  <2>2. log[c].change.kind = "merge" => log[c].first \in 1..Len(log)
    <3>1. CommitOK(log, c) /\ log[c] \in CommitType BY DEF LogOK
    <3>2. log[c].first \in Nat /\ log[c].first < c BY <3>1 DEF CommitOK, CommitType
    <3> QED BY <1>1, <3>1, <3>2 DEF CommitOK
  <2>3. log[c].change.kind = "merge" => log'[log[c].first] = log[log[c].first] BY <1>1, <2>2
  <2> QED BY <2>1, <2>3 DEF Added, Hunked
<1>3. 1..Len(log) \subseteq 1..Len(log') BY <1>1
<1>4. \A c \in 1..Len(log) : c \in Mine' <=> c \in Mine BY <1>1, <1>2, <1>3 DEF Mine
<1> QED BY <1>3, <1>4 DEF Mine

\* What was answered for still is, when commits are added and more is told.
LEMMA AnswersOn ==
  ASSUME LogOK, NEW l, \A c \in 1..Len(log) : l[c] = log[c], NEW mine, mine \cap (1..Len(log)) = Mine,
         NEW told, Told \subseteq told, NEW K \in 0..Len(log), NEW R \in 0..Len(log), NEW S, NEW T,
         S \cap Mine \subseteq told \cup T, Answers(K, R, S)
  PROVE  AnswersIn(l, mine, told, K, R, T)
<1>1. Len(log) \in Nat BY DEF LogOK
<1>2. \A c \in 0..Len(log) : c # 0 => /\ c \in 1..Len(log) /\ l[c] = log[c] /\ log[c].reach \subseteq 1..Len(log)
  <2> SUFFICES ASSUME NEW c \in 0..Len(log), c # 0
               PROVE  c \in 1..Len(log) /\ log[c].reach \subseteq 1..Len(log)
    OBVIOUS
  <2>1. c \in 1..Len(log) /\ 1..c \subseteq 1..Len(log) BY <1>1
  <2> QED BY <2>1 DEF LogOK, CommitOK
<1>3. K = 0 => R = 0 BY DEF Answers, AnswersIn
<1>4. ASSUME K # 0, R = 0 PROVE l[K].reach \cap mine \subseteq told \cup T
  <2>1. log[K].reach \cap Mine \subseteq Told \cup S BY <1>4 DEF Answers, AnswersIn
  <2>2. l[K].reach \cap mine = log[K].reach \cap Mine BY <1>2, <1>4
  <2> QED BY <2>1, <2>2
<1>5. ASSUME R # 0 PROVE (l[R].reach \ (l[R].chain \ l[K].reach)) \cap mine \subseteq told \cup T
  <2>1. (log[R].reach \ (log[R].chain \ log[K].reach)) \cap Mine \subseteq Told \cup S BY <1>5 DEF Answers, AnswersIn
  <2>2. l[R] = log[R] /\ l[K] = log[K] /\ log[R].reach \subseteq 1..Len(log) BY <1>2, <1>3, <1>5
  <2> QED BY <2>1, <2>2
<1> QED BY <1>3, <1>4, <1>5 DEF AnswersIn

\* The steps after the cursors are saved.
LEMMA TellPast ==
  ASSUME TypeInv, TellInv, UNCHANGED <<log, on, cursor, replay, baseline>>, Reported \subseteq Reported',
         Known' \cap Mine \subseteq Reported', pc' # "heads",
         \A r \in Root : /\ found'[r].commits # {} => found[r].commits # {}
                         /\ Pending(r) \cap Mine \subseteq Reported' \cup Pending(r)'
  PROVE  TellInv'
<1>1. LogOK /\ Mine' = Mine /\ Present' = Present /\ Told \subseteq Told' /\ Reported' \subseteq Told'
  BY DEF TypeInv, Mine, Added, Hunked, Present, Told
<1>2. ASSUME NEW r \in Root PROVE Answers(cursor[r], replay[r], Pending(r))'
  <2>1. Answers(cursor[r], replay[r], Pending(r)) BY DEF TellInv
  <2>2. cursor[r] \in 0..Len(log) /\ replay[r] \in 0..Len(log) BY DEF TypeInv, Files
  <2>3. Pending(r) \cap Mine \subseteq Told' \cup Pending(r)' BY <1>1
  <2>4. Mine \cap (1..Len(log)) = Mine BY DEF Mine
  <2> DEFINE told == Told'
             T == Pending(r)'
  <2> HIDE DEF told, T
  <2>5. AnswersIn(log, Mine, told, cursor[r], replay[r], T)
    BY <1>1, <2>1, <2>2, <2>3, <2>4, AnswersOn DEF told, T
  <2> QED BY <1>1, <2>5 DEF Answers, told, T
<1>3. \A r \in Root : found'[r].commits # {} => r \in Present' BY <1>1 DEF TellInv
<1> QED BY <1>1, <1>2, <1>3 DEF TellInv

\* The steps of git and of the agents.
LEMMA TellStill ==
  ASSUME TypeInv, TellInv, Kept, Present \subseteq Present',
         UNCHANGED <<fileVars, pollVars, sent, skipped, declined, baseline>>
  PROVE  TellInv'
<1>1. LogOK /\ \A c \in 1..Len(log) : log'[c] = log[c] BY DEF TypeInv, Kept
<1>2. Mine' \cap (1..Len(log)) = Mine /\ Mine \subseteq Mine' BY <1>1, MineKept
<1>3. UNCHANGED <<cursor, replay, recorded, pc, todo, found, batch, seen, emitted>> BY DEF fileVars, pollVars
<1>4. Known' = Known /\ Known \subseteq 1..Len(log) /\ Reported' = Reported /\ Told' = Told
  BY <1>3, KnownAre DEF Known, Reported, Told
<1>5. Known' \cap Mine' \subseteq Reported' BY <1>2, <1>4 DEF TellInv
<1>6. \A r \in Root : Pending(r)' = Pending(r) /\ (Unvisited(r)' <=> Unvisited(r))
  BY <1>3 DEF Pending, First, Unvisited
<1>7. ASSUME NEW K \in 0..Len(log), NEW R \in 0..Len(log), NEW S, Answers(K, R, S)
      PROVE  AnswersIn(log', Mine', Told', K, R, S)
  <2> DEFINE l == log'
             mine == Mine'
             told == Told'
  <2>1. /\ \A c \in 1..Len(log) : l[c] = log[c]
        /\ mine \cap (1..Len(log)) = Mine /\ Told \subseteq told
    BY <1>1, <1>2, <1>4
  <2> HIDE DEF l, mine, told
  <2>2. S \cap Mine \subseteq told \cup S OBVIOUS
  <2>3. AnswersIn(l, mine, told, K, R, S) BY <1>1, <1>7, <2>1, <2>2, AnswersOn
  <2> QED BY <2>3 DEF l, mine, told
<1>8. ASSUME NEW r \in Root PROVE Answers(cursor[r], replay[r], Pending(r))'
  <2>1. Answers(cursor[r], replay[r], Pending(r)) BY DEF TellInv
  <2>2. cursor[r] \in 0..Len(log) /\ replay[r] \in 0..Len(log) BY DEF TypeInv, Files
  <2>3. AnswersIn(log', Mine', Told', cursor[r], replay[r], Pending(r)) BY <1>7, <2>1, <2>2
  <2> QED BY <1>3, <1>6, <2>3 DEF Answers
<1>9. ASSUME NEW r \in Root, pc = "heads"
      PROVE  Answers(found[r].to, found[r].owed, found[r].commits \cup found[r].unseen)'
  <2>1. Answers(found[r].to, found[r].owed, found[r].commits \cup found[r].unseen) BY <1>9 DEF TellInv
  <2>2. found[r].to \in 0..Len(log) /\ found[r].owed \in 0..Len(log) BY DEF TypeInv, Progress, FoundType
  <2>3. AnswersIn(log', Mine', Told', found[r].to, found[r].owed, found[r].commits \cup found[r].unseen)
    BY <1>7, <2>1, <2>2
  <2> QED BY <1>3, <2>3 DEF Answers
<1> QED BY <1>3, <1>5, <1>6, <1>8, <1>9 DEF TellInv

LEMMA StartPollTell ==
  ASSUME TypeInv, TellInv, StartPoll
  PROVE  TellInv'
<1>1. /\ UNCHANGED <<log, on, cursor, replay, recorded, seen, emitted, sent, skipped, declined, baseline>>
      /\ pc = "idle" /\ pc' = "heads"
      /\ found' = [r \in Root |-> [Nothing EXCEPT !.to = cursor[r], !.owed = replay[r]]]
  BY DEF StartPoll, Go, gitVars, fileVars, histVars
<1>2. Mine' = Mine /\ Reported' = Reported /\ Told' = Told /\ Known' = Known
  BY <1>1 DEF Mine, Added, Hunked, Reported, Told, Known
<1>3. \A r \in Root : Pending(r) = {} /\ Pending(r)' = {} BY <1>1 DEF Pending
<1>4. \A r \in Root : /\ Unvisited(r)' /\ found'[r].commits = {} /\ found'[r].unseen = {}
                      /\ found'[r].to = cursor[r] /\ found'[r].owed = replay[r]
  BY <1>1 DEF Unvisited, Nothing
<1>5. \A r \in Root : Answers(cursor[r], replay[r], {}) BY <1>3 DEF TellInv
<1>6. \A r \in Root : Answers(cursor[r], replay[r], Pending(r))' BY <1>1, <1>2, <1>3, <1>5 DEF Answers
<1>7. \A r \in Root : Answers(found[r].to, found[r].owed, found[r].commits \cup found[r].unseen)'
  BY <1>1, <1>2, <1>4, <1>5 DEF Answers
<1> QED BY <1>1, <1>2, <1>4, <1>6, <1>7 DEF TellInv

LEMMA SaveCursorsTell ==
  ASSUME TypeInv, TellInv, NEW saved \in BOOLEAN, SaveCursors(saved)
  PROVE  TellInv'
<1>1. /\ UNCHANGED <<log, on, recorded, found, emitted, sent, declined, baseline>>
      /\ pc = "heads" /\ pc' = "bind" /\ todo' = Present /\ seen' \subseteq recorded /\ skipped \subseteq skipped'
  BY DEF SaveCursors, Go, gitVars
<1>2. /\ LogOK /\ Mine' = Mine /\ Reported \subseteq Reported' /\ Told \subseteq Told'
      /\ Known' \subseteq Known /\ Present' = Present
  BY <1>1 DEF TypeInv, Mine, Added, Hunked, Reported, Told, Known, Present
<1>0. Known' \cap Mine \subseteq Reported' BY <1>2 DEF TellInv
<1>3. \A r \in Root : Pending(r) = {} /\ Pending(r)' = found[r].commits BY <1>1 DEF Pending, TellInv
<1>4. CASE saved
  <2>1. \A r \in Root : /\ cursor'[r] = found[r].to /\ replay'[r] = found[r].owed
                        /\ found[r].unseen \subseteq skipped'
    BY <1>4 DEF SaveCursors
  <2>2. ASSUME NEW r \in Root PROVE Answers(cursor[r], replay[r], Pending(r))'
    <3> DEFINE told == Told'
               K == found[r].to
               R == found[r].owed
               S == found[r].commits \cup found[r].unseen
               T == found[r].commits
    <3>1. Answers(K, R, S) BY <1>1 DEF TellInv
    <3>2. K \in 0..Len(log) /\ R \in 0..Len(log) BY DEF TypeInv, Progress, FoundType
    <3>3. S \subseteq told \cup T /\ Told \subseteq told BY <1>2, <2>1 DEF Told, Reported
    <3>4. Mine \cap (1..Len(log)) = Mine BY DEF Mine
    <3> HIDE DEF told, K, R, S, T
    <3>5. AnswersIn(log, Mine, told, K, R, T) BY <1>2, <3>1, <3>2, <3>3, <3>4, AnswersOn
    <3>6. cursor'[r] = K /\ replay'[r] = R /\ Pending(r)' = T BY <1>3, <2>1 DEF K, R, T
    <3> QED BY <1>1, <1>2, <3>5, <3>6 DEF Answers, told
  <2> QED BY <1>0, <1>1, <1>2, <2>2 DEF TellInv
<1>5. CASE ~saved
  <2>1. UNCHANGED <<cursor, replay>> BY <1>5 DEF SaveCursors
  <2> QED BY <1>0, <1>1, <1>2, <1>3, <2>1, TellPast
<1> QED BY <1>4, <1>5

LEMMA BindRootTell ==
  ASSUME TypeInv, TellInv, NEW r \in Root, BindRoot(r)
  PROVE  TellInv'
<1>1. /\ UNCHANGED <<log, on, cursor, replay, recorded, found, seen, emitted, sent, skipped, declined, baseline>>
      /\ pc = "bind" /\ todo # {} /\ r = First(todo) /\ batch' = found[r].commits
      /\ IF found[r].commits = {} THEN pc' = "bind" /\ todo' = todo \ {r} ELSE pc' = "commits" /\ todo' = todo
  BY DEF BindRoot, At, Go, Rest, gitVars, histVars
<1>2. Known' = Known /\ Reported' = Reported BY <1>1 DEF Known, Reported
<1>3. ASSUME NEW x \in Root PROVE Pending(x) \subseteq Pending(x)'
  <2>1. Pending(x) = IF x \in todo THEN found[x].commits ELSE {} BY <1>1 DEF Pending
  <2>2. CASE found[r].commits = {} BY <1>1, <2>1, <2>2 DEF Pending
  <2>3. CASE found[r].commits # {} BY <1>1, <2>1, <2>3 DEF Pending
  <2> QED BY <2>2, <2>3
<1>4. pc' # "heads" BY <1>1
<1>5. Known' \cap Mine \subseteq Reported' BY <1>1, <1>2 DEF TellInv
<1> QED BY <1>1, <1>2, <1>3, <1>4, <1>5, TellPast

LEMMA AttributeCommitTell ==
  ASSUME TypeInv, TellInv, NEW r \in Root, AttributeCommit(r)
  PROVE  TellInv'
<1> DEFINE c == Min(batch)
           left == batch \ {c}
<1>1. /\ UNCHANGED <<log, on, cursor, replay, recorded, found, baseline>>
      /\ pc = "commits" /\ todo # {} /\ r = First(todo) /\ batch' = left
      /\ IF left = {} THEN pc' = "bind" /\ todo' = todo \ {r} ELSE pc' = "commits" /\ todo' = todo
  BY DEF AttributeCommit, At, Go, Rest, gitVars
<1>2. /\ sent \subseteq sent' /\ skipped \subseteq skipped' /\ declined \subseteq declined'
      /\ \/ c \in seen /\ UNCHANGED <<seen, emitted>>
         \/ c \in declined' /\ UNCHANGED <<seen, emitted>>
         \/ /\ ~(log[c].own /\ Added(c) # {}) \/ c \in sent' \cup skipped'
            /\ seen' = seen \cup {c} /\ emitted' = emitted \cup {c}
  <2> HIDE DEF c
  <2> QED BY DEF AttributeCommit, Remember, Send, c
<1>3. batch # {} /\ batch \subseteq 1..Len(log) /\ todo \in SUBSET Root BY <1>1 DEF TypeInv, Progress, Present
<1>4. c \in batch /\ LogOK /\ c \in 1..Len(log)
  <2>1. LogOK BY DEF TypeInv
  <2>2. c \in batch BY <1>3, <2>1, LatestIn
  <2> HIDE DEF c
  <2> QED BY <1>3, <2>1, <2>2
<1> HIDE DEF c
<1>5. Reported \subseteq Reported' /\ Known' \subseteq Known \cup {c} /\ (c \in Mine => c \in Reported')
  <2>1. c \in seen /\ c \in Mine => c \in Reported BY DEF TellInv, Known
  <2>2. Reported \subseteq Reported' BY <1>2 DEF Reported
  <2> QED BY <1>1, <1>2, <2>1, <2>2 DEF Known, Mine, Reported
<1>6. Known' \cap Mine \subseteq Reported' BY <1>5 DEF TellInv
<1>7. ASSUME NEW x \in Root PROVE Pending(x) \cap Mine \subseteq Reported' \cup Pending(x)'
  <2>1. r \in todo BY <1>1, <1>3, FirstIn
  <2>2. Pending(x) = IF x \in todo THEN IF x = r THEN batch ELSE found[x].commits ELSE {} BY <1>1 DEF Pending
  <2>3. CASE left = {}
    <3>1. Pending(x)' = IF x \in todo \ {r} THEN found[x].commits ELSE {} BY <1>1, <2>3 DEF Pending
    <3> QED BY <1>5, <2>2, <2>3, <3>1
  <2>4. CASE left # {}
    <3>1. pc' = "commits" /\ todo' = todo /\ First(todo)' = r BY <1>1, <2>4
    <3>2. Pending(x)' = IF x \in todo THEN IF x = r THEN left ELSE found[x].commits ELSE {}
      BY <1>1, <3>1 DEF Pending
    <3> QED BY <1>5, <2>2, <3>2
  <2> QED BY <2>3, <2>4
<1>8. pc' # "heads" BY <1>1
<1> QED BY <1>1, <1>5, <1>6, <1>7, <1>8, TellPast

LEMMA OffHeadTell ==
  ASSUME TypeInv, TellInv, OffHead
  PROVE  TellInv'
<1>1. /\ UNCHANGED <<log, on, cursor, replay, recorded, found, declined, baseline>>
      /\ todo = {} /\ pc' = "record" /\ todo' = {}
  BY DEF OffHead, Go, gitVars
<1>2. PICK few \in SUBSET (1..Len(log)), n \in Int : \E out, done \in SUBSET few : OffHeadWith(few, n, out, done)
  BY OffHeadIs DEF OffHeadDoes
<1>a. PICK out \in SUBSET few, done \in SUBSET few : OffHeadWith(few, n, out, done) BY <1>2
<1>3. /\ seen' = seen \cup done /\ emitted' = emitted \cup done /\ sent' = sent \cup out
      /\ skipped \subseteq skipped' /\ \A c \in done \ out : Added(c) = {} \/ c \in skipped'
  BY <1>a DEF OffHeadWith, Send
<1>4. Known' \subseteq Known \cup done /\ Reported \subseteq Reported' BY <1>1, <1>3 DEF Known, Reported
<1>b. done \cap Mine \subseteq Reported' BY <1>3 DEF Mine, Reported
<1>5. Known' \cap Mine \subseteq Reported' BY <1>4, <1>b DEF TellInv
<1>6. \A x \in Root : Pending(x) = {} BY <1>1 DEF Pending
<1> QED BY <1>1, <1>4, <1>5, <1>6, TellPast

LEMMA RecordTell ==
  ASSUME TypeInv, TellInv, Record
  PROVE  TellInv'
<1>1. /\ UNCHANGED <<log, on, cursor, replay, sent, skipped, declined, baseline>> /\ pc = "record" /\ pc' = "idle"
      /\ recorded' \subseteq recorded \cup emitted /\ seen' = {} /\ emitted' = {}
      /\ found' = [r \in Root |-> Nothing]
  BY DEF Record, EndPoll, Go, gitVars
<1>2. Known' \subseteq Known /\ Reported' = Reported BY <1>1 DEF Known, Reported
<1>3. Known' \cap Mine \subseteq Reported' BY <1>1, <1>2 DEF TellInv
<1>4. \A x \in Root : Pending(x) = {} /\ found'[x].commits = {} BY <1>1 DEF Pending, Nothing
<1> QED BY <1>1, <1>2, <1>3, <1>4, TellPast

LEMMA CrashTell ==
  ASSUME TypeInv, TellInv, Crash
  PROVE  TellInv'
<1>1. /\ UNCHANGED <<log, on, cursor, replay, recorded, sent, declined, baseline>> /\ pc' = "idle"
      /\ seen' = {} /\ emitted' = {} /\ found' = [r \in Root |-> Nothing]
      /\ skipped \subseteq skipped' /\ \A r \in Root : Pending(r) \subseteq skipped'
  BY DEF Crash, EndPoll, Go, gitVars, fileVars
<1>2. Known' \subseteq Known /\ Reported \subseteq Reported' BY <1>1 DEF Known, Reported
<1>3. Known' \cap Mine \subseteq Reported' BY <1>2 DEF TellInv
<1>4. \A x \in Root : Pending(x) \subseteq Reported' /\ found'[x].commits = {} BY <1>1 DEF Nothing, Reported
<1> QED BY <1>1, <1>2, <1>3, <1>4, TellPast

\* What the visit of a HEAD finds answers for what the cursor will be over.
Tells(r, g) ==
  /\ found' = [found EXCEPT ![r] = g]
  /\ AnswersIn(log, Mine, Told', g.to, g.owed, g.commits \cup g.unseen)

\* The oldest of a chain, and what is left of it.
LEMMA ChainLeft ==
  ASSUME LogOK, NEW old \in 1..Len(log), NEW t \in 1..Len(log), NEW n \in Int, NEW k \in Int,
         Oldest(Oldest(Chain(old, t), n), k) # {}
  PROVE  LET take == Oldest(Oldest(Chain(old, t), n), k)
         IN  Max(take) \in 1..Len(log) /\ Chain(old, t) \ Chain(Max(take), t) \subseteq take
<1> DEFINE all == Chain(old, t)
           take == Oldest(Oldest(all, n), k)
           m == Max(take)
<1>1. CommitOK(log, t) /\ Len(log) \in Nat BY DEF LogOK
<1>2. 1..t \subseteq 1..Len(log) BY <1>1
<1>3. all \in SUBSET (1..Len(log)) /\ all \subseteq log[t].chain BY <1>1, <1>2 DEF Chain, CommitOK
<1>4. take \subseteq all BY SelectedIn
<1>5. m \in take
  <2>1. take # {} /\ take \in SUBSET (1..Len(log)) BY <1>3, <1>4
  <2> HIDE DEF take
  <2> QED BY <2>1, LatestIn
<1>6. \A x \in all : x <= m => x \in take
  <2> HIDE DEF all, m
  <2> QED BY <1>3, <1>5, OldestDown
<1>7. m \in 1..Len(log) BY <1>3, <1>4, <1>5
<1> HIDE DEF m
<1>8. log[m].reach \subseteq 1..m BY <1>7 DEF LogOK, CommitOK
<1>9. \A x \in all : x \notin Chain(m, t) => x <= m BY <1>3, <1>7, <1>8 DEF Chain
<1> HIDE DEF all, take
<1>10. all \ Chain(m, t) \subseteq take BY <1>6, <1>9
<1> QED BY <1>7, <1>10 DEF all, take, m

LEMMA PollHeadTells ==
  ASSUME TypeInv, TellInv, NEW r \in Root, PollHead(r)
  PROVE  \E g : Tells(r, g)
<1>0. PICK based \in BOOLEAN, lists \in BOOLEAN : Visit(r, based, lists) BY DEF PollHead
<1> DEFINE h       == head[r]
           cold    == cursor[r] = 0
           recent  == IF cold /\ \E x \in Root : cursor[x] # 0 THEN RecentBase(h) ELSE 0
           base    == IF based THEN recent ELSE 0
           old     == IF cold THEN base ELSE cursor[r]
           target  == IF cold THEN h ELSE replay[r]
           replays == target # 0
           listed  == lists /\ {old, target} \cap gone = {}
           range   == IF replays THEN Oldest(Chain(old, target), env.cap)
                      ELSE IF old = h THEN {} ELSE NewCommits(old, h, listed)
           take    == Oldest(range, budget)
           f       == [found[r] EXCEPT !.cold = IF cold THEN h ELSE 0]
           back    == IF cold THEN [f EXCEPT !.to = old, !.owed = target] ELSE f
           last    == range = {} \/ target \in take
           Found(g) == found' = [found EXCEPT ![r] = g]
           Took(g)  == Found([g EXCEPT !.commits = take]) \/ Found(back)
           lost    == IF recent = 0 THEN {} ELSE Chain(recent, h)
           given   == Between(old, h) \cup Chain(old, target) \cup Between(target, h)
           passing == IF listed THEN {} ELSE Between(old, Max(take)) \ take
<1>1. \/ cold /\ base = 0 /\ Found([f EXCEPT !.to = h, !.drained = TRUE, !.unseen = lost])
      \/ old # 0 /\ ~replays /\ range = {} /\ Found([f EXCEPT !.to = h, !.drained = TRUE])
      \/ old # 0 /\ replays /\ Found([f EXCEPT !.to = h, !.owed = 0, !.unseen = given])
      \/ old # 0 /\ replays /\ Found([f EXCEPT !.to = old, !.owed = target])
      \/ old # 0 /\ ~replays /\ Found(f)
      \/ /\ old # 0 /\ replays /\ (range = {} \/ take # {})
         /\ Took([f EXCEPT !.to = IF last THEN target ELSE Max(take),
                           !.owed = IF last THEN 0 ELSE target,
                           !.drained = last /\ target = h])
      \/ /\ old # 0 /\ ~replays /\ take # {}
         /\ Took([f EXCEPT !.to = Max(take), !.fold = Foldable(old, h, listed), !.drained = Max(take) = h,
                           !.unseen = passing])
  <2> HIDE DEF h, recent, base, old, listed, range, take
  <2> QED BY <1>0 DEF Visit, h, recent, base, old, listed, range, take
<1>2. cold => (IF recent = 0 THEN log[h].reach ELSE log[h].reach \ Chain(recent, h)) \subseteq Told'
  <2> HIDE DEF recent, h
  <2> QED BY <1>0 DEF Visit, Told, h, recent
<1>b. (base # 0 => base = recent) /\ lost = (IF recent = 0 THEN {} ELSE Chain(recent, h)) OBVIOUS
<1>3. /\ LogOK /\ Repository /\ Files /\ Progress /\ env \in Environments /\ budget \in Int
      /\ Len(log) \in Nat /\ 1..Len(log) \subseteq 0..Len(log) /\ env.cap \in Nat \ {0}
  BY Bounds DEF TypeInv, Progress, LogOK
<1>4. /\ r \in todo /\ pc = "heads" /\ h \in 1..Len(log) /\ Reported' = Reported
  <2>1. /\ todo \in SUBSET Root /\ todo # {} /\ r = First(todo) /\ todo \subseteq Present /\ pc = "heads"
    BY <1>3 DEF PollHead, At, Progress, Present
  <2>2. Reported' = Reported BY DEF PollHead, Reported
  <2> QED BY <1>3, <2>1, <2>2, FirstIn, ReachableIs
<1>5. f = [Nothing EXCEPT !.to = cursor[r], !.owed = replay[r], !.cold = IF cold THEN h ELSE 0]
  <2>1. Unvisited(r) BY <1>4 DEF TellInv
  <2> QED BY <2>1 DEF Unvisited, Nothing
<1>6. /\ cursor[r] \in 0..Len(log) /\ replay[r] \in 0..Len(log) /\ Answers(cursor[r], replay[r], {})
      /\ cold => replay[r] = 0
  <2>1. Pending(r) = {} BY <1>4 DEF Pending
  <2>2. Answers(cursor[r], replay[r], {}) BY <2>1 DEF TellInv
  <2> QED BY <1>3, <2>2 DEF Files, Answers, AnswersIn
<1>7. Told \subseteq Told'
  <2>1. \E S : baseline' = baseline \cup S BY <1>0, Zenon DEF Visit
  <2> QED BY <1>4, <2>1 DEF Told
<1>8. base # 0 => base \in 1..Len(log)
  <2>1. RecentBase(h) \in 0..Len(log) BY <1>3, <1>4, RecentBaseIn
  <2> HIDE DEF h
  <2> QED BY <1>3, <2>1
<1>9. h # 0 BY <1>3, <1>4
<1> HIDE DEF h, recent, base, lost
<1>10. cold => old = base /\ target = h OBVIOUS
<1>11. ~cold => old = cursor[r] /\ target = replay[r] OBVIOUS
<1>12. old # 0 => old \in 1..Len(log) BY <1>3, <1>6, <1>8, <1>10, <1>11
<1>13. replays => target \in 1..Len(log) BY <1>3, <1>4, <1>6, <1>10, <1>11
<1>14. ~replays => ~cold /\ replay[r] = 0 BY <1>9, <1>10, <1>11
<1>15. old # 0 /\ replays => (log[target].reach \ Chain(old, target)) \cap Mine \subseteq Told'
  <2>1. CASE cold BY <1>2, <1>8, <1>10, <1>b, <2>1
  <2>2. CASE ~cold
    <3> SUFFICES ASSUME replay[r] # 0 PROVE (log[replay[r]].reach \ Chain(cursor[r], replay[r])) \cap Mine \subseteq Told'
      BY <1>11, <2>2
    <3> QED BY <1>6, <1>7 DEF Answers, AnswersIn, Chain
  <2> QED BY <2>1, <2>2
<1>16. ~cold /\ replay[r] = 0 => log[cursor[r]].reach \cap Mine \subseteq Told'
  BY <1>6, <1>7 DEF Answers, AnswersIn
<1>17. AnswersIn(log, Mine, Told', cursor[r], replay[r], {})
  <2>1. CASE cold BY <1>6, <2>1 DEF AnswersIn
  <2>2. CASE ~cold BY <1>6, <1>7, <2>2 DEF Answers, AnswersIn
  <2> QED BY <2>1, <2>2
<1>c. given = Between(old, h) \cup Chain(old, target) \cup Between(target, h)
      /\ passing = (IF listed THEN {} ELSE Between(old, Max(take)) \ take)
  BY DEF given, passing
<1> HIDE DEF listed, range, take, target, old, f, cold, given, passing
<1>18. old # 0 /\ replays => AnswersIn(log, Mine, Told', old, target, {}) BY <1>15 DEF AnswersIn, Chain
<1>a. cold <=> cursor[r] = 0 BY DEF cold
<1>19. old # 0 /\ Found(back) => \E g : Tells(r, g)
  <2> SUFFICES ASSUME old # 0, Found(back) PROVE Tells(r, back) OBVIOUS
  <2>1. CASE cold
    <3>1. back.to = old /\ back.owed = target /\ back.commits \cup back.unseen = {} BY <1>5, <2>1 DEF Nothing
    <3>2. replays BY <1>9, <1>10, <2>1
    <3> HIDE DEF back
    <3> QED BY <1>18, <3>1, <3>2 DEF Tells
  <2>2. CASE ~cold BY <1>5, <1>17, <2>2 DEF Tells, Nothing
  <2> QED BY <2>1, <2>2
<1>20. CASE cold /\ base = 0 /\ Found([f EXCEPT !.to = h, !.drained = TRUE, !.unseen = lost])
  <2> DEFINE g == [f EXCEPT !.to = h, !.drained = TRUE, !.unseen = lost]
  <2>1. g.to = h /\ g.owed = 0 /\ g.commits \cup g.unseen = lost BY <1>5, <1>6, <1>20 DEF Nothing
  <2>2. Found(g) BY <1>20
  <2> HIDE DEF g
  <2>3. log[h].reach \subseteq Told' \cup lost BY <1>2, <1>20, <1>b
  <2>4. AnswersIn(log, Mine, Told', h, 0, lost) BY <1>9, <2>3 DEF AnswersIn
  <2> QED BY <2>1, <2>2, <2>4 DEF Tells
<1>21. CASE old # 0 /\ ~replays /\ range = {} /\ Found([f EXCEPT !.to = h, !.drained = TRUE])
  <2> DEFINE g == [f EXCEPT !.to = h, !.drained = TRUE]
  <2>1. ~cold /\ replay[r] = 0 /\ old = cursor[r] /\ old \in 1..Len(log) BY <1>11, <1>12, <1>14, <1>21
  <2>2. g.to = h /\ g.owed = 0 /\ g.commits \cup g.unseen = {} BY <1>5, <2>1 DEF Nothing
  <2>3. Found(g) BY <1>21
  <2>4. Between(old, h) = {}
    <3>1. CASE old = h BY <3>1 DEF Between
    <3>2. CASE old # h /\ listed
      <4>1. Oldest(Between(old, h), env.cap) = {} BY <1>21, <3>2 DEF range, NewCommits
      <4>2. Between(old, h) \in SUBSET (1..Len(log))
        <5>1. log[h].reach \subseteq 1..h /\ 1..h \subseteq 1..Len(log) BY <1>3, <1>4 DEF LogOK, CommitOK
        <5> QED BY <5>1 DEF Between
      <4> QED BY <1>3, <4>1, <4>2, OldestSome
    <3>3. CASE old # h /\ ~listed
      <4>1. range = Newest(log[h].reach, env.cap) BY <1>21, <3>3 DEF range, NewCommits
      <4>2. h \in log[h].reach /\ log[h].reach \subseteq 1..h BY <1>3, <1>4 DEF LogOK, CommitOK
      <4>3. \A d \in log[h].reach : ~(d > h) BY <1>3, <1>4, <4>2
      <4>4. {d \in log[h].reach : d > h} = {} BY <4>3
      <4>7. env.cap \in Nat \ {0} BY <1>3
      <4>5. Cardinality({d \in log[h].reach : d > h}) < env.cap BY <4>4, <4>7, FS_EmptySet
      <4>6. h \in Newest(log[h].reach, env.cap) BY <4>2, <4>5 DEF Newest
      <4> QED BY <1>21, <4>1, <4>6
    <3> QED BY <3>1, <3>2, <3>3
  <2> HIDE DEF g
  <2>5. AnswersIn(log, Mine, Told', h, 0, {}) BY <1>9, <1>16, <2>1, <2>4 DEF AnswersIn, Between
  <2> QED BY <2>2, <2>3, <2>5 DEF Tells
<1>d. CASE old # 0 /\ replays /\ Found([f EXCEPT !.to = h, !.owed = 0, !.unseen = given])
  <2> DEFINE g == [f EXCEPT !.to = h, !.owed = 0, !.unseen = given]
  <2>1. g.to = h /\ g.owed = 0 /\ g.commits \cup g.unseen = given BY <1>5 DEF Nothing
  <2>2. Found(g) BY <1>d
  <2> HIDE DEF g
  <2>3. (log[target].reach \ Chain(old, target)) \cap Mine \subseteq Told' BY <1>15, <1>d
  <2>4. log[h].reach \cap Mine \subseteq Told' \cup given BY <1>c, <2>3 DEF Between
  <2>5. AnswersIn(log, Mine, Told', h, 0, given) BY <1>9, <2>4 DEF AnswersIn
  <2> QED BY <2>1, <2>2, <2>5 DEF Tells
<1>22. CASE old # 0 /\ replays /\ Found([f EXCEPT !.to = old, !.owed = target])
  <2> DEFINE g == [f EXCEPT !.to = old, !.owed = target]
  <2>1. g.to = old /\ g.owed = target /\ g.commits \cup g.unseen = {} BY <1>5 DEF Nothing
  <2>2. Found(g) /\ old # 0 /\ replays BY <1>22
  <2> HIDE DEF g
  <2> QED BY <1>18, <2>1, <2>2 DEF Tells
<1>23. CASE old # 0 /\ ~replays /\ Found(f)
  <2>1. f.to = cursor[r] /\ f.owed = replay[r] /\ f.commits \cup f.unseen = {} BY <1>5 DEF Nothing
  <2> HIDE DEF Found
  <2>2. AnswersIn(log, Mine, Told', f.to, f.owed, f.commits \cup f.unseen) BY <1>17, <2>1
  <2> QED BY <1>23, <2>2 DEF Tells, Found
<1>24. CASE /\ old # 0 /\ replays /\ (range = {} \/ take # {})
            /\ Took([f EXCEPT !.to = IF last THEN target ELSE Max(take),
                              !.owed = IF last THEN 0 ELSE target,
                              !.drained = last /\ target = h])
  <2> DEFINE a == IF last THEN target ELSE Max(take)
             b == IF last THEN 0 ELSE target
             d == last /\ target = h
             g == [f EXCEPT !.to = a, !.owed = b, !.drained = d]
             gt == [g EXCEPT !.commits = take]
  <2>0. old # 0 /\ replays /\ old \in 1..Len(log) /\ target \in 1..Len(log) /\ env.cap \in Int
    BY <1>3, <1>12, <1>13, <1>24
  <2>1. gt.to = a /\ gt.owed = b /\ gt.commits \cup gt.unseen = take BY <1>5 DEF Nothing
  <2>2. Found(gt) \/ Found(back) BY <1>24
  <2>3. range = Oldest(Chain(old, target), env.cap) /\ take = Oldest(Oldest(Chain(old, target), env.cap), budget)
    BY <2>0 DEF range, take
  <2>4. range = {} => Chain(old, target) = {}
    <3>1. Chain(old, target) \in SUBSET (1..Len(log))
      <4>1. log[target].chain \subseteq 1..target /\ 1..target \subseteq 1..Len(log) BY <1>3, <2>0 DEF LogOK, CommitOK
      <4> QED BY <4>1 DEF Chain
    <3> QED BY <1>3, <2>3, <3>1, OldestSome
  <2>5. last => Chain(old, target) \subseteq take BY <1>3, <2>0, <2>3, <2>4, OldestCoverChain
  <2>6. ~last => Max(take) \in 1..Len(log) /\ Chain(old, target) \ Chain(Max(take), target) \subseteq take
    <3>1. ~last => take # {} BY <1>24
    <3> QED BY <1>3, <2>0, <2>3, <3>1, ChainLeft
  <2> HIDE DEF gt, g, last
  <2>7. AnswersIn(log, Mine, Told', a, b, take)
    <3>1. CASE last
      <4>1. log[target].reach \cap Mine \subseteq Told' \cup take BY <1>15, <2>0, <2>5, <3>1
      <4> QED BY <2>0, <3>1, <4>1 DEF AnswersIn
    <3>2. CASE ~last
      <4>1. (log[target].reach \ Chain(Max(take), target)) \cap Mine \subseteq Told' \cup take
        BY <1>15, <2>0, <2>6, <3>2
      <4>2. Max(take) # 0 /\ target # 0 BY <1>3, <2>0, <2>6, <3>2
      <4> QED BY <3>2, <4>1, <4>2 DEF AnswersIn, Chain
    <3> QED BY <3>1, <3>2
  <2>8. Found(gt) => Tells(r, gt) BY <2>1, <2>7 DEF Tells
  <2> QED BY <1>19, <2>0, <2>2, <2>8
<1>25. CASE /\ old # 0 /\ ~replays /\ take # {}
            /\ Took([f EXCEPT !.to = Max(take), !.fold = Foldable(old, h, listed), !.drained = Max(take) = h,
                              !.unseen = passing])
  <2> DEFINE m == Max(take)
             g == [f EXCEPT !.to = m, !.fold = Foldable(old, h, listed), !.drained = m = h, !.unseen = passing]
             gt == [g EXCEPT !.commits = take]
  <2>1. ~cold /\ replay[r] = 0 /\ old = cursor[r] /\ old \in 1..Len(log) /\ env.cap \in Int
    BY <1>3, <1>11, <1>12, <1>14, <1>25
  <2>2. gt.to = m /\ gt.owed = 0 /\ gt.commits \cup gt.unseen = take \cup passing BY <1>5, <2>1
  <2>3. Found(gt) \/ Found(back) BY <1>25
  <2>4. take \subseteq range /\ range \subseteq 1..Len(log) /\ take # {} /\ old # h
    <3>1. log[h].reach \subseteq 1..h /\ 1..h \subseteq 1..Len(log) BY <1>3, <1>4 DEF LogOK, CommitOK
    <3>2. NewCommits(old, h, listed) \subseteq log[h].reach BY SelectedIn DEF NewCommits, Between
    <3>3. take \subseteq range BY SelectedIn DEF take
    <3> QED BY <1>25, <3>1, <3>2, <3>3 DEF range
  <2>5. m \in 1..Len(log) /\ Between(old, m) \subseteq take \cup passing
    <3>1. CASE listed
      <4>1. take = Oldest(Oldest(Between(old, h), env.cap), budget)
        BY <1>25, <2>4, <3>1 DEF range, take, NewCommits
      <4>2. Oldest(Oldest(Between(old, h), env.cap), budget) # {} BY <1>25, <4>1
      <4> QED BY <1>3, <1>4, <2>1, <4>1, <4>2, OldestCover
    <3>2. CASE ~listed
      <4>1. m \in 1..Len(log) BY <1>3, <2>4, LatestIn
      <4> QED BY <1>c, <3>2, <4>1
    <3> QED BY <3>1, <3>2
  <2> HIDE DEF gt, g, m
  <2>6. AnswersIn(log, Mine, Told', m, 0, take \cup passing)
    <3>1. m # 0 BY <1>3, <2>5
    <3> QED BY <1>16, <2>1, <2>5, <3>1 DEF AnswersIn, Between
  <2>7. Found(gt) => Tells(r, gt) BY <2>2, <2>6 DEF Tells
  <2> QED BY <1>19, <1>25, <2>3, <2>7
<1> QED BY <1>1, <1>20, <1>21, <1>d, <1>22, <1>23, <1>24, <1>25

LEMMA PollHeadTell ==
  ASSUME TypeInv, TellInv, NEW r \in Root, PollHead(r)
  PROVE  TellInv'
<1>1. /\ UNCHANGED <<log, on, cursor, replay, recorded, seen, emitted, sent, skipped, declined>>
      /\ pc = "heads" /\ pc' = "heads" /\ todo' = todo \ {r} /\ baseline \subseteq baseline'
  <2>1. PICK based \in BOOLEAN, lists \in BOOLEAN : Visit(r, based, lists) BY DEF PollHead
  <2>2. \E S : baseline' = baseline \cup S BY <2>1, Zenon DEF Visit
  <2> QED BY <2>2 DEF PollHead, At, Go, Rest, gitVars, fileVars
<1>2. /\ LogOK /\ Mine' = Mine /\ Known' = Known /\ Present' = Present /\ Reported' = Reported
      /\ Told \subseteq Told' /\ Mine \cap (1..Len(log)) = Mine
  BY <1>1 DEF TypeInv, Mine, Added, Hunked, Known, Present, Reported, Told
<1>3. found \in [Root -> FoundType] /\ r \in Present
  <2>1. todo \in SUBSET Root /\ todo # {} /\ r = First(todo) /\ todo \subseteq Present
    BY DEF PollHead, At, TypeInv, Progress, Present
  <2> QED BY <2>1, FirstIn DEF TypeInv, Progress
<1>4. PICK g : Tells(r, g) BY PollHeadTells
<1>5. found'[r] = g /\ \A x \in Root : x # r => found'[x] = found[x] BY <1>3, <1>4 DEF Tells
<1>6. \A x \in Root : Pending(x) = {} /\ Pending(x)' = {} BY <1>1 DEF Pending
<1>7. ASSUME NEW K \in 0..Len(log), NEW R \in 0..Len(log), NEW S, Answers(K, R, S)
      PROVE  AnswersIn(log', Mine', Told', K, R, S)
  <2> DEFINE told == Told'
  <2>1. Told \subseteq told BY <1>2
  <2> HIDE DEF told
  <2>2. AnswersIn(log, Mine, told, K, R, S) BY <1>2, <1>7, <2>1, AnswersOn
  <2> QED BY <1>1, <1>2, <2>2 DEF told
<1>8. ASSUME NEW x \in Root PROVE Answers(cursor[x], replay[x], Pending(x))'
  <2>1. Answers(cursor[x], replay[x], {}) BY <1>6 DEF TellInv
  <2>2. cursor[x] \in 0..Len(log) /\ replay[x] \in 0..Len(log) BY DEF TypeInv, Files
  <2>3. AnswersIn(log', Mine', Told', cursor[x], replay[x], {}) BY <1>7, <2>1, <2>2
  <2> QED BY <1>1, <1>6, <2>3 DEF Answers
<1>9. ASSUME NEW x \in Root
      PROVE  Answers(found[x].to, found[x].owed, found[x].commits \cup found[x].unseen)'
  <2>1. CASE x = r BY <1>1, <1>2, <1>4, <1>5, <2>1 DEF Tells, Answers
  <2>2. CASE x # r
    <3>1. Answers(found[x].to, found[x].owed, found[x].commits \cup found[x].unseen) BY <1>1 DEF TellInv
    <3>2. found[x].to \in 0..Len(log) /\ found[x].owed \in 0..Len(log) BY <1>3 DEF FoundType
    <3>3. AnswersIn(log', Mine', Told', found[x].to, found[x].owed, found[x].commits \cup found[x].unseen)
      BY <1>7, <3>1, <3>2
    <3> QED BY <1>5, <2>2, <3>3 DEF Answers
  <2> QED BY <2>1, <2>2
<1>10. \A x \in todo' : x # r /\ x \in Root BY <1>1 DEF TypeInv, Progress, Present
<1>11. \A x \in todo' : Unvisited(x)' BY <1>1, <1>5, <1>10 DEF TellInv, Unvisited
<1>12. \A x \in Root : found'[x].commits # {} => x \in Present' BY <1>2, <1>3, <1>5 DEF TellInv
<1>13. Known' \cap Mine' \subseteq Reported' BY <1>1, <1>2 DEF TellInv
<1> QED BY <1>8, <1>9, <1>11, <1>12, <1>13 DEF TellInv

LEMMA NextTell ==
  ASSUME TypeInv, TellInv, [Next]_vars
  PROVE  TellInv'
<1>1. CASE Poll
  <2>1. CASE StartPoll BY <2>1, StartPollTell
  <2>2. CASE OffHead BY <2>2, OffHeadTell
  <2>3. CASE Record BY <2>3, RecordTell
  <2>4. CASE \E r \in Root : PollHead(r) BY <2>4, PollHeadTell
  <2>5. CASE \E r \in Root : BindRoot(r) BY <2>5, BindRootTell
  <2>6. CASE \E r \in Root : AttributeCommit(r) BY <2>6, AttributeCommitTell
  <2>7. CASE \E saved \in BOOLEAN : SaveCursors(saved) BY <2>7, SaveCursorsTell
  <2> QED BY <1>1, <2>1, <2>2, <2>3, <2>4, <2>5, <2>6, <2>7 DEF Poll
<1>2. CASE Crash BY <1>2, CrashTell
<1>3. CASE Trace \/ Prune \/ UNCHANGED vars \/ \E r \in Root : \E p \in env.paths : AgentWrites(r, p)
  <2>1. UNCHANGED <<log, on, fileVars, pollVars, sent, skipped, declined, baseline>>
    BY <1>3 DEF Trace, Prune, AgentWrites, vars, gitVars, histVars
  <2>2. Kept /\ Present' = Present BY <2>1 DEF Kept, TypeInv, LogOK, Present
  <2> QED BY <2>1, <2>2, TellStill
<1>4. CASE \E r \in Root : GitMove(r)
  <2>1. GitResult BY <1>4, GitMoveResult
  <2>2. Kept /\ Present \subseteq Present' /\ UNCHANGED <<fileVars, pollVars, sent, skipped, declined, baseline>>
    BY <2>1 DEF GitResult, histVars
  <2> QED BY <2>2, TellStill
<1> QED BY <1>1, <1>2, <1>3, <1>4 DEF Next, Git, GitMove

\* When every cursor is at its HEAD and no replay is owed, every commit of this device
\* that a HEAD reaches has been reported or was there at the baseline, but for those that
\* one poll passed over while git show, the author probe or the listing of their range
\* failed, the daemon died or the outbox refused them: the caps, the shared budget, failed
\* requests and saves, pruned and rewritten commits that are still listed, late worktrees
\* and their replays, detached HEADs, other authors' commits, other checkouts' records, a
\* lost ledger and git commands in the middle of a poll let none be skipped
\* (pollGitWatchWorkspace, gitNewCommits, attributeCommits, pollOffHeadCommits).
THEOREM OwnAreReported == Spec => []OwnReported
<1>1. Init => TellInv
  <2> SUFFICES ASSUME Init PROVE TellInv OBVIOUS
  <2>1. /\ recorded = {} /\ seen = {} /\ emitted = {} /\ pc = "idle"
        /\ \A r \in Root : cursor[r] = 0 /\ replay[r] = 0 /\ found[r].commits = {}
    BY DEF Init, Nothing
  <2> QED BY <2>1 DEF TellInv, Known, Answers, AnswersIn
<1>2. TypeInv /\ TellInv /\ [Next]_vars => TellInv' BY NextTell
<1>3. TypeInv /\ TellInv => OwnReported
  <2> SUFFICES ASSUME TypeInv, TellInv, Settled, NEW r \in Present PROVE Unsent(r) \subseteq skipped \cup declined
    BY DEF OwnReported
  <2>1. LogOK /\ Repository /\ Len(log) \in Nat BY DEF TypeInv, LogOK
  <2>2. r \in Root /\ cursor[r] = head[r] /\ replay[r] = 0 /\ pc = "idle" BY DEF Settled, Present
  <2>3. head[r] \in 1..Len(log) /\ head[r] # 0 BY <2>1, ReachableIs
  <2>4. log[head[r]].reach \subseteq 1..Len(log)
    <3>1. 1..head[r] \subseteq 1..Len(log) BY <2>1, <2>3
    <3> QED BY <2>1, <2>3, <3>1 DEF LogOK, CommitOK
  <2>5. Pending(r) = {} BY <2>2 DEF Pending
  <2>6. log[head[r]].reach \cap Mine \subseteq Told BY <2>2, <2>3, <2>5 DEF TellInv, Answers, AnswersIn
  <2> QED BY <2>4, <2>6 DEF Unsent, Mine, Reported, Told
<1> QED BY <1>1, <1>2, <1>3, TypesHold, PTL DEF Spec

=============================================================================
