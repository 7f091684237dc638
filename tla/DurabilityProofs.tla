-------------------------- MODULE DurabilityProofs --------------------------
(***************************************************************************)
(* Theorems about Durability.  First what its operators yield, above all   *)
(* that a commit's hunks move the lines of a file as Remapped moves the    *)
(* tracked ones; then an invariant for the evidence that seeds a path and  *)
(* one for the lines that are tracked.                                     *)
(***************************************************************************)
EXTENDS Durability, SequenceTheorems, NaturalsInduction, WellFoundedInduction, TLAPS

-----------------------------------------------------------------------------
(* Greatest elements.                                                       *)

LEMMA LeastElement ==
  ASSUME NEW S \in SUBSET Nat, S # {}
  PROVE  \E p \in S : \A q \in S : p <= q
<1> DEFINE R == {ss \in Nat \X Nat : ss[1] < ss[2]}
<1>1. IsWellFoundedOn(R, Nat) BY NatLessThanWellFounded DEF OpToRel
<1>2. \A p, q \in Nat : q < p => <<q, p>> \in R
  <2> SUFFICES ASSUME NEW p \in Nat, NEW q \in Nat, q < p PROVE <<q, p>> \in R
    OBVIOUS
  <2>1. <<q, p>> \in Nat \X Nat OBVIOUS
  <2>2. <<q, p>>[1] = q /\ <<q, p>>[2] = p OBVIOUS
  <2> QED BY <2>1, <2>2
<1> HIDE DEF R
<1>3. PICK p \in S : \A q \in S : ~(<<q, p>> \in R) BY <1>1, WFMin
<1>4. \A q \in S : ~(q < p) BY <1>2, <1>3
<1> QED BY <1>4

\* A bounded set of numbers that has an element has a greatest one, and Max is that.
LEMMA MaxIs ==
  ASSUME NEW n \in Nat, NEW S \in SUBSET (0..n), S # {}
  PROVE  Max(S) \in S /\ \A y \in S : y <= Max(S)
<1> DEFINE T == {n - p : p \in S}
<1>1. T \in SUBSET Nat /\ T # {}
  <2>1. \A p \in S : p \in 0..n OBVIOUS
  <2>2. \A p \in S : n - p \in Nat BY <2>1
  <2> QED BY <2>2
<1>2. PICK t \in T : \A u \in T : t <= u BY <1>1, LeastElement
<1>3. PICK p \in S : t = n - p BY <1>2
<1>4. ASSUME NEW q \in S PROVE p >= q
  <2>1. t <= n - q /\ t = n - p BY <1>2, <1>3
  <2>2. p \in 0..n /\ q \in 0..n OBVIOUS
  <2> QED BY <2>1, <2>2
<1>5. Max(S) = CHOOSE x \in S : \A y \in S : x >= y BY DEF Max
<1>6. Max(S) \in S /\ \A y \in S : Max(S) >= y BY <1>3, <1>4, <1>5
<1>7. S \subseteq Nat OBVIOUS
<1> QED BY <1>6, <1>7

LEMMA GreaterOf ==
  ASSUME NEW a \in Int, NEW b \in Int
  PROVE  Max({a, b}) = IF a >= b THEN a ELSE b
<1>1. Max({a, b}) = CHOOSE x \in {a, b} : \A y \in {a, b} : x >= y BY DEF Max
<1> QED BY <1>1

LEMMA LesserOf ==
  ASSUME NEW a \in Int, NEW b \in Int
  PROVE  Min({a, b}) = IF a <= b THEN a ELSE b
<1>1. Min({a, b}) = CHOOSE x \in {a, b} : \A y \in {a, b} : x <= y BY DEF Min
<1> QED BY <1>1

-----------------------------------------------------------------------------
(* Hunks.  A commit has at most two, which do not touch.                    *)

Hunk == [os : Nat, ol : Nat, nl : Nat]
Anchored(h) == h.ol > 0 => h.os > 0
Fits(h, n) == Bottom(h) <= n /\ Anchored(h)
Brings(h, m) == h.nl <= m
Single(hs, h) == hs = {h}
Pair(hs, g, h) == hs = {g, h}

LEMMA HunkShape ==
  ASSUME NEW h \in Hunk, Anchored(h)
  PROVE  /\ h.os \in Nat /\ h.ol \in Nat /\ h.nl \in Nat
         /\ Before(h) \in Nat /\ Bottom(h) = Before(h) + h.ol
         /\ \A l \in Int : l >= h.os + Max({h.ol, 1}) <=> l > Bottom(h)
         /\ \A l \in Int : (h.ol > 0 /\ l \in h.os..(h.os + h.ol - 1)) <=> (Before(h) < l /\ l <= Bottom(h))
<1>1. h.os \in Nat /\ h.ol \in Nat /\ h.nl \in Nat BY DEF Hunk
<1>2. Max({h.ol, 1}) = IF h.ol >= 1 THEN h.ol ELSE 1 BY <1>1, GreaterOf
<1> QED BY <1>1, <1>2 DEF Before, Bottom, Anchored

LEMMA DeltaNone == Delta({}) = 0
BY DEF Delta, MapThenSumSet, MapThenFoldSet

LEMMA DeltaOne ==
  ASSUME NEW h, h.nl - h.ol \in Int
  PROVE  Delta({h}) = h.nl - h.ol
<1> DEFINE F == [s \in SUBSET {h} |-> IF s = {} THEN 0 ELSE h.nl - h.ol]
           Sums(f) == f = [s \in SUBSET {h} |->
             IF s = {} THEN 0
             ELSE ((CHOOSE x \in s : TRUE).nl - (CHOOSE x \in s : TRUE).ol) + f[s \ {CHOOSE x \in s : TRUE}]]
<1>1. Sums(F) OBVIOUS
<1>2. Delta({h}) = (CHOOSE f : Sums(f))[{h}]
  BY DEF Delta, MapThenSumSet, MapThenFoldSet
<1> QED BY <1>1, <1>2

LEMMA DeltaTwo ==
  ASSUME NEW g, NEW h, g # h, NEW a \in Int, NEW b \in Int, a = g.nl - g.ol, b = h.nl - h.ol
  PROVE  Delta({g, h}) = a + b
<1> DEFINE T == {g, h}
           Pick(s) == CHOOSE x \in s : TRUE
           Grow(x) == x.nl - x.ol
           F == [s \in SUBSET T |-> (IF g \in s THEN a ELSE 0) + (IF h \in s THEN b ELSE 0)]
           Sums(f) == f = [s \in SUBSET T |-> IF s = {} THEN 0 ELSE Grow(Pick(s)) + f[s \ {Pick(s)}]]
<1>1. Delta(T) = (CHOOSE f : Sums(f))[T]
  BY DEF Delta, MapThenSumSet, MapThenFoldSet
<1>2. /\ \A s : s # {} => Pick(s) \in s
      /\ Grow(g) = a /\ Grow(h) = b
  OBVIOUS
<1> HIDE DEF Pick, Grow
<1>3. Sums(F)
  <2> SUFFICES ASSUME NEW s \in SUBSET T
               PROVE  F[s] = IF s = {} THEN 0 ELSE Grow(Pick(s)) + F[s \ {Pick(s)}]
    OBVIOUS
  <2>1. CASE s = {} BY <2>1
  <2>2. CASE s # {}
    <3>1. Pick(s) \in s /\ s \ {Pick(s)} \in SUBSET T BY <1>2, <2>2
    <3>2. CASE Pick(s) = g
      <4>1. g \in s /\ g \notin s \ {Pick(s)} /\ (h \in s \ {Pick(s)} <=> h \in s) BY <3>1, <3>2
      <4>2. F[s \ {Pick(s)}] = 0 + (IF h \in s THEN b ELSE 0) BY <3>1, <4>1
      <4>3. F[s] = a + (IF h \in s THEN b ELSE 0) BY <4>1
      <4> QED BY <1>2, <2>2, <3>2, <4>2, <4>3
    <3>3. CASE Pick(s) = h
      <4>1. h \in s /\ h \notin s \ {Pick(s)} /\ (g \in s \ {Pick(s)} <=> g \in s) BY <3>1, <3>3
      <4>2. F[s \ {Pick(s)}] = (IF g \in s THEN a ELSE 0) + 0 BY <3>1, <4>1
      <4>3. F[s] = (IF g \in s THEN a ELSE 0) + b BY <4>1
      <4> QED BY <1>2, <2>2, <3>3, <4>2, <4>3
    <3> QED BY <3>1, <3>2, <3>3
  <2> QED BY <2>1, <2>2
<1>4. Sums(CHOOSE f : Sums(f)) BY <1>3
<1>5. ASSUME NEW f, Sums(f) PROVE f[T] = a + b
  <2>1. \A s \in SUBSET T : f[s] = IF s = {} THEN 0 ELSE Grow(Pick(s)) + f[s \ {Pick(s)}] BY <1>5
  <2> HIDE DEF Sums
  <2>2. f[{}] = 0 BY <2>1
  <2>3. f[{g}] = a
    <3>1. {g} # {} /\ {g} \in SUBSET T OBVIOUS
    <3>2. Pick({g}) = g BY <1>2, <3>1
    <3>3. f[{g}] = Grow(g) + f[{g} \ {g}] BY <2>1, <3>1, <3>2
    <3>4. {g} \ {g} = {} OBVIOUS
    <3>5. f[{g}] = a + 0 BY <1>2, <2>2, <3>3, <3>4
    <3> QED BY <3>5
  <2>4. f[{h}] = b
    <3>1. {h} # {} /\ {h} \in SUBSET T OBVIOUS
    <3>2. Pick({h}) = h BY <1>2, <3>1
    <3>3. f[{h}] = Grow(h) + f[{h} \ {h}] BY <2>1, <3>1, <3>2
    <3>4. {h} \ {h} = {} OBVIOUS
    <3>5. f[{h}] = b + 0 BY <1>2, <2>2, <3>3, <3>4
    <3> QED BY <3>5
  <2>5. f[T] = Grow(Pick(T)) + f[T \ {Pick(T)}]
    <3>1. T \in SUBSET T /\ T # {} OBVIOUS
    <3> QED BY <2>1, <3>1
  <2>6. T \ {g} = {h} /\ T \ {h} = {g} OBVIOUS
  <2>7. Pick(T) = g \/ Pick(T) = h BY <1>2
  <2>8. CASE Pick(T) = g
    <3>1. f[T] = Grow(g) + f[{h}] BY <2>5, <2>6, <2>8
    <3> QED BY <1>2, <2>4, <3>1
  <2>9. CASE Pick(T) = h
    <3>1. f[T] = Grow(h) + f[{g}] BY <2>5, <2>6, <2>9
    <3>2. f[T] = b + a BY <1>2, <2>3, <3>1
    <3> QED BY <3>2
  <2> QED BY <2>7, <2>8, <2>9
<1> QED BY <1>1, <1>4, <1>5

\* Sequences put together, place by place.
LEMMA Joined ==
  ASSUME NEW D, NEW s \in Seq(D), NEW t \in Seq(D)
  PROVE  /\ s \o t \in Seq(D) /\ Len(s \o t) = Len(s) + Len(t)
         /\ \A l \in 1..Len(s) : (s \o t)[l] = s[l]
         /\ \A k \in 1..Len(t) : (s \o t)[Len(s) + k] = t[k]
<1>1. /\ s \o t \in Seq(D) /\ Len(s \o t) = Len(s) + Len(t)
      /\ Len(s) \in Nat /\ Len(t) \in Nat
  BY ConcatProperties, LenProperties
<1>2. \A l \in 1..Len(s) : (s \o t)[l] = s[l] BY <1>1, ConcatProperties
<1>3. ASSUME NEW k \in 1..Len(t) PROVE (s \o t)[Len(s) + k] = t[k]
  <2>1. Len(s) + k \in 1..(Len(s) + Len(t)) /\ ~(Len(s) + k <= Len(s)) /\ (Len(s) + k) - Len(s) = k
    BY <1>1
  <2> QED BY <2>1, ConcatProperties
<1> QED BY <1>1, <1>2, <1>3

LEMMA Three ==
  ASSUME NEW D, NEW s \in Seq(D), NEW t \in Seq(D), NEW u \in Seq(D)
  PROVE  /\ s \o t \o u \in Seq(D) /\ Len(s \o t \o u) = Len(s) + Len(t) + Len(u)
         /\ \A l \in 1..Len(s) : (s \o t \o u)[l] = s[l]
         /\ \A k \in 1..Len(t) : (s \o t \o u)[Len(s) + k] = t[k]
         /\ \A i \in 1..Len(u) : (s \o t \o u)[Len(s) + Len(t) + i] = u[i]
<1>1. Len(s) \in Nat /\ Len(t) \in Nat /\ Len(u) \in Nat BY LenProperties
<1>2. PICK both \in Seq(D) : both = s \o t BY Joined
<1>3. /\ Len(both) = Len(s) + Len(t)
      /\ \A l \in 1..Len(s) : both[l] = s[l]
      /\ \A k \in 1..Len(t) : both[Len(s) + k] = t[k]
  BY <1>2, Joined
<1>4. PICK all \in Seq(D) : all = both \o u BY Joined
<1>5. /\ Len(all) = Len(both) + Len(u)
      /\ \A l \in 1..Len(both) : all[l] = both[l]
      /\ \A i \in 1..Len(u) : all[Len(both) + i] = u[i]
  BY <1>4, Joined
<1>6. \A l \in 1..Len(s) : all[l] = s[l]
  <2> SUFFICES ASSUME NEW l \in 1..Len(s) PROVE all[l] = s[l] OBVIOUS
  <2>1. l \in 1..Len(both) BY <1>1, <1>3
  <2> QED BY <1>3, <1>5, <2>1
<1>7. \A k \in 1..Len(t) : all[Len(s) + k] = t[k]
  <2> SUFFICES ASSUME NEW k \in 1..Len(t) PROVE all[Len(s) + k] = t[k] OBVIOUS
  <2>1. Len(s) + k \in 1..Len(both) BY <1>1, <1>3
  <2> QED BY <1>3, <1>5, <2>1
<1>8. all = s \o t \o u BY <1>2, <1>4
<1> QED BY <1>3, <1>5, <1>6, <1>7, <1>8

\* The first b places of a sequence, and those behind place e.
LEMMA Front ==
  ASSUME NEW D, NEW s \in Seq(D), NEW b \in Nat, b <= Len(s)
  PROVE  /\ SubSeq(s, 1, b) \in Seq(D) /\ Len(SubSeq(s, 1, b)) = b
         /\ \A l \in 1..b : SubSeq(s, 1, b)[l] = s[l]
<1>1. Len(s) \in Nat BY LenProperties
<1>2. ASSUME NEW i \in 1..b PROVE s[i] \in D
  <2>1. i \in 1..Len(s) BY <1>1
  <2> QED BY <2>1, ElementOfSeq
<1>3. SubSeq(s, 1, b) \in Seq(D) /\ Len(SubSeq(s, 1, b)) = IF 1 <= b THEN b - 1 + 1 ELSE 0
  BY <1>2, SubSeqProperties
<1>4. \A i \in 1..(b - 1 + 1) : SubSeq(s, 1, b)[i] = s[1 + i - 1]
  BY <1>2, SubSeqProperties
<1>5. b - 1 + 1 = b /\ \A i \in 1..b : 1 + i - 1 = i OBVIOUS
<1>6. \A l \in 1..b : SubSeq(s, 1, b)[l] = s[l] BY <1>4, <1>5
<1>7. Len(SubSeq(s, 1, b)) = b BY <1>3
<1> QED BY <1>3, <1>6, <1>7

LEMMA Back ==
  ASSUME NEW D, NEW s \in Seq(D), NEW e \in Nat, e <= Len(s)
  PROVE  /\ SubSeq(s, e + 1, Len(s)) \in Seq(D) /\ Len(SubSeq(s, e + 1, Len(s))) = Len(s) - e
         /\ \A i \in 1..(Len(s) - e) : SubSeq(s, e + 1, Len(s))[i] = s[e + i]
<1>1. PICK m \in Nat : m = Len(s) BY LenProperties
<1>2. ASSUME NEW i \in (e + 1)..m PROVE s[i] \in D
  <2>1. i \in 1..Len(s) BY <1>1
  <2> QED BY <2>1, ElementOfSeq
<1>3. e + 1 \in Int /\ m \in Int BY <1>1
<1>4. SubSeq(s, e + 1, m) \in Seq(D)
  BY <1>2, <1>3, SubSeqProperties
<1>5. Len(SubSeq(s, e + 1, m)) = IF e + 1 <= m THEN m - (e + 1) + 1 ELSE 0
  BY <1>2, <1>3, SubSeqProperties
<1>6. \A i \in 1..(m - (e + 1) + 1) : SubSeq(s, e + 1, m)[i] = s[(e + 1) + i - 1]
  BY <1>2, <1>3, SubSeqProperties
<1>7. m - (e + 1) + 1 = m - e /\ \A i \in 1..(m - e) : (e + 1) + i - 1 = e + i BY <1>1
<1>8. e <= m BY <1>1
<1>9. Len(SubSeq(s, e + 1, m)) = m - e BY <1>5, <1>7, <1>8
<1>10. \A i \in 1..(m - e) : SubSeq(s, e + 1, m)[i] = s[e + i] BY <1>6, <1>7
<1> QED BY <1>1, <1>4, <1>9, <1>10

\* The lines that a hunk leaves where they are, brings in, and moves.
LEMMA ReplacedIs ==
  ASSUME NEW D, NEW file \in Seq(D), NEW h \in Hunk, Fits(h, Len(file)),
         NEW new \in Seq(D), Len(new) = h.nl
  PROVE  /\ Replaced(file, h, new) \in Seq(D)
         /\ Len(Replaced(file, h, new)) = Len(file) - h.ol + h.nl
         /\ \A l \in 1..Before(h) : Replaced(file, h, new)[l] = file[l]
         /\ \A k \in 1..h.nl : Replaced(file, h, new)[Before(h) + k] = new[k]
         /\ \A l \in (Bottom(h) + 1)..Len(file) : Replaced(file, h, new)[l - h.ol + h.nl] = file[l]
<1>1. /\ Before(h) \in Nat /\ Bottom(h) = Before(h) + h.ol /\ h.nl \in Nat /\ h.ol \in Nat
      /\ Bottom(h) <= Len(file) /\ Len(file) \in Nat
  BY HunkShape, LenProperties DEF Fits
<1>2. PICK b \in Nat, e \in Nat, o \in Nat, n \in Nat, m \in Nat :
        b = Before(h) /\ e = Bottom(h) /\ o = h.ol /\ n = h.nl /\ m = Len(file)
  BY <1>1
<1>3. e = b + o /\ b <= e /\ e <= m /\ b <= m /\ Len(new) = n BY <1>1, <1>2
<1>4. PICK top \in Seq(D) : top = SubSeq(file, 1, b) BY <1>2, <1>3, Front
<1>5. Len(top) = b /\ \A l \in 1..b : top[l] = file[l] BY <1>2, <1>3, <1>4, Front
<1>6. PICK rest \in Seq(D) : rest = SubSeq(file, e + 1, Len(file)) BY <1>2, <1>3, Back
<1>7. Len(rest) = m - e /\ \A i \in 1..(m - e) : rest[i] = file[e + i] BY <1>2, <1>3, <1>6, Back
<1>8. PICK R \in Seq(D) : R = top \o new \o rest BY Three
<1>9. R = Replaced(file, h, new) BY <1>2, <1>4, <1>6, <1>8 DEF Replaced
<1>10. Len(R) = Len(top) + Len(new) + Len(rest)
  <2>1. Len(top \o new \o rest) = Len(top) + Len(new) + Len(rest) BY ONLY top \in Seq(D), new \in Seq(D), rest \in Seq(D), Three
  <2> QED BY ONLY <1>8, <2>1
<1>11. Len(R) = m - o + n BY <1>3, <1>5, <1>7, <1>10
<1>12. \A l \in 1..Len(top) : R[l] = top[l] BY <1>8, Three
<1>13. \A k \in 1..Len(new) : R[Len(top) + k] = new[k] BY <1>8, Three
<1>14. \A i \in 1..Len(rest) : R[Len(top) + Len(new) + i] = rest[i]
  <2>1. \A i \in 1..Len(rest) : (top \o new \o rest)[Len(top) + Len(new) + i] = rest[i]
    BY ONLY top \in Seq(D), new \in Seq(D), rest \in Seq(D), Three
  <2> QED BY ONLY <1>8, <2>1
<1>15. \A l \in 1..b : R[l] = file[l] BY <1>5, <1>12
<1>16. \A k \in 1..n : R[b + k] = new[k] BY <1>3, <1>5, <1>13
<1>17. \A i \in 1..(m - e) : R[b + n + i] = file[e + i] BY <1>3, <1>5, <1>7, <1>14
<1>18. ASSUME NEW l \in (e + 1)..m PROVE R[l - o + n] = file[l]
  <2>1. PICK i \in Int : i = l - e OBVIOUS
  <2>2. i \in 1..(m - e) /\ b + n + i = l - o + n /\ e + i = l BY <1>3, <2>1
  <2> QED BY <1>17, <2>2
<1> QED BY <1>2, <1>9, <1>11, <1>15, <1>16, <1>18

\* The hunks of a commit are applied from below.
LEMMA PatchedNone ==
  ASSUME NEW file, NEW c, NEW typed
  PROVE  Patched(file, {}, c, typed) = file
<1> DEFINE Low(s) == CHOOSE x \in s : \A y \in s : Before(x) <= Before(y)
           Applies(f) == f = [s \in SUBSET {} |-> IF s = {} THEN file
                                ELSE Replaced(f[s \ {Low(s)}], Low(s), Incoming(c, Low(s), typed))]
           F == [s \in SUBSET {} |-> file]
<1>1. Patched(file, {}, c, typed) = (CHOOSE f : Applies(f))[{}] BY DEF Patched
<1>2. Applies(F) OBVIOUS
<1>3. Applies(CHOOSE f : Applies(f)) BY <1>2
<1>4. \A f : Applies(f) => f[{}] = file BY {} \in SUBSET {}
<1> QED BY <1>1, <1>3, <1>4

LEMMA PatchedOne ==
  ASSUME NEW file, NEW c, NEW typed, NEW h, Before(h) \in Int
  PROVE  Patched(file, {h}, c, typed) = Replaced(file, h, Incoming(c, h, typed))
<1> DEFINE Low(s) == CHOOSE x \in s : \A y \in s : Before(x) <= Before(y)
           Step(g, x) == Replaced(x, g, Incoming(c, g, typed))
           Applies(f) == f = [s \in SUBSET {h} |-> IF s = {} THEN file ELSE Step(Low(s), f[s \ {Low(s)}])]
           F == [s \in SUBSET {h} |-> IF s = {} THEN file ELSE Step(h, file)]
<1>1. Patched(file, {h}, c, typed) = (CHOOSE f : Applies(f))[{h}] BY DEF Patched
<1>2. Low({h}) = h
  <2>1. \E x \in {h} : \A y \in {h} : Before(x) <= Before(y) OBVIOUS
  <2> QED BY <2>1
<1> HIDE DEF Low, Step
<1>3. {h} \ {h} = {} /\ SUBSET {h} = {{}, {h}} /\ {h} # {} OBVIOUS
<1>4. Applies(F) BY <1>2, <1>3
<1>5. Applies(CHOOSE f : Applies(f)) BY <1>4
<1>6. ASSUME NEW f, Applies(f) PROVE f[{h}] = Step(h, file)
  <2>1. \A s \in SUBSET {h} : f[s] = IF s = {} THEN file ELSE Step(Low(s), f[s \ {Low(s)}]) BY <1>6
  <2> HIDE DEF Applies
  <2>2. f[{}] = file BY <2>1
  <2>3. f[{h}] = Step(Low({h}), f[{h} \ {Low({h})}]) BY <1>3, <2>1
  <2> QED BY <1>2, <1>3, <2>2, <2>3
<1>7. Patched(file, {h}, c, typed) = Step(h, file) BY <1>1, <1>5, <1>6
<1> QED BY <1>7 DEF Step

LEMMA PatchedTwo ==
  ASSUME NEW file, NEW c, NEW typed, NEW h, NEW g,
         Before(h) \in Int, Before(g) \in Int, Before(h) < Before(g)
  PROVE  Patched(file, {g, h}, c, typed)
           = Replaced(Replaced(file, g, Incoming(c, g, typed)), h, Incoming(c, h, typed))
<1> DEFINE T == {g, h}
           Low(s) == CHOOSE x \in s : \A y \in s : Before(x) <= Before(y)
           Step(k, x) == Replaced(x, k, Incoming(c, k, typed))
           Applies(f) == f = [s \in SUBSET T |-> IF s = {} THEN file ELSE Step(Low(s), f[s \ {Low(s)}])]
           F == [s \in SUBSET T |-> IF s = {} THEN file
                                    ELSE IF s = {g} THEN Step(g, file)
                                    ELSE IF s = {h} THEN Step(h, file) ELSE Step(h, Step(g, file))]
<1>1. Patched(file, T, c, typed) = (CHOOSE f : Applies(f))[T] BY DEF Patched
<1>2. Low({h}) = h /\ Low({g}) = g /\ Low(T) = h
  <2>1. \E x \in {h} : \A y \in {h} : Before(x) <= Before(y) OBVIOUS
  <2>2. \E x \in {g} : \A y \in {g} : Before(x) <= Before(y) OBVIOUS
  <2>3. \A y \in T : Before(h) <= Before(y) OBVIOUS
  <2>4. ~(Before(g) <= Before(h)) OBVIOUS
  <2>5. Low(T) \in T /\ \A y \in T : Before(Low(T)) <= Before(y) BY <2>3
  <2> QED BY <2>1, <2>2, <2>4, <2>5
<1> HIDE DEF Low, Step
<1>3. /\ {h} \ {h} = {} /\ {g} \ {g} = {} /\ T \ {h} = {g} /\ g # h
      /\ {h} # {} /\ {g} # {} /\ T # {} /\ {g} # {h} /\ T # {g} /\ T # {h}
      /\ \A s \in SUBSET T : s \in {{}, {g}, {h}, T}
  <2>1. g # h OBVIOUS
  <2>2. \A s \in SUBSET T : s \in {{}, {g}, {h}, T}
    <3> SUFFICES ASSUME NEW s \in SUBSET T PROVE s \in {{}, {g}, {h}, T} OBVIOUS
    <3> QED BY <2>1
  <2> QED BY <2>1, <2>2
<1>4. Applies(F)
  <2> SUFFICES ASSUME NEW s \in SUBSET T
               PROVE  F[s] = IF s = {} THEN file ELSE Step(Low(s), F[s \ {Low(s)}])
    OBVIOUS
  <2>1. {} \in SUBSET T /\ {g} \in SUBSET T OBVIOUS
  <2>2. F[{}] = file /\ F[{g}] = Step(g, file) BY <1>3, <2>1
  <2>3. CASE s = {} BY <2>2, <2>3
  <2>4. CASE s = {g} BY <1>2, <1>3, <2>2, <2>4
  <2>5. CASE s = {h} BY <1>2, <1>3, <2>2, <2>5
  <2>6. CASE s = T
    <3>1. F[T] = Step(h, Step(g, file)) BY <1>3
    <3> QED BY <1>2, <1>3, <2>2, <2>6, <3>1
  <2> QED BY <1>3, <2>3, <2>4, <2>5, <2>6
<1>5. Applies(CHOOSE f : Applies(f)) BY <1>4
<1>6. ASSUME NEW f, Applies(f) PROVE f[T] = Step(h, Step(g, file))
  <2>1. \A s \in SUBSET T : f[s] = IF s = {} THEN file ELSE Step(Low(s), f[s \ {Low(s)}]) BY <1>6
  <2> HIDE DEF Applies
  <2>2. {} \in SUBSET T /\ {g} \in SUBSET T /\ T \in SUBSET T OBVIOUS
  <2>3. f[{}] = file BY <2>1, <2>2
  <2>4. f[{g}] = Step(g, file) BY <1>2, <1>3, <2>1, <2>2, <2>3
  <2>5. f[T] = Step(Low(T), f[T \ {Low(T)}]) BY <1>3, <2>1, <2>2
  <2> QED BY <1>2, <1>3, <2>4, <2>5
<1>7. Patched(file, T, c, typed) = Step(h, Step(g, file)) BY <1>1, <1>5, <1>6
<1> QED BY <1>7 DEF Step

-----------------------------------------------------------------------------
(* What a commit does to a file.                                            *)

Line == [by : Nat, at : Nat, k : Nat, ai : BOOLEAN]

\* What a commit's hunks do to a file: a line they spare is where ShiftFor says, and
\* what is at a place of a new side came in with the commit.
Moved(old, new, hs, c) ==
  /\ \A l \in 1..Len(old) : ~Churned(l, hs) =>
       l + ShiftFor(l, hs) \in 1..Len(new) /\ new[l + ShiftFor(l, hs)] = old[l]
  /\ \A n \in NewSides(hs) : n \in 1..Len(new) /\ new[n].by = c

\* The hunks above a hunk, and where its k-th line lands.
Higher(h, hs) == {g \in hs : Bottom(g) <= Before(h) /\ g # h}
LandsAt(h, hs, k) == Before(h) + Delta(Higher(h, hs)) + k

\* Every line of the new file is an old one that was spared, or came in by a hunk.
Sourced(old, new, hs, c) ==
  \A n \in 1..Len(new) :
    \/ \E l \in 1..Len(old) : ~Churned(l, hs) /\ n = l + ShiftFor(l, hs)
    \/ \E h \in hs : \E k \in 1..h.nl :
         n = LandsAt(h, hs, k) /\ new[n].by = c /\ new[n].at = Before(h) /\ new[n].k = k

\* The n lines that commit c brings in behind line b.
Brought(in, c, b, n) ==
  /\ in \in Seq(Line) /\ Len(in) = n
  /\ \A k \in 1..n : in[k].by = c /\ in[k].at = b /\ in[k].k = k

LEMMA IncomingIs ==
  ASSUME NEW h \in Hunk, Anchored(h), NEW c \in Nat, NEW m \in Nat, Brings(h, m),
         NEW typed \in [1..m -> BOOLEAN]
  PROVE  Brought(Incoming(c, h, typed), c, Before(h), h.nl)
<1>1. h.nl \in Nat /\ Before(h) \in Nat BY HunkShape
<1>2. \A k \in 1..h.nl : k \in 1..m /\ k \in Nat BY <1>1 DEF Brings
<1>3. \A k \in 1..h.nl : [by |-> c, at |-> Before(h), k |-> k, ai |-> typed[k]] \in Line
  BY <1>1, <1>2 DEF Line
<1>4. Incoming(c, h, typed) = [k \in 1..h.nl |-> [by |-> c, at |-> Before(h), k |-> k, ai |-> typed[k]]]
  BY DEF Incoming
<1>5. Incoming(c, h, typed) \in [1..h.nl -> Line] BY <1>3, <1>4
<1>6. Incoming(c, h, typed) \in Seq(Line) /\ Len(Incoming(c, h, typed)) = h.nl
  BY <1>1, <1>5, IsASeq, LenProperties
<1>7. PICK in : in = Incoming(c, h, typed) OBVIOUS
<1>8. \A k \in 1..h.nl : in[k] = [by |-> c, at |-> Before(h), k |-> k, ai |-> typed[k]] BY <1>4, <1>7
<1>9. ASSUME NEW k \in 1..h.nl PROVE in[k].by = c /\ in[k].at = Before(h) /\ in[k].k = k
  <2>1. in[k] = [by |-> c, at |-> Before(h), k |-> k, ai |-> typed[k]] BY <1>8
  <2> QED BY ONLY <2>1
<1> QED BY <1>6, <1>7, <1>9 DEF Brought

LEMMA ShiftOne ==
  ASSUME NEW h \in Hunk, Anchored(h), NEW l \in Int
  PROVE  /\ l > Bottom(h) => ShiftFor(l, {h}) = h.nl - h.ol
         /\ ~(l > Bottom(h)) => ShiftFor(l, {h}) = 0
         /\ Churned(l, {h}) <=> (Before(h) < l /\ l <= Bottom(h))
<1>1. h.nl - h.ol \in Int /\ (l >= h.os + Max({h.ol, 1}) <=> l > Bottom(h))
  <2>1. h.nl \in Nat /\ h.ol \in Nat BY HunkShape
  <2>2. l >= h.os + Max({h.ol, 1}) <=> l > Bottom(h) BY HunkShape
  <2> QED BY <2>1, <2>2
<1>2. Churned(l, {h}) <=> (Before(h) < l /\ l <= Bottom(h)) BY HunkShape DEF Churned
<1>3. ASSUME l > Bottom(h) PROVE ShiftFor(l, {h}) = h.nl - h.ol
  <2>1. {x \in {h} : l >= x.os + Max({x.ol, 1})} = {h} BY <1>1, <1>3
  <2> QED BY <1>1, <2>1, DeltaOne DEF ShiftFor
<1>4. ASSUME ~(l > Bottom(h)) PROVE ShiftFor(l, {h}) = 0
  <2>1. {x \in {h} : l >= x.os + Max({x.ol, 1})} = {} BY <1>1, <1>4
  <2> QED BY <2>1, DeltaNone DEF ShiftFor
<1> QED BY <1>2, <1>3, <1>4

LEMMA ShiftTwo ==
  ASSUME NEW g \in Hunk, Anchored(g), NEW h \in Hunk, Anchored(h), g # h, NEW l \in Int
  PROVE  /\ ShiftFor(l, {g, h}) = (IF l > Bottom(g) THEN g.nl - g.ol ELSE 0)
                                  + (IF l > Bottom(h) THEN h.nl - h.ol ELSE 0)
         /\ Churned(l, {g, h}) <=> ((Before(g) < l /\ l <= Bottom(g)) \/ (Before(h) < l /\ l <= Bottom(h)))
<1>1. /\ g.nl - g.ol \in Int /\ (l >= g.os + Max({g.ol, 1}) <=> l > Bottom(g))
      /\ h.nl - h.ol \in Int /\ (l >= h.os + Max({h.ol, 1}) <=> l > Bottom(h))
  <2>1. h.nl \in Nat /\ h.ol \in Nat /\ g.nl \in Nat /\ g.ol \in Nat BY HunkShape
  <2>2. l >= h.os + Max({h.ol, 1}) <=> l > Bottom(h) BY HunkShape
  <2>3. l >= g.os + Max({g.ol, 1}) <=> l > Bottom(g) BY HunkShape
  <2> QED BY <2>1, <2>2, <2>3
<1>2. /\ (g.ol > 0 /\ l \in g.os..(g.os + g.ol - 1)) <=> (Before(g) < l /\ l <= Bottom(g))
      /\ (h.ol > 0 /\ l \in h.os..(h.os + h.ol - 1)) <=> (Before(h) < l /\ l <= Bottom(h))
  BY HunkShape
<1>3. Churned(l, {g, h}) <=> ((Before(g) < l /\ l <= Bottom(g)) \/ (Before(h) < l /\ l <= Bottom(h)))
  BY <1>2 DEF Churned
<1> DEFINE Above == {x \in {g, h} : l >= x.os + Max({x.ol, 1})}
<1>4. ShiftFor(l, {g, h}) = Delta(Above) BY DEF ShiftFor
<1>5. PICK a \in Int, b \in Int : a = g.nl - g.ol /\ b = h.nl - h.ol BY <1>1
<1>6. CASE l > Bottom(g) /\ l > Bottom(h)
  <2>1. Above = {g, h} BY <1>1, <1>6
  <2>2. Delta(Above) = a + b BY <1>5, <2>1, DeltaTwo
  <2> QED BY <1>3, <1>4, <1>5, <1>6, <2>2
<1>7. CASE l > Bottom(g) /\ ~(l > Bottom(h))
  <2>1. Above = {g} BY <1>1, <1>7
  <2>2. Delta(Above) = a BY <1>1, <1>5, <2>1, DeltaOne
  <2> QED BY <1>3, <1>4, <1>5, <1>7, <2>2
<1>8. CASE ~(l > Bottom(g)) /\ l > Bottom(h)
  <2>1. Above = {h} BY <1>1, <1>8
  <2>2. Delta(Above) = b BY <1>1, <1>5, <2>1, DeltaOne
  <2> QED BY <1>3, <1>4, <1>5, <1>8, <2>2
<1>9. CASE ~(l > Bottom(g)) /\ ~(l > Bottom(h))
  <2>1. Above = {} BY <1>1, <1>9
  <2>2. Delta(Above) = 0 BY <2>1, DeltaNone
  <2> QED BY <1>3, <1>4, <1>9, <2>2
<1> QED BY <1>6, <1>7, <1>8, <1>9

\* The shifts and the churned lines of one hunk, or of two.
ShiftsOne(hs, b, e, o, n) ==
  \A l \in Int : /\ Churned(l, hs) <=> (b < l /\ l <= e)
                 /\ l <= e => l + ShiftFor(l, hs) = l
                 /\ l > e => l + ShiftFor(l, hs) = l - o + n

LEMMA ShiftOneIs ==
  ASSUME NEW h \in Hunk, Anchored(h), NEW hs, Single(hs, h)
  PROVE  ShiftsOne(hs, Before(h), Bottom(h), h.ol, h.nl)
<1>1. PICK b \in Nat, e \in Nat, o \in Nat, n \in Nat :
        b = Before(h) /\ e = Bottom(h) /\ o = h.ol /\ n = h.nl
  <2>1. Before(h) \in Nat /\ Bottom(h) = Before(h) + h.ol /\ h.ol \in Nat /\ h.nl \in Nat BY HunkShape
  <2>2. Bottom(h) \in Nat BY <2>1
  <2> QED BY <2>1, <2>2
<1> SUFFICES ASSUME NEW l \in Int
             PROVE  /\ Churned(l, hs) <=> (b < l /\ l <= e)
                    /\ l <= e => l + ShiftFor(l, hs) = l
                    /\ l > e => l + ShiftFor(l, hs) = l - o + n
  BY <1>1 DEF ShiftsOne
<1>2. /\ l > e => ShiftFor(l, hs) = n - o
      /\ ~(l > e) => ShiftFor(l, hs) = 0
      /\ Churned(l, hs) <=> (b < l /\ l <= e)
  BY <1>1, ShiftOne DEF Single
<1>3. ASSUME l <= e PROVE l + ShiftFor(l, hs) = l
  <2>1. ShiftFor(l, hs) = 0 BY <1>2, <1>3
  <2> QED BY <2>1
<1>4. ASSUME l > e PROVE l + ShiftFor(l, hs) = l - o + n
  <2>1. ShiftFor(l, hs) = n - o BY <1>2, <1>4
  <2>2. l + (n - o) = l - o + n OBVIOUS
  <2> QED BY <2>1, <2>2
<1> QED BY <1>2, <1>3, <1>4

ShiftsTwo(hs, b, e, o, n, bg, eg, og, ng) ==
  \A l \in Int : /\ Churned(l, hs) <=> ((bg < l /\ l <= eg) \/ (b < l /\ l <= e))
                 /\ l <= e /\ l <= eg => l + ShiftFor(l, hs) = l
                 /\ l > e /\ l <= eg => l + ShiftFor(l, hs) = l - o + n
                 /\ l > e /\ l > eg => l + ShiftFor(l, hs) = l - og + ng - o + n

LEMMA ShiftTwoIs ==
  ASSUME NEW h \in Hunk, Anchored(h), NEW g \in Hunk, Anchored(g), g # h, NEW hs, Pair(hs, g, h)
  PROVE  ShiftsTwo(hs, Before(h), Bottom(h), h.ol, h.nl, Before(g), Bottom(g), g.ol, g.nl)
<1>1. PICK b \in Nat, e \in Nat, o \in Nat, n \in Nat :
        b = Before(h) /\ e = Bottom(h) /\ o = h.ol /\ n = h.nl
  <2>1. Before(h) \in Nat /\ Bottom(h) = Before(h) + h.ol /\ h.ol \in Nat /\ h.nl \in Nat BY HunkShape
  <2>2. Bottom(h) \in Nat BY <2>1
  <2> QED BY <2>1, <2>2
<1>2. PICK bg \in Nat, eg \in Nat, og \in Nat, ng \in Nat :
        bg = Before(g) /\ eg = Bottom(g) /\ og = g.ol /\ ng = g.nl
  <2>1. Before(g) \in Nat /\ Bottom(g) = Before(g) + g.ol /\ g.ol \in Nat /\ g.nl \in Nat BY HunkShape
  <2>2. Bottom(g) \in Nat BY <2>1
  <2> QED BY <2>1, <2>2
<1> SUFFICES ASSUME NEW l \in Int
             PROVE  /\ Churned(l, hs) <=> ((bg < l /\ l <= eg) \/ (b < l /\ l <= e))
                    /\ l <= e /\ l <= eg => l + ShiftFor(l, hs) = l
                    /\ l > e /\ l <= eg => l + ShiftFor(l, hs) = l - o + n
                    /\ l > e /\ l > eg => l + ShiftFor(l, hs) = l - og + ng - o + n
  BY <1>1, <1>2 DEF ShiftsTwo
<1>3. /\ ShiftFor(l, hs) = (IF l > Bottom(g) THEN g.nl - g.ol ELSE 0)
                           + (IF l > Bottom(h) THEN h.nl - h.ol ELSE 0)
      /\ Churned(l, hs) <=> ((Before(g) < l /\ l <= Bottom(g)) \/ (Before(h) < l /\ l <= Bottom(h)))
  BY ShiftTwo DEF Pair
<1>4. PICK s : s = ShiftFor(l, hs) OBVIOUS
<1>5. s = (IF l > eg THEN ng - og ELSE 0) + (IF l > e THEN n - o ELSE 0) BY <1>1, <1>2, <1>3, <1>4
<1>6. l <= e /\ l <= eg => l + s = l BY <1>5
<1>7. l > e /\ l <= eg => l + s = l - o + n BY <1>5
<1>8. l > e /\ l > eg => l + s = l - og + ng - o + n BY <1>5
<1> QED BY <1>1, <1>2, <1>3, <1>4, <1>6, <1>7, <1>8

\* Hunk h lands behind place a.
Landing(h, hs, a, n) ==
  /\ NewSide(h, hs) = (a + 1)..(a + n)
  /\ \A k \in 1..n : LandsAt(h, hs, k) = a + k

LEMMA NewSideIs ==
  ASSUME NEW h, NEW hs, Before(h) \in Nat, h.nl \in Nat, Delta(Higher(h, hs)) \in Int
  PROVE  Landing(h, hs, Before(h) + Delta(Higher(h, hs)), h.nl)
<1>1. PICK b \in Nat, n \in Nat, d \in Int : b = Before(h) /\ n = h.nl /\ d = Delta(Higher(h, hs)) OBVIOUS
<1>2. NewSide(h, hs) = (b + 1 + d)..(b + 1 + d + n - 1) BY <1>1 DEF NewSide, Higher
<1>3. b + 1 + d + n - 1 = b + d + n /\ b + 1 + d = b + d + 1 OBVIOUS
<1>4. NewSide(h, hs) = (b + d + 1)..(b + d + n) BY <1>2, <1>3
<1>5. \A k \in 1..n : LandsAt(h, hs, k) = b + d + k BY <1>1 DEF LandsAt
<1> QED BY <1>1, <1>4, <1>5 DEF Landing

\* The numbers of a hunk that fits a file.
LEMMA HunkNumbers ==
  ASSUME NEW file \in Seq(Line), NEW h \in Hunk, Fits(h, Len(file))
  PROVE  \E b, e, o, n \in Nat :
           /\ b = Before(h) /\ e = Bottom(h) /\ o = h.ol /\ n = h.nl
           /\ e = b + o /\ e <= Len(file) /\ Len(file) \in Nat
<1>1. /\ Before(h) \in Nat /\ Bottom(h) = Before(h) + h.ol /\ h.ol \in Nat /\ h.nl \in Nat
      /\ Bottom(h) <= Len(file) /\ Len(file) \in Nat
  BY HunkShape, LenProperties DEF Fits
<1>2. Bottom(h) \in Nat BY <1>1
<1> QED BY <1>1, <1>2

Splices(new, file, in, b, e, o, n, len) ==
  /\ new \in Seq(Line) /\ Len(new) = len - o + n
  /\ \A l \in 1..b : new[l] = file[l]
  /\ \A k \in 1..n : new[b + k] = in[k]
  /\ \A l \in (e + 1)..len : new[l - o + n] = file[l]

LEMMA ReplacedSplices ==
  ASSUME NEW file \in Seq(Line), NEW len, len = Len(file), NEW h \in Hunk, Fits(h, len),
         NEW b, b = Before(h), NEW e, e = Bottom(h), NEW o, o = h.ol, NEW n, n = h.nl,
         NEW in \in Seq(Line), Len(in) = n
  PROVE  Splices(Replaced(file, h, in), file, in, b, e, o, n, len)
BY ReplacedIs DEF Splices

LEMMA GeometryNone ==
  ASSUME NEW file \in Seq(Line), NEW c \in Nat, NEW typed
  PROVE  /\ Patched(file, {}, c, typed) \in Seq(Line)
         /\ Moved(file, Patched(file, {}, c, typed), {}, c)
         /\ Sourced(file, Patched(file, {}, c, typed), {}, c)
<1>1. Patched(file, {}, c, typed) = file BY PatchedNone
<1>2. Len(file) \in Nat BY LenProperties
<1>3. \A l \in 1..Len(file) : ~Churned(l, {}) /\ ShiftFor(l, {}) = 0
  <2> SUFFICES ASSUME NEW l \in 1..Len(file) PROVE ~Churned(l, {}) /\ ShiftFor(l, {}) = 0 OBVIOUS
  <2>1. {x \in {} : l >= x.os + Max({x.ol, 1})} = {} OBVIOUS
  <2>2. ShiftFor(l, {}) = 0 BY <2>1, DeltaNone DEF ShiftFor
  <2> QED BY <2>2 DEF Churned
<1>4. \A l \in 1..Len(file) : l + ShiftFor(l, {}) = l BY <1>2, <1>3
<1>5. NewSides({}) = {} BY DEF NewSides
<1> QED BY <1>1, <1>3, <1>4, <1>5 DEF Moved, Sourced

LEMMA GeometryOne ==
  ASSUME NEW file \in Seq(Line), NEW h \in Hunk, Fits(h, Len(file)), NEW hs, Single(hs, h), NEW c \in Nat,
         NEW m \in Nat, Brings(h, m), NEW typed \in [1..m -> BOOLEAN]
  PROVE  /\ Patched(file, hs, c, typed) \in Seq(Line)
         /\ Moved(file, Patched(file, hs, c, typed), hs, c)
         /\ Sourced(file, Patched(file, hs, c, typed), hs, c)
<1>1. PICK b \in Nat, e \in Nat, o \in Nat, n \in Nat :
        /\ b = Before(h) /\ e = Bottom(h) /\ o = h.ol /\ n = h.nl
        /\ e = b + o /\ e <= Len(file) /\ Len(file) \in Nat
  BY HunkNumbers
<1>2. PICK len \in Nat : len = Len(file) BY <1>1
<1>3. e = b + o /\ e <= len BY <1>1, <1>2
<1>4. PICK new : new = Patched(file, hs, c, typed) OBVIOUS
<1>5. PICK in : in = Incoming(c, h, typed) OBVIOUS
<1>6. Brought(in, c, b, n)
  <2>1. Anchored(h) BY DEF Fits
  <2> QED BY <1>1, <1>5, <2>1, IncomingIs
<1>7. new = Replaced(file, h, in) BY <1>1, <1>4, <1>5, PatchedOne DEF Single
<1>8. Splices(new, file, in, b, e, o, n, len)
  BY <1>1, <1>2, <1>6, <1>7, ReplacedSplices DEF Brought
<1>9. ShiftsOne(hs, b, e, o, n)
  <2>1. Anchored(h) BY DEF Fits
  <2> QED BY <1>1, <2>1, ShiftOneIs
<1>10. NewSides(hs) = NewSide(h, hs) /\ Landing(h, hs, b, n)
  <2>1. Higher(h, hs) = {} BY DEF Higher, Single
  <2>2. Delta(Higher(h, hs)) = 0 BY <2>1, DeltaNone
  <2>3. b + 0 = b OBVIOUS
  <2>4. Landing(h, hs, Before(h) + Delta(Higher(h, hs)), h.nl) BY <1>1, <2>2, NewSideIs
  <2>5. Landing(h, hs, b, n) BY <1>1, <2>2, <2>3, <2>4
  <2> QED BY <2>5 DEF NewSides, Single
<1>11. Moved(file, new, hs, c)
  <2>1. ASSUME NEW l \in 1..len, ~Churned(l, hs)
        PROVE  l + ShiftFor(l, hs) \in 1..Len(new) /\ new[l + ShiftFor(l, hs)] = file[l]
    <3>1. CASE l <= b
      <4>1. l + ShiftFor(l, hs) = l BY <1>3, <1>9, <3>1 DEF ShiftsOne
      <4>2. l \in 1..b /\ l \in 1..(len - o + n) BY <1>3, <3>1
      <4> QED BY <1>8, <4>1, <4>2 DEF Splices
    <3>2. CASE l > e
      <4>1. l + ShiftFor(l, hs) = l - o + n BY <1>9, <3>2 DEF ShiftsOne
      <4>2. l \in (e + 1)..len /\ l - o + n \in 1..(len - o + n) BY <1>3, <3>2
      <4> QED BY <1>8, <4>1, <4>2 DEF Splices
    <3>3. l <= b \/ l > e BY <1>9, <2>1 DEF ShiftsOne
    <3> QED BY <3>1, <3>2, <3>3
  <2>2. ASSUME NEW i \in NewSides(hs) PROVE i \in 1..Len(new) /\ new[i].by = c
    <3>1. i \in (b + 1)..(b + n) BY <1>10, <2>2 DEF Landing
    <3>2. PICK k \in Int : k = i - b BY <3>1
    <3>3. k \in 1..n /\ i = b + k /\ i \in 1..(len - o + n) BY <1>3, <3>1, <3>2
    <3> QED BY <1>6, <1>8, <3>3 DEF Splices, Brought
  <2> QED BY <1>2, <2>1, <2>2 DEF Moved
<1>12. Sourced(file, new, hs, c)
  <2> SUFFICES ASSUME NEW i \in 1..(len - o + n)
               PROVE  \/ \E l \in 1..len : ~Churned(l, hs) /\ i = l + ShiftFor(l, hs)
                      \/ \E k \in 1..n : /\ i = LandsAt(h, hs, k) /\ new[i].by = c
                                         /\ new[i].at = b /\ new[i].k = k
    BY <1>1, <1>2, <1>8 DEF Sourced, Splices, Single
  <2>1. CASE i <= b
    <3>1. i \in 1..len /\ i <= e BY <1>3, <2>1
    <3>2. ~Churned(i, hs) /\ i = i + ShiftFor(i, hs) BY <1>9, <2>1, <3>1 DEF ShiftsOne
    <3> QED BY <3>1, <3>2
  <2>2. CASE b < i /\ i <= b + n
    <3>1. PICK k \in Int : k = i - b OBVIOUS
    <3>2. k \in 1..n /\ i = b + k BY <2>2, <3>1
    <3> QED BY <1>6, <1>8, <1>10, <3>2 DEF Splices, Brought, Landing
  <2>3. CASE b + n < i
    <3>1. PICK l \in Int : l = i - n + o OBVIOUS
    <3>2. l \in 1..len /\ l > e /\ i = l - o + n BY <1>3, <2>3, <3>1
    <3>3. ~Churned(l, hs) /\ i = l + ShiftFor(l, hs) BY <1>9, <3>2 DEF ShiftsOne
    <3> QED BY <3>2, <3>3
  <2> QED BY <2>1, <2>2, <2>3
<1> QED BY <1>4, <1>8, <1>11, <1>12 DEF Splices

LEMMA GeometryTwo ==
  ASSUME NEW file \in Seq(Line), NEW c \in Nat, NEW m \in Nat, NEW typed \in [1..m -> BOOLEAN],
         NEW h \in Hunk, Fits(h, Len(file)), Brings(h, m),
         NEW g \in Hunk, Fits(g, Len(file)), Brings(g, m),
         Before(h) < Before(g), NEW hs, Pair(hs, g, h), Apart(hs)
  PROVE  /\ Patched(file, hs, c, typed) \in Seq(Line)
         /\ Moved(file, Patched(file, hs, c, typed), hs, c)
         /\ Sourced(file, Patched(file, hs, c, typed), hs, c)
<1>1. PICK b \in Nat, e \in Nat, o \in Nat, n \in Nat :
        /\ b = Before(h) /\ e = Bottom(h) /\ o = h.ol /\ n = h.nl
        /\ e = b + o /\ e <= Len(file) /\ Len(file) \in Nat
  BY HunkNumbers
<1>2. PICK bg \in Nat, eg \in Nat, og \in Nat, ng \in Nat :
        /\ bg = Before(g) /\ eg = Bottom(g) /\ og = g.ol /\ ng = g.nl
        /\ eg = bg + og /\ eg <= Len(file) /\ Len(file) \in Nat
  BY HunkNumbers
<1>3. PICK len \in Nat : len = Len(file) BY <1>1
<1>4. e = b + o /\ eg = bg + og /\ eg <= len /\ e < bg /\ g # h
  <2>1. b < bg /\ g # h BY <1>1, <1>2
  <2>2. bg > e \/ b > eg BY <1>1, <1>2, <2>1 DEF Apart, Pair
  <2> QED BY <1>1, <1>2, <1>3, <2>1, <2>2
<1>5. PICK new : new = Patched(file, hs, c, typed) OBVIOUS
<1>6. PICK in : in = Incoming(c, h, typed) OBVIOUS
<1>7. PICK ing : ing = Incoming(c, g, typed) OBVIOUS
<1>8. Brought(in, c, b, n)
  <2>1. Anchored(h) BY DEF Fits
  <2> QED BY <1>1, <1>6, <2>1, IncomingIs
<1>9. Brought(ing, c, bg, ng)
  <2>1. Anchored(g) BY DEF Fits
  <2> QED BY <1>2, <1>7, <2>1, IncomingIs
<1>10. PICK mid : mid = Replaced(file, g, ing) OBVIOUS
<1>11. new = Replaced(mid, h, in) BY <1>1, <1>2, <1>5, <1>6, <1>7, <1>10, PatchedTwo DEF Pair
<1>12. Splices(mid, file, ing, bg, eg, og, ng, len) BY <1>2, <1>3, <1>9, <1>10, ReplacedSplices DEF Brought
<1>13. PICK len1 \in Nat : len1 = Len(mid) /\ mid \in Seq(Line) BY <1>12, LenProperties DEF Splices
<1>14. len1 = len - og + ng BY <1>12, <1>13 DEF Splices
<1>15. Fits(h, len1)
  <2>1. e <= len1 BY <1>4, <1>14
  <2> QED BY <1>1, <2>1 DEF Fits
<1>16. Splices(new, mid, in, b, e, o, n, len1) BY <1>1, <1>8, <1>11, <1>13, <1>15, ReplacedSplices DEF Brought
<1>17. ShiftsTwo(hs, b, e, o, n, bg, eg, og, ng)
  <2>1. Anchored(g) /\ Anchored(h) BY DEF Fits
  <2> QED BY <1>1, <1>2, <1>4, <2>1, ShiftTwoIs
<1>18. Landing(h, hs, b, n)
  <2>1. ~(Bottom(g) <= Before(h)) BY <1>1, <1>2, <1>4
  <2>2. Higher(h, hs) = {} BY <2>1 DEF Higher, Pair
  <2>3. Delta(Higher(h, hs)) = 0 BY <2>2, DeltaNone
  <2>4. b + 0 = b OBVIOUS
  <2>5. Landing(h, hs, Before(h) + Delta(Higher(h, hs)), h.nl) BY <1>1, <2>3, NewSideIs
  <2> QED BY <1>1, <2>3, <2>4, <2>5
<1>19. Landing(g, hs, bg + (n - o), ng)
  <2>1. Bottom(h) <= Before(g) BY <1>1, <1>2, <1>4
  <2>2. Higher(g, hs) = {h} BY <1>4, <2>1 DEF Higher, Pair
  <2>3. h.nl - h.ol = n - o BY <1>1
  <2>4. Delta(Higher(g, hs)) = n - o BY <2>2, <2>3, DeltaOne
  <2>5. Landing(g, hs, Before(g) + Delta(Higher(g, hs)), g.nl) BY <1>2, <2>4, NewSideIs
  <2> QED BY <1>2, <2>4, <2>5
<1>20. NewSides(hs) = NewSide(g, hs) \cup NewSide(h, hs) BY DEF NewSides, Pair
<1>21. Moved(file, new, hs, c)
  <2>1. ASSUME NEW l \in 1..len, ~Churned(l, hs)
        PROVE  l + ShiftFor(l, hs) \in 1..Len(new) /\ new[l + ShiftFor(l, hs)] = file[l]
    <3>1. CASE l <= b
      <4>1. l <= e /\ l <= eg BY <1>4, <3>1
      <4>2. l + ShiftFor(l, hs) = l BY <1>17, <4>1 DEF ShiftsTwo
      <4>3. l \in 1..b /\ l \in 1..bg /\ l \in 1..(len1 - o + n) BY <1>4, <1>14, <3>1
      <4> QED BY <1>12, <1>16, <4>2, <4>3 DEF Splices
    <3>2. CASE e < l /\ l <= bg
      <4>1. l > e /\ l <= eg BY <1>4, <3>2
      <4>2. l + ShiftFor(l, hs) = l - o + n BY <1>17, <4>1 DEF ShiftsTwo
      <4>3. l \in 1..bg /\ l \in (e + 1)..len1 /\ l - o + n \in 1..(len1 - o + n)
        BY <1>4, <1>14, <3>2
      <4> QED BY <1>12, <1>16, <4>2, <4>3 DEF Splices
    <3>3. CASE l > eg
      <4>1. PICK i \in Int : i = l - og + ng OBVIOUS
      <4>2. l > e /\ l > eg BY <1>4, <3>3
      <4>3. l + ShiftFor(l, hs) = i - o + n BY <1>17, <4>1, <4>2 DEF ShiftsTwo
      <4>4. l \in (eg + 1)..len /\ i \in (e + 1)..len1 /\ i - o + n \in 1..(len1 - o + n)
        BY <1>4, <1>14, <3>3, <4>1
      <4>5. new[i - o + n] = mid[i] /\ mid[i] = file[l] BY <1>12, <1>16, <4>1, <4>4 DEF Splices
      <4> QED BY <1>16, <4>3, <4>4, <4>5 DEF Splices
    <3>4. ~(bg < l /\ l <= eg) /\ ~(b < l /\ l <= e) BY <1>17, <2>1 DEF ShiftsTwo
    <3>5. l <= b \/ (e < l /\ l <= bg) \/ l > eg BY <3>4
    <3> QED BY <3>1, <3>2, <3>3, <3>5
  <2>2. ASSUME NEW i \in NewSide(h, hs) PROVE i \in 1..Len(new) /\ new[i].by = c
    <3>1. i \in (b + 1)..(b + n) BY <1>18, <2>2 DEF Landing
    <3>2. PICK k \in Int : k = i - b BY <3>1
    <3>3. k \in 1..n /\ i = b + k /\ i \in 1..(len1 - o + n) BY <1>4, <1>14, <3>1, <3>2
    <3> QED BY <1>8, <1>16, <3>3 DEF Splices, Brought
  <2>3. ASSUME NEW i \in NewSide(g, hs) PROVE i \in 1..Len(new) /\ new[i].by = c
    <3>1. i \in (bg + (n - o) + 1)..(bg + (n - o) + ng) BY <1>19, <2>3 DEF Landing
    <3>2. PICK k \in Int, j \in Int : k = i - bg - n + o /\ j = i - n + o BY <3>1
    <3>3. /\ k \in 1..ng /\ j = bg + k /\ j \in (e + 1)..len1
          /\ i = j - o + n /\ i \in 1..(len1 - o + n)
      BY <1>4, <1>14, <3>1, <3>2
    <3>4. new[i] = mid[j] /\ mid[j] = ing[k] BY <1>12, <1>16, <3>3 DEF Splices
    <3> QED BY <1>9, <1>16, <3>3, <3>4 DEF Splices, Brought
  <2> QED BY <1>3, <1>20, <2>1, <2>2, <2>3 DEF Moved
<1>22. Sourced(file, new, hs, c)
  <2> SUFFICES ASSUME NEW i \in 1..(len1 - o + n)
               PROVE  \/ \E l \in 1..len : ~Churned(l, hs) /\ i = l + ShiftFor(l, hs)
                      \/ \E k \in 1..n : /\ i = LandsAt(h, hs, k) /\ new[i].by = c
                                         /\ new[i].at = b /\ new[i].k = k
                      \/ \E k \in 1..ng : /\ i = LandsAt(g, hs, k) /\ new[i].by = c
                                          /\ new[i].at = bg /\ new[i].k = k
    BY <1>1, <1>2, <1>3, <1>16 DEF Sourced, Splices, Pair
  <2>1. CASE i <= b
    <3>1. i \in 1..len /\ i <= e /\ i <= eg /\ ~(bg < i) BY <1>4, <2>1
    <3>2. ~Churned(i, hs) /\ i = i + ShiftFor(i, hs) BY <1>17, <2>1, <3>1 DEF ShiftsTwo
    <3> QED BY <3>1, <3>2
  <2>2. CASE b < i /\ i <= b + n
    <3>1. PICK k \in Int : k = i - b OBVIOUS
    <3>2. k \in 1..n /\ i = b + k BY <2>2, <3>1
    <3> QED BY <1>8, <1>16, <1>18, <3>2 DEF Splices, Landing, Brought
  <2>3. CASE b + n < i /\ i <= bg + n - o
    <3>1. PICK l \in Int : l = i - n + o OBVIOUS
    <3>2. l \in 1..len /\ l > e /\ l <= eg /\ ~(bg < l) /\ i = l - o + n BY <1>4, <2>3, <3>1
    <3>3. ~Churned(l, hs) /\ i = l + ShiftFor(l, hs) BY <1>17, <3>2 DEF ShiftsTwo
    <3> QED BY <3>2, <3>3
  <2>4. CASE bg + n - o < i /\ i <= bg + n - o + ng
    <3>1. PICK k \in Int, j \in Int : k = i - bg - n + o /\ j = i - n + o OBVIOUS
    <3>2. /\ k \in 1..ng /\ j = bg + k /\ j \in (e + 1)..len1
          /\ i = j - o + n /\ i = bg + (n - o) + k
      BY <1>4, <1>14, <2>4, <3>1
    <3>3. new[i] = mid[j] /\ mid[j] = ing[k] BY <1>12, <1>16, <3>2 DEF Splices
    <3>4. i = LandsAt(g, hs, k) BY <1>19, <3>2 DEF Landing
    <3>5. k \in 1..ng /\ new[i].by = c /\ new[i].at = bg /\ new[i].k = k BY <1>9, <3>2, <3>3 DEF Brought
    <3> QED BY <3>4, <3>5
  <2>5. CASE bg + n - o + ng < i
    <3>1. PICK l \in Int : l = i - n + o - ng + og OBVIOUS
    <3>2. l \in 1..len /\ l > e /\ l > eg /\ i = l - og + ng - o + n BY <1>4, <1>14, <2>5, <3>1
    <3>3. ~Churned(l, hs) /\ i = l + ShiftFor(l, hs) BY <1>17, <3>2 DEF ShiftsTwo
    <3> QED BY <3>2, <3>3
  <2> QED BY <2>1, <2>2, <2>3, <2>4, <2>5
<1> QED BY <1>5, <1>16, <1>21, <1>22 DEF Splices

\* Old lines above the change are different for hunks that do not touch.
LEMMA ApartBefore ==
  ASSUME NEW hs, Apart(hs), NEW g \in hs, NEW h \in hs, g # h, g \in Hunk, h \in Hunk,
         Anchored(g), Anchored(h)
  PROVE  Before(g) # Before(h)
<1>1. Before(h) > Bottom(g) \/ Before(g) > Bottom(h) BY DEF Apart
<1>2. /\ Before(h) \in Nat /\ Bottom(h) = Before(h) + h.ol /\ h.ol \in Nat
      /\ Before(g) \in Nat /\ Bottom(g) = Before(g) + g.ol /\ g.ol \in Nat
  BY HunkShape
<1> QED BY <1>1, <1>2

HunksFit(hs, n) ==
  /\ Apart(hs)
  /\ hs # {} => \E g, h \in hs : Pair(hs, g, h)
  /\ \A h \in hs : h \in Hunk /\ Fits(h, n)

\* What hunks that fit a file make of it.
LEMMA Geometry ==
  ASSUME NEW file \in Seq(Line), NEW hs, HunksFit(hs, Len(file)), NEW c \in Nat,
         NEW m \in Nat, NEW typed \in [1..m -> BOOLEAN], \A h \in hs : Brings(h, m)
  PROVE  /\ Patched(file, hs, c, typed) \in Seq(Line)
         /\ Moved(file, Patched(file, hs, c, typed), hs, c)
         /\ Sourced(file, Patched(file, hs, c, typed), hs, c)
<1>1. Apart(hs) /\ \A h \in hs : h \in Hunk /\ Fits(h, Len(file)) BY DEF HunksFit
<1>2. CASE hs = {} BY <1>2, GeometryNone
<1>3. CASE hs # {}
  <2>1. PICK g \in hs, h \in hs : Pair(hs, g, h) BY <1>3 DEF HunksFit
  <2>2. CASE g = h
    <3>1. Single(hs, h) BY <2>1, <2>2 DEF Pair, Single
    <3>2. Patched(file, hs, c, typed) = Patched(file, {h}, c, typed) BY <3>1 DEF Single
    <3> QED BY <1>1, <3>1, GeometryOne
  <2>3. CASE g # h
    <3>1. Before(g) # Before(h) BY <1>1, <2>3, ApartBefore DEF Fits
    <3>2. Before(g) \in Nat /\ Before(h) \in Nat BY <1>1, HunkShape DEF Fits
    <3>3. CASE Before(h) < Before(g) BY <1>1, <2>1, <3>3, GeometryTwo
    <3>4. CASE Before(g) < Before(h)
      <4>1. Pair(hs, h, g) BY <2>1 DEF Pair
      <4> QED BY <1>1, <3>4, <4>1, GeometryTwo
    <3> QED BY <3>1, <3>2, <3>3, <3>4
  <2> QED BY <2>2, <2>3
<1> QED BY <1>2, <1>3

\* No line is at two places of a file that a commit made of one where none is.
LEMMA DistinctPatched ==
  ASSUME NEW old \in Seq(Line), NEW new \in Seq(Line), NEW c \in Nat, NEW hs,
         HunksFit(hs, Len(old)), Moved(old, new, hs, c), Sourced(old, new, hs, c),
         \A l \in 1..Len(old) : old[l].by < c,
         \A l, m \in 1..Len(old) : old[l] = old[m] => l = m
  PROVE  /\ \A n \in 1..Len(new) : \/ new[n].by = c
                                   \/ \E l \in 1..Len(old) : new[n] = old[l]
         /\ \A n, i \in 1..Len(new) : new[n] = new[i] => n = i
<1> DEFINE Kept(n, l) == l \in 1..Len(old) /\ ~Churned(l, hs) /\ n = l + ShiftFor(l, hs)
           Added(n, h, k) == h \in hs /\ k \in 1..h.nl /\ n = LandsAt(h, hs, k)
                             /\ new[n].by = c /\ new[n].at = Before(h) /\ new[n].k = k
<1>1. \A n \in 1..Len(new) : (\E l : Kept(n, l)) \/ (\E h, k : Added(n, h, k)) BY DEF Sourced
<1>2. \A n, l : Kept(n, l) => new[n] = old[l] /\ l \in 1..Len(old) BY DEF Moved
<1>3. \A n, l : Kept(n, l) => new[n].by < c BY <1>2
<1>4. ASSUME NEW n, NEW i, NEW l, NEW m, Kept(n, l), Kept(i, m), new[n] = new[i] PROVE n = i
  <2>1. old[l] = old[m] BY <1>2, <1>4
  <2>2. l = m BY <2>1, <1>2, <1>4
  <2> QED BY <1>4, <2>2
<1>5. ASSUME NEW n, NEW i, NEW g, NEW h, NEW k, NEW j, Added(n, g, k), Added(i, h, j), new[n] = new[i]
      PROVE  n = i
  <2>1. Before(g) = Before(h) /\ k = j BY <1>5
  <2>2. g \in hs /\ h \in hs /\ Apart(hs) /\ \A x \in hs : x \in Hunk /\ Anchored(x)
    BY <1>5 DEF HunksFit, Fits
  <2>3. g = h BY <2>1, <2>2, ApartBefore
  <2> QED BY <1>5, <2>1, <2>3
<1>6. \A n, h, k : Added(n, h, k) => new[n].by = c OBVIOUS
<1> HIDE DEF Kept, Added
<1>7. \A n \in 1..Len(new) : new[n].by = c \/ \E l \in 1..Len(old) : new[n] = old[l] BY <1>1, <1>2, <1>6
<1>8. ASSUME NEW n \in 1..Len(new), NEW i \in 1..Len(new), new[n] = new[i] PROVE n = i
  <2>1. CASE \E l : Kept(n, l)
    <3>1. new[i].by < c BY <1>3, <1>8, <2>1
    <3>2. ~(c < c) OBVIOUS
    <3>3. \E l : Kept(i, l) BY <1>1, <1>6, <3>1, <3>2
    <3> QED BY <1>4, <1>8, <2>1, <3>3
  <2>2. CASE \E h, k : Added(n, h, k)
    <3>1. new[i].by = c BY <1>6, <1>8, <2>2
    <3>2. ~(c < c) OBVIOUS
    <3>3. \E h, k : Added(i, h, k) BY <1>1, <1>3, <3>1, <3>2
    <3> QED BY <1>5, <1>8, <2>2, <3>3
  <2> QED BY <1>1, <2>1, <2>2
<1> QED BY <1>7, <1>8

-----------------------------------------------------------------------------
(* The commits to fold.                                                     *)

Parents == Len(log) \in Nat /\ \A c \in 1..Len(log) : log[c].parent \in 0..(c - 1)

\* No parent cycle, so that the recursive definitions define something.
LEMMA ChainIs ==
  ASSUME Parents
  PROVE  /\ Chain[0] = {0}
         /\ \A c \in 1..Len(log) : Chain[c] = {c} \cup Chain[log[c].parent]
<1> DEFINE up(c) == log[c].parent
           Steps(f, n) == f = [c \in 0..n |-> IF c = 0 THEN {0} ELSE {c} \cup f[up(c)]]
           Bad == {n \in 0..Len(log) : ~ \E f : Steps(f, n)}
<1>1. PICK N \in Nat : N = Len(log) BY DEF Parents
<1>2. \A c \in 1..N : up(c) \in 0..(c - 1) BY <1>1 DEF Parents
<1> HIDE DEF up
<1>3. Bad = {}
  <2> SUFFICES ASSUME Bad # {} PROVE FALSE OBVIOUS
  <2>1. PICK n \in Bad : \A q \in Bad : n <= q
    <3>1. Bad \in SUBSET Nat BY <1>1
    <3> QED BY <3>1, LeastElement
  <2>2. n \in 0..N /\ ~ \E f : Steps(f, n) BY <1>1
  <2>3. n # 0
    <3> DEFINE F == [c \in 0..0 |-> {0}]
    <3>1. Steps(F, 0)
      <4>1. \A c \in 0..0 : c = 0 OBVIOUS
      <4> QED BY <4>1
    <3> QED BY <2>2, <3>1
  <2>4. n - 1 \in 0..N /\ n - 1 \notin Bad BY <2>1, <2>2, <2>3
  <2>5. PICK f : Steps(f, n - 1) BY <1>1, <2>4
  <2> DEFINE F == [c \in 0..n |-> IF c = n THEN {n} \cup f[up(n)] ELSE f[c]]
  <2>6. \A c \in 0..(n - 1) : F[c] = f[c] /\ f[c] = IF c = 0 THEN {0} ELSE {c} \cup f[up(c)]
    <3> SUFFICES ASSUME NEW c \in 0..(n - 1)
                 PROVE  F[c] = f[c] /\ f[c] = IF c = 0 THEN {0} ELSE {c} \cup f[up(c)]
      OBVIOUS
    <3>1. c \in 0..n /\ c # n BY <2>2
    <3> QED BY <2>5, <3>1
  <2>7. \A c \in 1..n : up(c) \in 0..(n - 1) /\ F[up(c)] = f[up(c)]
    <3> SUFFICES ASSUME NEW c \in 1..n PROVE up(c) \in 0..(n - 1) /\ F[up(c)] = f[up(c)] OBVIOUS
    <3>1. up(c) \in 0..(c - 1) BY <1>2, <2>2
    <3>2. up(c) \in 0..(n - 1) BY <2>2, <3>1
    <3> QED BY <2>6, <3>2
  <2>8. Steps(F, n)
    <3> SUFFICES ASSUME NEW c \in 0..n PROVE F[c] = IF c = 0 THEN {0} ELSE {c} \cup F[up(c)] OBVIOUS
    <3>1. CASE c = n
      <4>1. F[c] = {n} \cup f[up(n)] BY <3>1
      <4>2. n \in 1..n BY <2>2, <2>3
      <4> QED BY <2>3, <2>7, <3>1, <4>1, <4>2
    <3>2. CASE c # n
      <4>1. c \in 0..(n - 1) BY <2>2, <3>2
      <4>2. c # 0 => c \in 1..n BY <2>2
      <4> QED BY <2>6, <2>7, <4>1, <4>2
    <3> QED BY <3>1, <3>2
  <2> QED BY <2>2, <2>8
<1>4. \E f : Steps(f, N)
  <2>1. N \in 0..Len(log) BY <1>1
  <2> QED BY <1>3, <2>1
<1>5. Chain = CHOOSE f : Steps(f, N) BY <1>1 DEF Chain, up
<1>6. Steps(Chain, N) BY <1>4, <1>5
<1>7. \A c \in 0..N : Chain[c] = IF c = 0 THEN {0} ELSE {c} \cup Chain[up(c)] BY <1>6
<1>8. Chain[0] = {0}
  <2>1. 0 \in 0..N OBVIOUS
  <2> QED BY <1>7, <2>1
<1>9. \A c \in 1..N : Chain[c] = {c} \cup Chain[up(c)]
  <2>1. \A c \in 1..N : c \in 0..N /\ c # 0 OBVIOUS
  <2> QED BY <1>7, <2>1
<1> QED BY <1>1, <1>8, <1>9 DEF up

Reached(c) == c = 0 \/ c \in Chain[cursor]

LEMMA UnfoldedIs ==
  ASSUME Parents
  PROVE  \A c \in 0..Len(log) :
           Unfolded[c] = IF Reached(c) THEN <<>> ELSE Append(Unfolded[log[c].parent], c)
<1> DEFINE up(c) == log[c].parent
           Steps(f, n) == f = [c \in 0..n |-> IF Reached(c) THEN <<>> ELSE Append(f[up(c)], c)]
           Bad == {n \in 0..Len(log) : ~ \E f : Steps(f, n)}
<1>1. PICK N \in Nat : N = Len(log) BY DEF Parents
<1>2. \A c \in 1..N : up(c) \in 0..(c - 1) BY <1>1 DEF Parents
<1>3. Unfolded = CHOOSE f : Steps(f, N) BY <1>1 DEF Unfolded, Reached
<1>4. Reached(0) BY DEF Reached
<1> HIDE DEF up
<1>5. Bad = {}
  <2> SUFFICES ASSUME Bad # {} PROVE FALSE OBVIOUS
  <2>1. PICK n \in Bad : \A q \in Bad : n <= q
    <3>1. Bad \in SUBSET Nat BY <1>1
    <3> QED BY <3>1, LeastElement
  <2>2. n \in 0..N /\ ~ \E f : Steps(f, n) BY <1>1
  <2>3. n # 0
    <3> DEFINE F == [c \in 0..0 |-> <<>>]
    <3>1. Steps(F, 0)
      <4>1. \A c \in 0..0 : c = 0 OBVIOUS
      <4> QED BY <1>4, <4>1
    <3> QED BY <2>2, <3>1
  <2>4. n - 1 \in 0..N /\ n - 1 \notin Bad BY <2>1, <2>2, <2>3
  <2>5. PICK f : Steps(f, n - 1) BY <1>1, <2>4
  <2> DEFINE F == [c \in 0..n |-> IF c = n THEN IF Reached(n) THEN <<>> ELSE Append(f[up(n)], n) ELSE f[c]]
  <2>6. \A c \in 0..(n - 1) : F[c] = f[c] /\ f[c] = IF Reached(c) THEN <<>> ELSE Append(f[up(c)], c)
    <3> SUFFICES ASSUME NEW c \in 0..(n - 1)
                 PROVE  F[c] = f[c] /\ f[c] = IF Reached(c) THEN <<>> ELSE Append(f[up(c)], c)
      OBVIOUS
    <3>1. c \in 0..n /\ c # n BY <2>2
    <3> QED BY <2>5, <3>1
  <2>7. \A c \in 1..n : up(c) \in 0..(n - 1) /\ F[up(c)] = f[up(c)]
    <3> SUFFICES ASSUME NEW c \in 1..n PROVE up(c) \in 0..(n - 1) /\ F[up(c)] = f[up(c)] OBVIOUS
    <3>1. up(c) \in 0..(c - 1) BY <1>2, <2>2
    <3>2. up(c) \in 0..(n - 1) BY <2>2, <3>1
    <3> QED BY <2>6, <3>2
  <2>8. Steps(F, n)
    <3> SUFFICES ASSUME NEW c \in 0..n
                 PROVE  F[c] = IF Reached(c) THEN <<>> ELSE Append(F[up(c)], c)
      OBVIOUS
    <3>1. CASE c = n
      <4>1. F[c] = IF Reached(n) THEN <<>> ELSE Append(f[up(n)], n) BY <3>1
      <4>2. n \in 1..n BY <2>2, <2>3
      <4> QED BY <2>7, <3>1, <4>1, <4>2
    <3>2. CASE c # n
      <4>1. c \in 0..(n - 1) BY <2>2, <3>2
      <4>2. c # 0 => c \in 1..n BY <2>2
      <4> QED BY <1>4, <2>6, <2>7, <4>1, <4>2
    <3> QED BY <3>1, <3>2
  <2> QED BY <2>2, <2>8
<1>6. \E f : Steps(f, N)
  <2>1. N \in 0..Len(log) BY <1>1
  <2> QED BY <1>5, <2>1
<1>7. Steps(Unfolded, N) BY <1>3, <1>6
<1>8. \A c \in 0..N : Unfolded[c] = IF Reached(c) THEN <<>> ELSE Append(Unfolded[up(c)], c) BY <1>7
<1> QED BY <1>1, <1>8 DEF up

\* What is still to fold are commits.
LEMMA UnfoldedCommits ==
  ASSUME Parents, NEW c \in 0..Len(log)
  PROVE  Unfolded[c] \in Seq(1..Len(log))
<1> DEFINE Bad == {n \in 0..Len(log) : Unfolded[n] \notin Seq(1..Len(log))}
<1>1. Len(log) \in Nat /\ \A n \in 1..Len(log) : log[n].parent \in 0..(n - 1) BY DEF Parents
<1>2. ASSUME Bad # {} PROVE FALSE
  <2>1. PICK n \in Bad : \A q \in Bad : n <= q
    <3>1. Bad \in SUBSET Nat BY <1>1
    <3> QED BY <1>2, <3>1, LeastElement
  <2>2. n \in 0..Len(log) /\ Unfolded[n] = IF Reached(n) THEN <<>> ELSE Append(Unfolded[log[n].parent], n)
    BY UnfoldedIs
  <2>3. ~Reached(n)
    <3>1. <<>> \in Seq(1..Len(log)) OBVIOUS
    <3> QED BY <2>1, <2>2, <3>1
  <2>4. n \in 1..Len(log) BY <1>1, <2>2, <2>3 DEF Reached
  <2>5. log[n].parent \in 0..Len(log) /\ log[n].parent < n BY <1>1, <2>4
  <2>6. log[n].parent \notin Bad BY <1>1, <2>1, <2>4, <2>5
  <2>7. Unfolded[log[n].parent] \in Seq(1..Len(log)) BY <2>5, <2>6
  <2>8. Append(Unfolded[log[n].parent], n) \in Seq(1..Len(log)) BY <2>4, <2>7, AppendProperties
  <2> QED BY <2>1, <2>2, <2>3, <2>8
<1> QED BY <1>2

Linear == \A c \in 1..Len(log) : log[c].parent = c - 1

LEMMA LinearChain ==
  ASSUME Parents, Linear, NEW c \in 0..Len(log)
  PROVE  Chain[c] = 0..c
<1> DEFINE Bad == {n \in 0..Len(log) : Chain[n] # 0..n}
<1>1. Len(log) \in Nat /\ \A n \in 1..Len(log) : log[n].parent = n - 1 BY DEF Parents, Linear
<1>2. ASSUME Bad # {} PROVE FALSE
  <2>1. PICK n \in Bad : \A q \in Bad : n <= q
    <3>1. Bad \in SUBSET Nat BY <1>1
    <3> QED BY <1>2, <3>1, LeastElement
  <2>2. n # 0
    <3>1. 0..0 = {0} OBVIOUS
    <3> QED BY <2>1, <3>1, ChainIs
  <2>3. n \in 1..Len(log) BY <1>1, <2>2
  <2>4. Chain[n] = {n} \cup Chain[n - 1] BY <1>1, <2>3, ChainIs
  <2>5. n - 1 \in 0..Len(log) /\ n - 1 \notin Bad BY <1>1, <2>1, <2>3
  <2>6. Chain[n - 1] = 0..(n - 1) BY <2>5
  <2>7. {n} \cup (0..(n - 1)) = 0..n BY <2>3
  <2> QED BY <2>1, <2>4, <2>6, <2>7
<1> QED BY <1>2

LEMMA LinearUnfolded ==
  ASSUME Parents, Linear, cursor \in 0..Len(log), NEW c \in cursor..Len(log)
  PROVE  /\ Unfolded[c] \in Seq(1..Len(log)) /\ Len(Unfolded[c]) = c - cursor
         /\ \A i \in 1..(c - cursor) : Unfolded[c][i] = cursor + i
<1> DEFINE From(n) == Len(Unfolded[n]) = n - cursor /\ \A i \in 1..(n - cursor) : Unfolded[n][i] = cursor + i
           Bad == {n \in cursor..Len(log) : ~From(n)}
<1>1. Len(log) \in Nat /\ \A n \in 1..Len(log) : log[n].parent = n - 1 BY DEF Parents, Linear
<1>2. \A n \in 0..Len(log) : Reached(n) <=> n <= cursor
  <2>1. Chain[cursor] = 0..cursor BY LinearChain
  <2> QED BY <1>1, <2>1 DEF Reached
<1>3. ASSUME Bad # {} PROVE FALSE
  <2>1. PICK n \in Bad : \A q \in Bad : n <= q
    <3>1. Bad \in SUBSET Nat BY <1>1
    <3> QED BY <1>3, <3>1, LeastElement
  <2>2. n \in cursor..Len(log) /\ ~From(n) OBVIOUS
  <2> HIDE DEF Bad
  <2>3. n \in 0..Len(log) BY <1>1, <2>2
  <2>4. Unfolded[n] = IF Reached(n) THEN <<>> ELSE Append(Unfolded[log[n].parent], n) BY <2>3, UnfoldedIs
  <2>5. n # cursor
    <3> SUFFICES ASSUME n = cursor PROVE FALSE OBVIOUS
    <3>1. Unfolded[n] = <<>> BY <1>2, <2>3, <2>4
    <3>2. n - cursor = 0 /\ 1..0 = {} BY <2>3
    <3> QED BY <2>2, <3>1, <3>2
  <2>6. n - 1 \in cursor..Len(log) /\ n \in 1..Len(log) /\ ~(n <= cursor) BY <1>1, <2>2, <2>5
  <2>7. From(n - 1) BY <1>1, <2>1, <2>6 DEF Bad
  <2>8. PICK s : s = Unfolded[n - 1] OBVIOUS
  <2>9. Unfolded[n] = Append(s, n) BY <1>1, <1>2, <2>3, <2>4, <2>6, <2>8
  <2>10. s \in Seq(1..Len(log)) BY <1>1, <2>6, <2>8, UnfoldedCommits
  <2>11. Len(s) = n - 1 - cursor /\ \A i \in 1..(n - 1 - cursor) : s[i] = cursor + i BY <2>7, <2>8
  <2>12. Len(Append(s, n)) = Len(s) + 1 /\ \A i \in 1..Len(s) : Append(s, n)[i] = s[i]
    BY <2>6, <2>10, AppendProperties
  <2>13. Append(s, n)[Len(s) + 1] = n BY <2>6, <2>10, AppendProperties
  <2>14. n - 1 - cursor + 1 = n - cursor /\ n - 1 - cursor \in Nat BY <2>6
  <2>15. ASSUME NEW i \in 1..(n - cursor) PROVE Append(s, n)[i] = cursor + i
    <3>1. CASE i = n - cursor
      <4>1. i = Len(s) + 1 BY <2>11, <2>14, <3>1
      <4>2. cursor \in Int /\ n \in Int BY <1>1, <2>6
      <4>3. cursor + i = n BY <3>1, <4>2
      <4> QED BY <2>13, <4>1, <4>3
    <3>2. CASE i # n - cursor
      <4>1. i \in 1..(n - 1 - cursor) BY <2>14, <3>2
      <4> QED BY <2>11, <2>12, <4>1
    <3> QED BY <3>1, <3>2
  <2>16. From(n) BY <2>9, <2>11, <2>12, <2>14, <2>15
  <2> QED BY <2>2, <2>16
<1>4. From(c) BY <1>3
<1>5. c \in 0..Len(log) BY <1>1
<1> QED BY <1>4, <1>5, UnfoldedCommits

\* A poll that finds the branch ahead of the cursor folds the commits behind the cursor,
\* in their order.
LEMMA ToFoldIs ==
  ASSUME Parents, Linear, cursor \in 0..Len(log), tip = Len(log), Burst \in Nat \ {0}
  PROVE  /\ ToFold \in Seq(1..Len(log))
         /\ \A i \in 1..Len(ToFold) : ToFold[i] = cursor + i
         /\ cursor # tip => ToFold # <<>>
<1>1. PICK u : u = Unfolded[tip] OBVIOUS
<1>2. PICK t \in Nat : t = tip /\ t = Len(log) BY DEF Parents
<1>3. t \in cursor..Len(log) BY <1>2
<1>4. /\ u \in Seq(1..Len(log)) /\ Len(u) = t - cursor
      /\ \A i \in 1..(t - cursor) : u[i] = cursor + i
  BY <1>1, <1>2, <1>3, LinearUnfolded
<1>5. PICK k \in Nat : k = Min({Burst, Len(u)}) /\ k <= Len(u) /\ (Len(u) > 0 => k > 0)
  <2>1. Len(u) \in Nat BY <1>3, <1>4
  <2> QED BY <2>1, LesserOf
<1>6. ToFold = SubSeq(u, 1, k) BY <1>1, <1>5 DEF ToFold
<1>7. /\ SubSeq(u, 1, k) \in Seq(1..Len(log)) /\ Len(SubSeq(u, 1, k)) = k
      /\ \A i \in 1..k : SubSeq(u, 1, k)[i] = u[i]
  BY <1>4, <1>5, Front
<1>8. \A i \in 1..k : i \in 1..(t - cursor) BY <1>4, <1>5
<1>9. cursor # tip => k > 0 BY <1>2, <1>3, <1>4, <1>5
<1>10. Len(<<>>) = 0 OBVIOUS
<1>11. cursor # tip => SubSeq(u, 1, k) # <<>>
  <2>1. SubSeq(u, 1, k) = <<>> => k = 0 BY <1>7, <1>10
  <2> QED BY <1>9, <2>1
<1> QED BY <1>4, <1>6, <1>7, <1>8, <1>11

LEMMA ToFoldCommits ==
  ASSUME Parents, tip \in 0..Len(log), Burst \in Nat \ {0}
  PROVE  ToFold \in Seq(1..Len(log))
<1>1. PICK u : u = Unfolded[tip] OBVIOUS
<1>2. u \in Seq(1..Len(log)) BY <1>1, UnfoldedCommits
<1>3. PICK k \in Nat : k = Min({Burst, Len(u)}) /\ k <= Len(u)
  <2>1. Len(u) \in Nat BY <1>2, LenProperties
  <2> QED BY <2>1, LesserOf
<1> QED BY <1>1, <1>2, <1>3, Front DEF ToFold

-----------------------------------------------------------------------------
(* The history of the repository.                                           *)

Entry == [parent : Nat, path : Path, from : Path, hunks : SUBSET Hunk]

\* Commit c and the one it was made on.
CommitTrue(c) ==
  /\ log[c].parent \in 0..(c - 1)
  /\ HunksFit(log[c].hunks, Len(tree[log[c].parent][log[c].from]))
  /\ Moved(tree[log[c].parent][log[c].from], tree[c][log[c].path], log[c].hunks, c)
  /\ \A q \in Path \ {log[c].path} :
       tree[c][q] = IF q = log[c].from THEN <<>> ELSE tree[log[c].parent][q]
  /\ log[c].from # log[c].path => tree[log[c].parent][log[c].path] = <<>>

\* The lines of a commit came in with it or before it, and none is at two places.
Distinct(c) ==
  /\ \A p \in Path : \A l \in 1..Len(tree[c][p]) : tree[c][p][l].by <= c
  /\ \A p, q \in Path : \A l \in 1..Len(tree[c][p]), m \in 1..Len(tree[c][q]) :
       tree[c][p][l] = tree[c][q][m] => p = q /\ l = m

Files(c) == \A p \in Path : tree[c][p] \in Seq(Line) /\ Len(tree[c][p]) <= env.lines

History ==
  /\ env \in Environments
  /\ log \in Seq(Entry) /\ DOMAIN tree = 0..Len(log) /\ tip \in 0..Len(log)
  /\ \A c \in 0..Len(log) : Files(c) /\ Distinct(c)
  /\ \A c \in 1..Len(log) : CommitTrue(c)
  /\ "rewrite" \notin env.may => tip = Len(log) /\ Linear

historyVars == <<env, log, tree, tip>>

LEMMA HistoryInit ==
  ASSUME Init
  PROVE  History
<1>1. env \in Environments /\ log = <<>> /\ tip = 0 BY DEF Init
<1>2. log \in Seq(Entry) /\ Len(log) = 0 BY <1>1
<1>3. env.lines \in Nat \ {0} BY <1>1, DurabilityAssumption DEF EnvironmentType
<1> DEFINE first == [by |-> 0, at |-> 0, k |-> 1, ai |-> FALSE]
           one == CHOOSE q \in Path : TRUE
<1>4. tree = [c \in {0} |-> [p \in Path |-> IF p = one THEN <<first>> ELSE <<>>]] BY DEF Init
<1> HIDE DEF one
<1>5. first \in Line BY DEF Line
<1>6. <<first>> \in Seq(Line) /\ <<>> \in Seq(Line) /\ Len(<<first>>) = 1 /\ Len(<<>>) = 0 /\ <<first>>[1] = first
  BY <1>5
<1>7. 0..0 = {0} /\ 1..1 = {1} /\ 1..0 = {} OBVIOUS
<1>8. \A p \in Path : tree[0][p] = IF p = one THEN <<first>> ELSE <<>> BY <1>4
<1>9. Files(0)
  <2> SUFFICES ASSUME NEW p \in Path PROVE tree[0][p] \in Seq(Line) /\ Len(tree[0][p]) <= env.lines
    BY DEF Files
  <2>1. 1 <= env.lines /\ 0 <= env.lines BY <1>3
  <2>2. CASE p = one BY <1>6, <1>8, <2>1, <2>2
  <2>3. CASE p # one BY <1>6, <1>8, <2>1, <2>3
  <2> QED BY <2>2, <2>3
<1>10. \A p \in Path : \A l \in 1..Len(tree[0][p]) : p = one /\ l = 1 /\ tree[0][p][l] = first
  <2> SUFFICES ASSUME NEW p \in Path, NEW l \in 1..Len(tree[0][p])
               PROVE  p = one /\ l = 1 /\ tree[0][p][l] = first
    OBVIOUS
  <2>1. CASE p = one BY <1>6, <1>7, <1>8, <2>1
  <2>2. CASE p # one BY <1>6, <1>7, <1>8, <2>2
  <2> QED BY <2>1, <2>2
<1>11. Distinct(0)
  <2>1. first.by = 0 OBVIOUS
  <2> QED BY <1>10, <2>1 DEF Distinct
<1>12. DOMAIN tree = 0..0 BY <1>4, <1>7
<1>13. Linear BY <1>2, <1>7 DEF Linear
<1>14. \A c \in 0..0 : c = 0 OBVIOUS
<1> QED BY <1>1, <1>2, <1>7, <1>9, <1>11, <1>12, <1>13, <1>14 DEF History

LEMMA HistoryKept == History /\ UNCHANGED historyVars => History'
BY DEF History, historyVars, Files, Distinct, CommitTrue, Linear

\* What there was before a commit stays as it was.
LEMMA Appended ==
  ASSUME log \in Seq(Entry), NEW e \in Entry, log' = Append(log, e)
  PROVE  /\ Len(log) \in Nat /\ log' \in Seq(Entry) /\ Len(log') = Len(log) + 1 /\ log'[Len(log) + 1] = e
         /\ \A c \in 1..Len(log) : log'[c] = log[c]
BY AppendProperties, LenProperties

\* The hunks a commit may have fit its file.
LEMMA CommitHunks ==
  ASSUME env.new \in Nat, NEW n \in Nat, NEW p, NEW from,
         NEW hs \in HunkSets(n) \cup (IF from # p THEN {{}} ELSE {}), Apart(hs)
  PROVE  HunksFit(hs, n) /\ hs \in SUBSET Hunk /\ \A h \in hs : Brings(h, env.new)
<1>1. ASSUME NEW h \in HunksOf(n) PROVE h \in Hunk /\ Fits(h, n) /\ Brings(h, env.new)
  <2>1. h \in [os : 0..n, ol : 0..n, nl : 0..env.new]
        /\ IF h.ol = 0 THEN h.nl > 0 ELSE h.os > 0 /\ Bottom(h) <= n
    BY DEF HunksOf
  <2>2. h.os \in 0..n /\ h.ol \in 0..n /\ h.nl \in 0..env.new /\ h \in Hunk
    BY <2>1 DEF Hunk
  <2>3. h.ol = 0 => Bottom(h) = h.os BY DEF Bottom
  <2> QED BY <2>1, <2>2, <2>3 DEF Fits, Anchored, Brings
<1>2. CASE \E h \in HunksOf(n) : hs = {h} BY <1>1, <1>2 DEF HunksFit, Pair
<1>3. CASE \E g, h \in HunksOf(n) : hs = {g, h} BY <1>1, <1>3 DEF HunksFit, Pair
<1>4. CASE hs = {} BY <1>4 DEF HunksFit
<1>5. hs = {} \/ (\E h \in HunksOf(n) : hs = {h}) \/ (\E g, h \in HunksOf(n) : hs = {g, h})
  <2>1. hs \in HunkSets(n) \/ hs = {} OBVIOUS
  <2>2. ASSUME hs \in HunkSets(n)
        PROVE  (\E h \in HunksOf(n) : hs = {h}) \/ (\E g, h \in HunksOf(n) : hs = {g, h})
    <3> DEFINE H == HunksOf(n)
               ones == {{h} : h \in H}
               twos == {{g, h} : g \in H, h \in H}
    <3>1. HunkSets(n) = ones \cup (IF "twoHunks" \notin env.may THEN {} ELSE twos) BY DEF HunkSets
    <3>2. hs \in ones => \E h \in H : hs = {h} OBVIOUS
    <3>3. hs \in twos => \E g, h \in H : hs = {g, h} OBVIOUS
    <3> HIDE DEF ones, twos, H
    <3>4. hs \in ones \/ hs \in twos
      <4>1. CASE "twoHunks" \in env.may BY <2>2, <3>1, <4>1
      <4>2. CASE "twoHunks" \notin env.may BY <2>2, <3>1, <4>2
      <4> QED BY <4>1, <4>2
    <3> QED BY <3>2, <3>3, <3>4 DEF H
  <2> QED BY <2>1, <2>2
<1> QED BY <1>2, <1>3, <1>4, <1>5

\* One line, and one file, of a commit.
LEMMA LineOf ==
  ASSUME NEW f \in Seq(Line), NEW l \in 1..Len(f)
  PROVE  f[l] \in Line /\ f[l].by \in Nat
<1>1. f[l] \in Line BY ElementOfSeq
<1> QED BY <1>1 DEF Line

LEMMA HistoryCommit ==
  ASSUME History, Commit
  PROVE  History'
<1> DEFINE c == Len(log) + 1
<1>1. PICK p \in Path, from \in Path :
        /\ from # p => tree[tip][p] = <<>>
        /\ \E hs \in HunkSets(Len(tree[tip][from])) \cup (IF from # p THEN {{}} ELSE {}),
              typed \in IF "squash" \in env.may THEN [1..env.new -> BOOLEAN]
                                                ELSE {[k \in 1..env.new |-> FALSE]} :
             LET file == Patched(tree[tip][from], hs, c, typed)
             IN  /\ Apart(hs) /\ Len(file) <= env.lines
                 /\ log' = Append(log, [parent |-> tip, path |-> p, from |-> from, hunks |-> hs])
                 /\ tree' = [n \in 0..c |->
                      IF n < c THEN tree[n]
                      ELSE [q \in Path |-> IF q = p THEN file
                                           ELSE IF q = from THEN <<>> ELSE tree[tip][q]]]
  BY SMTT(60), ZenonT(60) DEF Commit
<1>2. PICK hs \in HunkSets(Len(tree[tip][from])) \cup (IF from # p THEN {{}} ELSE {}),
           typed \in IF "squash" \in env.may THEN [1..env.new -> BOOLEAN]
                                             ELSE {[k \in 1..env.new |-> FALSE]} :
        LET file == Patched(tree[tip][from], hs, c, typed)
        IN  /\ Apart(hs) /\ Len(file) <= env.lines
            /\ log' = Append(log, [parent |-> tip, path |-> p, from |-> from, hunks |-> hs])
            /\ tree' = [n \in 0..c |->
                 IF n < c THEN tree[n]
                 ELSE [q \in Path |-> IF q = p THEN file
                                      ELSE IF q = from THEN <<>> ELSE tree[tip][q]]]
  BY <1>1
<1>3. PICK old : old = tree[tip][from] OBVIOUS
<1>4. PICK file : file = Patched(old, hs, c, typed) OBVIOUS
<1>5. PICK e : e = [parent |-> tip, path |-> p, from |-> from, hunks |-> hs] OBVIOUS
<1>6. /\ Apart(hs) /\ Len(file) <= env.lines /\ log' = Append(log, e)
      /\ tree' = [n \in 0..c |->
           IF n < c THEN tree[n]
           ELSE [q \in Path |-> IF q = p THEN file ELSE IF q = from THEN <<>> ELSE tree[tip][q]]]
  BY <1>2, <1>3, <1>4, <1>5
<1>7. tip' = c /\ env' = env BY DEF Commit
<1>8. PICK N \in Nat : N = Len(log) BY LenProperties DEF History
<1>9. tip \in 0..N /\ c = N + 1 /\ c \in Nat /\ tip < c BY <1>8 DEF History
<1>10. env \in Environments /\ env.new \in Nat BY DurabilityAssumption DEF History, EnvironmentType
<1>11. old \in Seq(Line) /\ Len(old) \in Nat
  <2>1. Files(tip) BY <1>8, <1>9 DEF History
  <2> QED BY <1>3, <2>1, LenProperties DEF Files
<1>12. hs \in HunkSets(Len(old)) \cup (IF from # p THEN {{}} ELSE {}) BY <1>3
<1>13. typed \in [1..env.new -> BOOLEAN]
  <2>1. CASE "squash" \in env.may BY <2>1
  <2>2. CASE "squash" \notin env.may
    <3>1. typed = [k \in 1..env.new |-> FALSE] BY <2>2
    <3> QED BY <3>1
  <2> QED BY <2>1, <2>2
<1> HIDE DEF c
<1>14. HunksFit(hs, Len(old)) /\ hs \in SUBSET Hunk /\ \A h \in hs : Brings(h, env.new)
  BY <1>6, <1>10, <1>11, <1>12, CommitHunks
<1>15. file \in Seq(Line) /\ Moved(old, file, hs, c) /\ Sourced(old, file, hs, c)
  BY <1>4, <1>9, <1>10, <1>11, <1>13, <1>14, Geometry
<1>16. /\ e \in Entry /\ e.parent = tip /\ e.path = p /\ e.from = from /\ e.hunks = hs
  BY <1>5, <1>9, <1>14 DEF Entry
<1>17. /\ log' \in Seq(Entry) /\ Len(log') = c /\ log'[c] = e
       /\ \A n \in 1..N : log'[n] = log[n]
  BY <1>6, <1>8, <1>9, <1>16, Appended DEF History
<1>18. \A n \in 0..N : tree'[n] = tree[n]
  <2>1. \A n \in 0..N : n \in 0..c /\ n < c BY <1>9
  <2> QED BY <1>6, <2>1
<1>19. /\ tree'[c][p] = file
       /\ \A q \in Path \ {p} : tree'[c][q] = IF q = from THEN <<>> ELSE tree[tip][q]
  <2>1. c \in 0..c /\ ~(c < c) BY <1>9
  <2>2. tree'[c] = [q \in Path |-> IF q = p THEN file ELSE IF q = from THEN <<>> ELSE tree[tip][q]]
    BY <1>6, <2>1
  <2> QED BY <2>2
<1>20. \A n \in 0..c : n = c \/ n \in 0..N BY <1>9
<1>21. Files(tip) /\ Distinct(tip) BY <1>8, <1>9 DEF History
<1>22. ASSUME NEW n \in 0..c PROVE Files(n)'
  <2>1. CASE n \in 0..N
    <3>1. Files(n) BY <1>8, <2>1 DEF History
    <3> QED BY <1>7, <1>18, <2>1, <3>1 DEF Files
  <2>2. CASE n = c
    <3> SUFFICES ASSUME NEW q \in Path PROVE tree'[c][q] \in Seq(Line) /\ Len(tree'[c][q]) <= env.lines
      BY <1>7, <2>2 DEF Files
    <3>1. CASE q = p BY <1>6, <1>15, <1>19, <3>1
    <3>2. CASE q # p /\ q = from
      <4>1. <<>> \in Seq(Line) /\ Len(<<>>) = 0 /\ 0 <= env.lines
        BY <1>10, DurabilityAssumption DEF EnvironmentType
      <4> QED BY <1>19, <3>2, <4>1
    <3>3. CASE q # p /\ q # from
      <4>1. tree'[c][q] = tree[tip][q] BY <1>19, <3>3
      <4> QED BY <1>21, <4>1 DEF Files
    <3> QED BY <3>1, <3>2, <3>3
  <2> QED BY <1>20, <2>1, <2>2
<1>23. /\ \A l \in 1..Len(old) : old[l].by \in Nat /\ old[l].by <= tip
       /\ \A l \in 1..Len(old) : old[l].by < c
       /\ \A l, m \in 1..Len(old) : old[l] = old[m] => l = m
  <2>1. \A l \in 1..Len(old) : old[l].by <= tip BY <1>3, <1>21 DEF Distinct
  <2>2. \A l \in 1..Len(old) : old[l].by \in Nat BY <1>11, LineOf
  <2>3. \A l \in 1..Len(old) : old[l].by < c BY <1>9, <2>1, <2>2
  <2>4. \A l, m \in 1..Len(old) : old[l] = old[m] => l = m BY <1>3, <1>21 DEF Distinct
  <2> QED BY <2>1, <2>2, <2>3, <2>4
<1>24. /\ \A n \in 1..Len(file) : file[n].by = c \/ \E l \in 1..Len(old) : file[n] = old[l]
       /\ \A n, i \in 1..Len(file) : file[n] = file[i] => n = i
  <2>1. HunksFit(hs, Len(old)) /\ c \in Nat BY <1>9, <1>14
  <2>2. \A n \in 1..Len(file) : file[n].by = c \/ \E l \in 1..Len(old) : file[n] = old[l]
    BY <1>11, <1>15, <1>23, <2>1, DistinctPatched
  <2>3. \A n, i \in 1..Len(file) : file[n] = file[i] => n = i
    BY <1>11, <1>15, <1>23, <2>1, DistinctPatched
  <2> QED BY <2>2, <2>3
<1>25. \A q \in Path \ {p} : \A m \in 1..Len(tree'[c][q]) :
         /\ q # from /\ tree'[c][q] = tree[tip][q] /\ m \in 1..Len(tree[tip][q])
         /\ tree[tip][q][m].by \in Nat /\ tree[tip][q][m].by <= tip
  <2> SUFFICES ASSUME NEW q \in Path \ {p}, NEW m \in 1..Len(tree'[c][q])
               PROVE  /\ q # from /\ tree'[c][q] = tree[tip][q] /\ m \in 1..Len(tree[tip][q])
                      /\ tree[tip][q][m].by \in Nat /\ tree[tip][q][m].by <= tip
    OBVIOUS
  <2>1. q # from
    <3>1. Len(<<>>) = 0 /\ 1..0 = {} OBVIOUS
    <3> QED BY <1>19, <3>1
  <2>2. tree'[c][q] = tree[tip][q] BY <1>19, <2>1
  <2>3. tree[tip][q][m].by <= tip BY <1>21, <2>2 DEF Distinct
  <2>4. tree[tip][q] \in Seq(Line) BY <1>21 DEF Files
  <2>5. tree[tip][q][m].by \in Nat BY <2>2, <2>4, LineOf
  <2> QED BY <2>1, <2>2, <2>3, <2>5
<1>26. ASSUME NEW q \in Path \ {p}, NEW m \in 1..Len(tree'[c][q]), NEW l \in 1..Len(file)
       PROVE  file[l] # tree'[c][q][m]
  <2>1. /\ q # from /\ tree'[c][q] = tree[tip][q] /\ m \in 1..Len(tree[tip][q])
        /\ tree[tip][q][m].by \in Nat /\ tree[tip][q][m].by <= tip
    BY <1>25
  <2>2. CASE file[l].by = c
    <3>1. tree[tip][q][m].by # c BY <1>9, <2>1
    <3> QED BY <2>1, <2>2, <3>1
  <2>3. CASE \E k \in 1..Len(old) : file[l] = old[k] BY <1>3, <1>21, <2>1, <2>3 DEF Distinct
  <2> QED BY <1>24, <2>2, <2>3
<1>27. ASSUME NEW n \in 0..c PROVE Distinct(n)'
  <2>1. CASE n \in 0..N
    <3>1. Distinct(n) BY <1>8, <2>1 DEF History
    <3> QED BY <1>18, <2>1, <3>1 DEF Distinct
  <2>2. CASE n = c
    <3>1. ASSUME NEW q \in Path, NEW l \in 1..Len(tree'[c][q]) PROVE tree'[c][q][l].by <= c
      <4>1. CASE q = p
        <5>1. l \in 1..Len(file) /\ tree'[c][q] = file BY <1>19, <3>1, <4>1
        <5>2. CASE file[l].by = c
          <6>1. c <= c BY <1>9
          <6> QED BY <5>1, <5>2, <6>1
        <5>3. CASE \E k \in 1..Len(old) : file[l] = old[k] BY <1>9, <1>23, <5>1, <5>3
        <5> QED BY <1>24, <5>1, <5>2, <5>3
      <4>2. CASE q # p
        <5>1. tree'[c][q][l].by \in Nat /\ tree'[c][q][l].by <= tip BY <1>25, <3>1, <4>2
        <5> QED BY <1>9, <5>1
      <4> QED BY <4>1, <4>2
    <3>2. ASSUME NEW q \in Path, NEW r \in Path, NEW l \in 1..Len(tree'[c][q]), NEW m \in 1..Len(tree'[c][r]),
                 tree'[c][q][l] = tree'[c][r][m]
          PROVE  q = r /\ l = m
      <4>1. CASE q = p /\ r = p BY <1>19, <1>24, <3>2, <4>1
      <4>2. CASE q = p /\ r # p BY <1>19, <1>26, <3>2, <4>2
      <4>3. CASE q # p /\ r = p BY <1>19, <1>26, <3>2, <4>3
      <4>4. CASE q # p /\ r # p
        <5>1. tree'[c][q] = tree[tip][q] /\ tree'[c][r] = tree[tip][r] BY <1>25, <4>4
        <5> QED BY <1>21, <3>2, <5>1 DEF Distinct
      <4> QED BY <4>1, <4>2, <4>3, <4>4
    <3> QED BY <2>2, <3>1, <3>2 DEF Distinct
  <2> QED BY <1>20, <2>1, <2>2
<1>28. ASSUME NEW n \in 1..c PROVE CommitTrue(n)'
  <2>1. CASE n \in 1..N
    <3>1. CommitTrue(n) BY <1>8, <2>1 DEF History
    <3>2. log[n].parent \in 0..N /\ n \in 0..N BY <2>1, <3>1 DEF CommitTrue
    <3>3. tree'[log[n].parent] = tree[log[n].parent] /\ tree'[n] = tree[n] /\ log'[n] = log[n]
      BY <1>17, <1>18, <2>1, <3>2
    <3> QED BY <3>1, <3>3 DEF CommitTrue
  <2>2. CASE n = c
    <3>1. tree'[tip] = tree[tip] /\ tip \in 0..(c - 1) BY <1>9, <1>18
    <3> QED BY <1>1, <1>3, <1>14, <1>15, <1>16, <1>17, <1>19, <2>2, <3>1 DEF CommitTrue
  <2>3. n = c \/ n \in 1..N BY <1>9
  <2> QED BY <2>1, <2>2, <2>3
<1>29. ASSUME "rewrite" \notin env.may PROVE Linear'
  <2>1. tip = N /\ Linear BY <1>8, <1>29 DEF History
  <2> SUFFICES ASSUME NEW n \in 1..c PROVE log'[n].parent = n - 1 BY <1>17 DEF Linear
  <2>2. CASE n \in 1..N BY <1>8, <1>17, <2>1, <2>2 DEF Linear
  <2>3. CASE n = c BY <1>9, <1>16, <1>17, <2>1, <2>3
  <2>4. n = c \/ n \in 1..N BY <1>9
  <2> QED BY <2>2, <2>3, <2>4
<1>30. DOMAIN tree' = 0..c /\ tip' \in 0..c BY <1>6, <1>7, <1>9
<1> QED BY <1>7, <1>10, <1>17, <1>22, <1>27, <1>28, <1>29, <1>30 DEF History

LEMMA HistoryRewrite ==
  ASSUME History, RewriteBranch
  PROVE  History'
<1>1. Len(log) \in Nat BY LenProperties DEF History
<1>2. tip' \in 0..Len(log) /\ UNCHANGED <<env, log, tree>> /\ "rewrite" \in env.may BY <1>1 DEF RewriteBranch
<1> QED BY <1>2 DEF History, Files, Distinct, CommitTrue, Linear

LEMMA PollKeeps ==
  ASSUME NEW w \in Poller, Poll(w)
  PROVE  UNCHANGED <<historyVars, otherVars, day, sibHolds>>
<1>1. CASE PollRoot(w) BY <1>1 DEF historyVars, repoVars, PollRoot
<1>2. CASE FoldLoopEnds(w) BY <1>2 DEF historyVars, repoVars, FoldLoopEnds
<1>3. CASE ShowFails(w) BY <1>3 DEF historyVars, repoVars, ShowFails
<1>4. CASE ReadEvidence(w) BY <1>4 DEF historyVars, repoVars, ReadEvidence
<1>5. CASE \E saved \in BOOLEAN : Fold(w, saved)
  <2>1. PICK saved \in BOOLEAN : Fold(w, saved) BY <1>5
  <2>2. UNCHANGED <<env, repoVars, otherVars>> BY <2>1 DEF Fold
  <2> QED BY <2>2 DEF historyVars, repoVars
<1>6. CASE \E saved \in BOOLEAN : Harvest(w, saved)
  <2>1. PICK saved \in BOOLEAN : Harvest(w, saved) BY <1>6
  <2>2. UNCHANGED <<env, repoVars, otherVars>> BY <2>1 DEF Harvest
  <2> QED BY <2>2 DEF historyVars, repoVars
<1>7. CASE EmitVerdicts(w) BY <1>7 DEF historyVars, repoVars, EmitVerdicts
<1>8. CASE Crash(w) BY <1>8 DEF historyVars, repoVars, Crash
<1> QED BY <1>1, <1>2, <1>3, <1>4, <1>5, <1>6, <1>7, <1>8 DEF Poll

LEMMA HistoryStep ==
  ASSUME History, [Next]_vars
  PROVE  History'
<1>1. CASE Commit BY <1>1, HistoryCommit
<1>2. CASE RewriteBranch BY <1>2, HistoryRewrite
<1>3. CASE SiblingMoves \/ NextDay \/ (\E a \in Agent, p \in Path : AgentWrites(a, p)) \/ \E p \in Path : Capture(p)
  <2>1. UNCHANGED historyVars
    BY <1>3 DEF historyVars, SiblingMoves, NextDay, AgentWrites, Capture, repoVars
  <2> QED BY <2>1, HistoryKept
<1>4. CASE \E w \in Poller : Poll(w)
  <2>1. PICK w \in Poller : Poll(w) BY <1>4
  <2>2. UNCHANGED historyVars BY <2>1, PollKeeps
  <2> QED BY <2>2, HistoryKept
<1>5. CASE UNCHANGED vars
  <2>1. UNCHANGED historyVars BY <1>5 DEF vars, historyVars, repoVars
  <2> QED BY <2>1, HistoryKept
<1> QED BY <1>1, <1>2, <1>3, <1>4, <1>5 DEF Next, Surroundings

\* What the lemmas on the commits to fold need.
LEMMA HistoryParents ==
  ASSUME History
  PROVE  Parents
BY LenProperties DEF History, Parents, CommitTrue

-----------------------------------------------------------------------------
(* The fold and the harvest, case by case.                                  *)

At(w) == log[Head(queue[w])]
Carried(w) == CarriedSpans(At(w).from, At(w).path)
Marks(w) == IF At(w).from = At(w).path THEN Pruned(seeded, view[w])
            ELSE CarriedMarks(Pruned(seeded, view[w]), At(w).from, At(w).path, view[w])
Begun(n, lin) == [k \in n |-> [lin |-> lin, born |-> day]]
Lost(w) == {l \in DOMAIN Carried(w)[At(w).path] : Churned(l, At(w).hunks)}
Left(w) == Remapped(Carried(w)[At(w).path], At(w).hunks)

Folds(w, saved) ==
  /\ pc[w] = "apply" /\ (saved \/ "writeFails" \in env.may)
  /\ queue' = [queue EXCEPT ![w] = Tail(@)]
  /\ view' = [view EXCEPT ![w] = NoView]
  /\ UNCHANGED <<env, repoVars, otherVars, held, decided>>

Writes(w, saved, f, m) ==
  IF saved THEN spans' = [Carried(w) EXCEPT ![At(w).path] = f] /\ seeded' = m /\ cursor' = Head(queue[w])
           ELSE UNCHANGED ledger

Sees(w, saved, f) == seen' = seen \cup {tree[Head(queue[w])][At(w).path][n] : n \in {m \in DOMAIN f : saved}}

RenamesOnly(w, saved) ==
  /\ At(w).hunks = {}
  /\ Writes(w, saved, Carried(w)[At(w).path], Marks(w))
  /\ pc' = [pc EXCEPT ![w] = "fold"] /\ UNCHANGED <<out, spent, seen>>

Rewrites(w, saved) ==
  /\ At(w).hunks # {} /\ Carried(w)[At(w).path] # Untracked
  /\ Writes(w, saved, Left(w),
            IF Left(w) = Untracked THEN Tombstoned(Marks(w), At(w).path, view[w][At(w).path].recorded)
                                   ELSE Marks(w))
  /\ out' = [out EXCEPT ![w] = {Verdict(LineAt(At(w).parent, At(w).from, l), "churn") : l \in Lost(w)}]
  /\ pc' = [pc EXCEPT ![w] = IF Lost(w) = {} THEN "fold" ELSE "emitChurn"]
  /\ UNCHANGED <<spent, seen>>

Transfers(w, saved) ==
  /\ At(w).hunks # {} /\ Carried(w)[At(w).path] = Untracked /\ view[w][At(w).path].printed
  /\ \E f : /\ f = Begun(Transferred(Head(queue[w]), At(w).path, At(w).hunks), Branch)
            /\ Writes(w, saved, f, Marks(w)) /\ Sees(w, saved, f)
  /\ pc' = [pc EXCEPT ![w] = "fold"] /\ UNCHANGED <<out, spent>>

Spends(w, saved, f) ==
  spent' = spent \cup {[path |-> At(w).path, stamp |-> view[w][At(w).path].stamp, by |-> Head(queue[w])] :
                         n \in {m \in DOMAIN f : saved}}

Backs(w) == view[w][At(w).path].seedable /\ Authorized(Marks(w), At(w).path, view[w][At(w).path].stamp)

Seeds(w, saved) ==
  /\ At(w).hunks # {} /\ Carried(w)[At(w).path] = Untracked
  /\ \E f : /\ f = Begun(IF Backs(w) THEN NewSides(At(w).hunks) ELSE {}, Head(queue[w]))
            /\ Writes(w, saved, f, IF f # Untracked /\ Marks(w)[At(w).path] # None
                                   THEN Tombstoned(Marks(w), At(w).path, view[w][At(w).path].recorded)
                                   ELSE Marks(w))
            /\ Sees(w, saved, f) /\ Spends(w, saved, f)
  /\ pc' = [pc EXCEPT ![w] = "fold"] /\ UNCHANGED out

LEMMA FoldCases ==
  ASSUME NEW w \in Poller, NEW saved \in BOOLEAN, Fold(w, saved)
  PROVE  /\ Folds(w, saved)
         /\ RenamesOnly(w, saved) \/ Rewrites(w, saved) \/ Transfers(w, saved) \/ Seeds(w, saved)
<1>1. Folds(w, saved) BY DEF Fold, Folds
<1>2. RenamesOnly(w, saved) \/ Rewrites(w, saved) \/ Transfers(w, saved) \/ Seeds(w, saved)
  BY DEF Fold, RenamesOnly, Rewrites, Transfers, Seeds, Writes, Sees, Spends, Backs, At, Carried, Marks, Begun,
         Lost, Left, Goto
<1> QED BY <1>1, <1>2

Reaped(w, saved) ==
  IF saved
  THEN /\ spans' = [p \in Path |-> Remaining(p)]
       /\ seeded' = [p \in Path |->
            IF Matured(p) # {} /\ Remaining(p) = Untracked
            THEN Tombstoned(Pruned(seeded, view[w]), p, view[w][p].recorded)[p]
            ELSE Pruned(seeded, view[w])[p]]
  ELSE UNCHANGED <<spans, seeded>>

Ripe == UNION {{Verdict(LineAt(cursor, p, l), "durable") : l \in Matured(p)} : p \in Path}

LEMMA HarvestCase ==
  ASSUME NEW w \in Poller, NEW saved \in BOOLEAN, Harvest(w, saved)
  PROVE  /\ pc[w] = "reap" /\ (saved \/ "writeFails" \in env.may)
         /\ Reaped(w, saved)
         /\ view' = [view EXCEPT ![w] = NoView]
         /\ out' = [out EXCEPT ![w] = Ripe]
         /\ pc' = [pc EXCEPT ![w] = IF Ripe = {} THEN "idle" ELSE "emitDurable"]
         /\ UNCHANGED <<env, repoVars, otherVars, cursor, queue, held, histVars>>
BY DEF Harvest, Reaped, Ripe, Goto

-----------------------------------------------------------------------------
(* Types.                                                                   *)

Label == {"idle", "fold", "apply", "harvest", "reap", "emitChurn", "emitDurable"}
Mark  == {None} \cup 0..writes
Tracks(f, d) == DOMAIN f \subseteq Int /\ f \in [DOMAIN f -> [lin : Nat, born : 0..d]]

SessionsTrue ==
  /\ ai \in [Agent -> [day : Nat, paths : SUBSET Path, stamp : [Path -> 0..writes]]]
  /\ \A a \in Agent : \A p \in ai[a].paths : ai[a].stamp[p] > 0

Types ==
  /\ day \in 0..env.days /\ writes \in 0..env.writes /\ sibHolds \in BOOLEAN
  /\ cursor \in {None} \cup 0..Len(log)
  /\ DOMAIN spans = Path /\ \A p \in Path : Tracks(spans[p], day)
  /\ seeded \in [Path -> Mark]
  /\ SessionsTrue

\* What a poller read of a path's evidence.
Read(e) ==
  /\ e.stamp \in 0..writes /\ e.recorded \in 0..writes
  /\ e.seedable => e.known /\ e.stamp > 0

\* A poller's label, its queue, what it read, and what it has to report.
Fit(at, q, v, o) ==
  /\ q \in Seq(1..Len(log))
  /\ q # <<>> => at \in {"fold", "apply", "emitChurn"}
  /\ at = "apply" => q # <<>>
  /\ at \in {"apply", "reap"} => \A p \in Path : Read(v[p])
  /\ o # {} => at \in {"emitChurn", "emitDurable"}

Total(f) == f = [w \in Poller |-> f[w]]

Pollers ==
  /\ pc \in [Poller -> Label] /\ held \in [Poller -> BOOLEAN]
  /\ Total(queue) /\ Total(view) /\ Total(out)
  /\ \A w \in Poller : Fit(pc[w], queue[w], view[w], out[w])
  /\ "twoPollers" \notin env.may => \A w \in Poller : w # Main => pc[w] = "idle"

Basics == History /\ Types /\ Pollers

LEMMA Bounds ==
  ASSUME History, Types
  PROVE  /\ day \in Nat /\ writes \in Nat /\ Len(log) \in Nat /\ env.days \in Nat /\ env.writes \in Nat
         /\ env.lines \in Nat /\ env.new \in Nat /\ env.commits \in Nat
<1>1. env \in EnvironmentType BY DurabilityAssumption DEF History
<1>2. /\ env.days \in Nat /\ env.writes \in Nat /\ env.lines \in Nat /\ env.new \in Nat /\ env.commits \in Nat
  BY <1>1 DEF EnvironmentType
<1>3. Len(log) \in Nat BY LenProperties DEF History
<1> QED BY <1>2, <1>3 DEF Types

LEMMA BasicsInit ==
  ASSUME Init
  PROVE  Basics
<1>1. History BY HistoryInit
<1>2. Len(log) = 0 /\ Len(log) \in Nat BY DEF Init
<1>3. env.days \in Nat /\ env.writes \in Nat
  <2>1. env \in EnvironmentType BY DurabilityAssumption DEF Init
  <2> QED BY <2>1 DEF EnvironmentType
<1>4. 0 \in 0..0 /\ 0 \in 0..env.days /\ 0 \in 0..env.writes /\ 0 \in Nat BY <1>3
<1>5. Tracks(Untracked, 0)
  <2>1. DOMAIN Untracked = {} BY DEF Untracked
  <2>2. Untracked \in [{} -> [lin : Nat, born : 0..0]] BY DEF Untracked
  <2> QED BY <2>1, <2>2 DEF Tracks
<1>6. Types
  <2>1. day = 0 /\ writes = 0 /\ sibHolds = TRUE /\ cursor = None BY DEF Init
  <2>2. DOMAIN spans = Path /\ \A p \in Path : spans[p] = Untracked BY DEF Init
  <2>3. seeded \in [Path -> Mark] BY DEF Init, Mark
  <2>4. SessionsTrue
    <3>1. ai = [a \in Agent |-> [day |-> 0, paths |-> {}, stamp |-> [p \in Path |-> 0]]] BY DEF Init
    <3>2. [p \in Path |-> 0] \in [Path -> 0..writes] BY <1>4, <2>1
    <3>3. [day |-> 0, paths |-> {}, stamp |-> [p \in Path |-> 0]]
          \in [day : Nat, paths : SUBSET Path, stamp : [Path -> 0..writes]]
      BY <1>4, <3>2
    <3>4. \A a \in Agent : ai[a].paths = {} BY <3>1
    <3> QED BY <3>1, <3>3, <3>4 DEF SessionsTrue
  <2> QED BY <1>4, <1>5, <2>1, <2>2, <2>3, <2>4 DEF Types
<1>7. Pollers
  <2>1. pc = [w \in Poller |-> "idle"] /\ held = [w \in Poller |-> FALSE] BY DEF Init
  <2>2. /\ queue = [w \in Poller |-> <<>>] /\ view = [w \in Poller |-> NoView] /\ out = [w \in Poller |-> {}]
    BY DEF Init
  <2>3. <<>> \in Seq(1..Len(log)) OBVIOUS
  <2>4. \A w \in Poller : pc[w] = "idle" /\ queue[w] = <<>> /\ out[w] = {} BY <2>1, <2>2
  <2>5. \A w \in Poller : Fit(pc[w], queue[w], view[w], out[w]) BY <2>3, <2>4 DEF Fit
  <2>6. Total(queue) /\ Total(view) /\ Total(out) BY <2>2 DEF Total
  <2> QED BY <2>1, <2>4, <2>5, <2>6 DEF Pollers, Label
<1> QED BY <1>1, <1>6, <1>7 DEF Basics

-----------------------------------------------------------------------------
(* Evidence.                                                                *)

Holds(a, p, s) == Live(a) /\ p \in ai[a].paths /\ ai[a].stamp[p] = s

LEMMA StampIs ==
  ASSUME SessionsTrue, writes \in Nat, NEW who \in SUBSET Agent, NEW p \in Path
  PROVE  /\ Stamp(who, p) \in 0..writes
         /\ \A a \in who : Live(a) /\ p \in ai[a].paths => ai[a].stamp[p] <= Stamp(who, p)
         /\ Stamp(who, p) > 0 => \E a \in who : Holds(a, p, Stamp(who, p))
<1> DEFINE these == {b \in who : Live(b) /\ p \in ai[b].paths}
           S == {0} \cup {ai[a].stamp[p] : a \in these}
<1>1. Stamp(who, p) = Max(S) BY DEF Stamp
<1>2. \A a \in these : ai[a].stamp[p] \in 0..writes BY DEF SessionsTrue
<1>3. S \in SUBSET (0..writes) /\ S # {} /\ 0 \in S BY <1>2
<1>4. Max(S) \in S /\ \A y \in S : y <= Max(S) BY ONLY <1>3, MaxIs, writes \in Nat
<1>5. \A a \in these : ai[a].stamp[p] \in S OBVIOUS
<1>6. \A s \in S : s > 0 => \E a \in these : s = ai[a].stamp[p] OBVIOUS
<1> HIDE DEF S
<1>7. \A a \in these : ai[a].stamp[p] <= Max(S) BY <1>4, <1>5
<1>8. Max(S) > 0 => \E a \in these : Max(S) = ai[a].stamp[p] BY <1>4, <1>6
<1> QED BY <1>1, <1>3, <1>4, <1>7, <1>8 DEF Holds

\* Evidence that seeds is known everywhere, and the wide view records the greater stamp.
LEMMA EvidenceIs ==
  ASSUME SessionsTrue, writes \in Nat, NEW holds \in BOOLEAN, NEW p \in Path
  PROVE  /\ Read(Evidence(holds)[p])
         /\ Evidence(holds)[p].seedable = Known(p, holds) /\ Evidence(holds)[p].stamp = StampOf(p, holds)
         /\ Evidence(holds)[p].known = Known(p, TRUE) /\ Evidence(holds)[p].recorded >= StampOf(p, TRUE)
<1>1. PICK e : e = Evidence(holds)[p] OBVIOUS
<1>2. /\ e.seedable = Known(p, holds) /\ e.stamp = StampOf(p, holds) /\ e.known = Known(p, TRUE)
      /\ e.recorded = Max({StampOf(p, TRUE), StampOf(p, holds)})
  BY <1>1 DEF Evidence
<1>3. \A wide \in BOOLEAN : Lookup(p, wide) \in SUBSET Agent
  BY DurabilityAssumption DEF Lookup, Own
<1>4. \A wide \in BOOLEAN : StampOf(p, wide) \in 0..writes BY <1>3, StampIs DEF StampOf
<1>5. \A wide \in BOOLEAN : Known(p, wide) => StampOf(p, wide) > 0
  <2> SUFFICES ASSUME NEW wide \in BOOLEAN, Known(p, wide) PROVE StampOf(p, wide) > 0 OBVIOUS
  <2>1. PICK a \in Lookup(p, wide) : Live(a) /\ p \in ai[a].paths BY DEF Known, Marked
  <2>2. a \in Agent /\ ai[a].stamp[p] > 0 /\ ai[a].stamp[p] \in 0..writes
    BY <1>3, <2>1 DEF SessionsTrue
  <2>3. ai[a].stamp[p] <= StampOf(p, wide) BY <1>3, <2>1, StampIs DEF StampOf
  <2> QED BY <1>4, <2>2, <2>3
<1>6. Known(p, holds) => Known(p, TRUE)
  <2>1. CASE holds BY <2>1
  <2>2. CASE ~holds BY <2>2 DEF Known, Lookup, Marked
  <2> QED BY <2>1, <2>2
<1>7. TRUE \in BOOLEAN OBVIOUS
<1>8. e.recorded \in 0..writes /\ e.recorded >= StampOf(p, TRUE)
  <2>1. StampOf(p, TRUE) \in 0..writes /\ StampOf(p, holds) \in 0..writes BY <1>4, <1>7
  <2>2. PICK s \in 0..writes, t \in 0..writes : s = StampOf(p, TRUE) /\ t = StampOf(p, holds) BY <2>1
  <2>3. e.recorded = Max({s, t}) BY <1>2, <2>2
  <2>4. Max({s, t}) = IF s >= t THEN s ELSE t BY GreaterOf
  <2>5. e.recorded \in 0..writes /\ e.recorded >= s BY ONLY <2>3, <2>4, writes \in Nat
  <2> QED BY <2>2, <2>5
<1>9. Read(e) BY <1>2, <1>4, <1>5, <1>6, <1>8 DEF Read
<1> QED BY <1>1, <1>2, <1>8, <1>9

-----------------------------------------------------------------------------
(* What a fold makes of the tombstones and of the tracked lines.            *)

\* The tombstones of m are no lower than those of n.
Rises(m, n) == m \in [Path -> Mark] /\ \A q \in Path : m[q] >= n[q]

LEMMA TombstonedIs ==
  ASSUME writes \in Nat, NEW m \in [Path -> Mark], NEW p \in Path, NEW s \in 0..writes
  PROVE  Rises(Tombstoned(m, p, s), m) /\ Tombstoned(m, p, s)[p] >= s
<1>1. PICK old \in Mark : old = m[p] OBVIOUS
<1>2. old \in Int /\ s \in Int BY DEF Mark, None
<1>3. Max({old, s}) = IF old >= s THEN old ELSE s BY <1>2, GreaterOf
<1>4. s \in Mark BY DEF Mark
<1>5. PICK new : new = Max({old, s}) OBVIOUS
<1>6. new \in Mark /\ new >= old /\ new >= s BY <1>2, <1>3, <1>4, <1>5
<1>7. Tombstoned(m, p, s) = [m EXCEPT ![p] = new] BY <1>1, <1>5 DEF Tombstoned
<1>8. \A q \in Path : m[q] >= m[q] BY DEF Mark, None
<1> QED BY <1>1, <1>6, <1>7, <1>8 DEF Rises

LEMMA RisesFurther ==
  ASSUME NEW a \in [Path -> Mark], NEW b, NEW c, Rises(b, a), Rises(c, b), writes \in Nat
  PROVE  Rises(c, a)
<1>1. \A q \in Path : a[q] \in Int /\ b[q] \in Int /\ c[q] \in Int BY DEF Rises, Mark, None
<1> QED BY <1>1 DEF Rises

LEMMA PrunedIs ==
  ASSUME NEW m \in [Path -> Mark], NEW v
  PROVE  /\ Pruned(m, v) \in [Path -> Mark]
         /\ \A q \in Path : v[q].known => Pruned(m, v)[q] = m[q]
BY DEF Pruned, Mark

LEMMA CarriedMarksIs ==
  ASSUME writes \in Nat, NEW m \in [Path -> Mark], NEW v, \A q \in Path : Read(v[q]),
         NEW from \in Path, NEW to \in Path
  PROVE  /\ Rises(CarriedMarks(m, from, to, v), m)
         /\ spans[from] # Untracked => CarriedMarks(m, from, to, v)[from] >= v[from].recorded
<1> DEFINE follow == IF m[from] = None THEN m ELSE Tombstoned(m, to, Max({m[from], v[to].recorded}))
<1>1. Rises(m, m) BY DEF Rises, Mark, None
<1>2. v[to].recorded \in 0..writes /\ v[from].recorded \in 0..writes BY DEF Read
<1>3. Rises(follow, m)
  <2>1. CASE m[from] = None BY <1>1, <2>1
  <2>2. CASE m[from] # None
    <3>1. m[from] \in 0..writes BY <2>2 DEF Mark
    <3>2. PICK s \in 0..writes, t \in 0..writes : s = m[from] /\ t = v[to].recorded BY <1>2, <3>1
    <3>3. Max({s, t}) = IF s >= t THEN s ELSE t BY GreaterOf
    <3>4. Max({s, t}) \in 0..writes BY <3>3
    <3>5. Max({m[from], v[to].recorded}) \in 0..writes BY <3>2, <3>4
    <3> QED BY <2>2, <3>5, TombstonedIs
  <2> QED BY <2>1, <2>2
<1>4. CarriedMarks(m, from, to, v)
      = IF spans[from] = Untracked THEN follow ELSE Tombstoned(follow, from, v[from].recorded)
  BY DEF CarriedMarks
<1>5. follow \in [Path -> Mark] BY <1>3 DEF Rises
<1> HIDE DEF follow
<1>6. CASE spans[from] = Untracked BY <1>3, <1>4, <1>6
<1>7. CASE spans[from] # Untracked
  <2>1. Rises(Tombstoned(follow, from, v[from].recorded), follow)
        /\ Tombstoned(follow, from, v[from].recorded)[from] >= v[from].recorded
    BY <1>2, <1>5, TombstonedIs
  <2> QED BY <1>3, <1>4, <1>7, <2>1, RisesFurther
<1> QED BY <1>6, <1>7

\* A commit that a poller is about to fold.
LEMMA CommitAt ==
  ASSUME History, NEW w \in Poller, queue[w] \in Seq(1..Len(log)), queue[w] # <<>>
  PROVE  /\ Head(queue[w]) \in 1..Len(log) /\ At(w) \in Entry
         /\ At(w).path \in Path /\ At(w).from \in Path /\ At(w).parent \in 0..Len(log)
         /\ HunksFit(At(w).hunks, Len(tree[At(w).parent][At(w).from]))
         /\ CommitTrue(Head(queue[w])) /\ At(w) = log[Head(queue[w])]
         /\ Tail(queue[w]) \in Seq(1..Len(log))
<1>1. PICK c : c = Head(queue[w]) OBVIOUS
<1>2. c \in 1..Len(log) /\ Tail(queue[w]) \in Seq(1..Len(log)) BY <1>1, HeadTailProperties
<1>3. CommitTrue(c) BY <1>2 DEF History
<1>4. log[c] \in Entry BY <1>2, ElementOfSeq DEF History
<1>5. At(w) = log[c] BY <1>1 DEF At
<1>6. log[c].path \in Path /\ log[c].from \in Path BY <1>4 DEF Entry
<1>7. HunksFit(log[c].hunks, Len(tree[log[c].parent][log[c].from])) BY <1>3 DEF CommitTrue
<1>8. log[c].parent \in 0..Len(log)
  <2>1. PICK n \in Nat : n = Len(log) BY LenProperties DEF History
  <2>2. log[c].parent \in 0..(c - 1) BY <1>3 DEF CommitTrue
  <2> QED BY <1>2, <2>1, <2>2
<1> QED BY <1>1, <1>2, <1>3, <1>4, <1>5, <1>6, <1>7, <1>8

LEMMA MarksIs ==
  ASSUME writes \in Nat, seeded \in [Path -> Mark], NEW w \in Poller, \A q \in Path : Read(view[w][q]),
         At(w).path \in Path, At(w).from \in Path
  PROVE  /\ Rises(Marks(w), Pruned(seeded, view[w]))
         /\ At(w).from # At(w).path /\ spans[At(w).from] # Untracked =>
              Marks(w)[At(w).from] >= view[w][At(w).from].recorded
<1>1. PICK v, from, to : v = view[w] /\ from = At(w).from /\ to = At(w).path OBVIOUS
<1>2. PICK swept \in [Path -> Mark] : swept = Pruned(seeded, v) BY PrunedIs
<1>3. Rises(swept, swept) BY DEF Rises, Mark, None
<1>4. Marks(w) = IF from = to THEN swept ELSE CarriedMarks(swept, from, to, v) BY <1>1, <1>2 DEF Marks
<1>5. from \in Path /\ to \in Path /\ \A q \in Path : Read(v[q]) BY <1>1
<1>6. /\ Rises(CarriedMarks(swept, from, to, v), swept)
      /\ spans[from] # Untracked => CarriedMarks(swept, from, to, v)[from] >= v[from].recorded
  BY <1>5, CarriedMarksIs
<1> QED BY <1>1, <1>2, <1>3, <1>4, <1>6

-----------------------------------------------------------------------------
(* The tracked lines of a file.                                             *)

LEMMA TracksLonger ==
  ASSUME NEW d \in Nat, NEW e \in Nat, d <= e, NEW f, Tracks(f, d)
  PROVE  Tracks(f, e)
<1>1. 0..d \subseteq 0..e OBVIOUS
<1>2. [lin : Nat, born : 0..d] \subseteq [lin : Nat, born : 0..e] BY <1>1
<1> QED BY <1>2 DEF Tracks

LEMMA EmptyTracks ==
  ASSUME NEW f, NEW d, Tracks(f, d)
  PROVE  f = Untracked <=> DOMAIN f = {}
BY DEF Tracks, Untracked

LEMMA TracksUntracked ==
  ASSUME NEW d
  PROVE  Tracks(Untracked, d)
BY DEF Tracks, Untracked

\* The tracked lines follow a renamed file.
LEMMA CarriedSpansIs ==
  ASSUME NEW d, DOMAIN spans = Path, \A q \in Path : Tracks(spans[q], d),
         NEW from \in Path, NEW to \in Path
  PROVE  /\ DOMAIN CarriedSpans(from, to) = Path
         /\ \A q \in Path : Tracks(CarriedSpans(from, to)[q], d)
         /\ \A q \in Path : q # from /\ q # to => CarriedSpans(from, to)[q] = spans[q]
         /\ from # to => CarriedSpans(from, to)[from] = Untracked
         /\ spans[from] = Untracked \/ from = to => CarriedSpans(from, to)[to] = spans[to]
         /\ spans[from] # Untracked =>
              /\ DOMAIN CarriedSpans(from, to)[to] = DOMAIN spans[from] \cup DOMAIN spans[to]
              /\ \A l \in DOMAIN spans[from] \ DOMAIN spans[to] : CarriedSpans(from, to)[to][l] = spans[from][l]
<1> DEFINE both == [l \in DOMAIN spans[from] \cup DOMAIN spans[to] |->
                      IF l \in DOMAIN spans[to] THEN spans[to][l] ELSE spans[from][l]]
<1>1. CASE from = to \/ spans[from] = Untracked
  <2>1. CarriedSpans(from, to) = spans BY <1>1 DEF CarriedSpans
  <2> QED BY <1>1, <2>1
<1>2. CASE from # to /\ spans[from] # Untracked
  <2>1. CarriedSpans(from, to) = [spans EXCEPT ![from] = Untracked, ![to] = both] BY <1>2 DEF CarriedSpans
  <2>2. Tracks(both, d)
    <3>1. /\ DOMAIN spans[from] \subseteq Int /\ spans[from] \in [DOMAIN spans[from] -> [lin : Nat, born : 0..d]]
          /\ DOMAIN spans[to] \subseteq Int /\ spans[to] \in [DOMAIN spans[to] -> [lin : Nat, born : 0..d]]
      BY DEF Tracks
    <3> QED BY <3>1 DEF Tracks
  <2>3. /\ DOMAIN both = DOMAIN spans[from] \cup DOMAIN spans[to]
        /\ \A l \in DOMAIN spans[from] \ DOMAIN spans[to] : both[l] = spans[from][l]
    OBVIOUS
  <2> HIDE DEF both
  <2>4. Tracks(Untracked, d) BY TracksUntracked
  <2> QED BY <1>2, <2>1, <2>2, <2>3, <2>4
<1> QED BY <1>1, <1>2

LEMMA ShiftInt ==
  ASSUME NEW hs, NEW n, HunksFit(hs, n), NEW l \in Int
  PROVE  ShiftFor(l, hs) \in Int
<1>1. \A h \in hs : h \in Hunk /\ Anchored(h) BY DEF HunksFit, Fits
<1>2. CASE hs = {}
  <2>1. {h \in {} : l >= h.os + Max({h.ol, 1})} = {} OBVIOUS
  <2> QED BY <1>2, <2>1, DeltaNone DEF ShiftFor
<1>3. CASE hs # {}
  <2>1. PICK g \in hs, h \in hs : Pair(hs, g, h) BY <1>3 DEF HunksFit
  <2>2. h \in Hunk /\ Anchored(h) /\ g \in Hunk /\ Anchored(g) BY <1>1
  <2>3. h.nl - h.ol \in Int /\ g.nl - g.ol \in Int BY <2>2 DEF Hunk
  <2>4. CASE g = h
    <3>1. hs = {h} BY <2>1, <2>4 DEF Pair
    <3>2. ShiftFor(l, {h}) = h.nl - h.ol \/ ShiftFor(l, {h}) = 0 BY <2>2, ShiftOne
    <3> QED BY <2>3, <3>1, <3>2
  <2>5. CASE g # h
    <3>1. ShiftFor(l, {g, h}) = (IF l > Bottom(g) THEN g.nl - g.ol ELSE 0) + (IF l > Bottom(h) THEN h.nl - h.ol ELSE 0)
      BY <2>2, <2>5, ShiftTwo
    <3>2. hs = {g, h} BY <2>1 DEF Pair
    <3> QED BY <2>3, <3>1, <3>2
  <2> QED BY <2>4, <2>5
<1> QED BY <1>2, <1>3

\* A line that no hunk touches is tracked where the hunks move it, and nothing else is.
LEMMA RemappedIs ==
  ASSUME NEW f, NEW hs
  PROVE  /\ \A m \in DOMAIN Remapped(f, hs) : \E l \in DOMAIN f :
              ~Churned(l, hs) /\ m = l + ShiftFor(l, hs) /\ Remapped(f, hs)[m] = f[l]
         /\ \A l \in DOMAIN f : ~Churned(l, hs) => l + ShiftFor(l, hs) \in DOMAIN Remapped(f, hs)
<1> DEFINE to(l) == l + ShiftFor(l, hs)
           kept == {l \in DOMAIN f : ~Churned(l, hs)}
<1>1. Remapped(f, hs) = [n \in {to(l) : l \in kept} |-> f[CHOOSE l \in kept : to(l) = n]] BY DEF Remapped
<1> HIDE DEF to
<1>2. DOMAIN Remapped(f, hs) = {to(l) : l \in kept} BY <1>1
<1>3. ASSUME NEW m \in DOMAIN Remapped(f, hs)
      PROVE  \E l \in kept : to(l) = m /\ Remapped(f, hs)[m] = f[l]
  <2>1. \E l \in kept : to(l) = m BY <1>2, <1>3
  <2>2. PICK l : l = CHOOSE k \in kept : to(k) = m OBVIOUS
  <2>3. l \in kept /\ to(l) = m BY <2>1, <2>2
  <2>4. Remapped(f, hs)[m] = f[l] BY <1>1, <1>2, <1>3, <2>2
  <2> QED BY <2>3, <2>4
<1>4. \A l \in DOMAIN f : ~Churned(l, hs) => to(l) \in DOMAIN Remapped(f, hs) BY <1>2
<1> QED BY <1>3, <1>4 DEF to

LEMMA RemappedTracks ==
  ASSUME NEW f, NEW d, Tracks(f, d), NEW hs, NEW n, HunksFit(hs, n)
  PROVE  Tracks(Remapped(f, hs), d)
<1>1. DOMAIN f \subseteq Int /\ \A l \in DOMAIN f : f[l] \in [lin : Nat, born : 0..d] BY DEF Tracks
<1>2. PICK r : r = Remapped(f, hs) OBVIOUS
<1>3. \A m \in DOMAIN r : m \in Int /\ r[m] \in [lin : Nat, born : 0..d]
  <2> SUFFICES ASSUME NEW m \in DOMAIN r PROVE m \in Int /\ r[m] \in [lin : Nat, born : 0..d] OBVIOUS
  <2>1. PICK l \in DOMAIN f : m = l + ShiftFor(l, hs) /\ r[m] = f[l] BY <1>2, RemappedIs
  <2>2. l \in Int /\ ShiftFor(l, hs) \in Int BY <1>1, ShiftInt
  <2> QED BY <1>1, <2>1, <2>2
<1>4. r = [m \in DOMAIN r |-> r[m]] BY <1>2 DEF Remapped
<1>5. r \in [DOMAIN r -> [lin : Nat, born : 0..d]] BY <1>3, <1>4
<1> QED BY <1>2, <1>3, <1>5 DEF Tracks

-----------------------------------------------------------------------------
(* The types are preserved.                                                 *)

typedVars == <<day, writes, sibHolds, cursor, spans, seeded, ai>>

LEMMA TypesKept ==
  ASSUME Types, env' = env, log' = log, UNCHANGED typedVars
  PROVE  Types'
BY DEF Types, typedVars, Mark, SessionsTrue

LEMMA PollersKept ==
  ASSUME Pollers, env' = env, log' = log, writes' = writes, UNCHANGED pollerVars
  PROVE  Pollers'
BY DEF Pollers, pollerVars, Fit, Read, Total

\* A step of one poller.
LEMMA PollerSteps ==
  ASSUME Pollers, NEW w \in Poller, env' = env, log' = log, writes' = writes,
         NEW l \in Label, pc' = [pc EXCEPT ![w] = l], held' \in [Poller -> BOOLEAN],
         NEW q, queue' = [queue EXCEPT ![w] = q], NEW v, view' = [view EXCEPT ![w] = v],
         NEW o, out' = [out EXCEPT ![w] = o],
         Fit(l, q, v, o), w = Main \/ "twoPollers" \in env.may
  PROVE  Pollers'
<1>1. pc' \in [Poller -> Label] BY DEF Pollers
<1>2. Total(queue)' /\ Total(view)' /\ Total(out)' BY DEF Pollers, Total
<1>3. ASSUME NEW u \in Poller PROVE Fit(pc[u], queue[u], view[u], out[u])'
  <2>1. CASE u = w
    <3>1. pc'[u] = l /\ queue'[u] = q /\ view'[u] = v /\ out'[u] = o BY <2>1 DEF Pollers, Total
    <3>2. Fit(l, q, v, o)' BY DEF Fit, Read
    <3>3. Fit(pc'[u], queue'[u], view'[u], out'[u]) BY <3>1
    <3> QED BY <3>3 DEF Fit, Read
  <2>2. CASE u # w
    <3>1. pc'[u] = pc[u] /\ queue'[u] = queue[u] /\ view'[u] = view[u] /\ out'[u] = out[u] BY <2>2 DEF Pollers, Total
    <3>2. Fit(pc'[u], queue'[u], view'[u], out'[u]) BY <3>1 DEF Pollers
    <3> QED BY <3>2 DEF Fit, Read
  <2> QED BY <2>1, <2>2
<1>4. "twoPollers" \notin env'.may => \A u \in Poller : u # Main => pc'[u] = "idle" BY DEF Pollers
<1> QED BY <1>1, <1>2, <1>3, <1>4 DEF Pollers

LEMMA SeqWider ==
  ASSUME NEW S, NEW T, S \subseteq T, NEW q \in Seq(S)
  PROVE  q \in Seq(T)
<1>1. q \in [1..Len(q) -> S] /\ Len(q) \in Nat BY LenProperties
<1>2. q \in [1..Len(q) -> T] BY <1>1
<1> QED BY <1>1, <1>2, SeqDef

LEMMA TypesCommit ==
  ASSUME Basics, Commit
  PROVE  Types' /\ Pollers'
<1>1. /\ UNCHANGED <<env, typedVars, pollerVars>> BY DEF Commit, typedVars, otherVars, ledger
<1>2. PICK N \in Nat : N = Len(log) BY Bounds DEF Basics
<1>3. Len(log') = N + 1
  <2>1. PICK e : log' = Append(log, e) BY SMTT(60), ZenonT(60) DEF Commit
  <2>2. log \in Seq(Entry) BY DEF Basics, History
  <2>3. DOMAIN log = 1..N BY <1>2, <2>2, LenProperties
  <2> QED BY <1>2, <2>1, <2>2
<1>4. 1..Len(log) \subseteq 1..Len(log') /\ 0..Len(log) \subseteq 0..Len(log') BY <1>2, <1>3
<1>5. Types'
  <2>1. cursor' \in {None} \cup 0..Len(log') BY <1>1, <1>4 DEF Basics, Types, typedVars
  <2> QED BY <1>1, <2>1 DEF Basics, Types, typedVars, Mark, SessionsTrue
<1>6. Pollers'
  <2>1. ASSUME NEW w \in Poller PROVE Fit(pc[w], queue[w], view[w], out[w])'
    <3>1. Fit(pc[w], queue[w], view[w], out[w]) BY DEF Basics, Pollers
    <3>2. queue[w] \in Seq(1..Len(log')) BY <1>4, <3>1, SeqWider DEF Fit
    <3> QED BY <1>1, <3>1, <3>2 DEF Fit, Read, pollerVars, typedVars
  <2> QED BY <1>1, <2>1 DEF Basics, Pollers, pollerVars, Total
<1> QED BY <1>5, <1>6

LEMMA TypesAgentWrites ==
  ASSUME Basics, NEW a \in Agent, NEW p \in Path, AgentWrites(a, p)
  PROVE  Types' /\ Pollers'
<1>1. /\ writes < env.writes /\ writes' = writes + 1
      /\ UNCHANGED <<env, repoVars, ledger, pollerVars>>
      /\ ai' = [b \in Agent |->
           IF b = a THEN [day |-> day, paths |-> ai[a].paths \cup {p},
                          stamp |-> [ai[a].stamp EXCEPT ![p] = writes + 1]]
           ELSE IF Live(b) THEN ai[b]
           ELSE [day |-> 0, paths |-> {}, stamp |-> [q \in Path |-> 0]]]
  BY DEF AgentWrites
<1>2. PICK n \in Nat : n = writes BY Bounds DEF Basics
<1>3. day \in Nat /\ env.writes \in Nat BY Bounds DEF Basics
<1>4. 0..writes \subseteq 0..writes' /\ writes' \in 0..env.writes /\ writes + 1 \in 0..writes' /\ writes + 1 > 0
  BY <1>1, <1>2, <1>3
<1>5. SessionsTrue'
  <2> DEFINE Session(m) == [day : Nat, paths : SUBSET Path, stamp : [Path -> 0..m]]
  <2>1. \A b \in Agent : ai[b] \in Session(writes) BY DEF Basics, Types, SessionsTrue
  <2>2. ASSUME NEW b \in Agent
        PROVE  ai'[b] \in Session(writes') /\ \A q \in ai'[b].paths : ai'[b].stamp[q] > 0
    <3>1. CASE b = a
      <4>1. ai'[b] = [day |-> day, paths |-> ai[a].paths \cup {p},
                      stamp |-> [ai[a].stamp EXCEPT ![p] = writes + 1]]
        BY <1>1, <3>1
      <4>2. ai[a].paths \in SUBSET Path /\ ai[a].stamp \in [Path -> 0..writes] BY <2>1
      <4>3. [ai[a].stamp EXCEPT ![p] = writes + 1] \in [Path -> 0..writes'] BY <1>4, <4>2
      <4>4. \A q \in ai[a].paths : ai[a].stamp[q] > 0 BY DEF Basics, Types, SessionsTrue
      <4>5. \A q \in ai[a].paths \cup {p} : [ai[a].stamp EXCEPT ![p] = writes + 1][q] > 0
        BY <1>4, <4>2, <4>4
      <4> QED BY <1>3, <4>1, <4>2, <4>3, <4>5
    <3>2. CASE b # a /\ Live(b)
      <4>1. ai'[b] = ai[b] BY <1>1, <3>2
      <4>2. ai[b].stamp \in [Path -> 0..writes'] BY <1>4, <2>1
      <4>3. \A q \in ai[b].paths : ai[b].stamp[q] > 0 BY DEF Basics, Types, SessionsTrue
      <4>4. ai[b] \in Session(writes)  BY <2>1
      <4>5. ai[b] = [day |-> ai[b].day, paths |-> ai[b].paths, stamp |-> ai[b].stamp] BY <4>4
      <4>6. ai[b].day \in Nat /\ ai[b].paths \in SUBSET Path BY <4>4
      <4> QED BY <4>1, <4>2, <4>3, <4>5, <4>6
    <3>3. CASE b # a /\ ~Live(b)
      <4>1. ai'[b] = [day |-> 0, paths |-> {}, stamp |-> [q \in Path |-> 0]] BY <1>1, <3>3
      <4>2. 0 \in 0..writes' BY <1>1, <1>2
      <4>3. [q \in Path |-> 0] \in [Path -> 0..writes'] BY <4>2
      <4> QED BY <4>1, <4>3
    <3> QED BY <3>1, <3>2, <3>3
  <2> QED BY <1>1, <2>2 DEF SessionsTrue
<1>6. Mark \subseteq Mark' BY <1>4 DEF Mark
<1>7. Types'
  <2>1. seeded' \in [Path -> Mark'] BY <1>1, <1>6 DEF Basics, Types, ledger
  <2> QED BY <1>1, <1>4, <1>5, <2>1 DEF Basics, Types, repoVars, ledger
<1>8. Pollers'
  <2>1. ASSUME NEW w \in Poller PROVE Fit(pc[w], queue[w], view[w], out[w])'
    <3>1. Fit(pc[w], queue[w], view[w], out[w]) BY DEF Basics, Pollers
    <3>2. \A q \in Path : Read(view[w][q]) => Read(view[w][q])'
      BY <1>1, <1>4 DEF Read, pollerVars
    <3> QED BY <1>1, <3>1, <3>2 DEF Fit, pollerVars, repoVars
  <2> QED BY <1>1, <2>1 DEF Basics, Pollers, pollerVars, Total
<1> QED BY <1>7, <1>8

LEMMA TypesNextDay ==
  ASSUME Basics, NextDay
  PROVE  Types' /\ Pollers'
<1>1. /\ day < env.days /\ day' = day + 1
      /\ UNCHANGED <<env, log, tip, sibHolds, otherVars, ledger, pollerVars>>
  BY DEF NextDay
<1>2. PICK d \in Nat : d = day BY Bounds DEF Basics
<1>3. env.days \in Nat BY Bounds DEF Basics
<1>4. d <= d + 1 /\ d + 1 \in Nat BY <1>2
<1>5. \A p \in Path : Tracks(spans[p], d + 1) BY <1>2, <1>4, TracksLonger DEF Basics, Types
<1>6. day' \in 0..env.days BY <1>1, <1>2, <1>3
<1>7. Types'
  <2>1. DOMAIN spans' = Path /\ \A p \in Path : Tracks(spans'[p], day')
    BY <1>1, <1>2, <1>5 DEF Basics, Types, ledger
  <2> QED BY <1>1, <1>6, <2>1 DEF Basics, Types, SessionsTrue, Mark, otherVars, ledger
<1>8. Pollers' BY <1>1, PollersKept DEF Basics, otherVars
<1> QED BY <1>7, <1>8

\* What a poller has when it reads, folds, or has died.
LEMMA FitsAs ==
  ASSUME NEW q \in Seq(1..Len(log)), NEW v, NEW v2, NEW o, NEW l, Fit(l, q, v, o)
  PROVE  /\ \A at \in {"idle", "harvest"} : Fit(at, <<>>, v2, {})
         /\ Fit("fold", q, v2, {})
         /\ Fit("emitChurn", q, v2, o)
         /\ q # <<>> => Fit("fold", Tail(q), v2, {}) /\ Fit("emitChurn", Tail(q), v2, o)
<1>1. <<>> \in Seq(1..Len(log)) OBVIOUS
<1>2. q # <<>> => Tail(q) \in Seq(1..Len(log)) BY HeadTailProperties
<1> QED BY <1>1, <1>2 DEF Fit

LEMMA TypesPollRoot ==
  ASSUME Basics, NEW w \in Poller, PollRoot(w)
  PROVE  Types' /\ Pollers'
<1>1. /\ w = Main \/ "twoPollers" \in env.may
      /\ pc[w] = "idle"
      /\ UNCHANGED <<env, repoVars, otherVars, spans, seeded, view, out, histVars>>
  BY DEF PollRoot
<1>2. \/ /\ cursor' \in {tip, cursor} /\ pc' = [pc EXCEPT ![w] = "harvest"] /\ UNCHANGED <<queue, held>>
      \/ /\ queue' = [queue EXCEPT ![w] = IF cursor = tip THEN <<>> ELSE ToFold]
         /\ held' = [held EXCEPT ![w] = sibHolds]
         /\ pc' = [pc EXCEPT ![w] = "fold"]
         /\ UNCHANGED cursor
  BY DEF PollRoot, Goto
<1>3. cursor' \in {None} \cup 0..Len(log)
  <2>1. cursor \in {None} \cup 0..Len(log) /\ tip \in 0..Len(log) BY DEF Basics, Types, History
  <2> QED BY <1>2, <2>1
<1>4. Types' BY <1>1, <1>3 DEF Basics, Types, Mark, SessionsTrue, repoVars, otherVars
<1>5. Fit(pc[w], queue[w], view[w], out[w]) /\ queue[w] = <<>> /\ out[w] = {}
  <2>1. Fit(pc[w], queue[w], view[w], out[w]) BY DEF Basics, Pollers, Total
  <2> QED BY <1>1, <2>1 DEF Fit
<1>6. Pollers'
  <2>1. env' = env /\ log' = log /\ writes' = writes BY <1>1 DEF repoVars, otherVars
  <2>2. view' = [view EXCEPT ![w] = view[w]] /\ out' = [out EXCEPT ![w] = {}]
    BY <1>1, <1>5 DEF Basics, Pollers, Total
  <2>3. CASE pc' = [pc EXCEPT ![w] = "harvest"] /\ UNCHANGED <<queue, held>>
    <3>1. queue' = [queue EXCEPT ![w] = <<>>] /\ held' \in [Poller -> BOOLEAN]
      BY <1>5, <2>3 DEF Basics, Pollers, Total
    <3>2. Fit("harvest", <<>>, view[w], {}) BY <1>5, FitsAs DEF Fit
    <3> QED BY <1>1, <2>1, <2>2, <2>3, <3>1, <3>2, PollerSteps DEF Basics, Label
  <2>4. CASE /\ queue' = [queue EXCEPT ![w] = IF cursor = tip THEN <<>> ELSE ToFold]
             /\ held' = [held EXCEPT ![w] = sibHolds]
             /\ pc' = [pc EXCEPT ![w] = "fold"]
    <3>1. PICK q : q = IF cursor = tip THEN <<>> ELSE ToFold OBVIOUS
    <3>2. q \in Seq(1..Len(log))
      <4>1. <<>> \in Seq(1..Len(log)) OBVIOUS
      <4>2. Parents /\ tip \in 0..Len(log) BY HistoryParents DEF Basics, History
      <4>3. ToFold \in Seq(1..Len(log)) BY <4>2, ToFoldCommits, DurabilityAssumption
      <4> QED BY <3>1, <4>1, <4>3
    <3>3. Fit("fold", q, view[w], {}) BY <3>2 DEF Fit
    <3>4. held' \in [Poller -> BOOLEAN] BY <2>4 DEF Basics, Pollers, Types
    <3> QED BY <1>1, <2>1, <2>2, <2>4, <3>1, <3>3, <3>4, PollerSteps DEF Basics, Label
  <2> QED BY <1>2, <2>3, <2>4
<1> QED BY <1>4, <1>6

\* A poller that has left "idle" may.
LEMMA Awake ==
  ASSUME Pollers, NEW w \in Poller, pc[w] # "idle"
  PROVE  w = Main \/ "twoPollers" \in env.may
BY DEF Pollers

LEMMA TypesLoop ==
  ASSUME Basics, NEW w \in Poller, FoldLoopEnds(w) \/ ShowFails(w) \/ Crash(w) \/ EmitVerdicts(w)
  PROVE  Types' /\ Pollers'
<1>1. Fit(pc[w], queue[w], view[w], out[w]) BY DEF Basics, Pollers, Total
<1>2. queue[w] \in Seq(1..Len(log)) BY <1>1 DEF Fit
<1>3. /\ env' = env /\ log' = log /\ writes' = writes /\ UNCHANGED <<repoVars, otherVars, ledger>>
  BY DEF FoldLoopEnds, ShowFails, Crash, EmitVerdicts, repoVars, otherVars
<1>4. Types' BY <1>3, TypesKept DEF Basics, typedVars, repoVars, otherVars, ledger
<1>5. pc[w] # "idle" BY DEF FoldLoopEnds, ShowFails, Crash, EmitVerdicts
<1>6. w = Main \/ "twoPollers" \in env.may BY <1>5, Awake DEF Basics
<1>7. \A x \in BOOLEAN : [held EXCEPT ![w] = x] \in [Poller -> BOOLEAN] BY DEF Basics, Pollers, Total
<1>8. queue = [queue EXCEPT ![w] = queue[w]] /\ view = [view EXCEPT ![w] = view[w]]
      /\ out = [out EXCEPT ![w] = out[w]] /\ pc = [pc EXCEPT ![w] = pc[w]] /\ held \in [Poller -> BOOLEAN]
  BY DEF Basics, Pollers, Total
<1>9. CASE FoldLoopEnds(w)
  <2>1. /\ pc[w] = "fold" /\ queue' = [queue EXCEPT ![w] = <<>>] /\ held' = [held EXCEPT ![w] = FALSE]
        /\ pc' = [pc EXCEPT ![w] = "harvest"] /\ view' = view /\ out' = out
    BY <1>9 DEF FoldLoopEnds, Goto
  <2>2. out[w] = {} BY <1>1, <2>1 DEF Fit
  <2>3. Fit("harvest", <<>>, view[w], out[w]) BY <1>1, <1>2, <2>2, FitsAs
  <2> QED BY <1>3, <1>4, <1>6, <1>7, <1>8, <2>1, <2>3, PollerSteps DEF Basics, Label
<1>10. CASE ShowFails(w)
  <2>1. /\ pc[w] = "fold" /\ queue[w] # <<>> /\ queue' = [queue EXCEPT ![w] = Tail(queue[w])] /\ held' = held
        /\ pc' = pc /\ view' = view /\ out' = out
    BY <1>10 DEF ShowFails, Basics, Pollers
  <2>2. out[w] = {} BY <1>1, <2>1 DEF Fit
  <2>3. Fit("fold", Tail(queue[w]), view[w], out[w]) BY <1>1, <1>2, <2>1, <2>2, FitsAs
  <2>4. pc' = [pc EXCEPT ![w] = "fold"] BY <1>8, <2>1
  <2> QED BY <1>3, <1>4, <1>6, <1>8, <2>1, <2>3, <2>4, PollerSteps DEF Basics, Label
<1>11. CASE Crash(w)
  <2>1. /\ pc' = [pc EXCEPT ![w] = "idle"]
        /\ queue' = [queue EXCEPT ![w] = <<>>] /\ view' = [view EXCEPT ![w] = NoView]
        /\ out' = [out EXCEPT ![w] = {}] /\ held' = [held EXCEPT ![w] = FALSE]
    BY <1>11 DEF Crash, Goto
  <2>2. Fit("idle", <<>>, NoView, {}) BY <1>1, <1>2, FitsAs
  <2> QED BY <1>3, <1>4, <1>6, <1>7, <2>1, <2>2, PollerSteps DEF Basics, Label
<1>12. CASE EmitVerdicts(w) /\ pc[w] = "emitChurn"
  <2>1. /\ pc' = [pc EXCEPT ![w] = "fold"] /\ out' = [out EXCEPT ![w] = {}]
        /\ queue' = queue /\ held' = held /\ view' = view
    BY <1>12 DEF EmitVerdicts, Goto
  <2>2. Fit("fold", queue[w], view[w], {}) BY <1>1, <1>2, FitsAs
  <2> QED BY <1>3, <1>4, <1>6, <1>8, <2>1, <2>2, PollerSteps DEF Basics, Label
<1>13. CASE EmitVerdicts(w) /\ pc[w] # "emitChurn"
  <2>1. /\ pc' = [pc EXCEPT ![w] = "idle"] /\ out' = [out EXCEPT ![w] = {}] /\ pc[w] = "emitDurable"
        /\ queue' = queue /\ held' = held /\ view' = view
    BY <1>13 DEF EmitVerdicts, Goto
  <2>2. queue[w] = <<>> BY <1>1, <2>1 DEF Fit
  <2>3. Fit("idle", queue[w], view[w], {}) BY <1>1, <1>2, <2>2, FitsAs
  <2> QED BY <1>3, <1>4, <1>6, <1>8, <2>1, <2>3, PollerSteps DEF Basics, Label
<1> QED BY <1>9, <1>10, <1>11, <1>12, <1>13

LEMMA TypesReadEvidence ==
  ASSUME Basics, NEW w \in Poller, ReadEvidence(w)
  PROVE  Types' /\ Pollers'
<1>1. /\ view' = [view EXCEPT ![w] = Evidence(held[w])]
      /\ UNCHANGED <<env, repoVars, otherVars, ledger, queue, held, out, histVars>>
  BY DEF ReadEvidence
<1>2. \/ pc[w] = "fold" /\ queue[w] # <<>> /\ pc' = [pc EXCEPT ![w] = "apply"]
      \/ pc[w] = "harvest" /\ pc' = [pc EXCEPT ![w] = "reap"]
  BY DEF ReadEvidence, Goto
<1>3. Fit(pc[w], queue[w], view[w], out[w]) BY DEF Basics, Pollers, Total
<1>4. env' = env /\ log' = log /\ writes' = writes BY <1>1 DEF repoVars, otherVars
<1>5. Types' BY <1>1, <1>4, TypesKept DEF Basics, typedVars, repoVars, otherVars, ledger
<1>6. held[w] \in BOOLEAN /\ writes \in Nat /\ SessionsTrue BY Bounds DEF Basics, Pollers, Types
<1>7. PICK v : v = Evidence(held[w]) OBVIOUS
<1>8. \A p \in Path : Read(v[p]) BY <1>6, <1>7, EvidenceIs
<1>9. queue' = [queue EXCEPT ![w] = queue[w]] /\ out' = [out EXCEPT ![w] = out[w]] /\ held' \in [Poller -> BOOLEAN]
  BY <1>1 DEF Basics, Pollers, Total
<1>10. w = Main \/ "twoPollers" \in env.may BY <1>2, Awake DEF Basics
<1>11. CASE pc[w] = "fold" /\ queue[w] # <<>> /\ pc' = [pc EXCEPT ![w] = "apply"]
  <2>1. Fit("apply", queue[w], v, out[w]) BY <1>3, <1>8, <1>11 DEF Fit
  <2> QED BY <1>1, <1>4, <1>5, <1>7, <1>9, <1>10, <1>11, <2>1, PollerSteps DEF Basics, Label
<1>12. CASE pc[w] = "harvest" /\ pc' = [pc EXCEPT ![w] = "reap"]
  <2>1. Fit("reap", queue[w], v, out[w]) BY <1>3, <1>8, <1>12 DEF Fit
  <2> QED BY <1>1, <1>4, <1>5, <1>7, <1>9, <1>10, <1>12, <2>1, PollerSteps DEF Basics, Label
<1> QED BY <1>2, <1>11, <1>12

LEMMA BegunTracks ==
  ASSUME day \in Nat, NEW n \in SUBSET Int, NEW lin \in Nat
  PROVE  /\ Tracks(Begun(n, lin), day) /\ DOMAIN Begun(n, lin) = n
         /\ \A k \in n : Begun(n, lin)[k] = [lin |-> lin, born |-> day]
<1>1. day \in 0..day OBVIOUS
<1>2. [lin |-> lin, born |-> day] \in [lin : Nat, born : 0..day] BY <1>1
<1>3. Begun(n, lin) = [k \in n |-> [lin |-> lin, born |-> day]] BY DEF Begun
<1> QED BY <1>2, <1>3 DEF Tracks

\* The new sides of a commit lie in the file it makes.
LEMMA NewSidesIn ==
  ASSUME NEW c, CommitTrue(c), Len(tree[c][log[c].path]) \in Nat
  PROVE  /\ NewSides(log[c].hunks) \subseteq 1..Len(tree[c][log[c].path])
         /\ \A n \in NewSides(log[c].hunks) : tree[c][log[c].path][n].by = c
         /\ NewSides(log[c].hunks) \subseteq Int
BY DEF CommitTrue, Moved

LEMMA TransferredIn ==
  ASSUME NEW c, NEW p, NEW hs
  PROVE  /\ Transferred(c, p, hs) \subseteq NewSides(hs)
         /\ \A n \in Transferred(c, p, hs) : tree[c][p][n].ai
BY DEF Transferred

\* What a poller that folds has before it.
LEMMA ToApply ==
  ASSUME Basics, NEW w \in Poller, pc[w] = "apply"
  PROVE  /\ Head(queue[w]) \in 1..Len(log) /\ At(w) = log[Head(queue[w])]
         /\ At(w).path \in Path /\ At(w).from \in Path /\ At(w).parent \in 0..Len(log)
         /\ HunksFit(At(w).hunks, Len(tree[At(w).parent][At(w).from]))
         /\ CommitTrue(Head(queue[w]))
         /\ tree[Head(queue[w])][At(w).path] \in Seq(Line) /\ Len(tree[Head(queue[w])][At(w).path]) \in Nat
         /\ \A p \in Path : Read(view[w][p])
         /\ queue[w] \in Seq(1..Len(log)) /\ queue[w] # <<>> /\ out[w] = {}
         /\ DOMAIN Carried(w) = Path /\ \A q \in Path : Tracks(Carried(w)[q], day)
         /\ Marks(w) \in [Path -> Mark] /\ Pruned(seeded, view[w]) \in [Path -> Mark]
         /\ Rises(Marks(w), Pruned(seeded, view[w]))
         /\ Tracks(Left(w), day)
<1>1. Fit("apply", queue[w], view[w], out[w]) BY DEF Basics, Pollers
<1>2. queue[w] \in Seq(1..Len(log)) /\ queue[w] # <<>> /\ out[w] = {} /\ \A p \in Path : Read(view[w][p])
  BY <1>1 DEF Fit
<1>3. /\ Head(queue[w]) \in 1..Len(log) /\ At(w) = log[Head(queue[w])]
      /\ At(w).path \in Path /\ At(w).from \in Path /\ At(w).parent \in 0..Len(log)
      /\ HunksFit(At(w).hunks, Len(tree[At(w).parent][At(w).from]))
      /\ CommitTrue(Head(queue[w]))
  BY <1>2, CommitAt DEF Basics
<1>4. Files(Head(queue[w]))
  <2>1. Head(queue[w]) \in 0..Len(log) BY <1>3, Bounds DEF Basics
  <2> QED BY <2>1 DEF Basics, History
<1>5. tree[Head(queue[w])][At(w).path] \in Seq(Line) /\ Len(tree[Head(queue[w])][At(w).path]) \in Nat
  BY <1>3, <1>4, LenProperties DEF Files
<1>6. DOMAIN Carried(w) = Path /\ \A q \in Path : Tracks(Carried(w)[q], day)
  BY <1>3, CarriedSpansIs DEF Carried, Basics, Types
<1>7. writes \in Nat /\ seeded \in [Path -> Mark] BY Bounds DEF Basics, Types
<1>8. Rises(Marks(w), Pruned(seeded, view[w])) BY <1>2, <1>3, <1>7, MarksIs
<1>9. Marks(w) \in [Path -> Mark] /\ Pruned(seeded, view[w]) \in [Path -> Mark]
  BY <1>7, <1>8, PrunedIs DEF Rises
<1>10. Tracks(Left(w), day)
  <2>1. Tracks(Carried(w)[At(w).path], day) BY <1>3, <1>6
  <2> QED BY <1>3, <2>1, RemappedTracks DEF Left
<1> QED BY <1>2, <1>3, <1>5, <1>6, <1>8, <1>9, <1>10

LEMMA TypesWrites ==
  ASSUME Basics, NEW w \in Poller, pc[w] = "apply", NEW saved \in BOOLEAN, Folds(w, saved),
         NEW f, Tracks(f, day), NEW m \in [Path -> Mark], Writes(w, saved, f, m)
  PROVE  Types'
<1>1. UNCHANGED <<env, repoVars, otherVars>> BY DEF Folds
<1>2. CASE ~saved
  <2>1. UNCHANGED ledger BY <1>2 DEF Writes
  <2> QED BY <1>1, <2>1, TypesKept DEF Basics, typedVars, repoVars, otherVars, ledger
<1>3. CASE saved
  <2>1. spans' = [Carried(w) EXCEPT ![At(w).path] = f] /\ seeded' = m /\ cursor' = Head(queue[w])
    BY <1>3 DEF Writes
  <2>2. DOMAIN Carried(w) = Path /\ \A q \in Path : Tracks(Carried(w)[q], day) BY ToApply
  <2>3. DOMAIN spans' = Path /\ \A q \in Path : Tracks(spans'[q], day) BY <2>1, <2>2
  <2>4. cursor' \in {None} \cup 0..Len(log)
    <3>1. Head(queue[w]) \in 1..Len(log) BY ToApply
    <3> QED BY <2>1, <3>1, Bounds DEF Basics
  <2> QED BY <1>1, <2>1, <2>3, <2>4 DEF Basics, Types, Mark, SessionsTrue, repoVars, otherVars
<1> QED BY <1>2, <1>3

\* The tombstones that each case may write.
LEMMA MarksWritten ==
  ASSUME Basics, NEW w \in Poller, pc[w] = "apply"
  PROVE  /\ At(w).path \in Path /\ Tombstoned(Marks(w), At(w).path, view[w][At(w).path].recorded) \in [Path -> Mark]
         /\ Rises(Tombstoned(Marks(w), At(w).path, view[w][At(w).path].recorded), Marks(w))
         /\ Tombstoned(Marks(w), At(w).path, view[w][At(w).path].recorded)[At(w).path] >= view[w][At(w).path].recorded
<1>1. /\ At(w).path \in Path /\ view[w][At(w).path].recorded \in 0..writes /\ Marks(w) \in [Path -> Mark]
      /\ writes \in Nat
  BY ToApply, Bounds DEF Read, Basics
<1> QED BY <1>1, TombstonedIs DEF Rises

LEMMA TypesFold ==
  ASSUME Basics, NEW w \in Poller, NEW saved \in BOOLEAN, Fold(w, saved)
  PROVE  Types' /\ Pollers'
<1>1. /\ Folds(w, saved)
      /\ RenamesOnly(w, saved) \/ Rewrites(w, saved) \/ Transfers(w, saved) \/ Seeds(w, saved)
  BY FoldCases
<1>2. pc[w] = "apply" BY <1>1 DEF Folds
<1>3. Marks(w) \in [Path -> Mark] /\ Head(queue[w]) \in Nat /\ Branch \in Nat /\ day \in Nat
  <2>1. Head(queue[w]) \in 1..Len(log) BY <1>2, ToApply
  <2> QED BY <1>2, <2>1, ToApply, Bounds DEF Basics, Branch
<1>4. NewSides(At(w).hunks) \subseteq Int BY <1>2, ToApply, NewSidesIn
<1>5. Types'
  <2>1. CASE RenamesOnly(w, saved)
    <3>1. Writes(w, saved, Carried(w)[At(w).path], Marks(w)) BY <2>1 DEF RenamesOnly
    <3>2. Tracks(Carried(w)[At(w).path], day) BY <1>2, ToApply
    <3> QED BY <1>1, <1>2, <1>3, <3>1, <3>2, TypesWrites
  <2>2. CASE Rewrites(w, saved)
    <3>1. PICK m : /\ m = IF Left(w) = Untracked THEN Tombstoned(Marks(w), At(w).path, view[w][At(w).path].recorded)
                                                 ELSE Marks(w)
                   /\ Writes(w, saved, Left(w), m)
      BY <2>2 DEF Rewrites
    <3>2. m \in [Path -> Mark] BY <1>2, <1>3, <3>1, MarksWritten
    <3>3. Tracks(Left(w), day) BY <1>2, ToApply
    <3> QED BY <1>1, <1>2, <3>1, <3>2, <3>3, TypesWrites
  <2>3. CASE Transfers(w, saved)
    <3>1. PICK f : /\ f = Begun(Transferred(Head(queue[w]), At(w).path, At(w).hunks), Branch)
                   /\ Writes(w, saved, f, Marks(w))
      BY <2>3 DEF Transfers
    <3>2. Transferred(Head(queue[w]), At(w).path, At(w).hunks) \in SUBSET Int BY <1>4, TransferredIn
    <3>3. Tracks(f, day) BY <1>3, <3>1, <3>2, BegunTracks
    <3> QED BY <1>1, <1>2, <1>3, <3>1, <3>3, TypesWrites
  <2>4. CASE Seeds(w, saved)
    <3>1. PICK f : /\ f = Begun(IF Backs(w) THEN NewSides(At(w).hunks) ELSE {}, Head(queue[w]))
                   /\ Writes(w, saved, f, IF f # Untracked /\ Marks(w)[At(w).path] # None
                                          THEN Tombstoned(Marks(w), At(w).path, view[w][At(w).path].recorded)
                                          ELSE Marks(w))
      BY <2>4 DEF Seeds
    <3>2. (IF Backs(w) THEN NewSides(At(w).hunks) ELSE {}) \in SUBSET Int BY <1>4
    <3>3. Tracks(f, day) BY <1>3, <3>1, <3>2, BegunTracks
    <3>4. PICK m : /\ m = IF f # Untracked /\ Marks(w)[At(w).path] # None
                          THEN Tombstoned(Marks(w), At(w).path, view[w][At(w).path].recorded)
                          ELSE Marks(w)
                   /\ Writes(w, saved, f, m)
      BY <3>1
    <3>5. m \in [Path -> Mark] BY <1>2, <1>3, <3>4, MarksWritten
    <3> QED BY <1>1, <1>2, <3>3, <3>4, <3>5, TypesWrites
  <2> QED BY <1>1, <2>1, <2>2, <2>3, <2>4
<1>6. Pollers'
  <2>1. /\ queue' = [queue EXCEPT ![w] = Tail(queue[w])] /\ view' = [view EXCEPT ![w] = NoView]
        /\ env' = env /\ log' = log /\ writes' = writes /\ held' = held
    BY <1>1 DEF Folds, repoVars, otherVars, Basics, Pollers, Total
  <2>2. queue[w] \in Seq(1..Len(log)) /\ queue[w] # <<>> /\ out[w] = {} BY <1>2, ToApply
  <2>3. Fit("apply", queue[w], view[w], out[w]) BY <1>2 DEF Basics, Pollers
  <2>4. Fit("fold", Tail(queue[w]), NoView, {}) BY <2>2, <2>3, FitsAs
  <2>5. \A o : Fit("emitChurn", Tail(queue[w]), NoView, o)
    <3>1. Tail(queue[w]) \in Seq(1..Len(log)) BY <2>4 DEF Fit
    <3> QED BY <3>1 DEF Fit
  <2>6. held' \in [Poller -> BOOLEAN] /\ (w = Main \/ "twoPollers" \in env.may)
    BY <1>2, <2>1, Awake DEF Basics, Pollers
  <2>7. CASE UNCHANGED out /\ pc' = [pc EXCEPT ![w] = "fold"]
    <3>1. out' = [out EXCEPT ![w] = {}] BY <2>2, <2>7 DEF Basics, Pollers, Total
    <3> QED BY <2>1, <2>4, <2>6, <2>7, <3>1, PollerSteps DEF Basics, Label
  <2>8. CASE Rewrites(w, saved)
    <3>1. PICK o : out' = [out EXCEPT ![w] = o] /\ (Lost(w) = {} => o = {})
          /\ pc' = [pc EXCEPT ![w] = IF Lost(w) = {} THEN "fold" ELSE "emitChurn"]
      <4>1. PICK o : o = {Verdict(LineAt(At(w).parent, At(w).from, l), "churn") : l \in Lost(w)} OBVIOUS
      <4>2. Lost(w) = {} => o = {} BY <4>1
      <4> QED BY <2>8, <4>1, <4>2 DEF Rewrites
    <3>2. CASE Lost(w) = {}
      <4>1. out' = [out EXCEPT ![w] = {}] /\ pc' = [pc EXCEPT ![w] = "fold"] BY <3>1, <3>2
      <4> QED BY <2>1, <2>4, <2>6, <4>1, PollerSteps DEF Basics, Label
    <3>3. CASE Lost(w) # {}
      <4>1. pc' = [pc EXCEPT ![w] = "emitChurn"] /\ Fit("emitChurn", Tail(queue[w]), NoView, o)
        BY <2>5, <3>1, <3>3
      <4> QED BY <2>1, <2>6, <3>1, <4>1, PollerSteps DEF Basics, Label
    <3> QED BY <3>2, <3>3
  <2> QED BY <1>1, <2>7, <2>8 DEF RenamesOnly, Transfers, Seeds
<1> QED BY <1>5, <1>6

LEMMA TypesHarvest ==
  ASSUME Basics, NEW w \in Poller, NEW saved \in BOOLEAN, Harvest(w, saved)
  PROVE  Types' /\ Pollers'
<1>1. /\ pc[w] = "reap" /\ Reaped(w, saved) /\ view' = [view EXCEPT ![w] = NoView]
      /\ out' = [out EXCEPT ![w] = Ripe]
      /\ pc' = [pc EXCEPT ![w] = IF Ripe = {} THEN "idle" ELSE "emitDurable"]
      /\ UNCHANGED <<env, repoVars, otherVars, cursor, queue, held, histVars>>
  BY HarvestCase
<1>2. Fit("reap", queue[w], view[w], out[w]) BY <1>1 DEF Basics, Pollers
<1>3. queue[w] = <<>> /\ queue[w] \in Seq(1..Len(log)) /\ out[w] = {} /\ \A p \in Path : Read(view[w][p])
  BY <1>2 DEF Fit
<1>4. Types'
  <2>1. CASE ~saved
    <3>1. UNCHANGED <<spans, seeded>> BY <1>1, <2>1 DEF Reaped
    <3> QED BY <1>1, <3>1, TypesKept DEF Basics, typedVars, repoVars, otherVars
  <2>2. CASE saved
    <3>1. \A p \in Path : Tracks(Remaining(p), day)
      <4>1. \A p \in Path : Tracks(spans[p], day) BY DEF Basics, Types
      <4> QED BY <4>1 DEF Tracks, Remaining
    <3>2. PICK swept \in [Path -> Mark] : swept = Pruned(seeded, view[w])
      BY PrunedIs DEF Basics, Types
    <3>3. \A p \in Path : Tombstoned(swept, p, view[w][p].recorded)[p] \in Mark
      <4> SUFFICES ASSUME NEW p \in Path PROVE Tombstoned(swept, p, view[w][p].recorded)[p] \in Mark OBVIOUS
      <4>1. view[w][p].recorded \in 0..writes /\ writes \in Nat BY <1>3, Bounds DEF Read, Basics
      <4>2. Tombstoned(swept, p, view[w][p].recorded) \in [Path -> Mark] BY <4>1, TombstonedIs DEF Rises
      <4> QED BY <4>2
    <3>4. spans' = [p \in Path |-> Remaining(p)] BY <1>1, <2>2 DEF Reaped
    <3>5. seeded' \in [Path -> Mark]
      <4>1. seeded' = [p \in Path |-> IF Matured(p) # {} /\ Remaining(p) = Untracked
                                      THEN Tombstoned(swept, p, view[w][p].recorded)[p] ELSE swept[p]]
        BY <1>1, <2>2, <3>2 DEF Reaped
      <4> QED BY <3>3, <4>1
    <3> QED BY <1>1, <3>1, <3>4, <3>5 DEF Basics, Types, Mark, SessionsTrue, repoVars, otherVars
  <2> QED BY <2>1, <2>2
<1>5. Pollers'
  <2>1. /\ queue' = [queue EXCEPT ![w] = <<>>] /\ held' \in [Poller -> BOOLEAN]
        /\ env' = env /\ log' = log /\ writes' = writes /\ (w = Main \/ "twoPollers" \in env.may)
    BY <1>1, <1>3, Awake DEF Basics, Pollers, Total, repoVars, otherVars
  <2>2. PICK o : o = Ripe OBVIOUS
  <2>3. CASE o = {}
    <3>1. Fit("idle", <<>>, NoView, {}) BY <1>2, <1>3, FitsAs
    <3> QED BY <1>1, <2>1, <2>2, <2>3, <3>1, PollerSteps DEF Basics, Label
  <2>4. CASE o # {}
    <3>1. Fit("emitDurable", <<>>, NoView, o) BY <1>3 DEF Fit
    <3> QED BY <1>1, <2>1, <2>2, <2>4, <3>1, PollerSteps DEF Basics, Label
  <2> QED BY <2>3, <2>4
<1> QED BY <1>4, <1>5

LEMMA BasicsStep ==
  ASSUME Basics, [Next]_vars
  PROVE  Basics'
<1>1. History' BY HistoryStep DEF Basics
<1>2. CASE Commit BY <1>1, <1>2, TypesCommit DEF Basics
<1>3. CASE NextDay BY <1>1, <1>3, TypesNextDay DEF Basics
<1>4. CASE \E a \in Agent, p \in Path : AgentWrites(a, p) BY <1>1, <1>4, TypesAgentWrites DEF Basics
<1>5. CASE RewriteBranch \/ (\E p \in Path : Capture(p)) \/ UNCHANGED vars
  <2>1. env' = env /\ log' = log /\ UNCHANGED typedVars /\ UNCHANGED pollerVars
    BY <1>5 DEF RewriteBranch, Capture, vars, typedVars, repoVars, otherVars, ledger
  <2>2. writes' = writes BY <2>1 DEF typedVars
  <2> QED BY <1>1, <2>1, <2>2, TypesKept, PollersKept DEF Basics
<1>6. CASE SiblingMoves
  <2>1. /\ env' = env /\ log' = log /\ sibHolds' = ~sibHolds /\ UNCHANGED <<otherVars, ledger, pollerVars, day>>
    BY <1>6 DEF SiblingMoves
  <2>2. Types' BY <2>1 DEF Basics, Types, Mark, SessionsTrue, otherVars, ledger
  <2>3. Pollers' BY <2>1, PollersKept DEF Basics, otherVars
  <2> QED BY <1>1, <2>2, <2>3 DEF Basics
<1>7. ASSUME NEW w \in Poller, Poll(w) PROVE Basics'
  <2>1. CASE PollRoot(w) BY <1>1, <2>1, TypesPollRoot DEF Basics
  <2>2. CASE FoldLoopEnds(w) \/ ShowFails(w) \/ Crash(w) \/ EmitVerdicts(w) BY <1>1, <2>2, TypesLoop DEF Basics
  <2>3. CASE ReadEvidence(w) BY <1>1, <2>3, TypesReadEvidence DEF Basics
  <2>4. CASE \E saved \in BOOLEAN : Fold(w, saved) BY <1>1, <2>4, TypesFold DEF Basics
  <2>5. CASE \E saved \in BOOLEAN : Harvest(w, saved) BY <1>1, <2>5, TypesHarvest DEF Basics
  <2> QED BY <1>7, <2>1, <2>2, <2>3, <2>4, <2>5 DEF Poll
<1> QED BY <1>2, <1>3, <1>4, <1>5, <1>6, <1>7 DEF Next, Surroundings

-----------------------------------------------------------------------------
(* What evidence is spent.  An entry of spent names the write that seeded a *)
(* path.  As long as a live session still holds that write, the ledger has  *)
(* a tombstone at least as high or is tracking the path; and a poller that  *)
(* has read its evidence will raise the tombstone when it drops the lines.  *)

Solo == Undisturbed({"resume", "twoPollers"})

Viewing == pc[Main] \in {"apply", "reap"}

Backed(p, s) == seeded[p] >= s \/ spans[p] # Untracked

\* Where the own checkout and the sibling both know a path, the own write is newer than
\* the sibling's that was counted.
Newer(p, s) ==
  \A a \in InSibling, b \in Own : Holds(a, p, s) /\ Live(b) /\ p \in ai[b].paths => ai[b].stamp[p] > s

OneSession ==
  \A a, b \in Agent : a # b => \A p \in ai[a].paths \cap ai[b].paths : ai[a].stamp[p] # ai[b].stamp[p]

SpentOnce  == \A x, y \in spent : x.path = y.path /\ x.stamp = y.stamp => x = y
SpentTyped == \A x \in spent : x.path \in Path /\ x.stamp \in 1..writes

SpentBacked ==
  \A x \in spent :
    /\ \A a \in Agent : Holds(a, x.path, x.stamp) => Backed(x.path, x.stamp)
    /\ Viewing /\ view[Main][x.path].seedable /\ view[Main][x.path].stamp = x.stamp => Backed(x.path, x.stamp)

SpentViewed ==
  Viewing => \A x \in spent, a \in Agent : Holds(a, x.path, x.stamp) =>
               view[Main][x.path].known /\ view[Main][x.path].recorded >= x.stamp

OwnNewer ==
  /\ \A x \in spent : Newer(x.path, x.stamp)
  /\ Viewing => \A p \in Path : view[Main][p].seedable => Newer(p, view[Main][p].stamp)

EvidenceInv ==
  Solo => OneSession /\ SpentOnce /\ SpentTyped /\ SpentBacked /\ SpentViewed /\ OwnNewer

LEMMA EvidenceInit ==
  ASSUME Init
  PROVE  EvidenceInv
<1>1. spent = {} /\ pc = [w \in Poller |-> "idle"] BY DEF Init
<1>2. ~Viewing BY <1>1, DurabilityAssumption DEF Viewing
<1>3. \A a \in Agent : ai[a].paths = {} BY DEF Init
<1> QED BY <1>1, <1>2, <1>3
    DEF EvidenceInv, OneSession, SpentOnce, SpentTyped, SpentBacked, SpentViewed, OwnNewer

\* What a live session holds it held before, and newer writes stay newer.
HeldBefore ==
  /\ writes \in Nat /\ writes' \in Nat /\ writes <= writes'
  /\ \A a \in Agent, p \in Path, s \in 0..writes : Holds(a, p, s)' => Holds(a, p, s)
  /\ \A p \in Path, s \in 0..writes : Newer(p, s) => Newer(p, s)'
  /\ OneSession => OneSession'

\* A step that leaves the ledger and what the poller read alone.
LEMMA EvidenceKept ==
  ASSUME Basics, EvidenceInv, HeldBefore, env' = env, UNCHANGED <<spans, seeded, spent>>,
         Viewing' => Viewing /\ view'[Main] = view[Main]
  PROVE  EvidenceInv'
<1> SUFFICES ASSUME Solo PROVE (OneSession /\ SpentOnce /\ SpentTyped /\ SpentBacked /\ SpentViewed /\ OwnNewer)'
  BY DEF EvidenceInv, Solo, Undisturbed
<1>1. OneSession /\ SpentOnce /\ SpentTyped /\ SpentBacked /\ SpentViewed /\ OwnNewer BY DEF EvidenceInv
<1>2. \A x \in spent : x.path \in Path /\ x.stamp \in 0..writes /\ x.stamp \in 1..writes /\ x.stamp \in 1..writes'
  BY <1>1 DEF SpentTyped, HeldBefore
<1>3. \A a \in Agent, x \in spent : Holds(a, x.path, x.stamp)' => Holds(a, x.path, x.stamp)
  <2> SUFFICES ASSUME NEW a \in Agent, NEW x \in spent
               PROVE  Holds(a, x.path, x.stamp)' => Holds(a, x.path, x.stamp)
    OBVIOUS
  <2>1. PICK p \in Path, s \in 0..writes : p = x.path /\ s = x.stamp BY <1>2
  <2>2. Holds(a, p, s)' => Holds(a, p, s) BY DEF HeldBefore
  <2> QED BY <2>1, <2>2 DEF Holds, Live
<1>4. ASSUME NEW x \in spent PROVE Newer(x.path, x.stamp)'
  <2>1. PICK p \in Path, s \in 0..writes : p = x.path /\ s = x.stamp BY <1>2
  <2>2. Newer(p, s) BY <1>1, <2>1 DEF OwnNewer
  <2>3. Newer(p, s)' BY <2>2 DEF HeldBefore
  <2> QED BY <2>1, <2>3 DEF Newer, Holds, Live
<1>5. SpentBacked'
  <2> SUFFICES ASSUME NEW x \in spent
               PROVE  /\ \A a \in Agent : Holds(a, x.path, x.stamp)' => Backed(x.path, x.stamp)'
                      /\ Viewing' /\ view'[Main][x.path].seedable /\ view'[Main][x.path].stamp = x.stamp
                           => Backed(x.path, x.stamp)'
    BY DEF SpentBacked, Holds, Live, Backed
  <2>1. Backed(x.path, x.stamp) => Backed(x.path, x.stamp)' BY DEF Backed
  <2> QED BY <1>1, <1>3, <2>1 DEF SpentBacked
<1>6. SpentViewed'
  <2> SUFFICES ASSUME Viewing', NEW x \in spent, NEW a \in Agent, Holds(a, x.path, x.stamp)'
               PROVE  view'[Main][x.path].known /\ view'[Main][x.path].recorded >= x.stamp
    BY DEF SpentViewed, Holds, Live
  <2>1. Holds(a, x.path, x.stamp) BY <1>3
  <2> QED BY <1>1, <2>1 DEF SpentViewed
<1>7. OwnNewer'
  <2>1. ASSUME Viewing', NEW p \in Path, view'[Main][p].seedable, NEW a \in InSibling, NEW b \in Own,
               Holds(a, p, view[Main][p].stamp)', Live(b)', p \in ai'[b].paths
        PROVE  ai'[b].stamp[p] > view'[Main][p].stamp
    <3>1. Viewing /\ view'[Main] = view[Main] BY <2>1
    <3>2. PICK s \in 0..writes : s = view[Main][p].stamp
      <4>1. Fit(pc[Main], queue[Main], view[Main], out[Main]) BY DurabilityAssumption DEF Basics, Pollers
      <4>2. Read(view[Main][p]) BY <3>1, <4>1 DEF Fit, Viewing
      <4> QED BY <4>2 DEF Read
    <3>3. Newer(p, s) BY <1>1, <2>1, <3>1, <3>2 DEF OwnNewer
    <3>4. Newer(p, s)' BY <3>3 DEF HeldBefore
    <3>5. Holds(a, p, s)' BY <2>1, <3>1, <3>2 DEF Holds
    <3>6. ai'[b].stamp[p] > s BY <2>1, <3>4, <3>5 DEF Newer
    <3> QED BY <3>1, <3>2, <3>6
  <2>2. \A x \in spent' : Newer(x.path, x.stamp)' BY <1>4
  <2>3. Viewing' => \A p \in Path : view'[Main][p].seedable => Newer(p, view[Main][p].stamp)'
    BY <2>1 DEF Newer, Holds
  <2> QED BY <2>2, <2>3 DEF OwnNewer
<1>8. SpentOnce' /\ SpentTyped' BY <1>1, <1>2 DEF SpentOnce, SpentTyped
<1> QED BY <1>1, <1>5, <1>6, <1>7, <1>8 DEF HeldBefore

LEMMA SessionsKept ==
  ASSUME Basics, UNCHANGED <<day, writes, ai>>
  PROVE  HeldBefore
<1>1. writes \in Nat /\ writes <= writes BY Bounds DEF Basics
<1> QED BY <1>1 DEF HeldBefore, Holds, Live, Newer, OneSession

LEMMA SessionsNextDay ==
  ASSUME Basics, NextDay
  PROVE  HeldBefore
<1>1. day' = day + 1 /\ UNCHANGED <<writes, ai>> BY DEF NextDay, otherVars
<1>2. writes \in Nat /\ writes <= writes /\ day \in Nat BY Bounds DEF Basics
<1>3. \A a \in Agent : Live(a)' => Live(a)
  <2>1. \A a \in Agent : ai[a].day \in Nat BY DEF Basics, Types, SessionsTrue
  <2> QED BY <1>1, <1>2, <2>1, DurabilityAssumption DEF Live
<1>4. \A a \in Agent, p \in Path, s \in 0..writes : Holds(a, p, s)' => Holds(a, p, s) BY <1>1, <1>3 DEF Holds
<1>5. InSibling \subseteq Agent /\ Own \subseteq Agent BY DurabilityAssumption DEF Own
<1>6. \A p \in Path, s \in 0..writes : Newer(p, s) => Newer(p, s)' BY <1>1, <1>3, <1>4, <1>5 DEF Newer
<1> QED BY <1>1, <1>2, <1>4, <1>6 DEF HeldBefore, OneSession

LEMMA SessionsWrite ==
  ASSUME Basics, Solo, NEW a \in Agent, NEW p \in Path, AgentWrites(a, p)
  PROVE  HeldBefore
<1>1. /\ writes' = writes + 1 /\ day' = day /\ (~Live(a) /\ ai[a].paths # {} => "resume" \in env.may)
      /\ ai' = [b \in Agent |->
           IF b = a THEN [day |-> day, paths |-> ai[a].paths \cup {p},
                          stamp |-> [ai[a].stamp EXCEPT ![p] = writes + 1]]
           ELSE IF Live(b) THEN ai[b]
           ELSE [day |-> 0, paths |-> {}, stamp |-> [q \in Path |-> 0]]]
  BY DEF AgentWrites, repoVars
<1>2. PICK n \in Nat : n = writes BY Bounds DEF Basics
<1>3. writes' \in Nat /\ writes <= writes' /\ \A s \in 0..writes : s # writes' BY <1>1, <1>2
<1>4. \A b \in Agent : ai[b].stamp \in [Path -> 0..writes] /\ ai[b].paths \in SUBSET Path
  BY DEF Basics, Types, SessionsTrue
<1>5. ai[a].paths # {} => Live(a) BY <1>1 DEF Solo, Undisturbed
<1>6. ASSUME NEW b \in Agent, NEW q \in ai'[b].paths
      PROVE  \/ b = a /\ q = p /\ ai'[b].stamp[q] = writes'
             \/ /\ Live(b) /\ q \in ai[b].paths /\ ai'[b].stamp[q] = ai[b].stamp[q]
                /\ q \in Path /\ ai[b].stamp[q] \in 0..writes
  <2>1. CASE b = a /\ q = p
    <3>1. ai'[a].stamp = [ai[a].stamp EXCEPT ![p] = writes + 1] BY <1>1
    <3> QED BY <1>1, <1>4, <2>1, <3>1
  <2>2. CASE b = a /\ q # p
    <3>1. ai'[a].stamp = [ai[a].stamp EXCEPT ![p] = writes + 1] /\ ai'[a].paths = ai[a].paths \cup {p} BY <1>1
    <3> QED BY <1>4, <1>5, <1>6, <2>2, <3>1
  <2>3. CASE b # a /\ Live(b)
    <3>1. ai'[b] = ai[b] BY <1>1, <2>3
    <3> QED BY <1>4, <1>6, <2>3, <3>1
  <2>4. CASE b # a /\ ~Live(b)
    <3>1. ai'[b].paths = {} BY <1>1, <2>4
    <3> QED BY <1>6, <3>1
  <2> QED BY <2>1, <2>2, <2>3, <2>4
<1>7. \A b \in Agent, q \in Path, s \in 0..writes : Holds(b, q, s)' => Holds(b, q, s)
  BY <1>3, <1>6 DEF Holds
<1>8. ASSUME NEW q \in Path, NEW s \in 0..writes, Newer(q, s) PROVE Newer(q, s)'
  <2> SUFFICES ASSUME NEW b \in InSibling, NEW c \in Own, Holds(b, q, s)', q \in ai'[c].paths
               PROVE  ai'[c].stamp[q] > s
    BY DEF Newer
  <2>1. b \in Agent /\ c \in Agent BY DurabilityAssumption DEF Own
  <2>2. Holds(b, q, s) BY <1>7, <2>1
  <2>3. writes' > s BY <1>1, <1>2
  <2> QED BY <1>6, <1>8, <2>1, <2>2, <2>3 DEF Newer
<1>9. OneSession => OneSession'
  <2> SUFFICES ASSUME OneSession, NEW b \in Agent, NEW c \in Agent, b # c,
                      NEW q \in ai'[b].paths \cap ai'[c].paths
               PROVE  ai'[b].stamp[q] # ai'[c].stamp[q]
    BY DEF OneSession
  <2>1. CASE b = a /\ q = p /\ ai'[b].stamp[q] = writes' BY <1>3, <1>6, <2>1
  <2>2. CASE c = a /\ q = p /\ ai'[c].stamp[q] = writes' BY <1>3, <1>6, <2>2
  <2>3. CASE /\ q \in ai[b].paths /\ ai'[b].stamp[q] = ai[b].stamp[q]
             /\ q \in ai[c].paths /\ ai'[c].stamp[q] = ai[c].stamp[q]
    BY <2>3 DEF OneSession
  <2> QED BY <1>6, <2>1, <2>2, <2>3
<1> QED BY <1>2, <1>3, <1>7, <1>8, <1>9 DEF HeldBefore

\* What the poller reads of a path.
LEMMA LookupIs ==
  ASSUME Basics, NEW p \in Path, NEW wide \in BOOLEAN
  PROVE  /\ Lookup(p, wide) \in SUBSET Agent /\ writes \in Nat /\ SessionsTrue
         /\ StampOf(p, wide) \in 0..writes
         /\ \A a \in Lookup(p, wide) : Live(a) /\ p \in ai[a].paths =>
              Known(p, wide) /\ ai[a].stamp[p] <= StampOf(p, wide)
         /\ StampOf(p, wide) > 0 => \E a \in Lookup(p, wide) : Holds(a, p, StampOf(p, wide))
<1>1. Lookup(p, wide) \in SUBSET Agent BY DurabilityAssumption DEF Lookup, Own
<1>2. writes \in Nat /\ SessionsTrue BY Bounds DEF Basics, Types
<1>3. /\ Stamp(Lookup(p, wide), p) \in 0..writes
      /\ \A a \in Lookup(p, wide) : Live(a) /\ p \in ai[a].paths => ai[a].stamp[p] <= Stamp(Lookup(p, wide), p)
      /\ Stamp(Lookup(p, wide), p) > 0 => \E a \in Lookup(p, wide) : Holds(a, p, Stamp(Lookup(p, wide), p))
  BY <1>1, <1>2, StampIs
<1> QED BY <1>1, <1>2, <1>3 DEF StampOf, Known, Marked

LEMMA EvidenceRead ==
  ASSUME Basics, EvidenceInv, ReadEvidence(Main)
  PROVE  EvidenceInv'
<1>1. /\ view' = [view EXCEPT ![Main] = Evidence(held[Main])]
      /\ UNCHANGED <<env, repoVars, otherVars, ledger, queue, held, out, histVars>>
  BY DEF ReadEvidence
<1> SUFFICES ASSUME Solo PROVE (OneSession /\ SpentOnce /\ SpentTyped /\ SpentBacked /\ SpentViewed /\ OwnNewer)'
  BY <1>1 DEF EvidenceInv, Solo, Undisturbed
<1>2. OneSession /\ SpentOnce /\ SpentTyped /\ SpentBacked /\ SpentViewed /\ OwnNewer BY DEF EvidenceInv
<1>3. PICK holds \in BOOLEAN : holds = held[Main] BY DurabilityAssumption DEF Basics, Pollers
<1>4. view'[Main] = Evidence(holds) BY <1>1, <1>3, DurabilityAssumption DEF Basics, Pollers, Total
<1>5. /\ UNCHANGED <<day, writes, ai, spans, seeded, spent>> BY <1>1 DEF repoVars, otherVars, ledger, histVars
<1>6. ASSUME NEW p \in Path
      PROVE  /\ Read(view'[Main][p]) /\ view'[Main][p].seedable = Known(p, holds)
             /\ view'[Main][p].stamp = StampOf(p, holds) /\ view'[Main][p].known = Known(p, TRUE)
             /\ view'[Main][p].recorded >= StampOf(p, TRUE)
  <2>1. writes \in Nat /\ SessionsTrue BY Bounds DEF Basics, Types
  <2> QED BY <1>4, <2>1, EvidenceIs
<1>7. ASSUME NEW p \in Path, view'[Main][p].seedable
      PROVE  \E a \in Lookup(p, holds) : Holds(a, p, view'[Main][p].stamp)
  <2>1. StampOf(p, holds) > 0 BY <1>6, <1>7 DEF Read
  <2> QED BY <1>6, <2>1, LookupIs
<1>8. ASSUME NEW x \in spent, NEW a \in Agent, Holds(a, x.path, x.stamp)
      PROVE  view'[Main][x.path].known /\ view'[Main][x.path].recorded >= x.stamp
  <2>1. PICK p \in Path, s \in Nat : p = x.path /\ s = x.stamp BY <1>2 DEF SpentTyped
  <2>2. Live(a) /\ p \in ai[a].paths /\ ai[a].stamp[p] = s BY <1>8, <2>1 DEF Holds
  <2>3. PICK r, t \in Nat : r = view'[Main][p].recorded /\ t = StampOf(p, TRUE) /\ r >= t /\ r \in Nat
    <3>1. view'[Main][p].recorded \in 0..writes /\ writes \in Nat BY <1>6, Bounds DEF Read, Basics
    <3>2. StampOf(p, TRUE) \in 0..writes BY LookupIs
    <3>3. view'[Main][p].recorded >= StampOf(p, TRUE) BY <1>6
    <3>4. PICK r \in 0..writes, t \in 0..writes : r = view'[Main][p].recorded /\ t = StampOf(p, TRUE) BY <3>1, <3>2
    <3>5. r >= t BY ONLY <3>3, <3>4
    <3>6. writes \in Nat BY <3>1
    <3>7. r \in Nat /\ t \in Nat BY <3>6
    <3> QED BY <3>4, <3>5, <3>7
  <2>4. r >= t BY <2>3
  <2>5. CASE a \in Lookup(p, TRUE)
    <3>1. Known(p, TRUE) /\ s <= t BY <2>2, <2>3, <2>5, LookupIs
    <3>2. view'[Main][p].known BY <1>6, <3>1
    <3>3. s <= t BY <3>1
    <3>4. r >= s BY <2>4, <3>3
    <3> QED BY <2>1, <2>3, <3>2, <3>4
  <2>6. CASE a \notin Lookup(p, TRUE)
    <3>1. a \in InSibling /\ Marked(Own, p) /\ Lookup(p, TRUE) = Own
      BY <2>2, <2>6 DEF Lookup, Marked, Own
    <3>2. PICK b \in Own : Live(b) /\ p \in ai[b].paths BY <3>1 DEF Marked
    <3>3. ai[b].stamp[p] > s BY <1>2, <1>8, <2>1, <3>1, <3>2 DEF OwnNewer, Newer
    <3>4. Known(p, TRUE) /\ ai[b].stamp[p] <= t BY <2>3, <3>1, <3>2, LookupIs
    <3>5. ai[b].stamp[p] \in Int
      <4>1. b \in Agent BY DEF Own
      <4> QED BY <4>1 DEF Basics, Types, SessionsTrue
    <3>6. view'[Main][p].known BY <1>6, <3>4
    <3>7. PICK i \in Int : i = ai[b].stamp[p] BY <3>5
    <3>8. i > s /\ i <= t BY <3>3, <3>4, <3>7
    <3>9. s < i /\ i <= t BY <3>8
    <3>10. r >= s BY <2>4, <3>9
    <3> QED BY <2>1, <2>3, <3>6, <3>10
  <2> QED BY <2>5, <2>6
<1>9. ASSUME NEW x \in spent, view'[Main][x.path].seedable, view'[Main][x.path].stamp = x.stamp
      PROVE  Backed(x.path, x.stamp)
  <2>1. x.path \in Path BY <1>2 DEF SpentTyped
  <2>2. PICK a \in Lookup(x.path, holds) : Holds(a, x.path, x.stamp) BY <1>7, <1>9, <2>1
  <2>3. a \in Agent BY <2>1, LookupIs
  <2> QED BY <1>2, <2>2, <2>3 DEF SpentBacked
<1>10. ASSUME NEW p \in Path, view'[Main][p].seedable, NEW a \in InSibling, NEW b \in Own,
              Holds(a, p, view'[Main][p].stamp), Live(b), p \in ai[b].paths
       PROVE  FALSE
  <2>1. PICK s : s = view'[Main][p].stamp OBVIOUS
  <2>2. Lookup(p, holds) = Own BY <1>10 DEF Lookup, Marked
  <2>3. PICK c \in Own : Holds(c, p, s) BY <1>7, <1>10, <2>1, <2>2
  <2>4. a # c /\ a \in Agent /\ c \in Agent BY DurabilityAssumption DEF Own
  <2> QED BY <1>2, <1>10, <2>1, <2>3, <2>4 DEF OneSession, Holds
<1>11. SpentBacked' BY <1>2, <1>5, <1>9 DEF SpentBacked, Holds, Live, Backed
<1>12. SpentViewed' BY <1>5, <1>8 DEF SpentViewed, Holds, Live
<1>13. OwnNewer'
  <2>1. \A x \in spent' : Newer(x.path, x.stamp)' BY <1>2, <1>5 DEF OwnNewer, Newer, Holds, Live
  <2>2. \A p \in Path : view'[Main][p].seedable => Newer(p, view[Main][p].stamp)'
    BY <1>5, <1>10 DEF Newer, Holds, Live
  <2> QED BY <2>1, <2>2 DEF OwnNewer
<1>14. (OneSession /\ SpentOnce /\ SpentTyped)' BY <1>2, <1>5 DEF OneSession, SpentOnce, SpentTyped
<1> QED BY <1>11, <1>12, <1>13, <1>14

\* A step of the poller that may spend evidence: it has used up what it read.
LEMMA EvidenceSpends ==
  ASSUME env' = env, UNCHANGED <<day, writes, ai>>, EvidenceInv, ~Viewing',
         Solo => /\ SpentOnce' /\ SpentTyped'
                 /\ \A x \in spent', a \in Agent : Holds(a, x.path, x.stamp) => Backed(x.path, x.stamp)'
                 /\ \A x \in spent' : Newer(x.path, x.stamp)
  PROVE  EvidenceInv'
<1> SUFFICES ASSUME Solo PROVE (OneSession /\ SpentOnce /\ SpentTyped /\ SpentBacked /\ SpentViewed /\ OwnNewer)'
  BY DEF EvidenceInv, Solo, Undisturbed
<1>1. OneSession' BY DEF EvidenceInv, OneSession
<1>2. SpentBacked' BY DEF SpentBacked, Holds, Live, Backed
<1>3. SpentViewed' BY DEF SpentViewed
<1>4. OwnNewer' BY DEF OwnNewer, Newer, Holds, Live
<1> QED BY <1>1, <1>2, <1>3, <1>4

\* What the poller knows of an entry whose write is still held.
LEMMA SpentSeen ==
  ASSUME Basics, EvidenceInv, Solo, Viewing, NEW x \in spent, NEW a \in Agent, Holds(a, x.path, x.stamp)
  PROVE  /\ x.path \in Path /\ x.stamp \in Nat /\ Backed(x.path, x.stamp)
         /\ view[Main][x.path].known /\ view[Main][x.path].recorded >= x.stamp
         /\ Pruned(seeded, view[Main])[x.path] = seeded[x.path]
<1>1. SpentBacked /\ SpentViewed /\ SpentTyped BY DEF EvidenceInv
<1>2. x.path \in Path /\ x.stamp \in Nat BY <1>1 DEF SpentTyped
<1>3. view[Main][x.path].known /\ view[Main][x.path].recorded >= x.stamp BY <1>1 DEF SpentViewed
<1>4. Pruned(seeded, view[Main])[x.path] = seeded[x.path] BY <1>2, <1>3, PrunedIs DEF Basics, Types
<1> QED BY <1>1, <1>2, <1>3, <1>4 DEF SpentBacked

LEMMA CarriedTracked ==
  ASSUME Basics, NEW w \in Poller, pc[w] = "apply", NEW q \in Path, spans[q] # Untracked
  PROVE  Carried(w)[q] # Untracked \/ (At(w).from # At(w).path /\ q = At(w).from)
<1>1. PICK from \in Path, to \in Path : from = At(w).from /\ to = At(w).path BY ToApply
<1>2. /\ q # from /\ q # to => CarriedSpans(from, to)[q] = spans[q]
      /\ spans[from] = Untracked \/ from = to => CarriedSpans(from, to)[to] = spans[to]
      /\ spans[from] # Untracked =>
           DOMAIN CarriedSpans(from, to)[to] = DOMAIN spans[from] \cup DOMAIN spans[to]
  <2>1. DOMAIN spans = Path /\ \A r \in Path : Tracks(spans[r], day) BY DEF Basics, Types
  <2>2. PICK d : d = day OBVIOUS
  <2> QED BY <2>1, <2>2, CarriedSpansIs
<1>3. Carried(w) = CarriedSpans(from, to) BY <1>1 DEF Carried
<1>4. CASE q = to /\ spans[from] # Untracked /\ from # to
  <2>1. DOMAIN spans[to] # {} BY <1>4, EmptyTracks DEF Basics, Types
  <2>2. DOMAIN Carried(w)[to] # {} BY <1>2, <1>3, <1>4, <2>1
  <2>3. DOMAIN Untracked = {} BY DEF Untracked
  <2> QED BY <1>4, <2>2, <2>3
<1>5. CASE ~(q = to /\ spans[from] # Untracked /\ from # to) BY <1>1, <1>2, <1>3, <1>5
<1> QED BY <1>4, <1>5

LEMMA FoldBacks ==
  ASSUME Basics, EvidenceInv, Solo, Main \in Poller, pc[Main] = "apply", NEW saved \in BOOLEAN,
         NEW f, NEW m, Writes(Main, saved, f, m), Rises(m, Marks(Main)),
         Carried(Main)[At(Main).path] # Untracked =>
           f # Untracked \/ m[At(Main).path] >= view[Main][At(Main).path].recorded,
         NEW x \in spent, NEW a \in Agent, Holds(a, x.path, x.stamp)
  PROVE  Backed(x.path, x.stamp)'
<1>1. Viewing BY DEF Viewing
<1>2. PICK q \in Path, s \in Nat : q = x.path /\ s = x.stamp BY <1>1, SpentSeen
<1>3. /\ Backed(q, s) /\ view[Main][q].known /\ view[Main][q].recorded >= s
      /\ Pruned(seeded, view[Main])[q] = seeded[q]
  BY <1>1, <1>2, SpentSeen
<1>4. PICK p \in Path, from \in Path : p = At(Main).path /\ from = At(Main).from BY ToApply
<1>5. /\ DOMAIN Carried(Main) = Path /\ seeded[q] \in Int /\ Marks(Main)[q] \in Int /\ m[q] \in Int
      /\ m[q] >= Marks(Main)[q] /\ Marks(Main)[q] >= seeded[q] /\ view[Main][q].recorded \in Int
  <2>1. /\ Marks(Main) \in [Path -> Mark] /\ Rises(Marks(Main), Pruned(seeded, view[Main])) /\ Read(view[Main][q])
        /\ DOMAIN Carried(Main) = Path
    BY ToApply
  <2>2. Mark \subseteq Int /\ writes \in Nat BY Bounds DEF Basics, Mark, None
  <2>3. seeded[q] \in Mark /\ m[q] \in Mark /\ Marks(Main)[q] \in Mark /\ view[Main][q].recorded \in 0..writes
    BY <2>1 DEF Basics, Types, Rises, Read
  <2>4. view[Main][q].recorded \in Int BY <2>2, <2>3
  <2>5. seeded[q] \in Int /\ m[q] \in Int /\ Marks(Main)[q] \in Int BY <2>2, <2>3
  <2>6. m[q] >= Marks(Main)[q] /\ Marks(Main)[q] >= seeded[q] BY <1>3, <2>1 DEF Rises
  <2> QED BY <2>1, <2>4, <2>5, <2>6
<1>6. CASE ~saved
  <2>1. UNCHANGED <<spans, seeded>> BY <1>6 DEF Writes, ledger
  <2> QED BY <1>2, <1>3, <2>1 DEF Backed
<1>7. CASE saved
  <2>1. spans' = [Carried(Main) EXCEPT ![p] = f] /\ seeded' = m BY <1>4, <1>7 DEF Writes
  <2>2. CASE seeded[q] >= s
    <3>1. m[q] >= s BY <1>5, <2>2
    <3> QED BY <1>2, <2>1, <3>1 DEF Backed
  <2>3. CASE spans[q] # Untracked
    <3>1. CASE from # p /\ q = from
      <4>1. Marks(Main)[q] >= view[Main][q].recorded
        <5>1. writes \in Nat /\ seeded \in [Path -> Mark] /\ \A r \in Path : Read(view[Main][r])
          BY ToApply, Bounds DEF Basics, Types
        <5> QED BY <1>4, <2>3, <3>1, <5>1, MarksIs
      <4>2. m[q] >= s BY <1>3, <1>5, <4>1
      <4> QED BY <1>2, <2>1, <4>2 DEF Backed
    <3>2. CASE ~(from # p /\ q = from)
      <4>1. Carried(Main)[q] # Untracked BY <1>4, <2>3, <3>2, CarriedTracked
      <4>2. CASE q # p
        <5>1. spans'[q] = Carried(Main)[q] BY <1>5, <2>1, <4>2
        <5> QED BY <1>2, <4>1, <5>1 DEF Backed
      <4>3. CASE q = p /\ f # Untracked
        <5>1. spans'[q] = f BY <1>5, <2>1, <4>3
        <5> QED BY <1>2, <4>3, <5>1 DEF Backed
      <4>4. CASE q = p /\ m[p] >= view[Main][p].recorded
        <5>1. m[q] >= s BY <1>3, <1>5, <4>4
        <5> QED BY <1>2, <2>1, <5>1 DEF Backed
      <4> QED BY <1>4, <4>1, <4>2, <4>3, <4>4
    <3> QED BY <3>1, <3>2
  <2> QED BY <1>3, <2>2, <2>3 DEF Backed
<1> QED BY <1>6, <1>7

LEMMA EvidenceFold ==
  ASSUME Basics, EvidenceInv, NEW saved \in BOOLEAN, Fold(Main, saved)
  PROVE  EvidenceInv'
<1>1. Main \in Poller BY DurabilityAssumption
<1>2. /\ Folds(Main, saved)
      /\ RenamesOnly(Main, saved) \/ Rewrites(Main, saved) \/ Transfers(Main, saved) \/ Seeds(Main, saved)
  BY <1>1, FoldCases
<1>3. /\ pc[Main] = "apply" /\ env' = env /\ UNCHANGED <<day, writes, ai>>
  BY <1>2 DEF Folds, repoVars, otherVars
<1>4. Viewing BY <1>3 DEF Viewing
<1>5. ~Viewing'
  <2>1. pc'[Main] \in {"fold", "emitChurn"}
    BY <1>1, <1>2 DEF RenamesOnly, Rewrites, Transfers, Seeds, Basics, Pollers
  <2> QED BY <2>1 DEF Viewing
<1>6. PICK p \in Path : p = At(Main).path BY <1>1, <1>3, ToApply
<1>7. /\ Marks(Main) \in [Path -> Mark] /\ Rises(Marks(Main), Pruned(seeded, view[Main]))
      /\ Read(view[Main][p]) /\ Head(queue[Main]) \in Nat /\ writes \in Nat /\ day \in Nat
  <2>1. Head(queue[Main]) \in 1..Len(log) /\ Len(log) \in Nat BY <1>1, <1>3, ToApply, Bounds DEF Basics
  <2> QED BY <1>1, <1>3, <2>1, ToApply, Bounds DEF Basics
<1>8. Rises(Marks(Main), Marks(Main)) BY <1>7 DEF Rises, Mark, None
<1> SUFFICES ASSUME Solo
             PROVE  /\ SpentOnce' /\ SpentTyped'
                    /\ \A x \in spent', a \in Agent : Holds(a, x.path, x.stamp) => Backed(x.path, x.stamp)'
                    /\ \A x \in spent' : Newer(x.path, x.stamp)
  BY <1>3, <1>5, EvidenceSpends
<1>9. SpentOnce /\ SpentTyped /\ SpentBacked /\ OwnNewer BY DEF EvidenceInv
<1>10. ASSUME NEW f, NEW m, Writes(Main, saved, f, m), Rises(m, Marks(Main)),
              Carried(Main)[p] # Untracked => f # Untracked \/ m[p] >= view[Main][p].recorded
       PROVE  \A x \in spent, a \in Agent : Holds(a, x.path, x.stamp) => Backed(x.path, x.stamp)'
  BY <1>1, <1>3, <1>6, <1>10, FoldBacks
<1>11. ASSUME UNCHANGED spent, NEW f, NEW m, Writes(Main, saved, f, m), Rises(m, Marks(Main)),
              Carried(Main)[p] # Untracked => f # Untracked \/ m[p] >= view[Main][p].recorded
       PROVE  /\ SpentOnce' /\ SpentTyped'
              /\ \A x \in spent', a \in Agent : Holds(a, x.path, x.stamp) => Backed(x.path, x.stamp)'
              /\ \A x \in spent' : Newer(x.path, x.stamp)
  <2>1. \A x \in spent, a \in Agent : Holds(a, x.path, x.stamp) => Backed(x.path, x.stamp)' BY <1>10, <1>11
  <2>2. SpentOnce' /\ SpentTyped' BY <1>3, <1>9, <1>11 DEF SpentOnce, SpentTyped
  <2> QED BY <1>9, <1>11, <2>1, <2>2 DEF OwnNewer
<1>12. PICK tomb : tomb = Tombstoned(Marks(Main), p, view[Main][p].recorded) OBVIOUS
<1>13. Rises(tomb, Marks(Main)) /\ tomb[p] >= view[Main][p].recorded BY <1>1, <1>3, <1>6, <1>12, MarksWritten
<1>14. CASE RenamesOnly(Main, saved)
  <2>1. Writes(Main, saved, Carried(Main)[p], Marks(Main)) /\ UNCHANGED spent BY <1>6, <1>14 DEF RenamesOnly
  <2> QED BY <1>8, <1>11, <2>1
<1>15. CASE Rewrites(Main, saved)
  <2>1. UNCHANGED spent /\ Writes(Main, saved, Left(Main), IF Left(Main) = Untracked THEN tomb ELSE Marks(Main))
    BY <1>6, <1>12, <1>15 DEF Rewrites
  <2>2. CASE Left(Main) = Untracked
    <3>1. Writes(Main, saved, Left(Main), tomb) BY <2>1, <2>2
    <3> QED BY <1>11, <1>13, <2>1, <3>1
  <2>3. CASE Left(Main) # Untracked
    <3>1. Writes(Main, saved, Left(Main), Marks(Main)) BY <2>1, <2>3
    <3> QED BY <1>8, <1>11, <2>1, <2>3, <3>1
  <2> QED BY <2>2, <2>3
<1>16. CASE Transfers(Main, saved)
  <2>1. PICK f : Writes(Main, saved, f, Marks(Main)) BY <1>16 DEF Transfers
  <2>2. UNCHANGED spent /\ Carried(Main)[p] = Untracked BY <1>6, <1>16 DEF Transfers
  <2> QED BY <1>8, <1>11, <2>1, <2>2
<1>17. CASE Seeds(Main, saved)
  <2>1. Carried(Main)[p] = Untracked BY <1>6, <1>17 DEF Seeds
  <2>2. PICK f : /\ f = Begun(IF Backs(Main) THEN NewSides(At(Main).hunks) ELSE {}, Head(queue[Main]))
                 /\ Writes(Main, saved, f, IF f # Untracked /\ Marks(Main)[p] # None THEN tomb ELSE Marks(Main))
                 /\ Spends(Main, saved, f)
    BY <1>6, <1>12, <1>17 DEF Seeds
  <2>3. PICK m : /\ m = IF f # Untracked /\ Marks(Main)[p] # None THEN tomb ELSE Marks(Main)
                 /\ Writes(Main, saved, f, m) /\ Rises(m, Marks(Main))
    BY <1>8, <1>13, <2>2
  <2>4. \A x \in spent, a \in Agent : Holds(a, x.path, x.stamp) => Backed(x.path, x.stamp)'
    BY <1>10, <2>1, <2>3
  <2>5. PICK new : new = [path |-> p, stamp |-> view[Main][p].stamp, by |-> Head(queue[Main])] OBVIOUS
  <2>6. spent' = spent \cup {new : n \in {k \in DOMAIN f : saved}} BY <1>6, <2>2, <2>5 DEF Spends
  <2>7. CASE ~saved \/ DOMAIN f = {}
    <3>1. UNCHANGED spent BY <2>6, <2>7
    <3> QED BY <1>11, <2>1, <2>3, <3>1
  <2>8. CASE saved /\ DOMAIN f # {}
    <3>1. \A x \in spent' : x \in spent \/ x = new BY <2>6, <2>8
    <3>2. Backs(Main)
      <4>1. ~Backs(Main) => DOMAIN f = {} BY <2>2 DEF Begun
      <4> QED BY <2>8, <4>1
    <3>3. view[Main][p].seedable /\ Authorized(Marks(Main), p, view[Main][p].stamp) BY <1>6, <3>2 DEF Backs
    <3>4. /\ view[Main][p].known /\ view[Main][p].stamp > 0 /\ view[Main][p].stamp \in 0..writes
      BY <1>7, <3>3 DEF Read
    <3>5. Newer(p, view[Main][p].stamp) BY <1>4, <1>9, <3>3 DEF OwnNewer
    <3>6. new.path = p /\ new.stamp = view[Main][p].stamp BY <2>5
    <3>7. ASSUME NEW y \in spent, y.path = p, y.stamp = view[Main][p].stamp PROVE FALSE
      <4>1. Backed(p, view[Main][p].stamp) BY <1>4, <1>9, <3>3, <3>7 DEF SpentBacked
      <4>2. spans[p] = Untracked
        <5>1. spans[p] # Untracked => Carried(Main)[p] # Untracked BY <1>1, <1>3, <1>6, CarriedTracked
        <5> QED BY <2>1, <5>1
      <4>3. seeded[p] >= view[Main][p].stamp BY <4>1, <4>2 DEF Backed
      <4>4. Pruned(seeded, view[Main])[p] = seeded[p] BY <3>4, PrunedIs DEF Basics, Types
      <4>5. Marks(Main)[p] >= seeded[p] BY <1>7, <4>4 DEF Rises
      <4>6. seeded[p] \in Int /\ Marks(Main)[p] \in Int BY <1>7 DEF Basics, Types, Mark, None
      <4>7. PICK s \in Nat : s = view[Main][p].stamp /\ s > 0 BY <1>7, <3>4
      <4>8. Marks(Main)[p] >= s BY <4>3, <4>5, <4>6, <4>7
      <4>9. Marks(Main)[p] # None /\ ~(s > Marks(Main)[p]) BY <4>6, <4>7, <4>8 DEF None
      <4> QED BY <3>3, <4>7, <4>9 DEF Authorized
    <3>8. SpentOnce'
      <4> SUFFICES ASSUME NEW x \in spent', NEW y \in spent', x.path = y.path, x.stamp = y.stamp PROVE x = y
        BY DEF SpentOnce
      <4>1. CASE x \in spent /\ y \in spent BY <1>9, <4>1 DEF SpentOnce
      <4>2. CASE x = new /\ y \in spent BY <3>6, <3>7, <4>2
      <4>3. CASE x \in spent /\ y = new BY <3>6, <3>7, <4>3
      <4> QED BY <3>1, <4>1, <4>2, <4>3
    <3>9. SpentTyped'
      <4>1. new.stamp \in 1..writes BY <1>7, <3>4, <3>6
      <4> QED BY <1>3, <1>9, <3>1, <3>6, <4>1 DEF SpentTyped
    <3>10. \A a \in Agent : Backed(new.path, new.stamp)'
      <4>1. f # Untracked
        <5>1. DOMAIN Untracked = {} BY DEF Untracked
        <5> QED BY <2>8, <5>1
      <4>2. DOMAIN Carried(Main) = Path BY <1>1, <1>3, ToApply
      <4>3. spans'[p] = f BY <1>6, <2>3, <2>8, <4>2 DEF Writes
      <4> QED BY <3>6, <4>1, <4>3 DEF Backed
    <3>11. \A x \in spent', a \in Agent : Holds(a, x.path, x.stamp) => Backed(x.path, x.stamp)'
      BY <2>4, <3>1, <3>10
    <3>12. \A x \in spent' : Newer(x.path, x.stamp)
      <4>1. Newer(new.path, new.stamp) BY <3>5, <3>6
      <4> QED BY <1>9, <3>1, <4>1 DEF OwnNewer
    <3> QED BY <3>8, <3>9, <3>11, <3>12
  <2> QED BY <2>7, <2>8
<1> QED BY <1>2, <1>14, <1>15, <1>16, <1>17

\* The lines of a path that are left once the ripe ones are harvested.
LEMMA RemainingIs ==
  ASSUME NEW p \in Path, NEW d, Tracks(spans[p], d)
  PROVE  /\ DOMAIN Remaining(p) = DOMAIN spans[p] \ Matured(p)
         /\ \A l \in DOMAIN Remaining(p) : Remaining(p)[l] = spans[p][l]
         /\ Matured(p) = {} => Remaining(p) = spans[p]
BY DEF Remaining, Tracks

LEMMA EvidenceHarvest ==
  ASSUME Basics, EvidenceInv, NEW saved \in BOOLEAN, Harvest(Main, saved)
  PROVE  EvidenceInv'
<1>1. Main \in Poller BY DurabilityAssumption
<1>2. /\ pc[Main] = "reap" /\ Reaped(Main, saved)
      /\ pc' = [pc EXCEPT ![Main] = IF Ripe = {} THEN "idle" ELSE "emitDurable"]
      /\ UNCHANGED <<env, repoVars, otherVars, cursor, queue, held, histVars>>
  BY <1>1, HarvestCase
<1>3. env' = env /\ UNCHANGED <<day, writes, ai>> /\ UNCHANGED spent
  BY <1>2 DEF repoVars, otherVars, histVars
<1>4. Viewing BY <1>2 DEF Viewing
<1>5. ~Viewing'
  <2>1. pc'[Main] = IF Ripe = {} THEN "idle" ELSE "emitDurable" BY <1>1, <1>2 DEF Basics, Pollers
  <2>2. pc'[Main] \in {"idle", "emitDurable"} BY <2>1
  <2> QED BY <2>2 DEF Viewing
<1> SUFFICES ASSUME Solo
             PROVE  /\ SpentOnce' /\ SpentTyped'
                    /\ \A x \in spent', a \in Agent : Holds(a, x.path, x.stamp) => Backed(x.path, x.stamp)'
                    /\ \A x \in spent' : Newer(x.path, x.stamp)
  BY <1>3, <1>5, EvidenceSpends
<1>6. SpentOnce /\ SpentTyped /\ OwnNewer BY DEF EvidenceInv
<1>7. ASSUME NEW x \in spent, NEW a \in Agent, Holds(a, x.path, x.stamp) PROVE Backed(x.path, x.stamp)'
  <2>1. PICK q \in Path, s \in Nat : q = x.path /\ s = x.stamp BY <1>4, <1>7, SpentSeen
  <2>2. /\ Backed(q, s) /\ view[Main][q].recorded >= s /\ Pruned(seeded, view[Main])[q] = seeded[q]
    BY <1>4, <1>7, <2>1, SpentSeen
  <2>3. CASE ~saved
    <3>1. UNCHANGED <<spans, seeded>> BY <1>2, <2>3 DEF Reaped
    <3> QED BY <2>1, <2>2, <3>1 DEF Backed
  <2>4. CASE saved
    <3>1. PICK swept \in [Path -> Mark] : swept = Pruned(seeded, view[Main]) BY PrunedIs DEF Basics, Types
    <3>2. /\ spans'[q] = Remaining(q)
          /\ seeded'[q] = IF Matured(q) # {} /\ Remaining(q) = Untracked
                          THEN Tombstoned(swept, q, view[Main][q].recorded)[q] ELSE swept[q]
      BY <1>2, <2>4, <3>1 DEF Reaped
    <3>3. Fit(pc[Main], queue[Main], view[Main], out[Main]) BY <1>1 DEF Basics, Pollers
    <3>4. view[Main][q].recorded \in 0..writes /\ writes \in Nat BY <1>2, <3>3, Bounds DEF Fit, Read, Basics
    <3>5. PICK tomb : tomb = Tombstoned(swept, q, view[Main][q].recorded) OBVIOUS
    <3>6. Rises(tomb, swept) /\ tomb[q] >= view[Main][q].recorded BY <3>1, <3>4, <3>5, TombstonedIs
    <3>7. swept[q] \in Int /\ tomb[q] \in Int /\ tomb[q] >= swept[q] /\ view[Main][q].recorded \in Int
      <4>1. Mark \subseteq Int BY <3>4 DEF Mark, None
      <4>2. swept[q] \in Mark /\ tomb[q] \in Mark BY <3>6 DEF Rises
      <4>3. tomb[q] >= swept[q] BY <3>6 DEF Rises
      <4>4. view[Main][q].recorded \in Int BY <3>4
      <4> QED BY <4>1, <4>2, <4>3, <4>4
    <3>8. swept[q] = seeded[q] BY <2>2, <3>1
    <3>9. CASE Matured(q) # {} /\ Remaining(q) = Untracked
      <4>1. seeded'[q] = tomb[q] BY <3>2, <3>5, <3>9
      <4>2. tomb[q] >= s BY <2>2, <3>6, <3>7
      <4> QED BY <2>1, <4>1, <4>2 DEF Backed
    <3>10. CASE ~(Matured(q) # {} /\ Remaining(q) = Untracked)
      <4>1. seeded'[q] = seeded[q] BY <3>2, <3>8, <3>10
      <4>2. spans[q] # Untracked => spans'[q] # Untracked
        <5>1. Tracks(spans[q], day) BY DEF Basics, Types
        <5>2. Matured(q) = {} => Remaining(q) = spans[q] BY <5>1, RemainingIs
        <5> QED BY <3>2, <3>10, <5>2
      <4> QED BY <2>1, <2>2, <4>1, <4>2 DEF Backed
    <3> QED BY <3>9, <3>10
  <2> QED BY <2>3, <2>4
<1>8. SpentOnce' /\ SpentTyped' BY <1>3, <1>6 DEF SpentOnce, SpentTyped
<1>9. \A x \in spent' : Newer(x.path, x.stamp) BY <1>3, <1>6 DEF OwnNewer
<1> QED BY <1>3, <1>7, <1>8, <1>9

LEMMA EvidenceStep ==
  ASSUME Basics, EvidenceInv, [Next]_vars
  PROVE  EvidenceInv'
<1>1. Main \in Poller BY DurabilityAssumption
<1>2. ASSUME UNCHANGED <<env, spans, seeded, spent, pc, view>>, HeldBefore PROVE EvidenceInv'
  BY <1>2, EvidenceKept DEF Viewing
<1>3. CASE Commit \/ RewriteBranch \/ SiblingMoves \/ (\E p \in Path : Capture(p)) \/ UNCHANGED vars
  <2>1. CASE Commit BY <1>2, <2>1, SessionsKept DEF Commit, otherVars, ledger, pollerVars, histVars
  <2>2. CASE RewriteBranch BY <1>2, <2>2, SessionsKept DEF RewriteBranch, otherVars, ledger, pollerVars, histVars
  <2>3. CASE SiblingMoves BY <1>2, <2>3, SessionsKept DEF SiblingMoves, otherVars, ledger, pollerVars, histVars
  <2>4. CASE \E p \in Path : Capture(p)
    BY <1>2, <2>4, SessionsKept DEF Capture, repoVars, ledger, pollerVars, histVars
  <2>5. CASE UNCHANGED vars
    BY <1>2, <2>5, SessionsKept DEF vars, repoVars, otherVars, ledger, pollerVars, histVars
  <2> QED BY <1>3, <2>1, <2>2, <2>3, <2>4, <2>5
<1>4. CASE NextDay BY <1>2, <1>4, SessionsNextDay DEF NextDay, ledger, pollerVars, histVars
<1>5. CASE \E a \in Agent, p \in Path : AgentWrites(a, p)
  <2>1. PICK a \in Agent, p \in Path : AgentWrites(a, p) BY <1>5
  <2>2. UNCHANGED <<env, spans, seeded, spent, pc, view>>
    BY <2>1 DEF AgentWrites, ledger, pollerVars, histVars
  <2>3. CASE Solo BY <1>2, <2>1, <2>2, <2>3, SessionsWrite
  <2>4. CASE ~Solo BY <2>2, <2>4 DEF EvidenceInv, Solo, Undisturbed
  <2> QED BY <2>3, <2>4
<1>6. ASSUME NEW w \in Poller, Poll(w) PROVE EvidenceInv'
  <2>1. UNCHANGED <<historyVars, otherVars, day, sibHolds>> BY <1>6, PollKeeps
  <2>2. HeldBefore BY <2>1, SessionsKept DEF otherVars
  <2>3. env' = env BY <2>1 DEF historyVars
  <2> SUFFICES ASSUME Solo PROVE EvidenceInv' BY <2>3 DEF EvidenceInv, Solo, Undisturbed
  <2>4. w = Main
    <3>1. "twoPollers" \notin env.may BY DEF Solo, Undisturbed
    <3>2. w # Main => pc[w] = "idle" BY <3>1 DEF Basics, Pollers
    <3>3. pc[w] = "idle" => PollRoot(w)
      BY <1>6 DEF Poll, FoldLoopEnds, ShowFails, ReadEvidence, Fold, Harvest, EmitVerdicts, Crash
    <3>4. PollRoot(w) => w = Main BY <3>1 DEF PollRoot
    <3> QED BY <3>2, <3>3, <3>4
  <2>5. CASE PollRoot(w) \/ FoldLoopEnds(w) \/ ShowFails(w) \/ EmitVerdicts(w) \/ Crash(w)
    <3>1. UNCHANGED <<spans, seeded, spent>>
      BY <2>5 DEF PollRoot, FoldLoopEnds, ShowFails, EmitVerdicts, Crash, ledger, histVars
    <3>2. ~Viewing'
      <4>1. pc'[Main] \in {"fold", "harvest", "idle"}
        BY <1>1, <2>4, <2>5 DEF PollRoot, FoldLoopEnds, ShowFails, EmitVerdicts, Crash, Goto, Basics, Pollers
      <4> QED BY <4>1 DEF Viewing
    <3> QED BY <2>2, <2>3, <3>1, <3>2, EvidenceKept
  <2>6. CASE ReadEvidence(w) BY <2>4, <2>6, EvidenceRead
  <2>7. CASE \E saved \in BOOLEAN : Fold(w, saved) BY <2>4, <2>7, EvidenceFold
  <2>8. CASE \E saved \in BOOLEAN : Harvest(w, saved) BY <2>4, <2>8, EvidenceHarvest
  <2> QED BY <1>6, <2>5, <2>6, <2>7, <2>8 DEF Poll
<1> QED BY <1>3, <1>4, <1>5, <1>6 DEF Next, Surroundings

-----------------------------------------------------------------------------
(* The lines that are tracked and reported, where the commits and the       *)
(* ledger are what the fold takes them for.                                 *)

Told == decided \cup out[Main]

TrackedAs(line) == \E p \in Path : \E l \in DOMAIN spans[p] : tree[cursor][p][l] = line

LineTrue(p, l) ==
  /\ l \in 1..Len(tree[cursor][p])
  /\ IF spans[p][l].lin = Branch THEN tree[cursor][p][l].ai ELSE tree[cursor][p][l].by = spans[p][l].lin

Baseline  == cursor = None => queue[Main] = <<>> /\ \A p \in Path : spans[p] = Untracked
Following == \A i \in 1..Len(queue[Main]) : queue[Main][i] = cursor + i
Lines     == \A p \in Path : \A l \in DOMAIN spans[p] : LineTrue(p, l)
ToldPast  == \A d \in Told : d.line.by \in Nat /\ d.line.by <= cursor
ToldOnce  == \A d, e \in Told : d.line = e.line => d = e
ToldGone  == \A d \in Told : ~TrackedAs(d.line)
SeenKept  == Undisturbed({"crash"}) => \A line \in seen : TrackedAs(line) \/ \E d \in Told : d.line = line

LinesInv ==
  Regular => Baseline /\ Following /\ Lines /\ ToldPast /\ ToldOnce /\ ToldGone /\ SeenKept

LEMMA LinesInit ==
  ASSUME Init
  PROVE  LinesInv
<1>1. /\ decided = {} /\ seen = {} /\ queue[Main] = <<>> /\ out[Main] = {} /\ \A p \in Path : spans[p] = Untracked
  BY DurabilityAssumption DEF Init
<1>2. DOMAIN Untracked = {} /\ Len(<<>>) = 0 /\ 1..0 = {} BY DEF Untracked
<1>3. Told = {} BY <1>1 DEF Told
<1>4. Lines BY <1>1, <1>2 DEF Lines
<1>5. Following BY <1>1, <1>2 DEF Following
<1> QED BY <1>1, <1>3, <1>4, <1>5 DEF LinesInv, Baseline, ToldPast, ToldOnce, ToldGone, SeenKept

\* The cursor and the lines that it tells.
LEMMA TrackedLine ==
  ASSUME Basics, LinesInv, Regular, NEW p \in Path, NEW l \in DOMAIN spans[p]
  PROVE  /\ cursor \in 0..Len(log) /\ cursor \in Nat /\ l \in 1..Len(tree[cursor][p])
         /\ tree[cursor][p] \in Seq(Line) /\ tree[cursor][p][l] \in Line
         /\ tree[cursor][p][l].by \in Nat /\ tree[cursor][p][l].by <= cursor
         /\ Len(tree[cursor][p]) <= env.lines
<1>1. l \in 1..Len(tree[cursor][p]) BY DEF LinesInv, Lines, LineTrue
<1>2. cursor # None
  <2>1. DOMAIN Untracked = {} BY DEF Untracked
  <2> QED BY <2>1 DEF LinesInv, Baseline
<1>3. cursor \in 0..Len(log) /\ Len(log) \in Nat BY <1>2, Bounds DEF Basics, Types
<1>4. Files(cursor) /\ Distinct(cursor) BY <1>3 DEF Basics, History
<1>5. tree[cursor][p] \in Seq(Line) /\ Len(tree[cursor][p]) <= env.lines BY <1>4 DEF Files
<1>6. tree[cursor][p][l] \in Line /\ tree[cursor][p][l].by \in Nat BY <1>1, <1>5, LineOf
<1>7. tree[cursor][p][l].by <= cursor BY <1>1, <1>4 DEF Distinct
<1> QED BY <1>1, <1>3, <1>5, <1>6, <1>7

\* No line is tracked at two places.
LEMMA TrackedApart ==
  ASSUME Basics, LinesInv, Regular, NEW p \in Path, NEW l \in DOMAIN spans[p],
         NEW q \in Path, NEW m \in DOMAIN spans[q], tree[cursor][p][l] = tree[cursor][q][m]
  PROVE  p = q /\ l = m
<1>1. cursor \in 0..Len(log) /\ l \in 1..Len(tree[cursor][p]) /\ m \in 1..Len(tree[cursor][q]) BY TrackedLine
<1>2. Distinct(cursor) BY <1>1 DEF Basics, History
<1> QED BY <1>1, <1>2 DEF Distinct

-----------------------------------------------------------------------------
(* A step that changes what is tracked: each line that is tracked after it   *)
(* was tracked before, or came in with the new cursor's commit; each one     *)
(* that was tracked still is, or is reported.                               *)

KeptAs(q, m) ==
  \E r \in Path : \E l \in DOMAIN spans[r] :
    /\ tree[cursor'][q][m] = tree[cursor][r][l] /\ spans'[q][m] = spans[r][l]
    /\ \A d \in out'[Main] : d.line # tree[cursor][r][l]

CameIn(q, m) ==
  /\ cursor < cursor' /\ tree[cursor'][q][m].by = cursor'
  /\ IF spans'[q][m].lin = Branch THEN tree[cursor'][q][m].ai ELSE spans'[q][m].lin = cursor'

Turn(kind) ==
  /\ \A q \in Path : \A m \in DOMAIN spans'[q] :
       m \in 1..Len(tree[cursor'][q]) /\ (KeptAs(q, m) \/ CameIn(q, m))
  /\ \A d \in out'[Main] : \E r \in Path : \E l \in DOMAIN spans[r] : d = Verdict(tree[cursor][r][l], kind)
  /\ \A r \in Path : \A l \in DOMAIN spans[r] :
       \/ \E q \in Path : \E m \in DOMAIN spans'[q] : tree[cursor'][q][m] = tree[cursor][r][l]
       \/ \E d \in out'[Main] : d.line = tree[cursor][r][l]
  /\ \A line \in seen' : \/ line \in seen
                         \/ \E q \in Path : \E m \in DOMAIN spans'[q] : tree[cursor'][q][m] = line

LEMMA LinesTurn ==
  ASSUME Basics, LinesInv, Regular, env' = env, tree' = tree, decided' = decided, out[Main] = {},
         cursor' \in Int, cursor <= cursor', NEW kind, Turn(kind)
  PROVE  (Lines /\ ToldPast /\ ToldOnce /\ ToldGone /\ SeenKept)'
<1>1. Lines /\ ToldPast /\ ToldOnce /\ ToldGone /\ SeenKept BY DEF LinesInv
<1>2. cursor \in Int
  <2>1. Len(log) \in Nat BY Bounds DEF Basics
  <2> QED BY <2>1 DEF Basics, Types, None
<1>3. Told = decided /\ Told' = decided \cup out'[Main] BY DEF Told
<1>4. ASSUME NEW d \in out'[Main]
      PROVE  \E r \in Path : \E l \in DOMAIN spans[r] : d = Verdict(tree[cursor][r][l], kind) /\ d.line = tree[cursor][r][l]
  BY <1>4 DEF Turn, Verdict
<1>5. ASSUME NEW d \in out'[Main] PROVE d.line.by \in Nat /\ d.line.by <= cursor /\ TrackedAs(d.line)
  <2>1. PICK r \in Path : \E l \in DOMAIN spans[r] : d.line = tree[cursor][r][l] BY <1>4
  <2>2. PICK l \in DOMAIN spans[r] : d.line = tree[cursor][r][l] BY <2>1
  <2>3. tree[cursor][r][l].by \in Nat /\ tree[cursor][r][l].by <= cursor BY TrackedLine
  <2> QED BY <2>2, <2>3 DEF TrackedAs
<1>6. Lines'
  <2> SUFFICES ASSUME NEW q \in Path, NEW m \in DOMAIN spans'[q]
               PROVE  /\ m \in 1..Len(tree[cursor'][q])
                      /\ IF spans'[q][m].lin = Branch THEN tree[cursor'][q][m].ai
                                                      ELSE tree[cursor'][q][m].by = spans'[q][m].lin
    BY DEF Lines, LineTrue
  <2>1. m \in 1..Len(tree[cursor'][q]) /\ (KeptAs(q, m) \/ CameIn(q, m)) BY DEF Turn
  <2>2. CASE KeptAs(q, m)
    <3>1. PICK r \in Path : \E l \in DOMAIN spans[r] :
            tree[cursor'][q][m] = tree[cursor][r][l] /\ spans'[q][m] = spans[r][l]
      BY <2>2 DEF KeptAs
    <3>2. PICK l \in DOMAIN spans[r] : tree[cursor'][q][m] = tree[cursor][r][l] /\ spans'[q][m] = spans[r][l]
      BY <3>1
    <3>3. LineTrue(r, l) BY <1>1 DEF Lines
    <3> QED BY <2>1, <3>2, <3>3 DEF LineTrue
  <2>3. CASE CameIn(q, m) BY <2>1, <2>3 DEF CameIn
  <2> QED BY <2>1, <2>2, <2>3
<1>7. ToldPast'
  <2> SUFFICES ASSUME NEW d \in Told' PROVE d.line.by \in Nat /\ d.line.by <= cursor' BY DEF ToldPast
  <2>1. d.line.by \in Nat /\ d.line.by <= cursor BY <1>1, <1>3, <1>5 DEF ToldPast
  <2> QED BY <1>2, <2>1
<1>8. ToldOnce'
  <2> SUFFICES ASSUME NEW d \in Told', NEW e \in Told', d.line = e.line PROVE d = e BY DEF ToldOnce
  <2>1. CASE d \in decided /\ e \in decided BY <1>1, <1>3, <2>1 DEF ToldOnce
  <2>2. CASE d \in decided /\ e \in out'[Main] BY <1>1, <1>3, <1>5, <2>2 DEF ToldGone
  <2>3. CASE d \in out'[Main] /\ e \in decided BY <1>1, <1>3, <1>5, <2>3 DEF ToldGone
  <2>4. CASE d \in out'[Main] /\ e \in out'[Main] BY <1>4, <2>4 DEF Verdict
  <2> QED BY <1>3, <2>1, <2>2, <2>3, <2>4
<1>9. ToldGone'
  <2> SUFFICES ASSUME NEW d \in Told', NEW q \in Path, NEW m \in DOMAIN spans'[q]
               PROVE  tree[cursor'][q][m] # d.line
    BY DEF ToldGone, TrackedAs
  <2>1. KeptAs(q, m) \/ CameIn(q, m) BY DEF Turn
  <2>2. CASE KeptAs(q, m)
    <3>1. PICK r \in Path : \E l \in DOMAIN spans[r] :
            tree[cursor'][q][m] = tree[cursor][r][l] /\ \A e \in out'[Main] : e.line # tree[cursor][r][l]
      BY <2>2 DEF KeptAs
    <3>2. TrackedAs(tree[cursor'][q][m]) BY <3>1 DEF TrackedAs
    <3>3. CASE d \in decided BY <1>1, <1>3, <3>2, <3>3 DEF ToldGone
    <3>4. CASE d \in out'[Main] BY <3>1, <3>4
    <3> QED BY <1>3, <3>3, <3>4
  <2>3. CASE CameIn(q, m)
    <3>1. d.line.by \in Nat /\ d.line.by <= cursor BY <1>1, <1>3, <1>5 DEF ToldPast
    <3>2. d.line.by # cursor' BY <1>2, <2>3, <3>1 DEF CameIn
    <3> QED BY <2>3, <3>2 DEF CameIn
  <2> QED BY <2>1, <2>2, <2>3
<1>10. SeenKept'
  <2> SUFFICES ASSUME Undisturbed({"crash"}), NEW line \in seen'
               PROVE  TrackedAs(line)' \/ \E d \in Told' : d.line = line
    BY DEF SeenKept, Undisturbed
  <2>1. (\E q \in Path : \E m \in DOMAIN spans'[q] : tree[cursor'][q][m] = line) => TrackedAs(line)'
    BY DEF TrackedAs
  <2>2. CASE line \in seen /\ TrackedAs(line)
    <3>1. PICK r \in Path : \E l \in DOMAIN spans[r] : tree[cursor][r][l] = line BY <2>2 DEF TrackedAs
    <3>2. \/ \E q \in Path : \E m \in DOMAIN spans'[q] : tree[cursor'][q][m] = line
          \/ \E d \in out'[Main] : d.line = line
      BY <3>1 DEF Turn
    <3> QED BY <1>3, <2>1, <3>2
  <2>3. CASE line \in seen /\ \E d \in Told : d.line = line BY <1>3, <2>3
  <2>4. line \in seen => TrackedAs(line) \/ \E d \in Told : d.line = line BY <1>1 DEF SeenKept
  <2>5. line \in seen \/ \E q \in Path : \E m \in DOMAIN spans'[q] : tree[cursor'][q][m] = line BY DEF Turn
  <2> QED BY <2>1, <2>2, <2>3, <2>4, <2>5
<1> QED BY <1>6, <1>7, <1>8, <1>9, <1>10

-----------------------------------------------------------------------------
(* The fold, in terms of lines.                                             *)

\* The commit that is folded is the child of the cursor's.
LEMMA FoldsChild ==
  ASSUME Basics, LinesInv, Regular, pc[Main] = "apply"
  PROVE  /\ cursor \in 0..Len(log) /\ cursor \in Nat /\ Head(queue[Main]) = cursor + 1 /\ At(Main).parent = cursor
         /\ At(Main).path \in Path /\ At(Main).from \in Path /\ At(Main) = log[cursor + 1]
         /\ cursor + 1 \in 1..Len(log)
         /\ HunksFit(At(Main).hunks, Len(tree[cursor][At(Main).from]))
         /\ Moved(tree[cursor][At(Main).from], tree[cursor + 1][At(Main).path], At(Main).hunks, cursor + 1)
         /\ \A q \in Path \ {At(Main).path} :
              tree[cursor + 1][q] = IF q = At(Main).from THEN <<>> ELSE tree[cursor][q]
         /\ At(Main).from # At(Main).path => tree[cursor][At(Main).path] = <<>>
<1>1. Main \in Poller BY DurabilityAssumption
<1>2. /\ Head(queue[Main]) \in 1..Len(log) /\ At(Main) = log[Head(queue[Main])]
      /\ At(Main).path \in Path /\ At(Main).from \in Path /\ CommitTrue(Head(queue[Main]))
      /\ queue[Main] \in Seq(1..Len(log)) /\ queue[Main] # <<>>
  BY <1>1, ToApply
<1>3. cursor # None BY <1>2 DEF LinesInv, Baseline
<1>4. cursor \in 0..Len(log) /\ Len(log) \in Nat BY <1>3, Bounds DEF Basics, Types
<1>5. Head(queue[Main]) = cursor + 1
  <2>1. Len(queue[Main]) \in Nat /\ Len(queue[Main]) # 0 BY <1>2, EmptySeq, LenProperties
  <2>2. 1 \in 1..Len(queue[Main]) BY <2>1
  <2>3. queue[Main][1] = cursor + 1 BY <2>2 DEF LinesInv, Following
  <2> QED BY <1>2, <2>3, HeadTailProperties
<1>6. log[cursor + 1].parent = cursor
  <2>1. Linear BY DEF Basics, History, Regular, Undisturbed
  <2>2. PICK c \in 1..Len(log) : c = cursor + 1 BY <1>2, <1>5
  <2>3. log[c].parent = c - 1 BY <2>1 DEF Linear
  <2>4. c - 1 = cursor BY <1>4, <2>2
  <2> QED BY <2>2, <2>3, <2>4
<1>7. cursor + 1 \in 1..Len(log) /\ CommitTrue(cursor + 1) /\ At(Main) = log[cursor + 1] BY <1>2, <1>5
<1> QED BY <1>2, <1>4, <1>5, <1>6, <1>7 DEF CommitTrue

LEMMA CarriedLines ==
  ASSUME Basics, LinesInv, Regular, pc[Main] = "apply"
  PROVE  /\ DOMAIN Carried(Main) = Path
         /\ DOMAIN Carried(Main)[At(Main).path] = DOMAIN spans[At(Main).from]
         /\ \A l \in DOMAIN spans[At(Main).from] : Carried(Main)[At(Main).path][l] = spans[At(Main).from][l]
         /\ \A q \in Path \ {At(Main).path} :
              IF q = At(Main).from THEN DOMAIN Carried(Main)[q] = {} ELSE Carried(Main)[q] = spans[q]
<1>1. PICK from \in Path, to \in Path : from = At(Main).from /\ to = At(Main).path BY FoldsChild
<1>2. Carried(Main) = CarriedSpans(from, to) BY <1>1 DEF Carried
<1>3. DOMAIN spans = Path /\ \A r \in Path : Tracks(spans[r], day) BY DEF Basics, Types
<1>4. PICK d : d = day OBVIOUS
<1>5. /\ DOMAIN CarriedSpans(from, to) = Path
      /\ \A q \in Path : q # from /\ q # to => CarriedSpans(from, to)[q] = spans[q]
      /\ from # to => CarriedSpans(from, to)[from] = Untracked
      /\ spans[from] = Untracked \/ from = to => CarriedSpans(from, to)[to] = spans[to]
      /\ spans[from] # Untracked =>
           /\ DOMAIN CarriedSpans(from, to)[to] = DOMAIN spans[from] \cup DOMAIN spans[to]
           /\ \A l \in DOMAIN spans[from] \ DOMAIN spans[to] : CarriedSpans(from, to)[to][l] = spans[from][l]
  BY <1>3, <1>4, CarriedSpansIs
<1>6. DOMAIN Untracked = {} BY DEF Untracked
<1>7. CASE from = to BY <1>1, <1>2, <1>5, <1>7
<1>8. CASE from # to
  <2>1. DOMAIN spans[to] = {}
    <3>1. tree[cursor][to] = <<>> BY <1>1, <1>8, FoldsChild
    <3>2. \A l \in DOMAIN spans[to] : l \in 1..Len(tree[cursor][to]) BY DEF LinesInv, Lines, LineTrue
    <3>3. Len(<<>>) = 0 /\ 1..0 = {} OBVIOUS
    <3> QED BY <3>1, <3>2, <3>3
  <2>2. DOMAIN CarriedSpans(from, to)[to] = DOMAIN spans[from]
        /\ \A l \in DOMAIN spans[from] : CarriedSpans(from, to)[to][l] = spans[from][l]
    <3>1. CASE spans[from] = Untracked BY <1>5, <1>6, <2>1, <3>1
    <3>2. CASE spans[from] # Untracked BY <1>5, <2>1, <3>2
    <3> QED BY <3>1, <3>2
  <2> QED BY <1>1, <1>2, <1>5, <1>6, <1>8, <2>2
<1> QED BY <1>7, <1>8

\* The new tracked lines f of the path that the commit changes, the lines it churned.
Renews(f, lost, from, p, c) ==
  /\ lost \subseteq DOMAIN spans[from]
  /\ \A d \in out'[Main] : \E l \in lost : d = Verdict(tree[cursor][from][l], "churn")
  /\ \A l \in lost : \E d \in out'[Main] : d.line = tree[cursor][from][l]
  /\ \A n \in DOMAIN f :
       /\ n \in 1..Len(tree[c][p])
       /\ \/ \E l \in DOMAIN spans[from] \ lost : tree[c][p][n] = tree[cursor][from][l] /\ f[n] = spans[from][l]
          \/ tree[c][p][n].by = c /\ IF f[n].lin = Branch THEN tree[c][p][n].ai ELSE f[n].lin = c
  /\ \A l \in DOMAIN spans[from] \ lost : \E n \in DOMAIN f : tree[c][p][n] = tree[cursor][from][l]
  /\ \A line \in seen' : line \in seen \/ \E n \in DOMAIN f : tree[c][p][n] = line

LEMMA FoldTurns ==
  ASSUME Basics, LinesInv, Regular, pc[Main] = "apply", UNCHANGED <<tree, day>>,
         NEW f, NEW m, Writes(Main, TRUE, f, m), NEW lost,
         Renews(f, lost, At(Main).from, At(Main).path, cursor + 1)
  PROVE  Turn("churn")
<1>1. PICK from \in Path, p \in Path, c \in Nat : from = At(Main).from /\ p = At(Main).path /\ c = cursor + 1
  BY FoldsChild
<1> DEFINE renewed == Renews(f, lost, from, p, c)
<1>0. renewed BY <1>1
<1> HIDE DEF renewed
<1>2. cursor' = c /\ cursor < c /\ cursor \in Nat /\ spans' = [Carried(Main) EXCEPT ![p] = f]
  BY <1>1, FoldsChild DEF Writes
<1>3. /\ DOMAIN Carried(Main) = Path
      /\ \A q \in Path \ {p} : IF q = from THEN DOMAIN Carried(Main)[q] = {} ELSE Carried(Main)[q] = spans[q]
  BY <1>1, CarriedLines
<1>4. spans'[p] = f /\ \A q \in Path \ {p} : spans'[q] = Carried(Main)[q] BY <1>2, <1>3
<1>5. \A q \in Path \ {p} : q # from => tree[c][q] = tree[cursor][q] BY <1>1, FoldsChild
<1>6. ASSUME NEW q \in Path \ {p}, NEW n \in DOMAIN spans'[q]
      PROVE  q # from /\ n \in DOMAIN spans[q] /\ spans'[q] = spans[q] /\ tree[c][q] = tree[cursor][q]
  BY <1>3, <1>4, <1>5, <1>6
<1>7. ASSUME NEW r \in Path, NEW l \in DOMAIN spans[r], r # from \/ l \notin lost, NEW d \in out'[Main]
      PROVE  d.line # tree[cursor][r][l]
  <2>1. PICK k \in lost : d = Verdict(tree[cursor][from][k], "churn") BY <1>0, <1>7 DEF renewed, Renews
  <2>2. d.line = tree[cursor][from][k] BY <2>1 DEF Verdict
  <2>3. k \in DOMAIN spans[from] BY <1>0 DEF renewed, Renews
  <2>4. r # from \/ l # k BY <1>7
  <2> QED BY <2>2, <2>3, <2>4, TrackedApart
<1>8. ASSUME NEW q \in Path, NEW n \in DOMAIN spans'[q]
      PROVE  n \in 1..Len(tree[c][q]) /\ (KeptAs(q, n) \/ CameIn(q, n))
  <2>1. CASE q = p
    <3>1. /\ n \in 1..Len(tree[c][p])
          /\ \/ \E l \in DOMAIN spans[from] \ lost : tree[c][p][n] = tree[cursor][from][l] /\ f[n] = spans[from][l]
             \/ tree[c][p][n].by = c /\ IF f[n].lin = Branch THEN tree[c][p][n].ai ELSE f[n].lin = c
      BY <1>0, <1>4, <1>8, <2>1 DEF renewed, Renews
    <3>2. CASE \E l \in DOMAIN spans[from] \ lost : tree[c][p][n] = tree[cursor][from][l] /\ f[n] = spans[from][l]
      <4>1. PICK l \in DOMAIN spans[from] \ lost : tree[c][p][n] = tree[cursor][from][l] /\ f[n] = spans[from][l]
        BY <3>2
      <4>2. \A d \in out'[Main] : d.line # tree[cursor][from][l] BY <1>7
      <4>3. KeptAs(q, n) BY <1>2, <1>4, <2>1, <4>1, <4>2 DEF KeptAs
      <4> QED BY <2>1, <3>1, <4>3
    <3>3. CASE tree[c][p][n].by = c /\ IF f[n].lin = Branch THEN tree[c][p][n].ai ELSE f[n].lin = c
      <4>1. CameIn(q, n) BY <1>2, <1>4, <2>1, <3>3 DEF CameIn
      <4> QED BY <2>1, <3>1, <4>1
    <3> QED BY <3>1, <3>2, <3>3
  <2>2. CASE q # p
    <3>1. q # from /\ n \in DOMAIN spans[q] /\ spans'[q] = spans[q] /\ tree[c][q] = tree[cursor][q]
      BY <1>6, <1>8, <2>2
    <3>2. n \in 1..Len(tree[cursor][q]) BY <3>1, TrackedLine
    <3>3. \A d \in out'[Main] : d.line # tree[cursor][q][n] BY <1>7, <3>1
    <3>4. KeptAs(q, n) BY <1>2, <3>1, <3>3 DEF KeptAs
    <3> QED BY <3>1, <3>2, <3>4
  <2> QED BY <2>1, <2>2
<1>9. \A d \in out'[Main] : \E r \in Path : \E l \in DOMAIN spans[r] : d = Verdict(tree[cursor][r][l], "churn")
  BY <1>0 DEF renewed, Renews
<1>10. ASSUME NEW r \in Path, NEW l \in DOMAIN spans[r]
       PROVE  \/ \E q \in Path : \E n \in DOMAIN spans'[q] : tree[c][q][n] = tree[cursor][r][l]
              \/ \E d \in out'[Main] : d.line = tree[cursor][r][l]
  <2>1. CASE r = from /\ l \in lost BY <1>0, <2>1 DEF renewed, Renews
  <2>2. CASE r = from /\ l \notin lost
    <3>1. PICK n \in DOMAIN f : tree[c][p][n] = tree[cursor][from][l] BY <1>0, <1>10, <2>2 DEF renewed, Renews
    <3> QED BY <1>4, <2>2, <3>1
  <2>3. CASE r # from
    <3>1. r # p
      <4>1. r = p => tree[cursor][p] = <<>> BY <1>1, <2>3, FoldsChild
      <4>2. l \in 1..Len(tree[cursor][r]) BY TrackedLine
      <4>3. Len(<<>>) = 0 /\ 1..0 = {} OBVIOUS
      <4> QED BY <4>1, <4>2, <4>3
    <3>2. spans'[r] = spans[r] /\ tree[c][r] = tree[cursor][r] BY <1>3, <1>4, <1>5, <2>3, <3>1
    <3> QED BY <3>2
  <2> QED BY <2>1, <2>2, <2>3
<1>11. ASSUME NEW line \in seen' PROVE line \in seen \/ \E q \in Path : \E n \in DOMAIN spans'[q] : tree[c][q][n] = line
  <2>1. line \in seen \/ \E n \in DOMAIN f : tree[c][p][n] = line BY <1>0 DEF renewed, Renews
  <2> QED BY <1>4, <2>1
<1> QED BY <1>2, <1>8, <1>9, <1>10, <1>11 DEF Turn

LEMMA RenamesTurn ==
  ASSUME Basics, LinesInv, Regular, pc[Main] = "apply", out[Main] = {}, UNCHANGED <<tree, day>>,
         RenamesOnly(Main, TRUE)
  PROVE  Turn("churn")
<1>1. PICK from \in Path, p \in Path, c \in Nat : from = At(Main).from /\ p = At(Main).path /\ c = cursor + 1
  BY FoldsChild
<1>2. PICK f : f = Carried(Main)[p] OBVIOUS
<1>3. PICK m : Writes(Main, TRUE, f, m) BY <1>1, <1>2 DEF RenamesOnly
<1>4. out'[Main] = {} /\ seen' = seen BY DEF RenamesOnly
<1>5. DOMAIN f = DOMAIN spans[from] /\ \A l \in DOMAIN spans[from] : f[l] = spans[from][l]
  BY <1>1, <1>2, CarriedLines
<1>6. ASSUME NEW l \in DOMAIN spans[from] PROVE l \in 1..Len(tree[c][p]) /\ tree[c][p][l] = tree[cursor][from][l]
  <2>1. Moved(tree[cursor][from], tree[c][p], {}, c) BY <1>1, FoldsChild DEF RenamesOnly
  <2>2. l \in 1..Len(tree[cursor][from]) /\ Len(tree[cursor][from]) \in Nat BY TrackedLine, LenProperties
  <2>3. ~Churned(l, {}) BY DEF Churned
  <2>4. ShiftFor(l, {}) = 0
    <3>1. {h \in {} : l >= h.os + Max({h.ol, 1})} = {} OBVIOUS
    <3> QED BY <3>1, DeltaNone DEF ShiftFor
  <2>5. l + ShiftFor(l, {}) \in 1..Len(tree[c][p]) /\ tree[c][p][l + ShiftFor(l, {})] = tree[cursor][from][l]
    BY <2>1, <2>2, <2>3 DEF Moved
  <2>6. l + 0 = l BY <2>2
  <2> QED BY <2>4, <2>5, <2>6
<1>7. {} \in SUBSET DOMAIN spans[from] OBVIOUS
<1>8. \A n \in DOMAIN f :
        /\ n \in 1..Len(tree[c][p])
        /\ \E l \in DOMAIN spans[from] \ {} : tree[c][p][n] = tree[cursor][from][l] /\ f[n] = spans[from][l]
  BY <1>5, <1>6
<1>9. \A l \in DOMAIN spans[from] \ {} : \E n \in DOMAIN f : tree[c][p][n] = tree[cursor][from][l]
  BY <1>5, <1>6
<1>10. Renews(f, {}, from, p, c) BY <1>4, <1>7, <1>8, <1>9 DEF Renews
<1> QED BY <1>1, <1>3, <1>10, FoldTurns

LEMMA RewritesTurn ==
  ASSUME Basics, LinesInv, Regular, pc[Main] = "apply", UNCHANGED <<tree, day>>, Rewrites(Main, TRUE)
  PROVE  Turn("churn")
<1>1. PICK from \in Path, p \in Path, c \in Nat : from = At(Main).from /\ p = At(Main).path /\ c = cursor + 1
  BY FoldsChild
<1>2. PICK hs : hs = At(Main).hunks OBVIOUS
<1>3. PICK f : f = Left(Main) OBVIOUS
<1>4. PICK m : Writes(Main, TRUE, f, m) BY <1>3 DEF Rewrites
<1>5. PICK lost : lost = Lost(Main) OBVIOUS
<1>6. /\ DOMAIN Carried(Main)[p] = DOMAIN spans[from]
      /\ \A l \in DOMAIN spans[from] : Carried(Main)[p][l] = spans[from][l]
  BY <1>1, CarriedLines
<1>7. lost \in SUBSET DOMAIN spans[from] /\ \A l \in DOMAIN spans[from] : l \in lost <=> Churned(l, hs)
  BY <1>1, <1>2, <1>5, <1>6 DEF Lost
<1>8. Moved(tree[cursor][from], tree[c][p], hs, c) /\ At(Main).parent = cursor BY <1>1, <1>2, FoldsChild
<1>9. seen' = seen BY DEF Rewrites
<1>10. ASSUME NEW l \in DOMAIN spans[from]
       PROVE  l \in 1..Len(tree[cursor][from]) /\ LineAt(cursor, from, l) = tree[cursor][from][l]
  BY TrackedLine DEF LineAt
<1>11. out'[Main] = {Verdict(LineAt(cursor, from, l), "churn") : l \in lost}
  <2>1. Main \in Poller BY DurabilityAssumption
  <2> QED BY <1>1, <1>5, <1>8, <2>1 DEF Rewrites, Basics, Pollers, Total
<1>12. \A d \in out'[Main] : \E l \in lost : d = Verdict(tree[cursor][from][l], "churn")
  BY <1>7, <1>10, <1>11
<1>13. \A l \in lost : \E d \in out'[Main] : d.line = tree[cursor][from][l]
  <2> SUFFICES ASSUME NEW l \in lost PROVE \E d \in out'[Main] : d.line = tree[cursor][from][l] OBVIOUS
  <2>1. Verdict(LineAt(cursor, from, l), "churn") \in out'[Main] BY <1>11
  <2>2. Verdict(LineAt(cursor, from, l), "churn").line = tree[cursor][from][l] BY <1>7, <1>10 DEF Verdict
  <2> QED BY <2>1, <2>2
<1>14. f = Remapped(Carried(Main)[p], hs) BY <1>1, <1>2, <1>3 DEF Left
<1>15. ASSUME NEW l \in DOMAIN spans[from] \ lost
       PROVE  /\ l + ShiftFor(l, hs) \in 1..Len(tree[c][p])
              /\ tree[c][p][l + ShiftFor(l, hs)] = tree[cursor][from][l]
  BY <1>7, <1>8, <1>10 DEF Moved
<1>16. ASSUME NEW n \in DOMAIN f
       PROVE  /\ n \in 1..Len(tree[c][p])
              /\ \E l \in DOMAIN spans[from] \ lost :
                   tree[c][p][n] = tree[cursor][from][l] /\ f[n] = spans[from][l]
  <2>1. PICK l \in DOMAIN spans[from] : ~Churned(l, hs) /\ n = l + ShiftFor(l, hs) /\ f[n] = Carried(Main)[p][l]
    BY <1>6, <1>14, <1>16, RemappedIs
  <2>2. l \in DOMAIN spans[from] \ lost BY <1>7, <2>1
  <2> QED BY <1>6, <1>15, <2>1, <2>2
<1>17. \A l \in DOMAIN spans[from] \ lost : \E n \in DOMAIN f : tree[c][p][n] = tree[cursor][from][l]
  <2> SUFFICES ASSUME NEW l \in DOMAIN spans[from] \ lost
               PROVE  \E n \in DOMAIN f : tree[c][p][n] = tree[cursor][from][l]
    OBVIOUS
  <2>1. l + ShiftFor(l, hs) \in DOMAIN f BY <1>6, <1>7, <1>14, RemappedIs
  <2> QED BY <1>15, <2>1
<1>18. Renews(f, lost, from, p, c) BY <1>7, <1>9, <1>12, <1>13, <1>16, <1>17 DEF Renews
<1> QED BY <1>1, <1>4, <1>18, FoldTurns

\* A path that is not tracked begins to be.
LEMMA BeginsTurn ==
  ASSUME Basics, LinesInv, Regular, pc[Main] = "apply", out'[Main] = {}, UNCHANGED <<tree, day>>,
         Carried(Main)[At(Main).path] = Untracked,
         NEW f, NEW m, Writes(Main, TRUE, f, m), Sees(Main, TRUE, f),
         DOMAIN f \subseteq NewSides(At(Main).hunks),
         \A n \in DOMAIN f :
           IF f[n].lin = Branch THEN tree[cursor + 1][At(Main).path][n].ai ELSE f[n].lin = cursor + 1
  PROVE  Turn("churn")
<1>1. PICK from \in Path, p \in Path, c \in Nat : from = At(Main).from /\ p = At(Main).path /\ c = cursor + 1
  BY FoldsChild
<1>2. DOMAIN spans[from] = {}
  <2>1. DOMAIN Untracked = {} BY DEF Untracked
  <2> QED BY <1>1, <2>1, CarriedLines
<1>3. Moved(tree[cursor][from], tree[c][p], At(Main).hunks, c) BY <1>1, FoldsChild
<1>4. \A n \in DOMAIN f : n \in 1..Len(tree[c][p]) /\ tree[c][p][n].by = c BY <1>3 DEF Moved
<1>5. \A line \in seen' : line \in seen \/ \E n \in DOMAIN f : tree[c][p][n] = line
  <2>1. Head(queue[Main]) = c BY <1>1, FoldsChild
  <2> QED BY <1>1, <2>1 DEF Sees
<1>6. {} \in SUBSET DOMAIN spans[from] OBVIOUS
<1>7. \A n \in DOMAIN f :
        /\ n \in 1..Len(tree[c][p]) /\ tree[c][p][n].by = c
        /\ IF f[n].lin = Branch THEN tree[c][p][n].ai ELSE f[n].lin = c
  BY <1>1, <1>4
<1>8. DOMAIN spans[from] \ {} = {} BY <1>2
<1>9. Renews(f, {}, from, p, c) BY <1>5, <1>6, <1>7, <1>8 DEF Renews
<1> QED BY <1>1, <1>9, FoldTurns

LEMMA FoldTurn ==
  ASSUME Basics, LinesInv, Regular, NEW saved \in BOOLEAN, Fold(Main, saved)
  PROVE  Turn("churn") /\ cursor' = cursor + 1 /\ queue'[Main] = Tail(queue[Main])
<1>1. Main \in Poller BY DurabilityAssumption
<1>2. saved = TRUE /\ pc[Main] = "apply" BY <1>1, FoldCases DEF Folds, Regular, Undisturbed
<1>3. /\ Folds(Main, TRUE)
      /\ RenamesOnly(Main, TRUE) \/ Rewrites(Main, TRUE) \/ Transfers(Main, TRUE) \/ Seeds(Main, TRUE)
  BY <1>1, <1>2, FoldCases
<1>4. UNCHANGED <<tree, day>> BY <1>3 DEF Folds, repoVars
<1>5. queue'[Main] = Tail(queue[Main]) BY <1>1, <1>3 DEF Folds, Basics, Pollers, Total
<1>6. out[Main] = {} BY <1>1, <1>2, ToApply
<1>7. cursor' = cursor + 1
  <2>1. \E f, m : Writes(Main, TRUE, f, m) BY <1>3 DEF RenamesOnly, Rewrites, Transfers, Seeds
  <2>2. cursor' = Head(queue[Main]) BY <2>1 DEF Writes
  <2> QED BY <1>2, <2>2, FoldsChild
<1>8. CASE RenamesOnly(Main, TRUE) BY <1>2, <1>4, <1>5, <1>6, <1>7, <1>8, RenamesTurn
<1>9. CASE Rewrites(Main, TRUE) BY <1>2, <1>4, <1>5, <1>7, <1>9, RewritesTurn
<1>10. Head(queue[Main]) = cursor + 1 BY <1>2, FoldsChild
<1>11. CASE Transfers(Main, TRUE)
  <2>1. PICK f : /\ f = Begun(Transferred(Head(queue[Main]), At(Main).path, At(Main).hunks), Branch)
                 /\ Writes(Main, TRUE, f, Marks(Main)) /\ Sees(Main, TRUE, f)
    BY <1>11 DEF Transfers
  <2>2. PICK s : s = Transferred(cursor + 1, At(Main).path, At(Main).hunks) OBVIOUS
  <2>3. s \subseteq NewSides(At(Main).hunks) /\ \A n \in s : tree[cursor + 1][At(Main).path][n].ai
    BY <2>2, TransferredIn
  <2>4. f = Begun(s, Branch) BY <1>10, <2>1, <2>2
  <2>5. DOMAIN f = s /\ \A n \in s : f[n].lin = Branch BY <2>4 DEF Begun
  <2>6. out'[Main] = {} /\ Carried(Main)[At(Main).path] = Untracked BY <1>6, <1>11 DEF Transfers
  <2>7. \A n \in DOMAIN f : IF f[n].lin = Branch THEN tree[cursor + 1][At(Main).path][n].ai ELSE f[n].lin = cursor + 1
    BY <2>3, <2>5
  <2>8. DOMAIN f \subseteq NewSides(At(Main).hunks) BY <2>3, <2>5
  <2>9. Turn("churn") BY <1>2, <1>4, <2>1, <2>6, <2>7, <2>8, BeginsTurn
  <2> QED BY <1>5, <1>7, <2>9
<1>12. CASE Seeds(Main, TRUE)
  <2>1. PICK f : /\ f = Begun(IF Backs(Main) THEN NewSides(At(Main).hunks) ELSE {}, Head(queue[Main]))
                 /\ \E m : Writes(Main, TRUE, f, m)
                 /\ Sees(Main, TRUE, f)
    BY <1>12 DEF Seeds
  <2>2. PICK m : Writes(Main, TRUE, f, m) BY <2>1
  <2>3. PICK s : s = IF Backs(Main) THEN NewSides(At(Main).hunks) ELSE {} OBVIOUS
  <2>4. s \subseteq NewSides(At(Main).hunks) BY <2>3
  <2>5. f = Begun(s, cursor + 1) BY <1>10, <2>1, <2>3
  <2>6. DOMAIN f = s /\ \A n \in s : f[n].lin = cursor + 1 BY <2>5 DEF Begun
  <2>7. out'[Main] = {} /\ Carried(Main)[At(Main).path] = Untracked BY <1>6, <1>12 DEF Seeds
  <2>8. cursor + 1 # Branch
    <3>1. cursor \in Nat BY <1>2, FoldsChild
    <3> QED BY <3>1 DEF Branch
  <2>9. \A n \in DOMAIN f : IF f[n].lin = Branch THEN tree[cursor + 1][At(Main).path][n].ai ELSE f[n].lin = cursor + 1
    BY <2>6, <2>8
  <2>10. DOMAIN f \subseteq NewSides(At(Main).hunks) BY <2>4, <2>6
  <2>11. Turn("churn") BY <1>2, <1>4, <2>1, <2>2, <2>7, <2>9, <2>10, BeginsTurn
  <2> QED BY <1>5, <1>7, <2>11
<1> QED BY <1>3, <1>8, <1>9, <1>11, <1>12

-----------------------------------------------------------------------------
(* The harvest, in terms of lines, and every other step.                    *)

LEMMA HarvestTurn ==
  ASSUME Basics, LinesInv, Regular, NEW saved \in BOOLEAN, Harvest(Main, saved)
  PROVE  /\ Turn("durable") /\ cursor' = cursor /\ queue'[Main] = queue[Main] /\ out[Main] = {}
         /\ \A p \in Path : spans[p] = Untracked => spans'[p] = Untracked
<1>1. Main \in Poller BY DurabilityAssumption
<1>2. /\ pc[Main] = "reap" /\ (saved \/ "writeFails" \in env.may) /\ Reaped(Main, saved)
      /\ out' = [out EXCEPT ![Main] = Ripe]
      /\ UNCHANGED <<env, repoVars, otherVars, cursor, queue, held, histVars>>
  BY <1>1, HarvestCase
<1>3. saved BY <1>2 DEF Regular, Undisturbed
<1>4. spans' = [p \in Path |-> Remaining(p)] BY <1>2, <1>3 DEF Reaped
<1>5. tree' = tree /\ day' = day /\ seen' = seen /\ cursor' = cursor /\ queue' = queue
  BY <1>2 DEF repoVars, histVars
<1>6. out[Main] = {} /\ out'[Main] = Ripe
  <2>1. Fit(pc[Main], queue[Main], view[Main], out[Main]) BY <1>1 DEF Basics, Pollers
  <2>2. out'[Main] = Ripe BY <1>1, <1>2 DEF Basics, Pollers, Total
  <2> QED BY <1>2, <2>1, <2>2 DEF Fit
<1>7. ASSUME NEW p \in Path
      PROVE  /\ DOMAIN spans'[p] = DOMAIN spans[p] \ Matured(p)
             /\ \A l \in DOMAIN spans'[p] : spans'[p][l] = spans[p][l]
             /\ Matured(p) \subseteq DOMAIN spans[p]
             /\ Matured(p) = {} => spans'[p] = spans[p]
  <2>1. Tracks(spans[p], day) BY DEF Basics, Types
  <2>2. PICK d : d = day OBVIOUS
  <2>3. /\ DOMAIN Remaining(p) = DOMAIN spans[p] \ Matured(p)
        /\ \A l \in DOMAIN Remaining(p) : Remaining(p)[l] = spans[p][l]
        /\ Matured(p) = {} => Remaining(p) = spans[p]
    BY <2>1, RemainingIs
  <2>4. Matured(p) \subseteq DOMAIN spans[p] BY DEF Matured
  <2> QED BY <1>4, <2>3, <2>4
<1>8. ASSUME NEW p \in Path, NEW l \in DOMAIN spans[p]
      PROVE  l \in 1..Len(tree[cursor][p]) /\ LineAt(cursor, p, l) = tree[cursor][p][l]
  BY TrackedLine DEF LineAt
<1>9. ASSUME NEW d \in out'[Main]
      PROVE  \E r \in Path : \E l \in Matured(r) : d = Verdict(tree[cursor][r][l], "durable")
  <2>1. PICK r \in Path : d \in {Verdict(LineAt(cursor, r, l), "durable") : l \in Matured(r)}
    BY <1>6, <1>9 DEF Ripe
  <2>2. PICK l \in Matured(r) : d = Verdict(LineAt(cursor, r, l), "durable") BY <2>1
  <2>3. d = Verdict(tree[cursor][r][l], "durable") BY <1>7, <1>8, <2>2
  <2> QED BY <2>2, <2>3
<1>10. ASSUME NEW r \in Path, NEW l \in Matured(r) PROVE \E d \in out'[Main] : d.line = tree[cursor][r][l]
  <2>1. Verdict(LineAt(cursor, r, l), "durable") \in out'[Main] BY <1>6 DEF Ripe
  <2>2. Verdict(LineAt(cursor, r, l), "durable").line = tree[cursor][r][l] BY <1>7, <1>8 DEF Verdict
  <2> QED BY <2>1, <2>2
<1>11. ASSUME NEW q \in Path, NEW m \in DOMAIN spans'[q]
       PROVE  m \in 1..Len(tree[cursor][q]) /\ KeptAs(q, m)
  <2>1. m \in DOMAIN spans[q] /\ m \notin Matured(q) /\ spans'[q][m] = spans[q][m] BY <1>7
  <2>2. ASSUME NEW d \in out'[Main] PROVE d.line # tree[cursor][q][m]
    <3>1. PICK r \in Path : \E l \in Matured(r) : d = Verdict(tree[cursor][r][l], "durable") BY <1>9
    <3>2. PICK l \in Matured(r) : d.line = tree[cursor][r][l] BY <3>1 DEF Verdict
    <3>3. l \in DOMAIN spans[r] BY <1>7
    <3> QED BY <2>1, <3>2, <3>3, TrackedApart
  <2>3. m \in 1..Len(tree[cursor][q]) BY <1>8, <2>1
  <2> QED BY <1>5, <2>1, <2>2, <2>3 DEF KeptAs
<1>12. ASSUME NEW r \in Path, NEW l \in DOMAIN spans[r]
       PROVE  \/ \E q \in Path : \E m \in DOMAIN spans'[q] : tree[cursor][q][m] = tree[cursor][r][l]
              \/ \E d \in out'[Main] : d.line = tree[cursor][r][l]
  <2>1. CASE l \in Matured(r) BY <1>10, <2>1
  <2>2. CASE l \notin Matured(r)
    <3>1. l \in DOMAIN spans'[r] BY <1>7, <2>2
    <3> QED BY <3>1
  <2> QED BY <2>1, <2>2
<1>13. Turn("durable")
  <2>1. \A d \in out'[Main] : \E r \in Path : \E l \in DOMAIN spans[r] : d = Verdict(tree[cursor][r][l], "durable")
    <3> SUFFICES ASSUME NEW d \in out'[Main]
                 PROVE  \E r \in Path : \E l \in DOMAIN spans[r] : d = Verdict(tree[cursor][r][l], "durable")
      OBVIOUS
    <3>1. PICK r \in Path : \E l \in Matured(r) : d = Verdict(tree[cursor][r][l], "durable") BY <1>9
    <3> QED BY <1>7, <3>1
  <2> QED BY <1>5, <1>11, <1>12, <2>1 DEF Turn
<1>14. \A p \in Path : spans[p] = Untracked => spans'[p] = Untracked
  <2> SUFFICES ASSUME NEW p \in Path, spans[p] = Untracked PROVE spans'[p] = Untracked OBVIOUS
  <2>1. Matured(p) = {} BY DEF Matured, Untracked
  <2> QED BY <1>7, <2>1
<1> QED BY <1>5, <1>6, <1>13, <1>14

\* A step that leaves the tracked lines and what is told of them alone.
LEMMA LinesStay ==
  ASSUME Basics, LinesInv, Regular, env' = env, UNCHANGED <<cursor, spans, seen>>,
         \A c \in 0..Len(log) : tree'[c] = tree[c],
         Told' \subseteq Told, Undisturbed({"crash"}) => Told' = Told
  PROVE  (Lines /\ ToldPast /\ ToldOnce /\ ToldGone /\ SeenKept)'
<1>1. Lines /\ ToldPast /\ ToldOnce /\ ToldGone /\ SeenKept BY DEF LinesInv
<1>2. \A p \in Path : \A l \in DOMAIN spans[p] : tree'[cursor] = tree[cursor]
  <2> SUFFICES ASSUME NEW p \in Path, NEW l \in DOMAIN spans[p] PROVE tree'[cursor] = tree[cursor] OBVIOUS
  <2>1. cursor \in 0..Len(log) BY TrackedLine
  <2> QED BY <2>1
<1>3. ASSUME NEW line PROVE TrackedAs(line)' <=> TrackedAs(line)
  <2>1. \A p \in Path : \A l \in DOMAIN spans[p] : tree'[cursor][p][l] = line <=> tree[cursor][p][l] = line
    BY <1>2
  <2> QED BY <2>1 DEF TrackedAs
<1>4. Lines' BY <1>1, <1>2 DEF Lines, LineTrue
<1>5. ToldPast' /\ ToldOnce' BY <1>1 DEF ToldPast, ToldOnce
<1>6. ToldGone'
  <2> SUFFICES ASSUME NEW d \in Told' PROVE ~TrackedAs(d.line)' BY DEF ToldGone, TrackedAs
  <2>1. ~TrackedAs(d.line) BY <1>1 DEF ToldGone
  <2> QED BY <1>2, <2>1 DEF TrackedAs
<1>7. SeenKept'
  <2> SUFFICES ASSUME Undisturbed({"crash"}), NEW line \in seen
               PROVE  TrackedAs(line)' \/ \E d \in Told' : d.line = line
    BY DEF SeenKept, Undisturbed, TrackedAs
  <2>1. TrackedAs(line) \/ \E d \in Told : d.line = line BY <1>1 DEF SeenKept
  <2> QED BY <1>3, <2>1
<1> QED BY <1>4, <1>5, <1>6, <1>7

LEMMA CommitTree ==
  ASSUME History, Commit
  PROVE  \A c \in 0..Len(log) : tree'[c] = tree[c]
<1>1. PICK N \in Nat : N = Len(log) BY LenProperties DEF History
<1>2. \E rest : tree' = [n \in 0..(Len(log) + 1) |-> IF n < Len(log) + 1 THEN tree[n] ELSE rest]
  BY SMTT(60), ZenonT(60) DEF Commit
<1>3. \A c \in 0..N : c \in 0..(N + 1) /\ c < N + 1 OBVIOUS
<1> QED BY <1>1, <1>2, <1>3

\* Under Regular one process polls, and it follows the branch.
LEMMA OnlyMain ==
  ASSUME Basics, Regular, NEW w \in Poller, Poll(w)
  PROVE  w = Main
<1>1. "twoPollers" \notin env.may BY DEF Regular, Undisturbed
<1>2. w # Main => pc[w] = "idle" BY <1>1 DEF Basics, Pollers
<1>3. pc[w] = "idle" => PollRoot(w)
  BY DEF Poll, FoldLoopEnds, ShowFails, ReadEvidence, Fold, Harvest, EmitVerdicts, Crash
<1>4. PollRoot(w) => w = Main BY <1>1 DEF PollRoot
<1> QED BY <1>2, <1>3, <1>4

LEMMA RegularFold ==
  ASSUME Basics, Regular, cursor # None
  PROVE  /\ cursor \in 0..Len(log) /\ (cursor # tip => ToFold # <<>>)
         /\ \A i \in 1..Len(ToFold) : ToFold[i] = cursor + i
<1>1. cursor \in 0..Len(log) BY DEF Basics, Types
<1>2. tip = Len(log) /\ Linear BY DEF Basics, History, Regular, Undisturbed
<1>3. Parents /\ Burst \in Nat \ {0} BY HistoryParents, DurabilityAssumption DEF Basics
<1>4. (\A i \in 1..Len(ToFold) : ToFold[i] = cursor + i) /\ (cursor # tip => ToFold # <<>>)
  BY <1>1, <1>2, <1>3, ToFoldIs
<1> QED BY <1>1, <1>4

LEMMA LinesPollRoot ==
  ASSUME Basics, LinesInv, Regular, PollRoot(Main)
  PROVE  LinesInv'
<1>1. /\ env' = env /\ UNCHANGED <<tree, spans, seen, decided, out>>
  BY DEF PollRoot, repoVars, histVars
<1>2. Told' = Told /\ \A c \in 0..Len(log) : tree'[c] = tree[c] BY <1>1 DEF Told
<1>3. Main \in Poller BY DurabilityAssumption
<1>4. CASE cursor = None
  <2>1. queue[Main] = <<>> /\ \A p \in Path : spans[p] = Untracked BY <1>4 DEF LinesInv, Baseline
  <2>2. DOMAIN Untracked = {} /\ Len(<<>>) = 0 /\ 1..0 = {} BY DEF Untracked
  <2>3. Told = {}
    <3>1. \A d \in Told : d.line.by \in Nat /\ d.line.by <= -1 BY <1>4 DEF LinesInv, ToldPast, None
    <3> QED BY <3>1
  <2>4. UNCHANGED queue BY <1>4 DEF PollRoot
  <2>5. \A line : ~TrackedAs(line) BY <2>1, <2>2 DEF TrackedAs
  <2>6. Undisturbed({"crash"}) => seen = {} BY <2>3, <2>5 DEF LinesInv, SeenKept
  <2>7. Lines' BY <1>1, <2>1, <2>2 DEF Lines
  <2>8. (ToldPast /\ ToldOnce /\ ToldGone)' BY <1>2, <2>3 DEF ToldPast, ToldOnce, ToldGone
  <2>9. SeenKept' BY <1>1, <2>6 DEF SeenKept, Undisturbed
  <2>10. Baseline' /\ Following' BY <1>1, <2>1, <2>2, <2>4 DEF Baseline, Following
  <2> QED BY <2>7, <2>8, <2>9, <2>10 DEF LinesInv
<1>5. CASE cursor # None
  <2>1. /\ cursor' = cursor /\ queue' = [queue EXCEPT ![Main] = IF cursor = tip THEN <<>> ELSE ToFold]
    BY <1>5, RegularFold DEF PollRoot
  <2>2. queue'[Main] = IF cursor = tip THEN <<>> ELSE ToFold BY <1>3, <2>1 DEF Basics, Pollers, Total
  <2>3. Len(<<>>) = 0 /\ 1..0 = {} OBVIOUS
  <2>4. Following'
    <3>1. CASE cursor = tip BY <2>2, <2>3, <3>1 DEF Following
    <3>2. CASE cursor # tip BY <1>5, <2>1, <2>2, <3>2, RegularFold DEF Following
    <3> QED BY <3>1, <3>2
  <2>5. Baseline' BY <1>5, <2>1 DEF Baseline
  <2>6. (Lines /\ ToldPast /\ ToldOnce /\ ToldGone /\ SeenKept)' BY <1>1, <1>2, <2>1, LinesStay
  <2> QED BY <2>4, <2>5, <2>6 DEF LinesInv
<1> QED BY <1>4, <1>5

LEMMA LinesFold ==
  ASSUME Basics, LinesInv, Regular, NEW saved \in BOOLEAN, Fold(Main, saved)
  PROVE  LinesInv'
<1>1. Main \in Poller BY DurabilityAssumption
<1>2. Turn("churn") /\ cursor' = cursor + 1 /\ queue'[Main] = Tail(queue[Main]) BY FoldTurn
<1>3. pc[Main] = "apply" /\ env' = env /\ tree' = tree /\ decided' = decided
  BY <1>1, FoldCases DEF Folds, repoVars
<1>4. out[Main] = {} /\ queue[Main] \in Seq(1..Len(log)) /\ queue[Main] # <<>> BY <1>1, <1>3, ToApply
<1>5. cursor \in Nat /\ cursor \in Int /\ cursor' \in Nat /\ cursor' \in Int /\ cursor <= cursor'
  <2>1. cursor \in Nat BY <1>3, FoldsChild
  <2> QED BY <1>2, <2>1
<1>6. (Lines /\ ToldPast /\ ToldOnce /\ ToldGone /\ SeenKept)' BY <1>2, <1>3, <1>4, <1>5, LinesTurn
<1>7. Baseline' BY <1>5 DEF Baseline, None
<1>8. Following'
  <2>1. PICK n \in Nat : n = Len(queue[Main]) /\ n > 0 BY <1>4, EmptySeq, LenProperties
  <2>2. Len(Tail(queue[Main])) = n - 1 /\ \A i \in 1..(n - 1) : Tail(queue[Main])[i] = queue[Main][i + 1]
    BY <1>4, <2>1, HeadTailProperties
  <2>3. \A i \in 1..n : queue[Main][i] = cursor + i BY <2>1 DEF LinesInv, Following
  <2>4. ASSUME NEW i \in 1..(n - 1) PROVE queue'[Main][i] = cursor' + i
    <3>1. i + 1 \in 1..n BY <2>1
    <3>2. queue'[Main][i] = cursor + (i + 1) BY <1>2, <2>2, <2>3, <3>1
    <3>3. PICK c \in Int : c = cursor BY <1>5
    <3>4. PICK k \in Int : k = i OBVIOUS
    <3>5. c + (k + 1) = (c + 1) + k OBVIOUS
    <3> QED BY ONLY <1>2, <3>2, <3>3, <3>4, <3>5
  <2> QED BY <1>2, <2>2, <2>4 DEF Following
<1> QED BY <1>6, <1>7, <1>8 DEF LinesInv

LEMMA LinesHarvest ==
  ASSUME Basics, LinesInv, Regular, NEW saved \in BOOLEAN, Harvest(Main, saved)
  PROVE  LinesInv'
<1>1. /\ Turn("durable") /\ cursor' = cursor /\ queue'[Main] = queue[Main] /\ out[Main] = {}
      /\ \A p \in Path : spans[p] = Untracked => spans'[p] = Untracked
  BY HarvestTurn
<1>2. env' = env /\ tree' = tree /\ decided' = decided
  BY HarvestCase, DurabilityAssumption DEF repoVars, histVars
<1>3. cursor \in Int
  <2>1. Len(log) \in Nat BY Bounds DEF Basics
  <2> QED BY <2>1 DEF Basics, Types, None
<1>4. cursor' \in Int /\ cursor <= cursor' BY <1>1, <1>3
<1>5. (Lines /\ ToldPast /\ ToldOnce /\ ToldGone /\ SeenKept)' BY <1>1, <1>2, <1>4, LinesTurn
<1>6. Baseline' /\ Following' BY <1>1 DEF LinesInv, Baseline, Following
<1> QED BY <1>5, <1>6 DEF LinesInv

\* A step that leaves the queue alone as well.
LEMMA LinesIdle ==
  ASSUME Basics, LinesInv, env' = env, UNCHANGED <<cursor, spans, seen, decided, out, queue>>,
         \A c \in 0..Len(log) : tree'[c] = tree[c]
  PROVE  LinesInv'
<1> SUFFICES ASSUME Regular PROVE (Baseline /\ Following /\ Lines /\ ToldPast /\ ToldOnce /\ ToldGone /\ SeenKept)'
  BY DEF LinesInv, Regular, Undisturbed
<1>1. Told' = Told BY DEF Told
<1>2. (Lines /\ ToldPast /\ ToldOnce /\ ToldGone /\ SeenKept)' BY <1>1, LinesStay
<1>3. Baseline' /\ Following' BY DEF LinesInv, Baseline, Following
<1> QED BY <1>2, <1>3

LEMMA LinesStep ==
  ASSUME Basics, LinesInv, [Next]_vars
  PROVE  LinesInv'
<1>1. Main \in Poller BY DurabilityAssumption
<1>2. CASE Commit
  <2>1. env' = env /\ UNCHANGED <<cursor, spans, seen, decided, out, queue>>
    BY <1>2 DEF Commit, ledger, pollerVars, histVars
  <2> QED BY <1>2, <2>1, CommitTree, LinesIdle DEF Basics
<1>3. CASE \/ RewriteBranch \/ SiblingMoves \/ NextDay \/ (\E a \in Agent, p \in Path : AgentWrites(a, p))
           \/ (\E p \in Path : Capture(p)) \/ UNCHANGED vars
  <2>1. env' = env /\ UNCHANGED <<cursor, spans, seen, decided, out, queue>> /\ UNCHANGED tree
    BY <1>3 DEF RewriteBranch, SiblingMoves, NextDay, AgentWrites, Capture, vars, repoVars, ledger, pollerVars,
                histVars
  <2> QED BY <2>1, LinesIdle
<1>4. ASSUME NEW w \in Poller, Poll(w) PROVE LinesInv'
  <2>1. UNCHANGED historyVars BY <1>4, PollKeeps
  <2>2. env' = env /\ tree' = tree BY <2>1 DEF historyVars
  <2> SUFFICES ASSUME Regular PROVE LinesInv' BY <2>2 DEF LinesInv, Regular, Undisturbed
  <2>3. w = Main BY <1>4, OnlyMain
  <2>4. CASE PollRoot(w) BY <2>3, <2>4, LinesPollRoot
  <2>5. CASE FoldLoopEnds(w) \/ EmitVerdicts(w) \/ Crash(w)
    <3>1. UNCHANGED <<cursor, spans, seen>>
      BY <2>5 DEF FoldLoopEnds, EmitVerdicts, Crash, ledger, histVars
    <3>2. Told' \subseteq Told /\ (Undisturbed({"crash"}) => Told' = Told)
      <4>1. CASE FoldLoopEnds(w) BY <4>1 DEF FoldLoopEnds, Told, histVars
      <4>2. CASE EmitVerdicts(w)
        <5>1. decided' = decided \cup out[Main] /\ out'[Main] = {}
          BY <1>1, <2>3, <4>2 DEF EmitVerdicts, Basics, Pollers, Total
        <5> QED BY <5>1 DEF Told
      <4>3. CASE Crash(w)
        <5>1. decided' = decided /\ out'[Main] = {} /\ "crash" \in env.may
          BY <1>1, <2>3, <4>3 DEF Crash, histVars, Basics, Pollers, Total
        <5> QED BY <5>1 DEF Told, Undisturbed
      <4> QED BY <2>5, <4>1, <4>2, <4>3
    <3>3. queue'[Main] = <<>> \/ queue'[Main] = queue[Main]
      BY <1>1, <2>3, <2>5 DEF FoldLoopEnds, EmitVerdicts, Crash, Basics, Pollers, Total
    <3>4. (Lines /\ ToldPast /\ ToldOnce /\ ToldGone /\ SeenKept)' BY <2>2, <3>1, <3>2, LinesStay
    <3>5. Len(<<>>) = 0 /\ 1..0 = {} OBVIOUS
    <3>6. Baseline' /\ Following' BY <3>1, <3>3, <3>5 DEF LinesInv, Baseline, Following
    <3> QED BY <3>4, <3>6 DEF LinesInv
  <2>6. ~ShowFails(w) BY DEF ShowFails, Regular, Undisturbed
  <2>7. CASE ReadEvidence(w)
    <3>1. UNCHANGED <<cursor, spans, seen, decided, out, queue>> BY <2>7 DEF ReadEvidence, ledger, histVars
    <3> QED BY <2>2, <3>1, LinesIdle
  <2>8. CASE \E saved \in BOOLEAN : Fold(w, saved) BY <2>3, <2>8, LinesFold
  <2>9. CASE \E saved \in BOOLEAN : Harvest(w, saved) BY <2>3, <2>9, LinesHarvest
  <2> QED BY <1>4, <2>4, <2>5, <2>6, <2>7, <2>8, <2>9 DEF Poll
<1> QED BY <1>2, <1>3, <1>4 DEF Next, Surroundings


-----------------------------------------------------------------------------
(* The theorems.                                                            *)

IInv == Basics /\ EvidenceInv /\ LinesInv

\* The inductive invariant: the history of the repository, the shape of the ledger and of
\* the pollers, the evidence that is spent, and the lines that are tracked and reported
\* (pollDurability, pollDurabilityCommit, harvestDurable and what they call).
THEOREM Invariance == Spec => []IInv
<1>1. Init => IInv BY BasicsInit, EvidenceInit, LinesInit DEF IInv
<1>2. IInv /\ [Next]_vars => IInv' BY BasicsStep, EvidenceStep, LinesStep DEF IInv
<1> QED BY <1>1, <1>2, PTL DEF Spec

LEMMA TypesFollow ==
  ASSUME IInv
  PROVE  TypeOK
<1>1. Basics /\ History /\ Types /\ Pollers BY DEF IInv, Basics
<1>2. env \in Environments /\ tip \in 0..Len(log) BY <1>1 DEF History
<1>3. day \in 0..env.days /\ writes \in 0..env.writes /\ cursor \in {None} \cup 0..Len(log) BY <1>1 DEF Types
<1>4. ASSUME NEW p \in Path
      PROVE  /\ DOMAIN spans[p] \subseteq IF Regular THEN 1..env.lines ELSE Int
             /\ \A l \in DOMAIN spans[p] : spans[p][l].born \in 0..day
             /\ seeded[p] \in {None} \cup 0..writes
  <2>1. Tracks(spans[p], day) /\ seeded[p] \in {None} \cup 0..writes BY <1>1 DEF Types, Mark
  <2>2. DOMAIN spans[p] \subseteq Int /\ \A l \in DOMAIN spans[p] : spans[p][l].born \in 0..day
    BY <2>1 DEF Tracks
  <2>3. ASSUME Regular, NEW l \in DOMAIN spans[p] PROVE l \in 1..env.lines
    <3>1. /\ l \in 1..Len(tree[cursor][p]) /\ tree[cursor][p] \in Seq(Line) /\ Len(tree[cursor][p]) <= env.lines
      BY <1>1, <2>3, TrackedLine DEF IInv
    <3>2. PICK n \in Nat : n = Len(tree[cursor][p]) BY <3>1, LenProperties
    <3>3. env.lines \in Nat BY <1>1, Bounds
    <3> QED BY <3>1, <3>2, <3>3
  <2> QED BY <2>1, <2>2, <2>3
<1>5. ASSUME NEW w \in Poller, queue[w] # <<>> PROVE pc[w] \in {"fold", "apply", "emitChurn"}
  BY <1>1, <1>5 DEF Pollers, Fit
<1> QED BY <1>2, <1>3, <1>4, <1>5 DEF TypeOK

\* The ledger and the pollers hold what durability.go gives them: a span is a line of the
\* file, it was born on a day that has come, a tombstone names a write that was made, and
\* only a poller in its fold loop has commits queued.
THEOREM TypesHold == Spec => []TypeOK
<1>1. IInv => TypeOK BY TypesFollow
<1> QED BY <1>1, Invariance, PTL

\* What a tracked offset stands for is the line of the file at the cursor.
LEMMA TrackedAt ==
  ASSUME IInv, Regular, NEW p \in Path, NEW l \in DOMAIN spans[p]
  PROVE  LineAt(cursor, p, l) = tree[cursor][p][l]
<1>1. l \in 1..Len(tree[cursor][p]) BY TrackedLine DEF IInv
<1> QED BY <1>1 DEF LineAt

LEMMA LedgerFollows ==
  ASSUME IInv
  PROVE  LinesTrue /\ DecidedOnce /\ Accounted /\ EvidenceSpentOnce
<1>1. LinesTrue
  <2> SUFFICES ASSUME Regular, NEW p \in Path, NEW l \in DOMAIN spans[p]
               PROVE  /\ LineAt(cursor, p, l).by # None
                      /\ IF spans[p][l].lin = Branch THEN LineAt(cursor, p, l).ai
                                                     ELSE LineAt(cursor, p, l).by = spans[p][l].lin
    BY DEF LinesTrue
  <2>1. LineAt(cursor, p, l) = tree[cursor][p][l] BY TrackedAt
  <2>2. tree[cursor][p][l].by \in Nat BY TrackedLine DEF IInv
  <2>3. LineTrue(p, l) BY DEF IInv, LinesInv, Lines
  <2>4. LineAt(cursor, p, l).by # None BY <2>1, <2>2 DEF None
  <2> QED BY <2>1, <2>3, <2>4 DEF LineTrue
<1>2. DecidedOnce BY DEF IInv, LinesInv, ToldOnce, Told, DecidedOnce
<1>3. Accounted
  <2> SUFFICES ASSUME Regular, Undisturbed({"crash"}), NEW line \in seen
               PROVE  \/ \E p \in Path : \E l \in DOMAIN spans[p] : LineAt(cursor, p, l) = line
                      \/ \E w \in Poller : \E d \in out[w] : d.line = line
                      \/ \E d \in decided : d.line = line
    BY DEF Accounted
  <2>1. TrackedAs(line) \/ \E d \in Told : d.line = line BY DEF IInv, LinesInv, SeenKept
  <2>2. CASE TrackedAs(line) BY <2>2, TrackedAt DEF TrackedAs
  <2>3. CASE \E d \in Told : d.line = line BY <2>3, DurabilityAssumption DEF Told
  <2> QED BY <2>1, <2>2, <2>3
<1>4. EvidenceSpentOnce BY DEF IInv, EvidenceInv, Solo, SpentOnce, EvidenceSpentOnce
<1> QED BY <1>1, <1>2, <1>3, <1>4

\* One AI write backs the lines of one commit: durabilitySeedAuthorized never lets a write
\* seed a path twice, as long as sessions do not resume and one process polls.
THEOREM WriteSpentOnce == Spec => []EvidenceSpentOnce
<1>1. IInv => EvidenceSpentOnce BY LedgerFollows
<1> QED BY <1>1, Invariance, PTL

\* What the ledger tracks and reports is true, through every hunk, rename, failure and
\* crash (pollDurabilityCommit, applyDurabilityRenames, remapDurabilitySpans, harvestDurable).
THEOREM LedgerHolds == Spec => []LedgerTrue
<1>1. IInv => LedgerTrue BY LedgerFollows DEF LedgerTrue
<1> QED BY <1>1, Invariance, PTL

LEMMA CursorStep ==
  ASSUME IInv, [Next]_vars, Regular, cursor # None, cursor' # cursor
  PROVE  log[cursor'].parent = cursor
<1>1. PICK w \in Poller : Poll(w)
  BY DEF Next, Surroundings, Commit, RewriteBranch, SiblingMoves, NextDay, AgentWrites, Capture, ledger, vars
<1>2. w = Main BY <1>1, OnlyMain DEF IInv
<1>3. ~PollRoot(Main) BY RegularFold DEF PollRoot, IInv
<1>4. \E saved \in BOOLEAN : Fold(Main, saved)
  BY <1>1, <1>2, <1>3 DEF Poll, FoldLoopEnds, ShowFails, ReadEvidence, Harvest, EmitVerdicts, Crash, ledger
<1>5. cursor' = cursor + 1 BY <1>4, FoldTurn DEF IInv
<1>6. pc[Main] = "apply" BY <1>4 DEF Fold
<1>7. log[cursor + 1].parent = cursor BY <1>6, FoldsChild DEF IInv
<1> QED BY <1>5, <1>7

\* The cursor takes the commits of the branch one after the other: none is passed over and
\* none is folded twice (pollDurability writes the cursor with the commit's own spans).
THEOREM NoneSkipped == Spec => CursorFollows
<1>1. IInv /\ [Next]_vars => [Regular /\ cursor # None /\ cursor' # cursor => log[cursor'].parent = cursor]_vars
  BY CursorStep
<1> QED BY <1>1, Invariance, PTL DEF Spec, CursorFollows

\* Every verdict the ledger reports is true and every line gets its one (durability.go's
\* promise to the team: survival is measured, not guessed).
THEOREM Verdicts == Spec => VerdictsTrue
BY LedgerHolds, NoneSkipped DEF VerdictsTrue
=============================================================================
