--------------------------- MODULE MCCursorVendor ---------------------------
(***************************************************************************)
(* Two logins, and rows of two conversations, one of which the vendor may  *)
(* correct in a way that the identity of a snapshot leaves out.            *)
(***************************************************************************)
EXTENDS CursorVendor

CONSTANTS a, b, u, uCached, v

MCRows == {u, uCached, v}
MCLine(r) == IF r = uCached THEN u ELSE r
MCConv(r) == IF r = uCached THEN u ELSE r

Nobody == [acct |-> NoAccount, expired |-> FALSE]
By(x)  == [acct |-> x, expired |-> FALSE]
One == [ide |-> By(a), profile |-> Nobody, agent |-> Nobody]
Two == [ide |-> By(a), profile |-> By(b), agent |-> Nobody]

Times(n) == [e \in Events |-> IF e \in DOMAIN n THEN n[e] ELSE 0]
Feed(s, t) == [x \in Accounts |-> [c \in Cycles |-> IF c = 0 THEN IF x = a THEN s ELSE t ELSE <<>>]]
Case(in, team, s, t, n) ==
  [times |-> Times(n), teamed |-> team, late |-> FALSE, keep |-> 2, stores |-> in, feed |-> Feed(s, t)]

MCEnvironments ==
  { Case(One, {}, <<u>>, <<>>, [edit |-> 1, restart |-> 1, file |-> 1]),
    Case(One, {}, <<u>>, <<>>, [edit |-> 2, restart |-> 1, refuse |-> 1]),
    Case(One, {}, <<u>>, <<>>, [edit |-> 2, lose |-> 1, back |-> 1]),
    Case(One, {}, <<u>>, <<>>, [edit |-> 2, rollover |-> 1]),
    Case(One, {}, <<u>>, <<>>, [edit |-> 1, rollover |-> 1, refuse |-> 1]),
    Case(One, {}, <<u>>, <<>>, [edit |-> 1, rollover |-> 1, fail |-> 1, spent |-> 1]),
    [Case(One, {}, <<u>>, <<>>, [rollover |-> 1, lose |-> 1]) EXCEPT !.late = TRUE],
    Case(Two, {}, <<u>>, <<u>>, [edit |-> 1, profile |-> 1, lose |-> 1]),
    Case(Two, {}, <<u>>, <<u>>, [turn |-> 2, profile |-> 1, refuse |-> 1]),
    Case(Two, {}, <<u>>, <<u>>, [policy |-> 2, signin |-> 1, store |-> 1]),
    Case(Two, {}, <<u>>, <<u>>, [policy |-> 1, profile |-> 1, signin |-> 1, store |-> 1]),
    Case(Two, {}, <<u>>, <<u>>, [policy |-> 1, profile |-> 1, signin |-> 1, file |-> 1]),
    [Case(Two, {}, <<u>>, <<u>>, [turn |-> 1, profile |-> 2, file |-> 1]) EXCEPT !.keep = 1],
    Case(Two, {b}, <<u>>, <<u>>, [profile |-> 1, fail |-> 1, refuse |-> 2]),
    Case(Two, {b}, <<u>>, <<u>>, [turn |-> 1, profile |-> 1, signin |-> 1]) }
=============================================================================
