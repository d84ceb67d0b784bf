----------------------------- MODULE MCPayOrder -----------------------------
(* Small instances of PayOrder for TLC.                                      *)
EXTENDS PayOrder, TLC

CONSTANTS o1, o2, n1, n2, c1, r1, r2

VipMonth == [rank |-> 1, days |-> 1, cents |-> 1]
VipSeason == [rank |-> 1, days |-> 2, cents |-> 2]
SvipMonth == [rank |-> 2, days |-> 1, cents |-> 2]

OneProduct == {VipMonth}
Upgrades == {VipMonth, VipSeason}
OrderSymmetry == Permutations(Order)
AllSymmetry == Permutations(Order) \cup Permutations(Notifier) \cup Permutations(Refunder)
=============================================================================
