-------------------------- MODULE MCOrderPlacement --------------------------
(* Small instances of OrderPlacement for TLC.                                *)
EXTENDS OrderPlacement

VipMonth == [rank |-> 1, days |-> 1, cents |-> 1]
VipSeason == [rank |-> 1, days |-> 3, cents |-> 3]
SvipMonth == [rank |-> 2, days |-> 1, cents |-> 2]

Terms == {VipMonth, VipSeason}
Catalogue == {VipMonth, VipSeason, SvipMonth}

OneProcess == [t \in WebThread |-> CHOOSE i \in WebInstance : TRUE]
EachItsOwn ==
  CHOOSE f \in [WebThread -> WebInstance] : \A t, u \in WebThread : f[t] = f[u] => t = u
=============================================================================
