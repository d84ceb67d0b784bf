----------------------------- MODULE MCChatTurn -----------------------------
EXTENDS ChatTurn
CONSTANTS l1, l2, l3
MCSessionOf == [l \in Lane |-> IF l = l3 THEN "s2" ELSE "s1"]
MCBaseWeight == [l \in Lane |-> IF l = l2 THEN 1 ELSE 0]
ShippedWeight == [l \in Lane |-> IF l = l2 THEN 100 ELSE 0]
Opt(c, q) == [maxConcurrent |-> c, queueMaxSize |-> q]
MCOptions == {Opt(1, 2), Opt(1, 1), Opt(2, 1)}
OneSlot == {Opt(1, 2)}
=============================================================================
