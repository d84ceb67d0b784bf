----------------------------- MODULE Membership -----------------------------
(* The arithmetic of MembershipService on one member's row.  Time is kept    *)
(* relative to the clock: `days' is expire_at - now, never below 0, because  *)
(* every use of expire_at in the service compares it with now.               *)
EXTENDS Integers

CONSTANTS Order, NoOrder

Rank == 0 .. 2  \* FREE, VIP, SVIP

Row == [days : Nat, rank : Rank, last : Order \cup {NoOrder}]

NoRow == [days |-> 0, rank |-> 0, last |-> NoOrder]

isActive(m) == m.days > 0

activeTierRank(m) == IF isActive(m) THEN m.rank ELSE 0

(* A valid tier is adopted, but never lowers the tier of an active member.   *)
applyTier(m, requested) ==
  IF isActive(m) /\ m.rank > requested THEN m.rank ELSE requested

(* Days stack on what is left; an expired row counts from now.               *)
extend(m, days, o, requested) ==
  [days |-> m.days + days, rank |-> applyTier(m, requested), last |-> o]

(* Mutant of revoke: the floor leaves the row as it was.                     *)
revokeKeeps(m, days) == [m EXCEPT !.days = IF @ > days THEN @ - days ELSE @]
(* Days come off the expiry, never below now; tier and last order stay.      *)
revoke(m, days) ==
  [m EXCEPT !.days = IF @ > days THEN @ - days ELSE 0]
=============================================================================
