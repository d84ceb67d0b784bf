--------------------------- MODULE OrderPlacement ---------------------------
(* OrderService.createOrder as concurrent web requests of one member run it: *)
(* a transaction reads the member's orders from the snapshot of its first    *)
(* read (REPEATABLE READ), then waits for the lock on the member's row, then *)
(* decides tier, price and limits, and inserts.  Delivery, closing and       *)
(* refunds (module PayOrder) are single steps here.                          *)
EXTENDS Integers, FiniteSets

CONSTANTS WebThread, WebInstance,
          InstanceOf,   \* [WebThread -> WebInstance]: the process a request runs in
          Key, NoKey,   \* idempotency keys, NoKey for a request without one
          Product,      \* the catalogue: [rank, days, cents]
          MaxOpen,      \* pay.order.max-open-per-user
          MaxPaid,      \* pay.risk.max-paid-orders-per-day
          MaxOrders     \* bound: orders ever inserted

ASSUME WebThreadAssumption == WebThread # {} /\ IsFiniteSet(WebThread)
ASSUME WebInstanceAssumption == InstanceOf \in [WebThread -> WebInstance]
ASSUME KeyAssumption == NoKey \notin Key
ASSUME CatalogueAssumption ==
  Product \subseteq [rank : 1 .. 2, days : Nat \ {0}, cents : Nat \ {0}]
ASSUME PlacementLimitAssumption == MaxOpen \in Nat /\ MaxPaid \in Nat /\ MaxOrders \in Nat

Order == 1 .. MaxOrders
NoOrder == 0
M == INSTANCE Membership

VARIABLES
  placed,   \* [Order -> pay_order.status]
  row,      \* [Order -> the columns an insert fixes for good]
  member,   \* the member's row (module Membership)
  lockers,  \* transactions that hold SELECT ... FOR UPDATE on the member's row
  cooling,  \* instances whose LAST_CREATE_BY_UID is younger than the cooldown
  request   \* [WebThread -> where the request is, its parameters and its snapshot]

placementVars == <<placed, row, member, lockers, cooling, request>>

Status == {"NONE", "CREATED", "CLOSED", "PAID", "DELIVERED", "REFUNDED"}

AnyProduct == CHOOSE p \in Product : TRUE

NoRow == [key |-> NoKey, product |-> AnyProduct, base |-> NoOrder, days |-> 0, cents |-> 0]

Nothing == [o \in Order |-> "NONE"]

NoRequest == [at |-> "idle", key |-> NoKey, product |-> AnyProduct, base |-> NoOrder,
              view |-> Nothing]

PlacementInit ==
  /\ placed = Nothing
  /\ row = [o \in Order |-> NoRow]
  /\ member = M!NoRow
  /\ lockers = {}
  /\ cooling = {}
  /\ request = [t \in WebThread |-> NoRequest]

-----------------------------------------------------------------------------
(* What a request finds in the orders when `view' gives their status.        *)

WithKey(view, key) == {o \in Order : key # NoKey /\ view[o] # "NONE" /\ row[o].key = key}

(* enforceOpenOrderLimit (an expired order counts as closed) and             *)
(* enforcePaidVelocityLimit                                                  *)
Open(view) == {o \in Order : view[o] = "CREATED"}
PaidToday(view) == {o \in Order : view[o] \in {"PAID", "DELIVERED"}}

(* Mutant of WithinLimits: one open order too many is let through.           *)
WithinLimitsOffByOne(view) == /\ Cardinality(Open(view)) <= MaxOpen
                              /\ Cardinality(PaidToday(view)) < MaxPaid

WithinLimits(view) == /\ Cardinality(Open(view)) < MaxOpen
                      /\ Cardinality(PaidToday(view)) < MaxPaid

(* enforceSinglePendingUpgrade                                               *)
PendingUpgrades(view) == {o \in Open(view) : row[o].base # NoOrder}

(* resolveUpgradeBase: the locked row names the order, the snapshot tells    *)
(* what became of it.                                                        *)
UpgradeBaseValid(view, p) ==
  LET base == member.last IN
  /\ base # NoOrder
  /\ view[base] = "DELIVERED"
  /\ p.days > row[base].days
  /\ p.cents > row[base].cents

IsUpgrade(p) == M!isActive(member) /\ p.rank = member.rank

Free == {o \in Order : placed[o] = "NONE"}
Busy == {t \in WebThread : request[t] # NoRequest}

RequestEnds(t) == request' = [request EXCEPT ![t] = NoRequest]
PlacedBecomes(o, s) == placed' = [placed EXCEPT ![o] = s]

-----------------------------------------------------------------------------
(* createOrder up to the lock: the snapshot is taken, the key is new in it,  *)
(* the limits hold in it.  A request the snapshot answers changes nothing.   *)
Begin(t, key, p) ==
  /\ request[t] = NoRequest
  /\ Cardinality(Busy) < Cardinality(Free)
  /\ WithKey(placed, key) = {}
  /\ WithinLimits(placed)
  /\ request' = [request EXCEPT ![t] = [at |-> "lock", key |-> key, product |-> p,
                                      base |-> NoOrder, view |-> placed]]
  /\ UNCHANGED <<placed, row, member, lockers, cooling>>

(* A row is locked exclusively; without a row every transaction gets the gap.*)
MayLock == member # M!NoRow => lockers = {}

(* Tier wall, upgrade base, cooldown of this process, one pending upgrade.   *)
Acceptable(t) ==
  LET p == request[t].product
      view == request[t].view
  IN /\ p.rank >= M!activeTierRank(member)
     /\ IsUpgrade(p) => UpgradeBaseValid(view, p) /\ PendingUpgrades(view) = {}
     /\ InstanceOf[t] \notin cooling

Accept(t) ==
  /\ request[t].at = "lock"
  /\ MayLock
  /\ Acceptable(t)
  /\ lockers' = lockers \cup {t}
  /\ request' = [request EXCEPT ![t].at = "insert",
       ![t].base = IF IsUpgrade(request[t].product) THEN member.last ELSE NoOrder]
  /\ UNCHANGED <<placed, row, member, cooling>>

Reject(t) ==
  /\ request[t].at = "lock"
  /\ MayLock
  /\ ~Acceptable(t)
  /\ RequestEnds(t)
  /\ UNCHANGED <<placed, row, member, lockers, cooling>>

(* The difference to the base when there is one.                             *)
Priced(key, p, base) ==
  LET old == IF base = NoOrder THEN NoRow ELSE row[base]
  IN [key |-> key, product |-> p, base |-> base,
      days |-> p.days - old.days, cents |-> p.cents - old.cents]

InsertAlways(t) ==
  /\ request[t].at = "insert"
  /\ LET o == CHOOSE o \in Free : \A other \in Free : o <= other
     IN /\ PlacedBecomes(o, "CREATED")
        /\ row' = [row EXCEPT ![o] =
             Priced(request[t].key, request[t].product, request[t].base)]
  /\ cooling' = cooling \cup {InstanceOf[t]}
  /\ lockers' = lockers \ {t}
  /\ RequestEnds(t)
  /\ UNCHANGED member

(* Insert and commit.  The unique key answers a lost race on the idempotency *)
(* key: the transaction rolls back and the winner's order is returned.       *)
Insert(t) ==
  /\ request[t].at = "insert"
  /\ IF WithKey(placed, request[t].key) = {}
     THEN /\ LET o == CHOOSE o \in Free : \A other \in Free : o <= other
             IN /\ PlacedBecomes(o, "CREATED")
                /\ row' = [row EXCEPT ![o] =
                     Priced(request[t].key, request[t].product, request[t].base)]
          /\ cooling' = cooling \cup {InstanceOf[t]}
     ELSE UNCHANGED <<placed, row, cooling>>
  /\ lockers' = lockers \ {t}
  /\ RequestEnds(t)
  /\ UNCHANGED member

(* The process dies or the database refuses: the transaction is gone; when   *)
(* only the commit failed, the cooldown has been started already.            *)
Rollback(t) ==
  /\ request[t] # NoRequest
  /\ lockers' = lockers \ {t}
  /\ RequestEnds(t)
  /\ \/ UNCHANGED cooling
     \/ request[t].at = "insert" /\ cooling' = cooling \cup {InstanceOf[t]}
  /\ UNCHANGED <<placed, row, member>>

(* The cooldown is over, or the process restarted.                           *)
CoolDown(i) ==
  /\ i \in cooling
  /\ cooling' = cooling \ {i}
  /\ UNCHANGED <<placed, row, member, lockers, request>>

-----------------------------------------------------------------------------
(* The rest of the service, as module PayOrder has it                        *)

(* markPaid and markPaidAfterClose                                           *)
Pay(o) ==
  /\ placed[o] \in {"CREATED", "CLOSED"}
  /\ PlacedBecomes(o, "PAID")
  /\ UNCHANGED <<row, member, lockers, cooling, request>>

Close(o) ==
  /\ placed[o] = "CREATED"
  /\ PlacedBecomes(o, "CLOSED")
  /\ UNCHANGED <<row, member, lockers, cooling, request>>

(* Mutant of Deliver: extend does not lock the member's row.                 *)
DeliverUnlocked(o) ==
  /\ placed[o] = "PAID"
  /\ PlacedBecomes(o, "DELIVERED")
  /\ member' = M!extend(member, row[o].days, o, row[o].product.rank)
  /\ UNCHANGED <<row, lockers, cooling, request>>

(* The delivery updates the locked row, or inserts into the locked gap.      *)
Deliver(o) ==
  /\ placed[o] = "PAID"
  /\ lockers = {}
  /\ PlacedBecomes(o, "DELIVERED")
  /\ member' = M!extend(member, row[o].days, o, row[o].product.rank)
  /\ UNCHANGED <<row, lockers, cooling, request>>

Refund(o, revokes) ==
  /\ placed[o] = "DELIVERED"
  /\ revokes => lockers = {}
  /\ PlacedBecomes(o, "REFUNDED")
  /\ member' = IF revokes THEN M!revoke(member, row[o].days) ELSE member
  /\ UNCHANGED <<row, lockers, cooling, request>>

DaysPass ==
  /\ M!isActive(member)
  /\ member' = [member EXCEPT !.days = @ - 1]
  /\ UNCHANGED <<placed, row, lockers, cooling, request>>

Places(t) == Accept(t) \/ Reject(t) \/ Insert(t)

PlacementNext ==
  \/ \E t \in WebThread : \/ Places(t) \/ Rollback(t)
                          \/ \E key \in Key \cup {NoKey}, p \in Product : Begin(t, key, p)
  \/ \E o \in Order : \/ Pay(o) \/ Close(o) \/ Deliver(o)
                      \/ \E revokes \in BOOLEAN : Refund(o, revokes)
  \/ \E i \in WebInstance : CoolDown(i)
  \/ DaysPass

PlacementSpec == PlacementInit /\ [][PlacementNext]_placementVars

-----------------------------------------------------------------------------
(* A key names at most one order, also when the requests that carry it run   *)
(* at the same time and both find it unused (createOrder, uk_..._key).       *)
OneOrderPerKey == \A key \in Key : Cardinality(WithKey(placed, key)) <= 1

(* The cap on unpaid orders is checked outside the lock, so concurrent       *)
(* requests overshoot it, by one less than the requests that run.            *)
OpenOrdersBounded == Cardinality(Open(placed)) <= MaxOpen + Cardinality(WebThread) - 1

(* What the tier wall decided still holds when the row is inserted: a full-  *)
(* price order is above the member's tier, an upgrade stands on the order    *)
(* that delivered the membership, for no delivery comes in between.          *)
PricedOnCurrentMember ==
  [][\A o \in Order : placed[o] = "NONE" /\ placed'[o] = "CREATED" =>
       IF row'[o].base = NoOrder
       THEN row'[o].product.rank > M!activeTierRank(member)
       ELSE row'[o].base = member.last]_placementVars

-----------------------------------------------------------------------------
(* Statements of the source and its documentation that the runs refute       *)

(* docs/app-pay.md 194: a member has one unpaid upgrade order at a time.     *)
SinglePendingUpgrade == Cardinality(PendingUpgrades(placed)) <= 1

(* OrderService 170-171: no two upgrades on the same base are both paid and  *)
(* delivered, which would add the same days twice.                           *)
BaseUpgradedOnce ==
  \A o1, o2 \in Order :
    placed[o1] = "DELIVERED" /\ placed[o2] = "DELIVERED" /\ row[o1].base # NoOrder
    => (row[o1].base = row[o2].base => o1 = o2)

(* docs/app-pay.md 191: the upgrades up to an order sum up to its product's  *)
(* full length.                                                              *)
ChainDays[o \in Order] ==
  row[o].days + IF row[o].base = NoOrder THEN 0 ELSE ChainDays[row[o].base]

UpgradeReachesPackage ==
  \A o \in Order : placed[o] = "DELIVERED" => ChainDays[o] = row[o].product.days
=============================================================================
