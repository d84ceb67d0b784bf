------------------------ MODULE OrderPlacementProofs ------------------------
(* The creation of orders, proved for every number of concurrent requests,   *)
(* processes, keys and products and for every limit: one order per key, the  *)
(* bound on open orders, and the price on which the tier wall decided.       *)
EXTENDS OrderPlacement, FiniteSetTheorems, WellFoundedInduction, TLAPS

(* Every variable has its type; the member's row never has negative days.    *)
PlacementTypeOK ==
  /\ placed \in [Order -> Status]
  /\ row \in [Order -> [key : Key \cup {NoKey}, product : Product \cup {AnyProduct},
                        base : Order \cup {NoOrder}, days : Nat, cents : Nat]]
  /\ member \in M!Row
  /\ lockers \subseteq WebThread
  /\ cooling \subseteq WebInstance
  /\ request \in [WebThread -> [at : {"idle", "lock", "insert"}, key : Key \cup {NoKey},
                                product : Product \cup {AnyProduct},
                                base : Order \cup {NoOrder}, view : [Order -> Status]]]

(* Two orders that exist do not share a key.                                 *)
KeysDiffer ==
  \A o, p \in Order :
    /\ placed[o] # "NONE" /\ placed[p] # "NONE"
    /\ row[o].key # NoKey /\ row[o].key = row[p].key
    => o = p

(* An order sells a product of the catalogue, for at least a day and a cent: *)
(* what an upgrade leaves of its product's length and price is never nothing.*)
SellsSomething ==
  \A o \in Order : placed[o] # "NONE" =>
    row[o].product \in Product /\ row[o].days > 0 /\ row[o].cents > 0

(* A snapshot holds no order that is not there; a request that waits or      *)
(* decided asks for a product of the catalogue.                              *)
RequestsKnow ==
  \A t \in WebThread :
    /\ request[t] = NoRequest \/ (request[t].at # "idle" /\ request[t].product \in Product)
    /\ \A o \in Order : request[t].view[o] # "NONE" => placed[o] # "NONE"

(* A request that decided holds the lock, and what it decided still holds.   *)
Decided(t) ==
  LET p == request[t].product
      base == request[t].base
  IN /\ t \in lockers
     /\ IF base = NoOrder
        THEN p.rank > M!activeTierRank(member)
        ELSE /\ base = member.last /\ base \in Order /\ placed[base] # "NONE"
             /\ p.days > row[base].days /\ p.cents > row[base].cents

DecisionsHold == \A t \in WebThread : request[t].at = "insert" => Decided(t)

(* Every running request finds a row to insert, and may still insert it      *)
(* without passing the bound.                                                *)
RoomForAll ==
  /\ Cardinality(Busy) <= Cardinality(Free)
  /\ Cardinality(Open(placed)) + Cardinality(Busy) <= MaxOpen + Cardinality(WebThread) - 1

PlacementIInv ==
  /\ PlacementTypeOK /\ KeysDiffer /\ SellsSomething /\ RequestsKnow
  /\ DecisionsHold /\ RoomForAll

-----------------------------------------------------------------------------
(* The catalogue and the arithmetic of the member's row.                     *)
LEMMA CatalogueTypes ==
  \A p \in Product : p.rank \in 1 .. 2 /\ p.days \in Nat \ {0} /\ p.cents \in Nat \ {0}
  BY CatalogueAssumption

LEMMA ExtendType ==
  ASSUME NEW m \in M!Row, NEW days \in Nat, NEW o \in Order, NEW r \in 1 .. 2
  PROVE  M!extend(m, days, o, r) \in M!Row
  BY DEF M!extend, M!applyTier, M!Row, M!Rank

LEMMA RevokeType ==
  ASSUME NEW m \in M!Row, NEW days \in Nat
  PROVE  M!revoke(m, days) \in M!Row
<1>1. m.days \in Nat /\ (IF m.days > days THEN m.days - days ELSE 0) \in Nat
  BY DEF M!Row
<1>. QED BY <1>1 DEF M!revoke, M!Row

-----------------------------------------------------------------------------
(* Counting: the sets that the limits count are finite.                      *)
LEMMA Counts ==
  /\ IsFiniteSet(Busy) /\ IsFiniteSet(Free) /\ IsFiniteSet(Open(placed))
  /\ Cardinality(Busy) \in Nat /\ Cardinality(Free) \in Nat /\ Cardinality(Open(placed)) \in Nat
  /\ Cardinality(WebThread) \in Nat /\ Cardinality(Busy) <= Cardinality(WebThread)
<1>1. IsFiniteSet(Order)
  BY FS_Interval, PlacementLimitAssumption DEF Order
<1>2. Busy \subseteq WebThread /\ Free \subseteq Order /\ Open(placed) \subseteq Order
  BY DEF Busy, Free, Open
<1>3. /\ IsFiniteSet(Busy) /\ Cardinality(Busy) <= Cardinality(WebThread)
      /\ IsFiniteSet(Free) /\ IsFiniteSet(Open(placed))
  BY <1>1, <1>2, FS_Subset, WebThreadAssumption
<1>. QED BY <1>3, FS_CardinalityType, WebThreadAssumption

LEMMA CountsNext ==
  /\ IsFiniteSet(Busy') /\ IsFiniteSet(Free') /\ IsFiniteSet(Open(placed)')
  /\ Cardinality(Busy') \in Nat /\ Cardinality(Free') \in Nat /\ Cardinality(Open(placed)') \in Nat
  /\ Cardinality(Busy') <= Cardinality(WebThread)
<1>1. IsFiniteSet(Order)
  BY FS_Interval, PlacementLimitAssumption DEF Order
<1>2. Busy' \subseteq WebThread /\ Free' \subseteq Order /\ Open(placed)' \subseteq Order
  BY DEF Busy, Free, Open
<1>3. /\ IsFiniteSet(Busy') /\ Cardinality(Busy') <= Cardinality(WebThread)
      /\ IsFiniteSet(Free') /\ IsFiniteSet(Open(placed)')
  BY <1>1, <1>2, FS_Subset, WebThreadAssumption
<1>. QED BY <1>3, FS_CardinalityType

(* The row an insert takes exists: the first of the free ones.               *)
LEMMA FirstFree ==
  ASSUME PlacementIInv, NEW t \in WebThread, request[t] # NoRequest
  PROVE  (CHOOSE o \in Free : \A other \in Free : o <= other) \in Free
<1>1. Free # {}
  <2>1. SUFFICES ASSUME Free = {} PROVE FALSE
    OBVIOUS
  <2>2. t \in Busy
    BY DEF Busy
  <2>3. Cardinality(Busy) # 0 /\ Cardinality(Free) = 0
    BY <2>1, <2>2, Counts, FS_EmptySet
  <2>. QED BY <2>3, Counts DEF PlacementIInv, RoomForAll
<1>2. Free \subseteq Nat
  BY PlacementLimitAssumption DEF Free, Order
<1>3. \E o \in Free : \A p \in Free : <<p, o>> \notin OpToRel(<, Nat)
  BY <1>1, <1>2, WFMin, NatLessThanWellFounded
<1>4. PICK o \in Free : \A p \in Free : ~(p < o)
  BY <1>2, <1>3 DEF OpToRel
<1>5. \A p \in Free : o <= p
  BY <1>2, <1>4
<1>. QED BY <1>5

-----------------------------------------------------------------------------
LEMMA PlacementInitIInv == PlacementInit => PlacementIInv
<1> SUFFICES ASSUME PlacementInit PROVE PlacementIInv
  OBVIOUS
<1>1. PlacementTypeOK
  BY DEF PlacementInit, PlacementTypeOK, Nothing, Status, NoRow, NoRequest, M!NoRow, M!Row, M!Rank
<1>2. KeysDiffer /\ SellsSomething
  BY DEF PlacementInit, Nothing, KeysDiffer, SellsSomething
<1>3. RequestsKnow /\ DecisionsHold
  BY DEF PlacementInit, Nothing, RequestsKnow, DecisionsHold, NoRequest
<1>4. RoomForAll
  <2>1. Busy = {} /\ Open(placed) = {}
    BY DEF PlacementInit, Busy, Open, Nothing
  <2>2. Cardinality(Busy) = 0 /\ Cardinality(Open(placed)) = 0
    BY <2>1, FS_EmptySet
  <2>3. Cardinality(WebThread) # 0
    BY WebThreadAssumption, FS_EmptySet
  <2>. QED BY <2>2, <2>3, Counts, PlacementLimitAssumption DEF RoomForAll
<1>. QED BY <1>1, <1>2, <1>3, <1>4 DEF PlacementIInv

(* What pays, closes, delivers and refunds: one order leaves CREATED for     *)
(* good, and the member's row changes only while nobody has it locked.       *)
LEMMA MoveIInv ==
  ASSUME PlacementIInv, NEW o \in Order, placed[o] # "NONE",
         NEW s \in Status \ {"NONE", "CREATED"}, PlacedBecomes(o, s),
         UNCHANGED <<row, lockers, cooling, request>>,
         member' \in M!Row, member' = member \/ lockers = {}
  PROVE  PlacementIInv'
<1>1. placed' = [placed EXCEPT ![o] = s] /\ placed \in [Order -> Status]
  BY DEF PlacedBecomes, PlacementIInv, PlacementTypeOK
<1>2. \A p \in Order : placed'[p] # "NONE" <=> placed[p] # "NONE"
  BY <1>1
<1>3. PlacementTypeOK'
  BY <1>1 DEF PlacementIInv, PlacementTypeOK
<1>4. KeysDiffer' /\ SellsSomething'
  BY <1>2 DEF PlacementIInv, KeysDiffer, SellsSomething
<1>5. RequestsKnow'
  BY <1>2 DEF PlacementIInv, RequestsKnow, NoRequest, Nothing
<1>6. DecisionsHold'
  <2>1. CASE member' = member
    BY <1>2, <2>1 DEF PlacementIInv, DecisionsHold, Decided
  <2>2. CASE lockers = {}
    BY <2>2 DEF PlacementIInv, DecisionsHold, Decided
  <2>. QED BY <2>1, <2>2
<1>7. RoomForAll'
  <2>1. Busy' = Busy /\ Free' = Free /\ Open(placed)' \subseteq Open(placed)
    BY <1>1, <1>2 DEF Busy, Free, Open
  <2>2. Cardinality(Open(placed)') <= Cardinality(Open(placed))
    BY <2>1, Counts, FS_Subset
  <2>3. /\ Cardinality(Busy) <= Cardinality(Free)
        /\ Cardinality(Open(placed)) + Cardinality(Busy) <= MaxOpen + Cardinality(WebThread) - 1
    BY DEF PlacementIInv, RoomForAll
  <2>. QED BY <2>1, <2>2, <2>3, Counts, CountsNext, PlacementLimitAssumption DEF RoomForAll
<1>. QED BY <1>3, <1>4, <1>5, <1>6, <1>7 DEF PlacementIInv

LEMMA ServiceIInv ==
  ASSUME PlacementIInv, NEW o \in Order,
         Pay(o) \/ Close(o) \/ Deliver(o) \/ \E revokes \in BOOLEAN : Refund(o, revokes)
  PROVE  PlacementIInv'
<1>1. /\ member \in M!Row
      /\ placed[o] # "NONE" => row[o].days \in Nat /\ row[o].product.rank \in 1 .. 2
  BY CatalogueTypes DEF PlacementIInv, PlacementTypeOK, SellsSomething
<1>2. CASE Pay(o)
  BY <1>1, <1>2, MoveIInv DEF Pay, Status
<1>3. CASE Close(o)
  BY <1>1, <1>3, MoveIInv DEF Close, Status
<1>4. CASE Deliver(o)
  <2>1. M!extend(member, row[o].days, o, row[o].product.rank) \in M!Row
    BY <1>1, <1>4, ExtendType DEF Deliver
  <2>. QED BY <1>4, <2>1, MoveIInv DEF Deliver, Status
<1>5. ASSUME NEW revokes \in BOOLEAN, Refund(o, revokes) PROVE PlacementIInv'
  <2>1. M!revoke(member, row[o].days) \in M!Row
    BY <1>1, <1>5, RevokeType DEF Refund
  <2>2. member' \in M!Row /\ (member' = member \/ lockers = {})
    BY <1>1, <1>5, <2>1 DEF Refund
  <2>. QED BY <1>5, <2>2, MoveIInv DEF Refund, Status
<1>. QED BY <1>2, <1>3, <1>4, <1>5

-----------------------------------------------------------------------------
LEMMA BeginIInv ==
  ASSUME PlacementIInv, NEW t \in WebThread, NEW key \in Key \cup {NoKey}, NEW p \in Product,
         Begin(t, key, p)
  PROVE  PlacementIInv'
<1> DEFINE r == [at |-> "lock", key |-> key, product |-> p, base |-> NoOrder, view |-> placed]
<1>1. /\ request' = [request EXCEPT ![t] = r] /\ request[t] = NoRequest
      /\ UNCHANGED <<placed, row, member, lockers, cooling>>
  BY DEF Begin
<1>2. /\ r \in [at : {"idle", "lock", "insert"}, key : Key \cup {NoKey},
                product : Product \cup {AnyProduct}, base : Order \cup {NoOrder},
                view : [Order -> Status]]
      /\ r.at = "lock" /\ r.product = p /\ r.view = placed
  BY DEF PlacementIInv, PlacementTypeOK
<1>3. r # NoRequest
  BY DEF NoRequest
<1> HIDE DEF r
<1>4. PlacementTypeOK'
  BY <1>1, <1>2 DEF PlacementIInv, PlacementTypeOK
<1>5. KeysDiffer' /\ SellsSomething'
  BY <1>1 DEF PlacementIInv, KeysDiffer, SellsSomething
<1>6. request'[t] = r /\ \A u \in WebThread \ {t} : request'[u] = request[u]
  BY <1>1 DEF PlacementIInv, PlacementTypeOK
<1>7. RequestsKnow'
  BY <1>1, <1>2, <1>6 DEF PlacementIInv, RequestsKnow
<1>8. DecisionsHold'
  BY <1>1, <1>2, <1>6 DEF PlacementIInv, DecisionsHold, Decided
<1>9. RoomForAll'
  <2>1. Busy' = Busy \cup {t} /\ t \notin Busy /\ Free' = Free /\ Open(placed)' = Open(placed)
    BY <1>1, <1>3, <1>6 DEF Busy, Free, Open
  <2>2. Cardinality(Busy') = Cardinality(Busy) + 1
    BY <2>1, Counts, FS_AddElement
  <2>3. Cardinality(Busy) < Cardinality(Free) /\ Cardinality(Open(placed)) < MaxOpen
    BY DEF Begin, WithinLimits
  <2>. QED BY <2>1, <2>2, <2>3, Counts, CountsNext, PlacementLimitAssumption DEF RoomForAll
<1>. QED BY <1>4, <1>5, <1>7, <1>8, <1>9 DEF PlacementIInv

LEMMA AcceptIInv ==
  ASSUME PlacementIInv, NEW t \in WebThread, Accept(t)
  PROVE  PlacementIInv'
<1> DEFINE p == request[t].product
           base == IF IsUpgrade(p) THEN member.last ELSE NoOrder
           r == [request[t] EXCEPT !.at = "insert", !.base = base]
<1>1. /\ request' = [request EXCEPT ![t] = r] /\ request[t].at = "lock"
      /\ lockers' = lockers \cup {t}
      /\ UNCHANGED <<placed, row, member, cooling>>
  BY DEF Accept
<1>2. /\ p \in Product /\ request[t] # NoRequest
      /\ \A o \in Order : request[t].view[o] # "NONE" => placed[o] # "NONE"
  BY <1>1 DEF PlacementIInv, RequestsKnow, NoRequest
<1>3. member.last \in Order \cup {NoOrder} /\ member \in M!Row
  BY DEF PlacementIInv, PlacementTypeOK, M!Row
<1>4. base \in Order \cup {NoOrder}
  BY <1>3
<1>5. IF base = NoOrder THEN p.rank > M!activeTierRank(member)
      ELSE /\ base = member.last /\ placed[base] # "NONE"
           /\ p.days > row[base].days /\ p.cents > row[base].cents
  <2>1. p.rank >= M!activeTierRank(member) /\ (IsUpgrade(p) => UpgradeBaseValid(request[t].view, p))
    BY DEF Accept, Acceptable
  <2>2. CASE IsUpgrade(p)
    BY <1>2, <1>3, <2>1, <2>2 DEF UpgradeBaseValid
  <2>3. CASE ~IsUpgrade(p)
    BY <1>2, <1>3, <2>1, <2>3, CatalogueTypes DEF IsUpgrade, M!isActive, M!activeTierRank, M!Row, M!Rank
  <2>. QED BY <2>2, <2>3
<1> HIDE DEF base
<1>6. /\ r \in [at : {"idle", "lock", "insert"}, key : Key \cup {NoKey},
                product : Product \cup {AnyProduct}, base : Order \cup {NoOrder},
                view : [Order -> Status]]
      /\ r.at = "insert" /\ r.product = p /\ r.base = base /\ r.view = request[t].view
  BY <1>4 DEF PlacementIInv, PlacementTypeOK
<1>7. r # NoRequest
  BY <1>6 DEF NoRequest
<1> HIDE DEF r
<1>8. PlacementTypeOK'
  BY <1>1, <1>6 DEF PlacementIInv, PlacementTypeOK
<1>9. KeysDiffer' /\ SellsSomething'
  BY <1>1 DEF PlacementIInv, KeysDiffer, SellsSomething
<1>10. request'[t] = r /\ \A u \in WebThread \ {t} : request'[u] = request[u]
  BY <1>1 DEF PlacementIInv, PlacementTypeOK
<1>11. RequestsKnow'
  BY <1>1, <1>2, <1>6, <1>10 DEF PlacementIInv, RequestsKnow
<1>12. DecisionsHold'
  BY <1>1, <1>4, <1>5, <1>6, <1>10 DEF PlacementIInv, DecisionsHold, Decided
<1>13. Busy' = Busy /\ Free' = Free /\ Open(placed)' = Open(placed)
  BY <1>1, <1>2, <1>7, <1>10 DEF Busy, Free, Open
<1>14. RoomForAll'
  BY <1>13 DEF PlacementIInv, RoomForAll
<1>. QED BY <1>8, <1>9, <1>11, <1>12, <1>14 DEF PlacementIInv

(* A request that ends without an order: rejected, rolled back, or answered  *)
(* with the order that has its key.                                          *)
LEMMA EndIInv ==
  ASSUME PlacementIInv, NEW t \in WebThread, request[t] # NoRequest, RequestEnds(t),
         lockers' \in {lockers, lockers \ {t}}, cooling' \subseteq cooling \cup {InstanceOf[t]},
         UNCHANGED <<placed, row, member>>
  PROVE  PlacementIInv'
<1>1. request' = [request EXCEPT ![t] = NoRequest]
  BY DEF RequestEnds
<1>2. request'[t] = NoRequest /\ \A u \in WebThread \ {t} : request'[u] = request[u]
  BY <1>1 DEF PlacementIInv, PlacementTypeOK
<1>3. NoRequest \in [at : {"idle", "lock", "insert"}, key : Key \cup {NoKey},
                     product : Product \cup {AnyProduct}, base : Order \cup {NoOrder},
                     view : [Order -> Status]]
  BY DEF NoRequest, Nothing, Status
<1>4. PlacementTypeOK'
  <2>1. lockers' \subseteq WebThread /\ cooling' \subseteq WebInstance
    BY WebInstanceAssumption DEF PlacementIInv, PlacementTypeOK
  <2>. QED BY <1>1, <1>3, <2>1 DEF PlacementIInv, PlacementTypeOK
<1>5. KeysDiffer' /\ SellsSomething'
  BY DEF PlacementIInv, KeysDiffer, SellsSomething
<1>6. RequestsKnow' /\ DecisionsHold'
  BY <1>2 DEF PlacementIInv, RequestsKnow, DecisionsHold, Decided, NoRequest, Nothing
<1>7. Busy' \subseteq Busy /\ Free' = Free /\ Open(placed)' = Open(placed)
  BY <1>2 DEF Busy, Free, Open
<1>8. Cardinality(Busy') <= Cardinality(Busy)
  BY <1>7, Counts, FS_Subset
<1>9. RoomForAll'
  BY <1>7, <1>8, Counts, CountsNext, PlacementLimitAssumption DEF PlacementIInv, RoomForAll
<1>. QED BY <1>4, <1>5, <1>6, <1>9 DEF PlacementIInv

(* The order that an insert makes is new, has a key of its own, and sells    *)
(* what the request decided.                                                 *)
LEMMA InsertMakes ==
  ASSUME PlacementIInv, NEW t \in WebThread, Insert(t), WithKey(placed, request[t].key) = {}
  PROVE  \E o \in Free :
           /\ placed' = [placed EXCEPT ![o] = "CREATED"]
           /\ row' = [row EXCEPT ![o] = Priced(request[t].key, request[t].product, request[t].base)]
<1>1. request[t] # NoRequest
  BY DEF Insert, NoRequest
<1>. QED BY <1>1, FirstFree DEF Insert, PlacedBecomes

LEMMA PricedType ==
  ASSUME PlacementIInv, NEW t \in WebThread, request[t].at = "insert"
  PROVE  LET q == Priced(request[t].key, request[t].product, request[t].base)
         IN /\ q \in [key : Key \cup {NoKey}, product : Product \cup {AnyProduct},
                      base : Order \cup {NoOrder}, days : Nat, cents : Nat]
            /\ q.product \in Product /\ q.days > 0 /\ q.cents > 0
            /\ q.key = request[t].key /\ q.product = request[t].product /\ q.base = request[t].base
<1> DEFINE p == request[t].product
           base == request[t].base
           old == IF base = NoOrder THEN NoRow ELSE row[base]
<1>1. p \in Product /\ Decided(t)
  BY DEF PlacementIInv, RequestsKnow, DecisionsHold, NoRequest
<1>2. p.days \in Nat \ {0} /\ p.cents \in Nat \ {0}
  BY <1>1, CatalogueTypes
<1>3. /\ old.days \in Nat /\ old.cents \in Nat /\ p.days > old.days /\ p.cents > old.cents
  <2>1. CASE base = NoOrder
    BY <1>2, <2>1 DEF NoRow
  <2>2. CASE base # NoOrder
    BY <1>1, <2>2 DEF Decided, PlacementIInv, PlacementTypeOK
  <2>. QED BY <2>1, <2>2
<1>4. request[t].key \in Key \cup {NoKey} /\ base \in Order \cup {NoOrder}
  BY DEF PlacementIInv, PlacementTypeOK
<1>5. Priced(request[t].key, p, base) =
        [key |-> request[t].key, product |-> p, base |-> base,
         days |-> p.days - old.days, cents |-> p.cents - old.cents]
  BY DEF Priced
<1> HIDE DEF old, p, base
<1>6. p.days - old.days \in Nat \ {0} /\ p.cents - old.cents \in Nat \ {0}
  BY <1>2, <1>3
<1>. QED BY <1>1, <1>4, <1>5, <1>6 DEF p, base

LEMMA InsertIInv ==
  ASSUME PlacementIInv, NEW t \in WebThread, Insert(t)
  PROVE  PlacementIInv'
<1>1. /\ request[t].at = "insert" /\ request[t] # NoRequest
      /\ lockers' = lockers \ {t} /\ RequestEnds(t) /\ UNCHANGED member
  BY DEF Insert, NoRequest
<1>2. CASE WithKey(placed, request[t].key) # {}
  <2>1. /\ UNCHANGED <<placed, row, member>>
        /\ lockers' \in {lockers, lockers \ {t}} /\ cooling' \subseteq cooling \cup {InstanceOf[t]}
    BY <1>1, <1>2 DEF Insert
  <2>. QED BY <1>1, <2>1, EndIInv
<1>3. CASE WithKey(placed, request[t].key) = {}
  <2> DEFINE q == Priced(request[t].key, request[t].product, request[t].base)
  <2>1. PICK o \in Free : placed' = [placed EXCEPT ![o] = "CREATED"] /\ row' = [row EXCEPT ![o] = q]
    BY <1>3, InsertMakes
  <2>2. /\ q \in [key : Key \cup {NoKey}, product : Product \cup {AnyProduct},
                  base : Order \cup {NoOrder}, days : Nat, cents : Nat]
        /\ q.product \in Product /\ q.days > 0 /\ q.cents > 0 /\ q.key = request[t].key
    BY <1>1, PricedType
  <2> HIDE DEF q
  <2>3. cooling' = cooling \cup {InstanceOf[t]}
    BY <1>3 DEF Insert
  <2>4. o \in Order /\ placed[o] = "NONE"
    BY DEF Free
  <2>5. request' = [request EXCEPT ![t] = NoRequest]
    BY <1>1 DEF RequestEnds
  <2>6. /\ request'[t] = NoRequest /\ \A u \in WebThread \ {t} : request'[u] = request[u]
        /\ placed'[o] = "CREATED" /\ row'[o] = q
        /\ \A x \in Order \ {o} : placed'[x] = placed[x] /\ row'[x] = row[x]
    BY <2>1, <2>4, <2>5 DEF PlacementIInv, PlacementTypeOK
  <2>7. NoRequest \in [at : {"idle", "lock", "insert"}, key : Key \cup {NoKey},
                       product : Product \cup {AnyProduct}, base : Order \cup {NoOrder},
                       view : [Order -> Status]]
    BY DEF NoRequest, Nothing, Status
  <2>8. PlacementTypeOK'
    <3>1. placed' \in [Order -> Status] /\ member' \in M!Row /\ lockers' \subseteq WebThread
      BY <1>1, <2>1 DEF PlacementIInv, PlacementTypeOK, Status
    <3>2. cooling' \subseteq WebInstance
      BY <2>3, WebInstanceAssumption DEF PlacementIInv, PlacementTypeOK
    <3>3. row' \in [Order -> [key : Key \cup {NoKey}, product : Product \cup {AnyProduct},
                              base : Order \cup {NoOrder}, days : Nat, cents : Nat]]
      BY <2>1, <2>2 DEF PlacementIInv, PlacementTypeOK
    <3>4. request' \in [WebThread -> [at : {"idle", "lock", "insert"}, key : Key \cup {NoKey},
                                product : Product \cup {AnyProduct},
                                base : Order \cup {NoOrder}, view : [Order -> Status]]]
      BY <2>5, <2>7 DEF PlacementIInv, PlacementTypeOK
    <3>. QED BY <3>1, <3>2, <3>3, <3>4 DEF PlacementTypeOK
  <2>9. KeysDiffer'
    <3>1. \A x \in Order : placed[x] # "NONE" /\ row[x].key # NoKey => row[x].key # q.key
      BY <1>3, <2>2 DEF WithKey
    <3>. QED BY <2>6, <3>1 DEF PlacementIInv, KeysDiffer
  <2>10. SellsSomething'
    BY <2>2, <2>6 DEF PlacementIInv, SellsSomething
  <2>11. RequestsKnow'
    BY <2>6 DEF PlacementIInv, RequestsKnow, NoRequest, Nothing
  <2>12. DecisionsHold'
    <3>1. ASSUME NEW u \in WebThread, request'[u].at = "insert" PROVE Decided(u)'
      <4>1. u # t /\ request'[u] = request[u] /\ Decided(u)
        BY <2>6, <3>1 DEF NoRequest, PlacementIInv, DecisionsHold
      <4>2. u \in lockers'
        BY <1>1, <4>1 DEF Decided
      <4>. QED BY <1>1, <2>4, <2>6, <4>1, <4>2 DEF Decided
    <3>. QED BY <3>1 DEF DecisionsHold
  <2>13. RoomForAll'
    <3>1. /\ Busy' = Busy \ {t} /\ t \in Busy
          /\ Free' = Free \ {o} /\ o \in Free
          /\ Open(placed)' = Open(placed) \cup {o} /\ o \notin Open(placed)
      BY <1>1, <2>4, <2>6 DEF Busy, Free, Open
    <3>2. /\ Cardinality(Busy') = Cardinality(Busy) - 1
          /\ Cardinality(Free') = Cardinality(Free) - 1
      BY <3>1, Counts, FS_RemoveElement
    <3>3. Cardinality(Open(placed)') = Cardinality(Open(placed)) + 1
      BY <3>1, Counts, FS_AddElement
    <3>4. /\ Cardinality(Busy) <= Cardinality(Free)
          /\ Cardinality(Open(placed)) + Cardinality(Busy) <= MaxOpen + Cardinality(WebThread) - 1
      BY DEF PlacementIInv, RoomForAll
    <3>. QED BY <3>2, <3>3, <3>4, Counts, PlacementLimitAssumption DEF RoomForAll
  <2>. QED BY <2>8, <2>9, <2>10, <2>11, <2>12, <2>13 DEF PlacementIInv
<1>. QED BY <1>2, <1>3

LEMMA TimeIInv ==
  ASSUME PlacementIInv, DaysPass \/ \E i \in WebInstance : CoolDown(i)
  PROVE  PlacementIInv'
<1>1. UNCHANGED <<placed, row, lockers, request>>
  BY DEF DaysPass, CoolDown
<1>2. /\ member' \in M!Row /\ member'.last = member.last
      /\ \A r \in 1 .. 2 : r > M!activeTierRank(member) => r > M!activeTierRank(member)'
  <2>1. CASE DaysPass
    <3>1. member \in M!Row /\ member.days > 0 /\ member' = [member EXCEPT !.days = @ - 1]
      BY <2>1 DEF DaysPass, PlacementIInv, PlacementTypeOK, M!isActive
    <3>. QED BY <3>1 DEF M!Row, M!Rank, M!activeTierRank, M!isActive
  <2>2. CASE \E i \in WebInstance : CoolDown(i)
    BY <2>2 DEF CoolDown, PlacementIInv, PlacementTypeOK, M!activeTierRank, M!isActive
  <2>. QED BY <2>1, <2>2
<1>3. cooling' \subseteq WebInstance
  BY DEF DaysPass, CoolDown, PlacementIInv, PlacementTypeOK
<1>4. PlacementTypeOK'
  BY <1>1, <1>2, <1>3 DEF PlacementIInv, PlacementTypeOK
<1>5. KeysDiffer' /\ SellsSomething' /\ RequestsKnow'
  BY <1>1 DEF PlacementIInv, KeysDiffer, SellsSomething, RequestsKnow, NoRequest, Nothing
<1>6. DecisionsHold'
  <2>1. ASSUME NEW t \in WebThread, request[t].at = "insert"
        PROVE  Decided(t) /\ request[t].product.rank \in 1 .. 2
    BY <2>1, CatalogueTypes DEF PlacementIInv, DecisionsHold, RequestsKnow, NoRequest
  <2>. QED BY <1>1, <1>2, <2>1 DEF DecisionsHold, Decided
<1>7. Busy' = Busy /\ Free' = Free /\ Open(placed)' = Open(placed)
  BY <1>1 DEF Busy, Free, Open
<1>8. RoomForAll'
  BY <1>7 DEF PlacementIInv, RoomForAll
<1>. QED BY <1>4, <1>5, <1>6, <1>8 DEF PlacementIInv

LEMMA PlacementNextIInv == PlacementIInv /\ [PlacementNext]_placementVars => PlacementIInv'
<1> SUFFICES ASSUME PlacementIInv, [PlacementNext]_placementVars PROVE PlacementIInv'
  OBVIOUS
<1>1. CASE UNCHANGED placementVars
  BY <1>1 DEF placementVars, PlacementIInv, PlacementTypeOK, KeysDiffer, SellsSomething,
     RequestsKnow, DecisionsHold, Decided, RoomForAll, Busy, Free, Open, M!activeTierRank, M!isActive
<1>2. ASSUME NEW t \in WebThread, Reject(t) \/ Rollback(t) PROVE PlacementIInv'
  <2>1. CASE Reject(t)
    BY <2>1, EndIInv DEF Reject, NoRequest
  <2>2. CASE Rollback(t)
    <3>1. /\ request[t] # NoRequest /\ RequestEnds(t)
          /\ lockers' \in {lockers, lockers \ {t}} /\ cooling' \subseteq cooling \cup {InstanceOf[t]}
          /\ UNCHANGED <<placed, row, member>>
      BY <2>2 DEF Rollback
    <3>. QED BY <3>1, EndIInv
  <2>. QED BY <1>2, <2>1, <2>2
<1>. QED BY <1>1, <1>2, AcceptIInv, InsertIInv, BeginIInv, ServiceIInv, TimeIInv
     DEF PlacementNext, Places

-----------------------------------------------------------------------------
THEOREM PlacementInvariance == PlacementSpec => []PlacementIInv
  BY PlacementInitIInv, PlacementNextIInv, PTL DEF PlacementSpec

(* A key names at most one order, however many requests carry it at the same *)
(* time (createOrder and the unique key it falls back on).                   *)
THEOREM KeyNamesOneOrder == PlacementSpec => []OneOrderPerKey
<1>1. PlacementIInv => OneOrderPerKey
  <2> SUFFICES ASSUME PlacementIInv, NEW key \in Key PROVE Cardinality(WithKey(placed, key)) <= 1
    BY DEF OneOrderPerKey
  <2>1. \A o, p \in WithKey(placed, key) : o = p
    BY KeyAssumption DEF PlacementIInv, KeysDiffer, WithKey
  <2>2. CASE WithKey(placed, key) = {}
    BY <2>2, FS_EmptySet
  <2>3. CASE WithKey(placed, key) # {}
    <3>1. PICK o \in WithKey(placed, key) : TRUE
      BY <2>3
    <3>2. WithKey(placed, key) = {o}
      BY <2>1, <3>1
    <3>3. Cardinality({o}) = 1
      BY FS_Singleton
    <3>. QED BY <3>2, <3>3
  <2>. QED BY <2>2, <2>3
<1>. QED BY <1>1, PlacementInvariance, PTL

(* Concurrent requests overshoot the cap on unpaid orders by at most one     *)
(* less than there are of them (enforceOpenOrderLimit before the lock).      *)
THEOREM OvershootIsBounded == PlacementSpec => []OpenOrdersBounded
<1>1. PlacementIInv => OpenOrdersBounded
  BY Counts, PlacementLimitAssumption DEF PlacementIInv, RoomForAll, OpenOrdersBounded
<1>. QED BY <1>1, PlacementInvariance, PTL

(* What the tier wall decided under the lock holds when the row is inserted, *)
(* for no delivery and no revocation passes the lock (createOrder, extend).  *)
THEOREM WallHoldsAtInsert == PlacementSpec => PricedOnCurrentMember
<1>1. PlacementIInv /\ [PlacementNext]_placementVars =>
        [\A o \in Order : placed[o] = "NONE" /\ placed'[o] = "CREATED" =>
           IF row'[o].base = NoOrder
           THEN row'[o].product.rank > M!activeTierRank(member)
           ELSE row'[o].base = member.last]_placementVars
  <2> SUFFICES ASSUME PlacementIInv, PlacementNext, NEW o \in Order,
                      placed[o] = "NONE", placed'[o] = "CREATED"
               PROVE  IF row'[o].base = NoOrder
                      THEN row'[o].product.rank > M!activeTierRank(member)
                      ELSE row'[o].base = member.last
    OBVIOUS
  <2>1. placed \in [Order -> Status]
    BY DEF PlacementIInv, PlacementTypeOK
  <2>2. PICK t \in WebThread : Insert(t) /\ WithKey(placed, request[t].key) = {}
    BY <2>1 DEF PlacementNext, Places, Accept, Reject, Insert, Rollback, Begin, Pay, Close, Deliver,
       Refund, CoolDown, DaysPass, PlacedBecomes
  <2> DEFINE q == Priced(request[t].key, request[t].product, request[t].base)
  <2>3. PICK x \in Free : placed' = [placed EXCEPT ![x] = "CREATED"] /\ row' = [row EXCEPT ![x] = q]
    BY <2>2, InsertMakes
  <2>4. request[t].at = "insert"
    BY <2>2 DEF Insert
  <2>5. q.product = request[t].product /\ q.base = request[t].base
    BY <2>4, PricedType
  <2> HIDE DEF q
  <2>6. row'[o] = q
    BY <2>1, <2>3 DEF Free, PlacementIInv, PlacementTypeOK
  <2>. QED BY <2>4, <2>5, <2>6 DEF PlacementIInv, DecisionsHold, Decided
<1>. QED BY <1>1, PlacementInvariance, PTL DEF PlacementSpec, PricedOnCurrentMember

(* Every order sells a product of the catalogue for at least a day and a     *)
(* cent, an upgrade included: the difference to a base whose row the request *)
(* read under the lock is never nothing and never negative (priceOrder).     *)
THEOREM UpgradeIsNeverFree == PlacementSpec => []SellsSomething
<1>1. PlacementIInv => SellsSomething
  BY DEF PlacementIInv
<1>. QED BY <1>1, PlacementInvariance, PTL
=============================================================================
