------------------------------ MODULE PayOrder ------------------------------
(* The life of the orders of one member in app-pay: every thread that acts   *)
(* on an order is a worker whose steps are the database statements (each a   *)
(* conditional UPDATE or a transaction) and the HTTP calls of the source,    *)
(* so any two of them may interleave and any of them may die in between.     *)
(*                                                                           *)
(*   Notifier  a thread inside PaymentService.handleChannelPaid: the channel *)
(*             callback, ChannelQueryJob, OrderTimeoutJob's last query, or   *)
(*             the live query of an order read                               *)
(*   Courier   the DeliveryRetryJob thread                                   *)
(*   Refunder  a thread inside RefundService.refund for the operators        *)
EXTENDS Integers, FiniteSets, Functions

CONSTANTS Order, NoOrder, Notifier, Courier, Refunder,
          Product,        \* the catalogue: [rank, days, cents]
          RevokeChoices,  \* the revokeMembership flags operators pass
          RefundEnabled   \* pay.refund.enabled

Worker == Notifier \cup Courier \cup Refunder

ASSUME OrderAssumption == NoOrder \notin Order
ASSUME FinitelyManyOrders == IsFiniteSet(Order)
ASSUME WorkerAssumption == /\ Notifier \cap Courier = {}
                           /\ Notifier \cap Refunder = {}
                           /\ Courier \cap Refunder = {}
ASSUME ProductAssumption ==
  Product \subseteq [rank : 1 .. 2, days : Nat \ {0}, cents : Nat \ {0}]
ASSUME FlagAssumption == RevokeChoices \subseteq BOOLEAN /\ RefundEnabled \in BOOLEAN

VARIABLES
  status,   \* pay_order.status, "NONE" before the order exists
  prev,     \* pay_order.refund_prev_status, "NONE" for NULL
  item,     \* the snapshot taken at creation: tier rank, days, price, base order
  money,    \* the channel's side: "unpaid", "paid", "refunded"
  member,   \* the member's row (module Membership)
  credited, \* ACTIVATE/RENEW/UPGRADE membership events of the order
  revoked,  \* REFUND_REVOKE membership events of the order
  blocked,  \* orders with a DUPLICATE_ORDER_AUTO_REFUND audit record
  worker    \* [Worker -> where the thread is, and its local variables]

vars == <<status, prev, item, money, member, credited, revoked, blocked, worker>>

M == INSTANCE Membership

Paid == {"PAID", "DELIVERED", "REFUND_HOLD", "REFUNDING", "REFUNDED"}
Status == {"NONE", "CREATED", "CLOSED"} \cup Paid
Refundable == {"PAID", "DELIVERED", "REFUND_HOLD"}

At == {"idle", "wall", "reread", "reopen", "deliver",
       "blocked", "accept", "channel", "revert", "settle", "hold"}

Idle == [at |-> "idle", order |-> NoOrder, was |-> FALSE, revoke |-> FALSE]

Thread == [at : At, order : Order \cup {NoOrder}, was : BOOLEAN, revoke : BOOLEAN]

Item == [rank : 0 .. 2, days : Nat, cents : Nat, base : Order \cup {NoOrder}]

NoItem == [rank |-> 0, days |-> 0, cents |-> 0, base |-> NoOrder]

(* Every session a thread goes through the database's atomic step with       *)
(* `here', on order `o', and goes on at `there' with its locals kept.        *)
Moves(w, here, o, there) ==
  /\ worker[w].at = here
  /\ worker[w].order = o
  /\ worker' = [worker EXCEPT ![w].at = there]

(* The handler returns or throws to its caller.                              *)
Ends(w, here, o) ==
  /\ worker[w].at = here
  /\ worker[w].order = o
  /\ worker' = [worker EXCEPT ![w] = Idle]

Becomes(o, s) == status' = [status EXCEPT ![o] = s]

(* RefundService.refund throws: handleChannelPaid catches and freezes the    *)
(* order, the operators' endpoint answers with the error.                    *)
Throws(w, here, o) == IF w \in Notifier THEN Moves(w, here, o, "hold")
                                        ELSE Ends(w, here, o)

(* The order's days were delivered: in REFUNDING the status is overwritten   *)
(* and refund_prev_status tells.                                             *)
WasDelivered(o) == \/ status[o] = "DELIVERED"
                   \/ status[o] = "REFUNDING" /\ prev[o] = "DELIVERED"

Init == /\ status = [o \in Order |-> "NONE"]
        /\ prev = [o \in Order |-> "NONE"]
        /\ item = [o \in Order |-> NoItem]
        /\ money = [o \in Order |-> "unpaid"]
        /\ member = M!NoRow
        /\ credited = [o \in Order |-> 0]
        /\ revoked = [o \in Order |-> 0]
        /\ blocked = {}
        /\ worker = [w \in Worker |-> Idle]

-----------------------------------------------------------------------------
(* Creation, payment, closing                                                *)

(* The first wall: full price while the tier is above the member's.          *)
CreateFull(o, p) ==
  /\ status[o] = "NONE"
  /\ p.rank > M!activeTierRank(member)
  /\ item' = [item EXCEPT ![o] = [rank |-> p.rank, days |-> p.days,
                                  cents |-> p.cents, base |-> NoOrder]]
  /\ Becomes(o, "CREATED")
  /\ UNCHANGED <<prev, money, member, credited, revoked, blocked, worker>>

(* Same tier: the difference to the DELIVERED order the membership stands on.*)
(* One step here, with the base as it is now; OrderPlacement has the         *)
(* transaction, which reads the base from an older snapshot.                 *)
(* The limits that only reject (open orders, velocity, cooldown, one pending *)
(* upgrade) are not guards here: module OrderPlacement models them.          *)
CreateUpgrade(o, p) ==
  LET base == member.last IN
  /\ status[o] = "NONE"
  /\ M!isActive(member)
  /\ p.rank = member.rank
  /\ base # NoOrder
  /\ status[base] = "DELIVERED"
  /\ p.days > item[base].days
  /\ p.cents > item[base].cents
  /\ item' = [item EXCEPT ![o] = [rank |-> p.rank, days |-> p.days - item[base].days,
                                  cents |-> p.cents - item[base].cents, base |-> base]]
  /\ Becomes(o, "CREATED")
  /\ UNCHANGED <<prev, money, member, credited, revoked, blocked, worker>>

(* The user pays at the channel; a closed order's code can still be paid.    *)
Pay(o) ==
  /\ status[o] # "NONE"
  /\ money[o] = "unpaid"
  /\ money' = [money EXCEPT ![o] = "paid"]
  /\ UNCHANGED <<status, prev, item, member, credited, revoked, blocked, worker>>

(* closeOrder / closeOrderAtVersion: user cancel, channel CLOSED, timeout.   *)
(* The jobs query the channel first, but a failed query counts as NOT_PAID,  *)
(* so the close is possible whatever the channel knows.                      *)
Close(o) ==
  /\ status[o] = "CREATED"
  /\ Becomes(o, "CLOSED")
  /\ UNCHANGED <<prev, item, money, member, credited, revoked, blocked, worker>>

DaysPass ==
  /\ M!isActive(member)
  /\ member' = [member EXCEPT !.days = @ - 1]
  /\ UNCHANGED <<status, prev, item, money, credited, revoked, blocked, worker>>

-----------------------------------------------------------------------------
(* handleChannelPaid                                                         *)

(* The channel confirmed the payment; markPaid and the callback log commit   *)
(* together.  A notification may come any number of times, and late.         *)
Confirm(w, o) ==
  /\ worker[w] = Idle
  /\ money[o] # "unpaid"
  /\ LET fresh == status[o] = "CREATED" IN
     /\ status' = IF fresh THEN [status EXCEPT ![o] = "PAID"] ELSE status
     /\ worker' = [worker EXCEPT ![w].at = IF fresh THEN "wall" ELSE "reread",
                                 ![w].order = o]
  /\ UNCHANGED <<prev, item, money, member, credited, revoked, blocked>>

(* A full-price order not above the member's tier.                           *)
Violates(o) == item[o].base = NoOrder /\ item[o].rank <= M!activeTierRank(member)

SecondWall(w, o) ==
  /\ IF Violates(o)
     THEN Moves(w, "wall", o, "blocked") /\ blocked' = blocked \cup {o}
     ELSE Moves(w, "wall", o, "deliver") /\ UNCHANGED blocked
  /\ UNCHANGED <<status, prev, item, money, member, credited, revoked>>

(* Mutant of Reread: a payment after the close is not re-opened.             *)
RereadIgnoresClosed(w, o) ==
  /\ IF status[o] = "PAID" THEN Moves(w, "reread", o, "deliver") ELSE Ends(w, "reread", o)
  /\ UNCHANGED <<status, prev, item, money, member, credited, revoked, blocked>>

(* handleNonCreatedState: the order as it is now decides.                    *)
Reread(w, o) ==
  /\ CASE status[o] = "PAID" -> Moves(w, "reread", o, "deliver")
       [] status[o] = "CLOSED" -> Moves(w, "reread", o, "reopen")
       [] OTHER -> Ends(w, "reread", o)
  /\ UNCHANGED <<status, prev, item, money, member, credited, revoked, blocked>>

Reopen(w, o) ==
  /\ IF status[o] = "CLOSED"
     THEN Moves(w, "reopen", o, "deliver") /\ Becomes(o, "PAID")
     ELSE Ends(w, "reopen", o) /\ UNCHANGED status
  /\ UNCHANGED <<prev, item, money, member, credited, revoked, blocked>>

(* markRefundHold after the automatic refund threw.                          *)
Hold(w, o) ==
  /\ Ends(w, "hold", o)
  /\ status' = IF status[o] = "PAID" THEN [status EXCEPT ![o] = "REFUND_HOLD"]
                                     ELSE status
  /\ UNCHANGED <<prev, item, money, member, credited, revoked, blocked>>

-----------------------------------------------------------------------------
(* DeliveryService.deliverOrder and DeliveryRetryJob                         *)

(* Mutant of Deliver: markDelivered without its condition on the status.      *)
DeliverAnyway(w, o) ==
  /\ Ends(w, "deliver", o)
  /\ Becomes(o, "DELIVERED")
  /\ credited' = [credited EXCEPT ![o] = @ + 1]
  /\ member' = M!extend(member, item[o].days, o, item[o].rank)
  /\ UNCHANGED <<prev, item, money, revoked, blocked>>

(* One transaction: markDelivered arbitrates, the membership is extended.    *)
Deliver(w, o) ==
  /\ Ends(w, "deliver", o)
  /\ IF status[o] = "PAID"
     THEN /\ Becomes(o, "DELIVERED")
          /\ credited' = [credited EXCEPT ![o] = @ + 1]
          /\ member' = M!extend(member, item[o].days, o, item[o].rank)
     ELSE UNCHANGED <<status, credited, member>>
  /\ UNCHANGED <<prev, item, money, revoked, blocked>>

(* Mutant of RetryScan: the job asks for the wrong status.                   *)
RetryScanDelivered(w, o) ==
  /\ worker[w] = Idle
  /\ status[o] = "DELIVERED"
  /\ worker' = [worker EXCEPT ![w].at = "deliver", ![w].order = o]
  /\ UNCHANGED <<status, prev, item, money, member, credited, revoked, blocked>>

(* The job lists the orders stuck in PAID and delivers them afterwards.      *)
RetryScan(w, o) ==
  /\ worker[w] = Idle
  /\ status[o] = "PAID"
  /\ worker' = [worker EXCEPT ![w].at = "deliver", ![w].order = o]
  /\ UNCHANGED <<status, prev, item, money, member, credited, revoked, blocked>>

-----------------------------------------------------------------------------
(* RefundService.refund                                                      *)

(* The order is read once; what it was then decides the rest of the call.    *)
RefundRead(w, o, flag) ==
  /\ RefundEnabled
  /\ \/ w \in Refunder /\ worker[w] = Idle /\ flag \in RevokeChoices
     \/ worker[w].at = "blocked" /\ worker[w].order = o /\ ~flag
  /\ status[o] \in Refundable \cup {"REFUNDING"}
  /\ worker' = [worker EXCEPT ![w] =
       [at |-> IF status[o] = "REFUNDING" THEN "channel" ELSE "accept",
        order |-> o, was |-> WasDelivered(o), revoke |-> flag]]
  /\ UNCHANGED <<status, prev, item, money, member, credited, revoked, blocked>>

(* The automatic refund finds refunds switched off, or nothing to refund.    *)
RefundDeclined(w, o) ==
  /\ IF RefundEnabled
     THEN status[o] = "REFUNDED" /\ Ends(w, "blocked", o)
     ELSE Moves(w, "blocked", o, "hold")
  /\ UNCHANGED <<status, prev, item, money, member, credited, revoked, blocked>>

(* A statement or the call of the automatic refund throws anything else.      *)
RefundThrows(w, o) ==
  /\ w \in Notifier
  /\ \E here \in {"blocked", "accept", "channel", "revert", "settle"} : Moves(w, here, o, "hold")
  /\ UNCHANGED <<status, prev, item, money, member, credited, revoked, blocked>>

(* Mutant of RefundAccept: status assigned before refund_prev_status, which  *)
(* then reads the new value (PayOrderMapper.xml 97-98).                      *)
RefundAcceptSwapped(w, o) ==
  /\ status[o] \in Refundable
  /\ Moves(w, "accept", o, "channel")
  /\ prev' = [prev EXCEPT ![o] = "REFUNDING"]
  /\ Becomes(o, "REFUNDING")
  /\ UNCHANGED <<item, money, member, credited, revoked, blocked>>

RefundAccept(w, o) ==
  /\ \/ /\ status[o] \in Refundable
        /\ Moves(w, "accept", o, "channel")
        /\ prev' = [prev EXCEPT ![o] = status[o]]
        /\ Becomes(o, "REFUNDING")
     \/ /\ status[o] = "REFUNDED"
        /\ Ends(w, "accept", o)
        /\ UNCHANGED <<status, prev>>
     \/ /\ status[o] \notin Refundable \cup {"REFUNDED"}
        /\ Throws(w, "accept", o)
        /\ UNCHANGED <<status, prev>>
  /\ UNCHANGED <<item, money, member, credited, revoked, blocked>>

(* Mutant of RefundChannel: the result of the call is not looked at.         *)
RefundChannelTrusted(w, o) ==
  /\ Moves(w, "channel", o, "settle")
  /\ money' \in {money, [money EXCEPT ![o] = "refunded"]}
  /\ UNCHANGED <<status, prev, item, member, credited, revoked, blocked>>

(* The HTTP call with the same out_request_no: repeated success is the same  *)
(* refund; an error is reported when nothing happened and when the answer    *)
(* to a refund that did happen was lost.                                     *)
RefundChannel(w, o) ==
  /\ \/ Moves(w, "channel", o, "settle") /\ money' = [money EXCEPT ![o] = "refunded"]
     \/ Moves(w, "channel", o, "revert") /\ money' = [money EXCEPT ![o] = "refunded"]
     \/ Moves(w, "channel", o, "revert") /\ UNCHANGED money
  /\ UNCHANGED <<status, prev, item, member, credited, revoked, blocked>>

(* Mutant of RefundRevert: every failed refund goes back to PAID.            *)
RefundRevertToPaid(w, o) ==
  /\ Throws(w, "revert", o)
  /\ IF status[o] = "REFUNDING"
     THEN Becomes(o, "PAID") /\ prev' = [prev EXCEPT ![o] = "NONE"]
     ELSE UNCHANGED <<status, prev>>
  /\ UNCHANGED <<item, money, member, credited, revoked, blocked>>

RefundRevert(w, o) ==
  /\ Throws(w, "revert", o)
  /\ IF status[o] = "REFUNDING"
     THEN /\ Becomes(o, IF prev[o] = "NONE" THEN "PAID" ELSE prev[o])
          /\ prev' = [prev EXCEPT ![o] = "NONE"]
     ELSE UNCHANGED <<status, prev>>
  /\ UNCHANGED <<item, money, member, credited, revoked, blocked>>

(* Mutant of RefundSettle: the revocation does not depend on markRefunded.   *)
RefundSettleAlways(w, o) ==
  /\ Ends(w, "settle", o)
  /\ Becomes(o, "REFUNDED")
  /\ IF worker[w].revoke /\ worker[w].was
     THEN /\ member' = M!revoke(member, item[o].days)
          /\ revoked' = [revoked EXCEPT ![o] = @ + 1]
     ELSE UNCHANGED <<member, revoked>>
  /\ UNCHANGED <<prev, item, money, credited, blocked>>

(* One transaction: markRefunded and the revocation.  Whether the order was  *)
(* delivered is what the thread read at the start.                           *)
RefundSettle(w, o) ==
  /\ IF status[o] = "REFUNDING"
     THEN /\ Ends(w, "settle", o)
          /\ Becomes(o, "REFUNDED")
          /\ IF worker[w].revoke /\ worker[w].was
             THEN /\ member' = M!revoke(member, item[o].days)
                  /\ revoked' = [revoked EXCEPT ![o] = @ + 1]
             ELSE UNCHANGED <<member, revoked>>
     ELSE Throws(w, "settle", o) /\ UNCHANGED <<status, member, revoked>>
  /\ UNCHANGED <<prev, item, money, credited, blocked>>

-----------------------------------------------------------------------------
(* A thread dies between two steps (process crash), or its transaction is    *)
(* rolled back by a database error and the handler gives up.                 *)
Crash(w) ==
  /\ worker[w] # Idle
  /\ worker' = [worker EXCEPT ![w] = Idle]
  /\ UNCHANGED <<status, prev, item, money, member, credited, revoked, blocked>>

Environment == \/ \E o \in Order : Pay(o) \/ Close(o)
               \/ \E o \in Order, p \in Product : CreateFull(o, p) \/ CreateUpgrade(o, p)
               \/ DaysPass

Refunds(w, o) == \/ RefundAccept(w, o) \/ RefundChannel(w, o)
                 \/ RefundRevert(w, o) \/ RefundSettle(w, o)

Handles(w, o) == \/ SecondWall(w, o) \/ Reread(w, o) \/ Reopen(w, o) \/ Deliver(w, o)
                 \/ RefundDeclined(w, o) \/ RefundRead(w, o, FALSE) \/ Refunds(w, o)
                 \/ RefundThrows(w, o) \/ Hold(w, o)

Notifies(w, o) == Confirm(w, o) \/ Handles(w, o)
Couriers(w, o) == RetryScan(w, o) \/ Deliver(w, o)
Operates(w, o) == (\E flag \in BOOLEAN : RefundRead(w, o, flag)) \/ Refunds(w, o)

Next == \/ Environment
        \/ \E w \in Notifier, o \in Order : Notifies(w, o)
        \/ \E w \in Courier, o \in Order : Couriers(w, o)
        \/ \E w \in Refunder, o \in Order : Operates(w, o)
        \/ \E w \in Worker : Crash(w)

Spec == Init /\ [][Next]_vars

-----------------------------------------------------------------------------
(* A notification of a payment the service has not acknowledged yet.         *)
Repeat(w, o) == status[o] \notin Paid /\ Confirm(w, o)

(* The scheduling the code provides.  The channel repeats a notification     *)
(* until it is acknowledged and each gets a thread of its own, the retry job *)
(* comes back to every listed order, and a crash or database error does not  *)
(* recur for ever at the same point: strong fairness, because the model's    *)
(* few threads are now and then busy or killed.                              *)
Fairness ==
  /\ \A o \in Order : SF_vars(\E w \in Notifier : Repeat(w, o))
  /\ \A w \in Notifier, o \in Order : /\ WF_vars(Handles(w, o))
                                      /\ SF_vars(Reread(w, o))
                                      /\ SF_vars(Reopen(w, o))
  /\ \A w \in Courier, o \in Order : SF_vars(RetryScan(w, o)) /\ SF_vars(Deliver(w, o))

FairSpec == Spec /\ Fairness

-----------------------------------------------------------------------------
(* Properties                                                                *)

(* Every variable has its type.                                              *)
TypeOK == /\ status \in [Order -> Status]
          /\ prev \in [Order -> Refundable \cup {"NONE"}]
          /\ item \in [Order -> Item]
          /\ money \in [Order -> {"unpaid", "paid", "refunded"}]
          /\ member \in M!Row
          /\ credited \in [Order -> Nat]
          /\ revoked \in [Order -> Nat]
          /\ blocked \subseteq Order
          /\ worker \in [Worker -> Thread]

(* The order's days were delivered at some point of its life.                *)
Served(o) == \/ status[o] = "DELIVERED"
             \/ status[o] \in {"REFUNDING", "REFUNDED"} /\ prev[o] = "DELIVERED"

(* However callbacks, the retry job, refunds, reverts and crashes race, an   *)
(* order's days are in the membership exactly once when its status (or the   *)
(* status it had before the refund) says delivered, and not at all otherwise:*)
(* markDelivered and revertRefunding never let a second delivery through.    *)
CreditedOnce == \A o \in Order : credited[o] = IF Served(o) THEN 1 ELSE 0

(* Days are taken back at most once, only from an order that was delivered,  *)
(* and only together with REFUNDED (RefundService.refund, step 3).           *)
RevokedOnce ==
  \A o \in Order : /\ revoked[o] <= credited[o]
                   /\ revoked[o] > 0 => status[o] = "REFUNDED"

(* An order the service calls REFUNDED has its money back at the channel, and*)
(* one it calls paid was paid there, whoever replays which refund.           *)
LedgerMatchesChannel ==
  \A o \in Order : /\ status[o] = "REFUNDED" => money[o] = "refunded"
                   /\ status[o] \in Paid => money[o] # "unpaid"

(* The days that an order brought and that were not taken back.              *)
Backing == [o \in Order |-> (credited[o] - revoked[o]) * item[o].days]

(* A member never holds more days than the delivered orders brought, less    *)
(* the days revoked: no interleaving of deliveries, revocations and the      *)
(* clock makes membership out of nothing (extend, revoke).                   *)
DaysAreBacked == member.days <= SumFunction(Backing)

(* The order is frozen, or a refund of the frozen order is in flight.        *)
Frozen(o) == \/ status[o] = "REFUND_HOLD"
             \/ status[o] = "REFUNDING" /\ prev[o] = "REFUND_HOLD"

(* The freeze is real: a frozen order leaves the freeze only through a       *)
(* completed refund, never back to PAID where the retry job would deliver it.*)
FreezeIsReal ==
  [][\A o \in Order : Frozen(o) => Frozen(o)' \/ status'[o] = "REFUNDED"]_vars

(* The refinement of OrderPromise: an order is owing from PAID until it is   *)
(* delivered, a refund in flight has not returned anything yet.              *)
PhaseOf(s) == CASE s \in {"NONE", "CREATED", "CLOSED"} -> "unpaid"
                [] s = "DELIVERED" -> "served"
                [] s = "REFUNDED" -> "returned"
                [] OTHER -> "owing"

phase == [o \in Order |-> PhaseOf(IF status[o] = "REFUNDING" THEN prev[o] ELSE status[o])]

Promise == INSTANCE OrderPromise
             WITH phase <- phase, credited <- credited, revoked <- revoked

(* The threads of app-pay together keep the promise of module OrderPromise:  *)
(* days are served once, only for owed money; a return is final; days are    *)
(* revoked only by the step that returns a served order.                     *)
KeepsPromise == Promise!Spec

(* A paid order does not stay PAID: the retry job delivers it, or a refund   *)
(* or a freeze takes it.                                                     *)
PaidIsHandled == \A o \in Order : status[o] = "PAID" ~> status[o] # "PAID"

(* Money the channel received is acknowledged by the order, also when the    *)
(* order was closed before the notification came.                            *)
MoneyIsAcknowledged ==
  \A o \in Order : money[o] # "unpaid" ~> status[o] \in Paid

-----------------------------------------------------------------------------
(* Statements of the source's comments that the runs refute                  *)

(* PaymentService 110-114: an order that the second wall found in violation  *)
(* is not delivered.                                                         *)
BlockedNotDelivered == \A o \in blocked : credited[o] = 0

(* PaymentService 111-113: payment confirmation rechecks the tier, so that a *)
(* full-price order is delivered only above the member's active tier.        *)
DeliversOnlyUpward ==
  [][\A o \in Order : credited'[o] > credited[o]
                       => item[o].base # NoOrder \/ ~Violates(o)]_vars

(* RefundService 113-115: a refund that revokes does not "refund the money   *)
(* without revoking membership".                                             *)
RefundRevokesDays ==
  \A o \in Order \ blocked : status[o] = "REFUNDED" => revoked[o] = credited[o]

(* RefundService 33-34: once the channel refunded, whatever fails, the order *)
(* stays in REFUNDING for a retry.                                           *)
SettleFindsRefunding ==
  \A w \in Worker : worker[w].at = "settle"
                    => status[worker[w].order] \in {"REFUNDING", "REFUNDED"}
=============================================================================
