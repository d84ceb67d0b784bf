--------------------------- MODULE PayOrderProofs ---------------------------
(* Theorems about PayOrder for any orders, threads and catalogue.            *)
EXTENDS PayOrder, DataLemmas

(* What a thread remembers stays true whatever the others do: an order seen  *)
(* delivered was served, a thread about to settle has returned the money,    *)
(* and only an order paid at the channel is confirmed.                       *)
Knows(w) ==
  /\ worker[w].at # "idle" => worker[w].order \in Order
  /\ worker[w].was => worker[w].order \in Order /\ Served(worker[w].order)
  /\ worker[w].at = "settle" => money[worker[w].order] = "refunded"
  /\ worker[w].at \in {"reread", "reopen"} => money[worker[w].order] # "unpaid"

ThreadsKnow == \A w \in Worker : Knows(w)

(* A refund in flight or done knows what the order was before.               *)
PrevKnown ==
  \A o \in Order : status[o] \in {"REFUNDING", "REFUNDED"} => prev[o] \in Refundable

(* The books of the orders, apart from the threads.                          *)
Books == CreditedOnce /\ RevokedOnce /\ LedgerMatchesChannel /\ PrevKnown

(* The inductive invariant.                                                  *)
IInv == TypeOK /\ Books /\ ThreadsKnow

LEMMA InitIInv == Init => IInv
  BY OrderAssumption DEF Init, IInv, TypeOK, Books, CreditedOnce, RevokedOnce,
     LedgerMatchesChannel, ThreadsKnow, Knows, PrevKnown, Status, Paid, Refundable, Item,
     NoItem, M!Row, M!NoRow, M!Rank, Thread, At, Idle, Served, Worker

-----------------------------------------------------------------------------
(* A thread's move changes that thread only, and keeps its type.             *)
LEMMA ThreadMoves ==
  ASSUME TypeOK, NEW w \in Worker, NEW o \in Order, NEW here \in At, NEW there \in At,
         Moves(w, here, o, there) \/ Ends(w, here, o)
  PROVE  /\ worker' \in [Worker -> Thread]
         /\ worker[w].at = here /\ worker[w].order = o
         /\ \A v \in Worker : v # w => worker'[v] = worker[v]
         /\ \/ worker'[w] = Idle
            \/ /\ worker'[w].at = there
               /\ worker'[w].order = o
               /\ worker'[w].was = worker[w].was
<1>1. CASE Ends(w, here, o)
  BY <1>1, OrderAssumption DEF TypeOK, Ends, Thread, At, Idle
<1>2. CASE Moves(w, here, o, there)
  BY <1>2 DEF TypeOK, Moves, Thread
<1> QED
  BY <1>1, <1>2

(* What the other threads know survives a step after which served orders are *)
(* still served and money once paid or refunded is still so.                 *)
LEMMA OthersKnow ==
  ASSUME IInv, NEW v \in Worker, worker'[v] = worker[v],
         \A o \in Order : Served(o) => Served(o)',
         \A o \in Order : money[o] # "unpaid" => money'[o] # "unpaid",
         \A o \in Order : money[o] = "refunded" => money'[o] = "refunded"
  PROVE  Knows(v)'
  BY DEF IInv, ThreadsKnow, Knows

(* Steps that leave the orders' books alone.                                 *)
LEMMA SameBooks ==
  ASSUME Books, UNCHANGED <<status, prev, money, credited, revoked>>
  PROVE  Books' /\ \A o \in Order : Served(o)' = Served(o)
  BY DEF Books, CreditedOnce, RevokedOnce, LedgerMatchesChannel, PrevKnown, Served

-----------------------------------------------------------------------------
(* Every action preserves the invariant.                                     *)

LEMMA CreateFullIInv ==
  ASSUME IInv, NEW o \in Order, NEW p \in Product, CreateFull(o, p)
  PROVE  IInv'
  BY OrderAssumption, ProductAssumption, SMTT(60) DEF IInv, TypeOK, Books, CreditedOnce, RevokedOnce,
     LedgerMatchesChannel, ThreadsKnow, Knows, PrevKnown, Served, Worker, Item, Thread, Status,
     Paid, Refundable, At, Idle,
     CreateFull, Becomes,
     M!Row, M!Rank, M!isActive, M!activeTierRank,
     M!applyTier, M!extend, M!revoke

LEMMA CreateUpgradeIInv ==
  ASSUME IInv, NEW o \in Order, NEW p \in Product, CreateUpgrade(o, p)
  PROVE  IInv'
  BY OrderAssumption, ProductAssumption, SMTT(60) DEF IInv, TypeOK, Books, CreditedOnce, RevokedOnce,
     LedgerMatchesChannel, ThreadsKnow, Knows, PrevKnown, Served, Worker, Item, Thread, Status,
     Paid, Refundable, At, Idle,
     CreateUpgrade, Becomes,
     M!Row, M!Rank, M!isActive, M!activeTierRank,
     M!applyTier, M!extend, M!revoke

LEMMA PayIInv ==
  ASSUME IInv, NEW o \in Order, Pay(o)
  PROVE  IInv'
  BY OrderAssumption, SMTT(60) DEF IInv, TypeOK, Books, CreditedOnce, RevokedOnce,
     LedgerMatchesChannel, ThreadsKnow, Knows, PrevKnown, Served, Worker, Item, Thread, Status,
     Paid, Refundable, At, Idle,
     Pay

LEMMA CloseIInv ==
  ASSUME IInv, NEW o \in Order, Close(o)
  PROVE  IInv'
  BY OrderAssumption, SMTT(60) DEF IInv, TypeOK, Books, CreditedOnce, RevokedOnce,
     LedgerMatchesChannel, ThreadsKnow, Knows, PrevKnown, Served, Worker, Item, Thread, Status,
     Paid, Refundable, At, Idle,
     Close, Becomes

LEMMA DaysPassIInv ==
  ASSUME IInv, DaysPass
  PROVE  IInv'
  BY SMTT(60) DEF IInv, TypeOK, Books, CreditedOnce, RevokedOnce,
     LedgerMatchesChannel, ThreadsKnow, Knows, PrevKnown, Served, Worker, Item, Thread, Status,
     Paid, Refundable, At, Idle,
     DaysPass,
     M!Row, M!Rank, M!isActive, M!activeTierRank,
     M!applyTier, M!extend, M!revoke

LEMMA ConfirmIInv ==
  ASSUME IInv, NEW w \in Notifier, NEW o \in Order, Confirm(w, o)
  PROVE  IInv'
  BY OrderAssumption, SMTT(60) DEF IInv, TypeOK, Books, CreditedOnce, RevokedOnce,
     LedgerMatchesChannel, ThreadsKnow, Knows, PrevKnown, Served, Worker, Item, Thread, Status,
     Paid, Refundable, At, Idle,
     Confirm

LEMMA SecondWallIInv ==
  ASSUME IInv, NEW w \in Worker, NEW o \in Order, SecondWall(w, o)
  PROVE  IInv'
  BY OrderAssumption, SMTT(60) DEF IInv, TypeOK, Books, CreditedOnce, RevokedOnce,
     LedgerMatchesChannel, ThreadsKnow, Knows, PrevKnown, Served, Worker, Item, Thread, Status,
     Paid, Refundable, At, Idle,
     SecondWall, Moves

LEMMA HoldIInv ==
  ASSUME IInv, NEW w \in Worker, NEW o \in Order, Hold(w, o)
  PROVE  IInv'
  BY OrderAssumption, SMTT(60) DEF IInv, TypeOK, Books, CreditedOnce, RevokedOnce,
     LedgerMatchesChannel, ThreadsKnow, Knows, PrevKnown, Served, Worker, Item, Thread, Status,
     Paid, Refundable, At, Idle,
     Hold, Ends

LEMMA DeliverIInv ==
  ASSUME IInv, NEW w \in Worker, NEW o \in Order, Deliver(w, o)
  PROVE  IInv'
  BY OrderAssumption, SMTT(60) DEF IInv, TypeOK, Books, CreditedOnce, RevokedOnce,
     LedgerMatchesChannel, ThreadsKnow, Knows, PrevKnown, Served, Worker, Item, Thread, Status,
     Paid, Refundable, At, Idle,
     Deliver, Ends, Becomes,
     M!Row, M!Rank, M!isActive, M!activeTierRank,
     M!applyTier, M!extend, M!revoke

LEMMA RetryScanIInv ==
  ASSUME IInv, NEW w \in Courier, NEW o \in Order, RetryScan(w, o)
  PROVE  IInv'
  BY OrderAssumption, SMTT(60) DEF IInv, TypeOK, Books, CreditedOnce, RevokedOnce,
     LedgerMatchesChannel, ThreadsKnow, Knows, PrevKnown, Served, Worker, Item, Thread, Status,
     Paid, Refundable, At, Idle,
     RetryScan

LEMMA RefundReadIInv ==
  ASSUME IInv, NEW w \in Worker, NEW o \in Order, NEW flag \in BOOLEAN, RefundRead(w, o, flag)
  PROVE  IInv'
  BY OrderAssumption, SMTT(60) DEF IInv, TypeOK, Books, CreditedOnce, RevokedOnce,
     LedgerMatchesChannel, ThreadsKnow, Knows, PrevKnown, Served, Worker, Item, Thread, Status,
     Paid, Refundable, At, Idle,
     RefundRead, WasDelivered

LEMMA RefundChannelIInv ==
  ASSUME IInv, NEW w \in Worker, NEW o \in Order, RefundChannel(w, o)
  PROVE  IInv'
  BY OrderAssumption, SMTT(60) DEF IInv, TypeOK, Books, CreditedOnce, RevokedOnce,
     LedgerMatchesChannel, ThreadsKnow, Knows, PrevKnown, Served, Worker, Item, Thread, Status,
     Paid, Refundable, At, Idle,
     RefundChannel, Moves

LEMMA CrashIInv ==
  ASSUME IInv, NEW w \in Worker, Crash(w)
  PROVE  IInv'
  BY SMTT(60) DEF IInv, TypeOK, Books, CreditedOnce, RevokedOnce,
     LedgerMatchesChannel, ThreadsKnow, Knows, PrevKnown, Served, Worker, Item, Thread, Status,
     Paid, Refundable, At, Idle,
     Crash

LEMMA RereadIInv ==
  ASSUME IInv, NEW w \in Worker, NEW o \in Order, Reread(w, o)
  PROVE  IInv'
<1>1. PICK there \in {"deliver", "reopen"} :
          Moves(w, "reread", o, there) \/ Ends(w, "reread", o)
  BY Zenon DEF Reread
<1>2. /\ worker' \in [Worker -> Thread]
      /\ worker[w].at = "reread" /\ worker[w].order = o
      /\ \A v \in Worker : v # w => worker'[v] = worker[v]
      /\ \/ worker'[w] = Idle
         \/ /\ worker'[w].at = there
            /\ worker'[w].order = o
            /\ worker'[w].was = worker[w].was
  <2>1. "reread" \in At /\ there \in At
    BY DEF At
  <2> QED
    BY <1>1, <2>1, ThreadMoves DEF IInv
<1>3. TypeOK'
  BY <1>2 DEF IInv, TypeOK, Reread
<1>4. Books' /\ \A x \in Order : Served(x)' = Served(x)
  BY SameBooks DEF IInv, Reread
<1>5. ASSUME NEW v \in Worker PROVE Knows(v)'
  <2>1. CASE v = w
    BY <1>2, <1>4, <2>1 DEF IInv, ThreadsKnow, Knows, Idle, Reread
  <2>2. CASE v # w
    BY <1>2, <1>4, <2>2, OthersKnow DEF Reread
  <2> QED
    BY <2>1, <2>2
<1> QED
  BY <1>3, <1>4, <1>5 DEF IInv, ThreadsKnow
(* The rest of the refund: accepting, reverting and settling change the      *)
(* order under threads that remember it.                                     *)
LEMMA ReopenIInv ==
  ASSUME IInv, NEW w \in Worker, NEW o \in Order, Reopen(w, o)
  PROVE  IInv'
<1>1. /\ worker' \in [Worker -> Thread]
      /\ worker[w].at = "reopen" /\ worker[w].order = o
      /\ \A v \in Worker : v # w => worker'[v] = worker[v]
      /\ \/ worker'[w] = Idle
         \/ /\ worker'[w].at = "deliver"
            /\ worker'[w].order = o
            /\ worker'[w].was = worker[w].was
  <2>1. Moves(w, "reopen", o, "deliver") \/ Ends(w, "reopen", o)
    BY DEF Reopen
  <2>2. "reopen" \in At /\ "deliver" \in At
    BY DEF At
  <2> QED
    BY <2>1, <2>2, ThreadMoves DEF IInv
<1>2. money[o] # "unpaid"
  BY <1>1 DEF IInv, ThreadsKnow, Knows
<1>3. status' = status \/ (status[o] = "CLOSED" /\ Becomes(o, "PAID"))
  BY DEF Reopen
<1>4. TypeOK'
  BY <1>1, <1>3 DEF IInv, TypeOK, Reopen, Becomes, Status, Paid
<1>5. Books' /\ \A x \in Order : Served(x) => Served(x)'
  BY <1>2, <1>3 DEF IInv, TypeOK, Books, CreditedOnce, RevokedOnce, LedgerMatchesChannel,
     PrevKnown, Served, Reopen, Becomes, Paid, Status
<1>6. ASSUME NEW v \in Worker PROVE Knows(v)'
  <2>1. CASE v = w
    BY <1>1, <1>5, <2>1 DEF IInv, ThreadsKnow, Knows, Idle, Reopen
  <2>2. CASE v # w
    BY <1>1, <1>5, <2>2, OthersKnow DEF Reopen
  <2> QED
    BY <2>1, <2>2
<1> QED
  BY <1>4, <1>5, <1>6 DEF IInv, ThreadsKnow

LEMMA RefundDeclinedIInv ==
  ASSUME IInv, NEW w \in Worker, NEW o \in Order, RefundDeclined(w, o)
  PROVE  IInv'
<1>1. /\ worker' \in [Worker -> Thread]
      /\ worker[w].at = "blocked" /\ worker[w].order = o
      /\ \A v \in Worker : v # w => worker'[v] = worker[v]
      /\ \/ worker'[w] = Idle
         \/ /\ worker'[w].at = "hold"
            /\ worker'[w].order = o
            /\ worker'[w].was = worker[w].was
  <2>1. Moves(w, "blocked", o, "hold") \/ Ends(w, "blocked", o)
    BY DEF RefundDeclined
  <2>2. "blocked" \in At /\ "hold" \in At
    BY DEF At
  <2> QED
    BY <2>1, <2>2, ThreadMoves DEF IInv
<1>2. TypeOK'
  BY <1>1 DEF IInv, TypeOK, RefundDeclined
<1>3. Books' /\ \A x \in Order : Served(x)' = Served(x)
  BY SameBooks DEF IInv, RefundDeclined
<1>4. ASSUME NEW v \in Worker PROVE Knows(v)'
  <2>1. CASE v = w
    BY <1>1, <1>3, <2>1 DEF IInv, ThreadsKnow, Knows, Idle, RefundDeclined
  <2>2. CASE v # w
    BY <1>1, <1>3, <2>2, OthersKnow DEF RefundDeclined
  <2> QED
    BY <2>1, <2>2
<1> QED
  BY <1>2, <1>3, <1>4 DEF IInv, ThreadsKnow

LEMMA RefundThrowsIInv ==
  ASSUME IInv, NEW w \in Worker, NEW o \in Order, RefundThrows(w, o)
  PROVE  IInv'
<1>1. /\ worker' \in [Worker -> Thread]
      /\ \A v \in Worker : v # w => worker'[v] = worker[v]
      /\ \/ worker'[w] = Idle
         \/ /\ worker'[w].at = "hold"
            /\ worker'[w].order = o
            /\ worker'[w].was = worker[w].was
            /\ worker[w].order = o
  <2>1. PICK here \in {"blocked", "accept", "channel", "revert", "settle"} :
          Moves(w, here, o, "hold")
    BY DEF RefundThrows
  <2>2. here \in At /\ "hold" \in At
    BY DEF At
  <2> QED
    BY <2>1, <2>2, ThreadMoves DEF IInv
<1>2. TypeOK'
  BY <1>1 DEF IInv, TypeOK, RefundThrows
<1>3. Books' /\ \A x \in Order : Served(x)' = Served(x)
  BY SameBooks DEF IInv, RefundThrows
<1>4. ASSUME NEW v \in Worker PROVE Knows(v)'
  <2>1. CASE v = w
    BY <1>1, <1>3, <2>1 DEF IInv, ThreadsKnow, Knows, Idle, RefundThrows
  <2>2. CASE v # w
    BY <1>1, <1>3, <2>2, OthersKnow DEF RefundThrows
  <2> QED
    BY <2>1, <2>2
<1> QED
  BY <1>2, <1>3, <1>4 DEF IInv, ThreadsKnow

LEMMA RefundAcceptIInv ==
  ASSUME IInv, NEW w \in Worker, NEW o \in Order, RefundAccept(w, o)
  PROVE  IInv'
<1>1. PICK there \in {"channel", "hold"} :
          Moves(w, "accept", o, there) \/ Ends(w, "accept", o)
  BY DEF RefundAccept, Throws
<1>2. /\ worker' \in [Worker -> Thread]
      /\ worker[w].at = "accept" /\ worker[w].order = o
      /\ \A v \in Worker : v # w => worker'[v] = worker[v]
      /\ \/ worker'[w] = Idle
         \/ /\ worker'[w].at = there
            /\ worker'[w].order = o
            /\ worker'[w].was = worker[w].was
  <2>1. "accept" \in At /\ there \in At
    BY DEF At
  <2> QED
    BY <1>1, <2>1, ThreadMoves DEF IInv
<1>3. \/ /\ status[o] \in Refundable
         /\ prev' = [prev EXCEPT ![o] = status[o]]
         /\ Becomes(o, "REFUNDING")
      \/ UNCHANGED <<status, prev>>
  BY DEF RefundAccept
<1>4. TypeOK'
  BY <1>2, <1>3 DEF IInv, TypeOK, RefundAccept, Becomes, Status, Paid, Refundable
<1>5. Books' /\ \A x \in Order : Served(x) => Served(x)'
  BY <1>3 DEF IInv, TypeOK, Books, CreditedOnce, RevokedOnce, LedgerMatchesChannel,
     PrevKnown, Served, RefundAccept, Becomes, Paid, Status, Refundable
<1>6. ASSUME NEW v \in Worker PROVE Knows(v)'
  <2>1. CASE v = w
    BY <1>2, <1>5, <2>1 DEF IInv, ThreadsKnow, Knows, Idle, RefundAccept
  <2>2. CASE v # w
    BY <1>2, <1>5, <2>2, OthersKnow DEF RefundAccept
  <2> QED
    BY <2>1, <2>2
<1> QED
  BY <1>4, <1>5, <1>6 DEF IInv, ThreadsKnow

LEMMA RefundRevertIInv ==
  ASSUME IInv, NEW w \in Worker, NEW o \in Order, RefundRevert(w, o)
  PROVE  IInv'
<1>1. /\ worker' \in [Worker -> Thread]
      /\ worker[w].at = "revert" /\ worker[w].order = o
      /\ \A v \in Worker : v # w => worker'[v] = worker[v]
      /\ \/ worker'[w] = Idle
         \/ /\ worker'[w].at = "hold"
            /\ worker'[w].order = o
            /\ worker'[w].was = worker[w].was
  <2>1. Moves(w, "revert", o, "hold") \/ Ends(w, "revert", o)
    BY DEF RefundRevert, Throws
  <2>2. "revert" \in At /\ "hold" \in At
    BY DEF At
  <2> QED
    BY <2>1, <2>2, ThreadMoves DEF IInv
<1>2. \/ /\ status[o] = "REFUNDING"
         /\ prev[o] \in Refundable
         /\ Becomes(o, prev[o])
         /\ prev' = [prev EXCEPT ![o] = "NONE"]
      \/ UNCHANGED <<status, prev>>
  BY DEF RefundRevert, IInv, Books, PrevKnown, Refundable
<1>3. TypeOK'
  BY <1>1, <1>2 DEF IInv, TypeOK, RefundRevert, Becomes, Status, Paid, Refundable
<1>4. Books' /\ \A x \in Order : Served(x) => Served(x)'
  BY <1>2 DEF IInv, TypeOK, Books, CreditedOnce, RevokedOnce, LedgerMatchesChannel,
     PrevKnown, Served, RefundRevert, Becomes, Paid, Status, Refundable
<1>5. ASSUME NEW v \in Worker PROVE Knows(v)'
  <2>1. CASE v = w
    BY <1>1, <1>4, <2>1 DEF IInv, ThreadsKnow, Knows, Idle, RefundRevert
  <2>2. CASE v # w
    BY <1>1, <1>4, <2>2, OthersKnow DEF RefundRevert
  <2> QED
    BY <2>1, <2>2
<1> QED
  BY <1>3, <1>4, <1>5 DEF IInv, ThreadsKnow

LEMMA RefundSettleIInv ==
  ASSUME IInv, NEW w \in Worker, NEW o \in Order, RefundSettle(w, o)
  PROVE  IInv'
<1>1. /\ worker' \in [Worker -> Thread]
      /\ worker[w].at = "settle" /\ worker[w].order = o
      /\ \A v \in Worker : v # w => worker'[v] = worker[v]
      /\ \/ worker'[w] = Idle
         \/ /\ worker'[w].at = "hold"
            /\ worker'[w].order = o
            /\ worker'[w].was = worker[w].was
  <2>1. Moves(w, "settle", o, "hold") \/ Ends(w, "settle", o)
    BY DEF RefundSettle, Throws
  <2>2. "settle" \in At /\ "hold" \in At
    BY DEF At
  <2> QED
    BY <2>1, <2>2, ThreadMoves DEF IInv
<1>2. money[o] = "refunded" /\ (worker[w].was => Served(o))
  BY <1>1 DEF IInv, ThreadsKnow, Knows
<1>3. \/ /\ status[o] = "REFUNDING"
         /\ Becomes(o, "REFUNDED")
         /\ \/ /\ worker[w].was
               /\ member' = M!revoke(member, item[o].days)
               /\ revoked' = [revoked EXCEPT ![o] = @ + 1]
            \/ UNCHANGED <<member, revoked>>
      \/ UNCHANGED <<status, member, revoked>>
  BY DEF RefundSettle
<1>4. member' \in M!Row
  BY <1>3 DEF IInv, TypeOK, Item, M!Row, M!revoke
<1>5. TypeOK'
  BY <1>1, <1>3, <1>4 DEF IInv, TypeOK, RefundSettle, Becomes, Status, Paid
<1>6. Books' /\ \A x \in Order : Served(x) => Served(x)'
  BY <1>2, <1>3 DEF IInv, TypeOK, Books, CreditedOnce, RevokedOnce, LedgerMatchesChannel,
     PrevKnown, Served, RefundSettle, Becomes, Paid, Status
<1>7. ASSUME NEW v \in Worker PROVE Knows(v)'
  <2>1. CASE v = w
    BY <1>1, <1>6, <2>1 DEF IInv, ThreadsKnow, Knows, Idle, RefundSettle
  <2>2. CASE v # w
    BY <1>1, <1>6, <2>2, OthersKnow DEF RefundSettle
  <2> QED
    BY <2>1, <2>2
<1> QED
  BY <1>5, <1>6, <1>7 DEF IInv, ThreadsKnow
LEMMA RefundsIInv ==
  ASSUME IInv, NEW w \in Worker, NEW o \in Order, Refunds(w, o)
  PROVE  IInv'
  BY RefundAcceptIInv, RefundChannelIInv, RefundRevertIInv, RefundSettleIInv DEF Refunds

LEMMA HandlesIInv ==
  ASSUME IInv, NEW w \in Worker, NEW o \in Order, Handles(w, o)
  PROVE  IInv'
<1>1. RefundRead(w, o, FALSE) => IInv'
  <2>1. FALSE \in BOOLEAN
    OBVIOUS
  <2> QED
    BY <2>1, RefundReadIInv
<1> QED
  BY <1>1, SecondWallIInv, RereadIInv, ReopenIInv, DeliverIInv, RefundDeclinedIInv, HoldIInv,
     RefundThrowsIInv, RefundsIInv DEF Handles

LEMMA NextIInv == IInv /\ [Next]_vars => IInv'
<1> SUFFICES ASSUME IInv, [Next]_vars PROVE IInv'
  OBVIOUS
<1>1. CASE Environment
  BY <1>1, PayIInv, CloseIInv, CreateFullIInv, CreateUpgradeIInv, DaysPassIInv DEF Environment
<1>2. ASSUME NEW w \in Notifier, NEW o \in Order, Notifies(w, o) PROVE IInv'
  BY <1>2, ConfirmIInv, HandlesIInv DEF Notifies, Worker
<1>3. ASSUME NEW w \in Courier, NEW o \in Order, Couriers(w, o) PROVE IInv'
  BY <1>3, RetryScanIInv, DeliverIInv DEF Couriers, Worker
<1>4. ASSUME NEW w \in Refunder, NEW o \in Order, Operates(w, o) PROVE IInv'
  BY <1>4, RefundReadIInv, RefundsIInv DEF Operates, Worker
<1>5. ASSUME NEW w \in Worker, Crash(w) PROVE IInv'
  BY <1>5, CrashIInv
<1>6. CASE UNCHANGED vars
  <2>1. \A o \in Order : Served(o)' = Served(o)
    BY <1>6 DEF vars, Served
  <2> QED
    BY <1>6, <2>1 DEF vars, IInv, TypeOK, Books, CreditedOnce, RevokedOnce,
       LedgerMatchesChannel, PrevKnown, ThreadsKnow, Knows
<1> QED
  BY <1>1, <1>2, <1>3, <1>4, <1>5, <1>6 DEF Next

THEOREM Invariance == Spec => []IInv
  BY InitIInv, NextIInv, PTL DEF Spec

-----------------------------------------------------------------------------
(* The invariants the runs check, for every value of the constants.          *)

(* The variables of app-pay's orders and threads keep their types.           *)
THEOREM TypeCorrect == Spec => []TypeOK
  BY Invariance, PTL DEF IInv

(* markDelivered and revertRefunding: an order's days are in the membership  *)
(* exactly once when its status says delivered, else not at all.             *)
THEOREM DeliveredOnce == Spec => []CreditedOnce
  BY Invariance, PTL DEF IInv, Books

(* RefundService.refund: days are taken back at most once, with REFUNDED,    *)
(* from an order that was delivered.                                         *)
THEOREM RevokedAtMostOnce == Spec => []RevokedOnce
  BY Invariance, PTL DEF IInv, Books

(* The statuses never claim a payment or a refund the channel did not make.  *)
THEOREM ChannelAgrees == Spec => []LedgerMatchesChannel
  BY Invariance, PTL DEF IInv, Books

-----------------------------------------------------------------------------
(* The freeze.                                                               *)

LEMMA FreezeStep ==
  IInv /\ [Next]_vars =>
    [\A o \in Order : Frozen(o) => Frozen(o)' \/ status'[o] = "REFUNDED"]_vars
<1> SUFFICES ASSUME IInv, Next, NEW x \in Order, Frozen(x)
             PROVE  Frozen(x)' \/ status'[x] = "REFUNDED"
  OBVIOUS
<1> USE DEF Frozen, Becomes, Refundable, IInv, TypeOK
<1>1. ASSUME UNCHANGED <<status, prev>> PROVE Frozen(x)'
  BY <1>1
<1>2. CASE Environment
  BY <1>2, <1>1 DEF Environment, Pay, Close, CreateFull, CreateUpgrade, DaysPass
<1>3. ASSUME NEW w \in Worker, NEW o \in Order, Refunds(w, o)
      PROVE  Frozen(x)' \/ status'[x] = "REFUNDED"
  <2>1. CASE RefundAccept(w, o)
    BY <2>1 DEF RefundAccept
  <2>2. CASE RefundChannel(w, o)
    BY <2>2 DEF RefundChannel
  <2>3. CASE RefundRevert(w, o)
    BY <2>3 DEF RefundRevert
  <2>4. CASE RefundSettle(w, o)
    BY <2>4 DEF RefundSettle
  <2> QED
    BY <1>3, <2>1, <2>2, <2>3, <2>4 DEF Refunds
<1>4. ASSUME NEW w \in Worker, NEW o \in Order, Deliver(w, o) PROVE Frozen(x)'
  BY <1>4 DEF Deliver
<1>5. ASSUME NEW w \in Notifier, NEW o \in Order, Notifies(w, o)
      PROVE  Frozen(x)' \/ status'[x] = "REFUNDED"
  <2>1. CASE Confirm(w, o) \/ Reread(w, o) \/ Reopen(w, o) \/ SecondWall(w, o) \/ Hold(w, o)
    BY <2>1 DEF Confirm, Reread, Reopen, SecondWall, Hold
  <2>2. CASE RefundDeclined(w, o) \/ RefundRead(w, o, FALSE) \/ RefundThrows(w, o)
    BY <2>2 DEF RefundDeclined, RefundRead, RefundThrows
  <2> QED
    BY <1>3, <1>4, <1>5, <2>1, <2>2 DEF Notifies, Handles, Worker
<1>6. ASSUME NEW w \in Courier, NEW o \in Order, Couriers(w, o)
      PROVE  Frozen(x)' \/ status'[x] = "REFUNDED"
  BY <1>4, <1>6 DEF Couriers, Worker, RetryScan
<1>7. ASSUME NEW w \in Refunder, NEW o \in Order, Operates(w, o)
      PROVE  Frozen(x)' \/ status'[x] = "REFUNDED"
  BY <1>3, <1>7 DEF Operates, Worker, RefundRead
<1>8. ASSUME NEW w \in Worker, Crash(w) PROVE Frozen(x)'
  BY <1>8 DEF Crash
<1> QED
  BY <1>2, <1>5, <1>6, <1>7, <1>8 DEF Next

(* A frozen order leaves the freeze only as REFUNDED: handleChannelPaid's    *)
(* markRefundHold cannot be undone by a failed manual refund.                *)
THEOREM FreezeHolds == Spec => FreezeIsReal
  BY Invariance, FreezeStep, PTL DEF Spec, FreezeIsReal
-----------------------------------------------------------------------------
(* The refinement.                                                           *)

LEMMA PromiseInit == Init => Promise!Init
  BY DEF Init, Promise!Init, phase, PhaseOf

(* The orders other than o keep their phase in a step that writes o only.    *)
LEMMA WritesOne ==
  ASSUME IInv, NEW o \in Order, NEW s \in Status, NEW p \in Refundable \cup {"NONE"},
         status' = [status EXCEPT ![o] = s], prev' = [prev EXCEPT ![o] = p]
  PROVE  phase' = [phase EXCEPT ![o] = PhaseOf(IF s = "REFUNDING" THEN p ELSE s)]
  BY DEF phase, IInv, TypeOK

LEMMA PromiseStep == IInv /\ [Next]_vars => [Promise!Next]_Promise!vars
<1> SUFFICES ASSUME IInv, Next PROVE [Promise!Next]_Promise!vars
  <2>1. CASE UNCHANGED vars
    BY <2>1 DEF vars, phase, Promise!vars
  <2> QED
    BY <2>1
<1> USE DEF Promise!vars
<1>1. ASSUME UNCHANGED <<status, prev, credited, revoked>> PROVE UNCHANGED Promise!vars
  BY <1>1 DEF phase
<1>2. ASSUME NEW o \in Order, NEW s \in Status, Becomes(o, s), prev' = prev
      PROVE  phase' = [phase EXCEPT ![o] = PhaseOf(IF s = "REFUNDING" THEN prev[o] ELSE s)]
  <2>1. prev' = [prev EXCEPT ![o] = prev[o]] /\ prev[o] \in Refundable \cup {"NONE"}
    BY <1>2 DEF IInv, TypeOK
  <2> QED
    BY <1>2, <2>1, WritesOne DEF Becomes
<1>3. ASSUME NEW o \in Order PROVE phase[o] = PhaseOf(IF status[o] = "REFUNDING" THEN prev[o] ELSE status[o])
  BY DEF phase
<1>4. phase \in [Order -> Promise!Phase] /\ credited \in [Order -> Nat] /\ revoked \in [Order -> Nat]
  BY DEF phase, PhaseOf, Promise!Phase, IInv, TypeOK
<1>5. CASE Environment
  <2>1. ASSUME NEW o \in Order, NEW s \in {"CREATED", "CLOSED"}, Becomes(o, s), prev' = prev,
               status[o] \in {"NONE", "CREATED"}, UNCHANGED <<credited, revoked>>
        PROVE  UNCHANGED Promise!vars
    <3>1. phase' = [phase EXCEPT ![o] = PhaseOf(IF s = "REFUNDING" THEN prev[o] ELSE s)]
      BY <1>2, <2>1 DEF Status
    <3>2. phase[o] = "unpaid" /\ PhaseOf(IF s = "REFUNDING" THEN prev[o] ELSE s) = "unpaid"
      BY <1>3, <2>1 DEF PhaseOf
    <3> QED
      BY <1>4, <2>1, <3>1, <3>2
  <2> QED
    BY <1>1, <1>5, <2>1 DEF Environment, CreateFull, CreateUpgrade, Pay, Close, DaysPass
<1>6. ASSUME NEW w \in Worker, NEW o \in Order, Deliver(w, o) PROVE [Promise!Next]_Promise!vars
  <2>1. CASE status[o] = "PAID"
    <3>1. phase' = [phase EXCEPT ![o] = "served"]
      BY <1>2, <1>6, <2>1 DEF Deliver, Status, Paid, PhaseOf
    <3>2. phase[o] = "owing"
      BY <1>3, <2>1 DEF PhaseOf
    <3>3. Promise!Serve(o)
      BY <1>6, <2>1, <3>1, <3>2 DEF Deliver, Promise!Serve
    <3> QED
      BY <3>3 DEF Promise!Next
  <2>2. CASE status[o] # "PAID"
    BY <1>1, <1>6, <2>2 DEF Deliver
  <2> QED
    BY <2>1, <2>2
<1>7. ASSUME NEW w \in Worker, NEW o \in Order, Refunds(w, o) PROVE [Promise!Next]_Promise!vars
  <2>1. CASE RefundAccept(w, o)
    <3>1. CASE UNCHANGED <<status, prev>>
      BY <1>1, <2>1, <3>1 DEF RefundAccept
    <3>2. CASE ~ UNCHANGED <<status, prev>>
      <4>1. /\ status[o] \in Refundable
            /\ prev' = [prev EXCEPT ![o] = status[o]]
            /\ Becomes(o, "REFUNDING")
        BY <2>1, <3>2 DEF RefundAccept
      <4>2. phase' = [phase EXCEPT ![o] = PhaseOf(status[o])]
        BY <4>1, WritesOne DEF Becomes, Status, Paid
      <4>3. phase[o] = PhaseOf(status[o])
        BY <1>3, <4>1 DEF Refundable
      <4> QED
        BY <1>4, <2>1, <4>2, <4>3 DEF RefundAccept
    <3> QED
      BY <3>1, <3>2
  <2>2. CASE RefundChannel(w, o)
    BY <1>1, <2>2 DEF RefundChannel
  <2>3. CASE RefundRevert(w, o)
    <3>1. CASE status[o] = "REFUNDING"
      <4>1. prev[o] \in Refundable
        BY <3>1 DEF IInv, Books, PrevKnown
      <4>2. status' = [status EXCEPT ![o] = prev[o]] /\ prev' = [prev EXCEPT ![o] = "NONE"]
        BY <2>3, <3>1, <4>1 DEF RefundRevert, Becomes, Refundable
      <4>3. phase' = [phase EXCEPT ![o] = PhaseOf(prev[o])]
        BY <4>1, <4>2, WritesOne DEF Status, Paid, Refundable
      <4>4. phase[o] = PhaseOf(prev[o])
        BY <1>3, <3>1
      <4> QED
        BY <1>4, <2>3, <4>3, <4>4 DEF RefundRevert
    <3>2. CASE status[o] # "REFUNDING"
      BY <1>1, <2>3, <3>2 DEF RefundRevert
    <3> QED
      BY <3>1, <3>2
  <2>4. CASE RefundSettle(w, o)
    <3>1. CASE status[o] = "REFUNDING"
      <4>1. phase' = [phase EXCEPT ![o] = "returned"]
        BY <1>2, <2>4, <3>1 DEF RefundSettle, Status, Paid, PhaseOf
      <4>2. phase[o] = PhaseOf(prev[o]) /\ prev[o] \in Refundable
        BY <1>3, <3>1 DEF IInv, Books, PrevKnown
      <4>3. CASE worker[w].revoke /\ worker[w].was
        <5>1. phase[o] = "served"
          <6>1. worker[w].at = "settle" /\ worker[w].order = o
            BY <2>4, <3>1 DEF RefundSettle, Ends
          <6>2. Served(o)
            BY <4>3, <6>1 DEF IInv, ThreadsKnow, Knows
          <6> QED
            BY <3>1, <4>2, <6>2 DEF Served, PhaseOf
        <5>2. Promise!ReturnAndRevoke(o)
          BY <2>4, <3>1, <4>1, <4>3, <5>1 DEF RefundSettle, Promise!ReturnAndRevoke
        <5> QED
          BY <5>2 DEF Promise!Next
      <4>4. CASE ~ (worker[w].revoke /\ worker[w].was)
        <5>1. Promise!Return(o)
          <6>1. phase[o] \in {"owing", "served"}
            BY <4>2 DEF PhaseOf, Refundable
          <6>2. UNCHANGED <<credited, revoked>>
            BY <2>4, <3>1, <4>4 DEF RefundSettle
          <6> QED
            BY <4>1, <6>1, <6>2 DEF Promise!Return
        <5> QED
          BY <5>1 DEF Promise!Next
      <4> QED
        BY <4>3, <4>4
    <3>2. CASE status[o] # "REFUNDING"
      BY <1>1, <2>4, <3>2 DEF RefundSettle
    <3> QED
      BY <3>1, <3>2
  <2> QED
    BY <1>7, <2>1, <2>2, <2>3, <2>4 DEF Refunds
<1>8. ASSUME NEW w \in Notifier, NEW o \in Order, Notifies(w, o) PROVE [Promise!Next]_Promise!vars
  <2>1. ASSUME status[o] \in {"CREATED", "CLOSED"}, Becomes(o, "PAID"),
               UNCHANGED <<prev, credited, revoked>>
        PROVE  [Promise!Next]_Promise!vars
    <3>1. phase' = [phase EXCEPT ![o] = "owing"]
      BY <1>2, <2>1 DEF Status, Paid, PhaseOf
    <3>2. phase[o] = "unpaid"
      BY <1>3, <2>1 DEF PhaseOf
    <3>3. Promise!Accept(o)
      BY <2>1, <3>1, <3>2 DEF Promise!Accept
    <3> QED
      BY <3>3 DEF Promise!Next
  <2>2. CASE Confirm(w, o)
    BY <1>1, <2>1, <2>2 DEF Confirm, Becomes
  <2>3. CASE Reopen(w, o)
    BY <1>1, <2>1, <2>3 DEF Reopen
  <2>4. CASE Hold(w, o)
    <3>1. CASE status[o] = "PAID"
      <4>1. phase' = [phase EXCEPT ![o] = "owing"]
        <5>1. Becomes(o, "REFUND_HOLD") /\ prev' = prev
          BY <2>4, <3>1 DEF Hold, Becomes
        <5>2. "REFUND_HOLD" \in Status /\ PhaseOf("REFUND_HOLD") = "owing"
          BY DEF Status, Paid, PhaseOf
        <5> QED
          BY <1>2, <5>1, <5>2
      <4>2. phase[o] = "owing"
        BY <1>3, <3>1 DEF PhaseOf
      <4> QED
        BY <1>4, <2>4, <4>1, <4>2 DEF Hold
    <3>2. CASE status[o] # "PAID"
      BY <1>1, <2>4, <3>2 DEF Hold
    <3> QED
      BY <3>1, <3>2
  <2>5. CASE \/ Reread(w, o) \/ SecondWall(w, o) \/ RefundDeclined(w, o)
             \/ RefundRead(w, o, FALSE) \/ RefundThrows(w, o)
    BY <1>1, <2>5 DEF Reread, SecondWall, RefundDeclined, RefundRead, RefundThrows
  <2> QED
    BY <1>6, <1>7, <1>8, <2>2, <2>3, <2>4, <2>5 DEF Notifies, Handles, Worker
<1>9. ASSUME NEW w \in Courier, NEW o \in Order, Couriers(w, o) PROVE [Promise!Next]_Promise!vars
  BY <1>1, <1>6, <1>9 DEF Couriers, RetryScan, Worker
<1>10. ASSUME NEW w \in Refunder, NEW o \in Order, Operates(w, o) PROVE [Promise!Next]_Promise!vars
  BY <1>1, <1>7, <1>10 DEF Operates, RefundRead, Worker
<1>11. ASSUME NEW w \in Worker, Crash(w) PROVE [Promise!Next]_Promise!vars
  BY <1>1, <1>11 DEF Crash
<1> QED
  BY <1>5, <1>8, <1>9, <1>10, <1>11 DEF Next

(* Callbacks, the retry job, refunds and crashes together implement the      *)
(* promise of module OrderPromise.                                           *)
THEOREM KeepsItsPromise == Spec => KeepsPromise
  BY Invariance, PromiseInit, PromiseStep, PTL DEF Spec, KeepsPromise, Promise!Spec

-----------------------------------------------------------------------------
(* No day of membership comes from nowhere.                                  *)

(* What an order brought is its days, once, or nothing.                      *)
BackingKnown ==
  /\ Backing \in [Order -> Int]
  /\ \A o \in Order :
       /\ credited[o] = revoked[o] => Backing[o] = 0
       /\ credited[o] = revoked[o] + 1 => Backing[o] = item[o].days
       /\ Backing[o] >= 0

LEMMA OrdersBackOnce == IInv => BackingKnown
<1> SUFFICES ASSUME IInv PROVE BackingKnown
  OBVIOUS
<1>1. \A o \in Order : credited[o] \in Nat /\ revoked[o] \in Nat /\ item[o].days \in Nat
  BY DEF IInv, TypeOK, Item
<1>2. \A o \in Order : credited[o] \in {revoked[o], revoked[o] + 1}
  BY <1>1 DEF IInv, Books, CreditedOnce, RevokedOnce
<1>3. \A o \in Order : credited[o] = revoked[o] => Backing[o] = 0
  <2> SUFFICES ASSUME NEW o \in Order, credited[o] = revoked[o] PROVE Backing[o] = 0
    OBVIOUS
  <2>1. credited[o] - revoked[o] = 0
    BY <1>1
  <2>. QED BY <2>1, <1>1 DEF Backing
<1>4. \A o \in Order : credited[o] = revoked[o] + 1 => Backing[o] = item[o].days
  <2> SUFFICES ASSUME NEW o \in Order, credited[o] = revoked[o] + 1 PROVE Backing[o] = item[o].days
    OBVIOUS
  <2>1. credited[o] - revoked[o] = 1
    BY <1>1
  <2>. QED BY <2>1, <1>1 DEF Backing
<1>5. Backing \in [Order -> Int]
  <2>1. \A o \in Order : Backing[o] \in Int
    BY <1>1, <1>2, <1>3, <1>4
  <2>. QED BY <2>1 DEF Backing
<1>. QED BY <1>1, <1>2, <1>3, <1>4, <1>5 DEF BackingKnown

(* The member's days and one order's backing move together.                  *)
LEMMA DaysMove ==
  ASSUME IInv, IInv', DaysAreBacked, NEW o \in Order,
         \A x \in Order \ {o} : Backing'[x] = Backing[x],
         \/ member'.days <= member.days + Backing'[o] - Backing[o]
         \/ member'.days = 0
  PROVE  DaysAreBacked'
<1>1. Backing \in [Order -> Int] /\ Backing' \in [Order -> Int]
      /\ \A x \in Order : Backing'[x] >= 0
  <2>1. BackingKnown /\ BackingKnown'
    BY OrdersBackOnce, PTL
  <2>. QED BY <2>1 DEF BackingKnown
<1> DEFINE old == Backing
           new == Backing'
<1> HIDE DEF old, new
<1>2. SumFunction(new) = SumFunction(old) + new[o] - old[o]
  BY <1>1, FinitelyManyOrders, SumMoves DEF old, new
<1>3. SumFunction(old) \in Int /\ SumFunction(new) >= 0
  BY <1>1, FinitelyManyOrders, SumIsAnInteger, SumOfNaturals DEF old, new
<1>4. member.days \in Nat /\ member'.days \in Nat
  BY DEF IInv, TypeOK, M!Row
<1>5. DaysAreBacked <=> member.days <= SumFunction(old)
  BY DEF DaysAreBacked, old
<1>6. DaysAreBacked' <=> member'.days <= SumFunction(new)
  BY DEF DaysAreBacked, new
<1>7. old[o] \in Int /\ new[o] \in Int
  BY <1>1 DEF old, new
<1>8. \/ member'.days <= member.days + new[o] - old[o]
      \/ member'.days = 0
  BY DEF old, new
<1>. QED BY <1>2, <1>3, <1>4, <1>5, <1>6, <1>7, <1>8

(* Nothing of the books of the days changes, and no day comes.               *)
LEMMA DaysStay ==
  ASSUME IInv, DaysAreBacked, UNCHANGED <<credited, revoked, item>>,
         member'.days \in Nat, member'.days <= member.days
  PROVE  DaysAreBacked'
<1>1. Backing' = Backing
  BY DEF Backing
<1>2. BackingKnown
  BY OrdersBackOnce
<1>3. SumFunction(Backing) \in Int
  BY <1>2, FinitelyManyOrders, SumIsAnInteger DEF BackingKnown
<1>4. DaysAreBacked' <=> member'.days <= SumFunction(Backing)
  BY <1>1 DEF DaysAreBacked
<1>5. member.days \in Nat
  BY DEF IInv, TypeOK, M!Row
<1>. QED BY <1>3, <1>4, <1>5 DEF DaysAreBacked

LEMMA CreationBrings ==
  ASSUME IInv, IInv', DaysAreBacked, NEW o \in Order, NEW p \in Product,
         CreateFull(o, p) \/ CreateUpgrade(o, p)
  PROVE  DaysAreBacked'
<1>1. status[o] = "NONE" /\ UNCHANGED <<member, credited, revoked>>
      /\ \A x \in Order \ {o} : item'[x] = item[x]
  BY DEF CreateFull, CreateUpgrade, IInv, TypeOK
<1>2. credited[o] = 0 /\ revoked[o] = 0
  BY <1>1 DEF IInv, TypeOK, Books, CreditedOnce, RevokedOnce, Served
<1>3. BackingKnown /\ BackingKnown'
  BY OrdersBackOnce, PTL
<1>4. Backing[o] = 0 /\ Backing'[o] = 0
  BY <1>1, <1>2, <1>3 DEF BackingKnown
<1>5. \A x \in Order \ {o} : Backing'[x] = Backing[x]
  BY <1>1 DEF Backing
<1>6. member'.days <= member.days + Backing'[o] - Backing[o]
  BY <1>1, <1>4 DEF IInv, TypeOK, M!Row
<1>. QED BY <1>5, <1>6, DaysMove

LEMMA DeliveryBrings ==
  ASSUME IInv, IInv', DaysAreBacked, NEW w \in Worker, NEW o \in Order, Deliver(w, o)
  PROVE  DaysAreBacked'
<1>1. CASE status[o] = "PAID"
  <2>1. credited' = [credited EXCEPT ![o] = @ + 1] /\ UNCHANGED <<item, revoked>>
        /\ member'.days = member.days + item[o].days
    BY <1>1 DEF Deliver, M!extend
  <2>2. credited[o] = 0 /\ revoked[o] = 0
    BY <1>1 DEF IInv, TypeOK, Books, CreditedOnce, RevokedOnce, Served
  <2>3. BackingKnown /\ BackingKnown'
    BY OrdersBackOnce, PTL
  <2>4. credited'[o] = 1 /\ revoked'[o] = 0 /\ item' = item
        /\ \A x \in Order \ {o} : credited'[x] = credited[x]
    BY <2>1, <2>2 DEF IInv, TypeOK
  <2>5. Backing[o] = 0 /\ Backing'[o] = item[o].days
    BY <2>2, <2>3, <2>4 DEF BackingKnown
  <2>6. \A x \in Order \ {o} : Backing'[x] = Backing[x]
    BY <2>1, <2>4 DEF Backing
  <2>7. member'.days <= member.days + Backing'[o] - Backing[o]
    BY <2>1, <2>5 DEF IInv, TypeOK, M!Row, Item
  <2>. QED BY <2>6, <2>7, DaysMove
<1>2. CASE status[o] # "PAID"
  BY <1>2, DaysStay DEF Deliver, IInv, TypeOK, M!Row
<1>. QED BY <1>1, <1>2

LEMMA SettlementTakes ==
  ASSUME IInv, IInv', DaysAreBacked, NEW w \in Worker, NEW o \in Order, RefundSettle(w, o)
  PROVE  DaysAreBacked'
<1>1. CASE status[o] = "REFUNDING" /\ worker[w].revoke /\ worker[w].was
  <2>1. revoked' = [revoked EXCEPT ![o] = @ + 1] /\ UNCHANGED <<item, credited>>
        /\ member'.days = IF member.days > item[o].days THEN member.days - item[o].days ELSE 0
    BY <1>1 DEF RefundSettle, M!revoke, IInv, TypeOK, M!Row
  <2>2. worker[w].order = o
    BY <1>1 DEF RefundSettle, Ends
  <2>3. credited[o] = 1 /\ revoked[o] = 0
    BY <1>1, <2>2 DEF IInv, TypeOK, Books, CreditedOnce, RevokedOnce, ThreadsKnow, Knows
  <2>4. BackingKnown /\ BackingKnown'
    BY OrdersBackOnce, PTL
  <2>5. revoked'[o] = 1 /\ credited'[o] = 1 /\ \A x \in Order \ {o} : revoked'[x] = revoked[x]
    BY <2>1, <2>3 DEF IInv, TypeOK
  <2>6. Backing[o] = item[o].days /\ Backing'[o] = 0
    BY <2>3, <2>4, <2>5 DEF BackingKnown
  <2>7. \A x \in Order \ {o} : Backing'[x] = Backing[x]
    BY <2>1, <2>5 DEF Backing
  <2>8. member.days \in Nat /\ item[o].days \in Nat
    BY DEF IInv, TypeOK, M!Row, Item
  <2>9. \/ member'.days <= member.days + Backing'[o] - Backing[o]
        \/ member'.days = 0
    BY <2>1, <2>6, <2>8
  <2>. QED BY <2>7, <2>9, DaysMove
<1>2. CASE ~(status[o] = "REFUNDING" /\ worker[w].revoke /\ worker[w].was)
  <2>1. UNCHANGED <<item, credited, revoked, member>>
    BY <1>2 DEF RefundSettle
  <2>. QED BY <2>1, DaysStay DEF IInv, TypeOK, M!Row
<1>. QED BY <1>1, <1>2

(* Every other step leaves the orders' days alone.                           *)
LEMMA OthersLeaveDays ==
  ASSUME IInv, DaysAreBacked, NEW w \in Worker, NEW o \in Order,
         \/ Pay(o) \/ Close(o) \/ Confirm(w, o) \/ SecondWall(w, o) \/ Reread(w, o)
         \/ Reopen(w, o) \/ Hold(w, o) \/ RetryScan(w, o) \/ RefundDeclined(w, o)
         \/ (\E flag \in BOOLEAN : RefundRead(w, o, flag)) \/ RefundThrows(w, o)
         \/ RefundAccept(w, o) \/ RefundChannel(w, o) \/ RefundRevert(w, o)
  PROVE  DaysAreBacked'
<1>1. UNCHANGED <<item, credited, revoked, member>>
  BY DEF Pay, Close, Confirm, SecondWall, Reread, Reopen, Hold, RetryScan, RefundDeclined,
     RefundRead, RefundThrows, RefundAccept, RefundChannel, RefundRevert
<1>2. member.days \in Nat
  BY DEF IInv, TypeOK, M!Row
<1>. QED BY <1>1, <1>2, DaysStay

LEMMA RefundsBacked ==
  ASSUME IInv, IInv', DaysAreBacked, NEW w \in Worker, NEW o \in Order, Refunds(w, o)
  PROVE  DaysAreBacked'
  BY OthersLeaveDays, SettlementTakes DEF Refunds

LEMMA HandlesBacked ==
  ASSUME IInv, IInv', DaysAreBacked, NEW w \in Worker, NEW o \in Order, Handles(w, o)
  PROVE  DaysAreBacked'
  BY OthersLeaveDays, DeliveryBrings, RefundsBacked DEF Handles

LEMMA DaysStayBacked ==
  IInv /\ IInv' /\ DaysAreBacked /\ [Next]_vars => DaysAreBacked'
<1> SUFFICES ASSUME IInv, IInv', DaysAreBacked, [Next]_vars PROVE DaysAreBacked'
  OBVIOUS
<1>0. member.days \in Nat
  BY DEF IInv, TypeOK, M!Row
<1>1. CASE Environment
  <2>1. CASE DaysPass
    <3>1. UNCHANGED <<credited, revoked, item>> /\ member'.days = member.days - 1
          /\ member.days > 0
      BY <2>1 DEF DaysPass, M!isActive, IInv, TypeOK, M!Row
    <3>. QED BY <1>0, <3>1, DaysStay
  <2>2. ASSUME NEW o \in Order, Pay(o) \/ Close(o) PROVE DaysAreBacked'
    <3>1. UNCHANGED <<item, credited, revoked, member>>
      BY <2>2 DEF Pay, Close
    <3>. QED BY <1>0, <3>1, DaysStay
  <2>3. ASSUME NEW o \in Order, NEW p \in Product, CreateFull(o, p) \/ CreateUpgrade(o, p)
        PROVE DaysAreBacked'
    BY <2>3, CreationBrings
  <2>. QED BY <1>1, <2>1, <2>2, <2>3 DEF Environment
<1>2. ASSUME NEW w \in Notifier, NEW o \in Order, Notifies(w, o) PROVE DaysAreBacked'
  BY <1>2, OthersLeaveDays, HandlesBacked DEF Notifies, Worker
<1>3. ASSUME NEW w \in Courier, NEW o \in Order, Couriers(w, o) PROVE DaysAreBacked'
  BY <1>3, OthersLeaveDays, DeliveryBrings DEF Couriers, Worker
<1>4. ASSUME NEW w \in Refunder, NEW o \in Order, Operates(w, o) PROVE DaysAreBacked'
  BY <1>4, OthersLeaveDays, RefundsBacked DEF Operates, Worker
<1>5. ASSUME NEW w \in Worker, Crash(w) PROVE DaysAreBacked'
  BY <1>0, <1>5, DaysStay DEF Crash
<1>6. CASE UNCHANGED vars
  BY <1>0, <1>6, DaysStay DEF vars
<1>. QED BY <1>1, <1>2, <1>3, <1>4, <1>5, <1>6 DEF Next

LEMMA DaysBackedAtFirst == Init => DaysAreBacked
<1> SUFFICES ASSUME Init PROVE DaysAreBacked
  OBVIOUS
<1>1. Backing = [o \in Order |-> 0]
  BY DEF Init, Backing, NoItem
<1>2. SumFunction(Backing) = 0
  BY <1>1, FinitelyManyOrders, SumOfNothing
<1>. QED BY <1>2 DEF DaysAreBacked, Init, M!NoRow

(* MembershipService extend and revoke: a member never holds more days than  *)
(* the delivered orders brought less the days revoked, for any number of     *)
(* orders, threads and catalogue entries.                                    *)
THEOREM MembershipIsBacked == Spec => []DaysAreBacked
  BY Invariance, DaysBackedAtFirst, DaysStayBacked, PTL DEF Spec
=============================================================================
