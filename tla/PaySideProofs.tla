---------------------------- MODULE PaySideProofs ----------------------------
(* The three protocols beside the order's life, proved for every number of   *)
(* operators, threads, orders, workers and instances and for every capacity: *)
(* types, the two people behind a refund, and the truth of a timeout's       *)
(* completion, the exclusion of the lease.                                   *)
EXTENDS MCPaySide, FiniteSetTheorems, TLAPS

-----------------------------------------------------------------------------
(* JobLease                                                                  *)

(* A running instance owns the row, and its lease has at least the ticks left*)
(* that the run has not used.                                                *)
RunnersHold == \A i \in Instance : at[i] = "running" => owner = i /\ left + ran[i] >= Ttl

IInv == TypeOK /\ RunnersHold

LEMMA InitIInv == Init => IInv
  BY OwnerAssumption, TimeAssumption DEF Init, IInv, TypeOK, RunnersHold, Place

(* With MaxRun <= Ttl a lease that is past belongs to nobody who runs.       *)
LEMMA PastIsFree ==
  ASSUME MaxRun <= Ttl, IInv, NEW i \in Instance, at[i] = "running"
  PROVE  owner = i /\ left >= 0
  BY TimeAssumption DEF IInv, TypeOK, RunnersHold

LEMMA TryTakeOverIInv ==
  ASSUME MaxRun <= Ttl, IInv, NEW i \in Instance, TryTakeOver(i)
  PROVE  IInv'
<1>1. CASE owner = i \/ (owner # NoOwner /\ left < 0)
  <2>1. TypeOK'
    BY <1>1, TimeAssumption DEF IInv, TypeOK, TryTakeOver, Holds, Goes, Place
  <2>2. \A j \in Instance : at[j] = "running" => j = i
    BY <1>1, PastIsFree, TimeAssumption DEF IInv, TypeOK
  <2>3. RunnersHold'
    BY <1>1, <2>2, TimeAssumption DEF IInv, TypeOK, RunnersHold, TryTakeOver, Holds, Goes, Place
  <2>. QED BY <2>1, <2>3 DEF IInv
<1>2. CASE ~(owner = i \/ (owner # NoOwner /\ left < 0))
  BY <1>2, TimeAssumption DEF IInv, TypeOK, RunnersHold, TryTakeOver, Goes, Place
<1>. QED BY <1>1, <1>2

LEMMA TryInsertIInv ==
  ASSUME IInv, NEW i \in Instance, TryInsert(i)
  PROVE  IInv'
<1>1. CASE owner = NoOwner
  <2>1. \A j \in Instance : at[j] # "running"
    BY <1>1, OwnerAssumption DEF IInv, RunnersHold
  <2>. QED
    BY <1>1, <2>1, TimeAssumption DEF IInv, TypeOK, RunnersHold, TryInsert, Holds, Goes, Place
<1>2. CASE owner # NoOwner
  BY <1>2, TimeAssumption DEF IInv, TypeOK, RunnersHold, TryInsert, Goes, Place
<1>. QED BY <1>1, <1>2

LEMMA ProceedIInv ==
  ASSUME IInv, NEW i \in Instance, Proceed(i)
  PROVE  IInv'
  BY TimeAssumption DEF IInv, TypeOK, RunnersHold, Proceed, Goes, Place

LEMMA FinishIInv ==
  ASSUME IInv, NEW i \in Instance, Finish(i)
  PROVE  IInv'
  BY TimeAssumption DEF IInv, TypeOK, RunnersHold, Finish, Runs, Goes, Place

LEMMA CrashIInv ==
  ASSUME IInv, NEW i \in Instance, Crash(i)
  PROVE  IInv'
  BY TimeAssumption DEF IInv, TypeOK, RunnersHold, Crash, Goes, Place

LEMMA TickIInv ==
  ASSUME MaxRun <= Ttl, IInv, Tick
  PROVE  IInv'
<1>1. TypeOK'
  BY TimeAssumption DEF IInv, TypeOK, Tick, Runs
<1>2. ASSUME NEW i \in Instance, at'[i] = "running"
      PROVE  owner' = i /\ left' + ran'[i] >= Ttl
  <2>1. owner = i /\ left >= 0 /\ left + ran[i] >= Ttl /\ ran[i] \in Nat /\ left \in Int
    BY <1>2, PastIsFree, TimeAssumption DEF IInv, TypeOK, RunnersHold, Tick, Runs
  <2>2. left' = left - 1 /\ ran'[i] = ran[i] + 1 /\ owner' = owner
    BY <1>2, <2>1 DEF Tick, Runs
  <2>. QED BY <2>1, <2>2, TimeAssumption
<1>. QED BY <1>1, <1>2 DEF IInv, RunnersHold

LEMMA NextIInv == ASSUME MaxRun <= Ttl, IInv, [Next]_vars PROVE IInv'
<1>1. CASE Tick BY <1>1, TickIInv
<1>2. ASSUME NEW i \in Instance, Tries(i) \/ Finish(i) \/ Crash(i) PROVE IInv'
  BY <1>2, TryTakeOverIInv, TryInsertIInv, ProceedIInv, FinishIInv, CrashIInv DEF Tries
<1>3. CASE UNCHANGED vars
  BY <1>3 DEF vars, IInv, TypeOK, RunnersHold
<1>. QED BY <1>1, <1>2, <1>3 DEF Next

(* No two instances run the job on the lease at once when no run outlasts    *)
(* it, whichever statements of tryAcquire, table errors and crashes          *)
(* interleave (JobLease.tryAcquire, tryTakeOver, tryInsert).                 *)
THEOREM Exclusion == ASSUME MaxRun <= Ttl PROVE Spec => []OnlyOneRuns
<1>1. Init => IInv BY InitIInv
<1>2. IInv /\ [Next]_vars => IInv' BY NextIInv
<1>3. IInv => OnlyOneRuns BY DEF IInv, RunnersHold, OnlyOneRuns
<1>. QED BY <1>1, <1>2, <1>3, PTL DEF Spec

-----------------------------------------------------------------------------
(* RefundApproval                                                            *)

(* What a call knows of the row it read, however many decisions others have  *)
(* written over it since: who made it, and once the call has decided it,     *)
(* that somebody else than its maker did.                                    *)
CallersKnow ==
  \A t \in CallerThread :
    /\ caller[t].at # "idle" => caller[t].op \in Operator
    /\ caller[t].at \in {"approve", "reject", "refund", "channel"} =>
         /\ caller[t].row \in DOMAIN approvals
         /\ approvals[caller[t].row].maker # caller[t].op
    /\ caller[t].at \in {"refund", "channel"} =>
         approvals[caller[t].row].checker \notin {NoOne, approvals[caller[t].row].maker}

MoneyIsChecked ==
  orderStatus \in {"REFUNDING", "REFUNDED"} =>
    \E i \in DOMAIN approvals : approvals[i].checker \notin {NoOne, approvals[i].maker}

ApprovalIInv == ApprovalTypeOK /\ CallersKnow /\ MoneyIsChecked

(* The largest element of a set of bounded numbers: findPendingRequest finds *)
(* a row when there is one.                                                  *)
LEMMA Largest ==
  ASSUME NEW n \in Nat, NEW S \in SUBSET (1 .. n), S # {}
  PROVE  \E i \in S : \A j \in S : j <= i
<1> DEFINE T == {n - i : i \in S}
<1>1. T \subseteq Nat /\ T # {}
  <2>1. \A i \in S : n - i \in Nat /\ n - i \in T
    OBVIOUS
  <2>. QED BY <2>1
<1>2. IsWellFoundedOn(OpToRel(<, Nat), Nat)
  BY NatLessThanWellFounded
<1>3. \E x \in T : \A y \in T : <<y, x>> \notin OpToRel(<, Nat)
  <2> HIDE DEF T
  <2>. QED BY <1>1, <1>2, WFMin
<1>4. PICK x \in T : \A y \in T : ~(y < x)
  BY <1>1, <1>3 DEF OpToRel
<1>5. PICK i \in S : x = n - i
  OBVIOUS
<1>6. \A j \in S : n - j \in T /\ j \in Int /\ i \in Int
  OBVIOUS
<1>7. \A j \in S : ~(n - j < n - i)
  BY <1>4, <1>5, <1>6
<1>. QED BY <1>6, <1>7

LEMMA FindsPending ==
  ASSUME ApprovalTypeOK, findPendingRequest # 0
  PROVE  findPendingRequest \in DOMAIN approvals
<1>1. Len(approvals) \in Nat /\ DOMAIN approvals = 1 .. Len(approvals)
  BY DEF ApprovalTypeOK
<1>2. Pending \in SUBSET (1 .. Len(approvals)) /\ Pending # {}
  BY <1>1 DEF Pending, findPendingRequest
<1>3. \E i \in Pending : \A j \in Pending : j <= i
  BY <1>1, <1>2, Largest
<1>. QED BY <1>1, <1>2, <1>3 DEF findPendingRequest

LEMMA ApprovalInitIInv == ApprovalInit => ApprovalIInv
  BY OperatorAssumption, ApprovalAssumption
  DEF ApprovalInit, ApprovalIInv, ApprovalTypeOK, CallersKnow, MoneyIsChecked, NoCall, CallState,
      Refundable

LEMMA CallsIInv ==
  ASSUME ApprovalIInv, NEW t \in CallerThread, NEW op \in Operator, Calls(t, op)
  PROVE  ApprovalIInv'
<1>1. ApprovalTypeOK' /\ MoneyIsChecked'
  BY FindsPending, OperatorAssumption, ApprovalAssumption
  DEF ApprovalIInv, ApprovalTypeOK, MoneyIsChecked, Calls, FirstCall, Release, RejectCall,
      Proceeds, CallState
<1>2. CallersKnow'
  BY FindsPending, OperatorAssumption, ApprovalAssumption
  DEF ApprovalIInv, ApprovalTypeOK, CallersKnow, Calls, FirstCall, Release, RejectCall,
      Proceeds, CallState
<1>. QED BY <1>1, <1>2 DEF ApprovalIInv

LEMMA DecideKeeps ==
  ASSUME ApprovalIInv, NEW t \in CallerThread, NEW decision \in Decision,
         caller[t].at \in {"approve", "reject"}, Decide(t, decision)
  PROVE  /\ approvals' \in Seq(Approval) /\ Len(approvals') = Len(approvals)
         /\ \A i \in DOMAIN approvals :
              /\ i \in DOMAIN approvals'
              /\ approvals'[i].maker = approvals[i].maker
              /\ approvals'[i].checker = IF i = caller[t].row THEN caller[t].op
                                         ELSE approvals[i].checker
<1>1. /\ caller[t].op \in Operator /\ caller[t].row \in DOMAIN approvals
  BY DEF ApprovalIInv, CallersKnow
<1>2. approvals \in Seq(Approval) /\ DOMAIN approvals = 1 .. Len(approvals)
  BY DEF ApprovalIInv, ApprovalTypeOK
<1> DEFINE row == [approvals[caller[t].row] EXCEPT !.status = decision, !.checker = caller[t].op]
<1>3. approvals[caller[t].row] \in Approval
  BY <1>1, <1>2
<1>4. row \in Approval /\ row.maker = approvals[caller[t].row].maker /\ row.checker = caller[t].op
  BY <1>1, <1>3 DEF Approval, Decision
<1>5. approvals' = [approvals EXCEPT ![caller[t].row] = row]
  BY <1>1, <1>2, <1>3 DEF Decide, Approval
<1> HIDE DEF row
<1>. QED BY <1>1, <1>2, <1>4, <1>5

(* A call returns, or goes on with the operator and the row it has.          *)
LEMMA CallerMoves ==
  ASSUME ApprovalTypeOK, NEW t \in CallerThread, NEW place \in {"refund", "channel"},
         Returns(t) \/ caller' = [caller EXCEPT ![t].at = place]
  PROVE  /\ caller' \in [CallerThread -> CallState]
         /\ \A u \in CallerThread \ {t} : caller'[u] = caller[u]
         /\ caller'[t] = NoCall \/ caller'[t] = [caller[t] EXCEPT !.at = place]
<1>1. caller \in [CallerThread -> CallState] /\ NoCall \in CallState
  BY ApprovalAssumption DEF ApprovalTypeOK, NoCall, CallState
<1> DEFINE on == [caller[t] EXCEPT !.at = place]
<1>2. caller[t] \in CallState
  BY <1>1
<1>3. on \in CallState
  BY <1>2 DEF CallState
<1>4. caller' = [caller EXCEPT ![t] = NoCall] \/ caller' = [caller EXCEPT ![t] = on]
  BY DEF Returns
<1> HIDE DEF on
<1>5. /\ caller' \in [CallerThread -> CallState]
      /\ \A u \in CallerThread \ {t} : caller'[u] = caller[u]
      /\ caller'[t] = NoCall \/ caller'[t] = on
  BY <1>1, <1>3, <1>4
<1>. QED BY <1>5 DEF on

(* Whatever a decision overwrites, the row it writes has another maker.      *)
LEMMA DecisionIInv ==
  ASSUME ApprovalIInv, NEW t \in CallerThread, Approve(t) \/ RejectRequest(t)
  PROVE  ApprovalIInv'
<1>1. /\ approvals' \in Seq(Approval) /\ Len(approvals') = Len(approvals)
      /\ \A i \in DOMAIN approvals :
           /\ i \in DOMAIN approvals'
           /\ approvals'[i].maker = approvals[i].maker
           /\ approvals'[i].checker = IF i = caller[t].row THEN caller[t].op
                                      ELSE approvals[i].checker
  BY DecideKeeps DEF Approve, RejectRequest, Decision
<1>2. /\ caller[t].op \in Operator /\ caller[t].row \in DOMAIN approvals
      /\ approvals[caller[t].row].maker # caller[t].op
  BY DEF ApprovalIInv, CallersKnow, Approve, RejectRequest
<1>3. /\ caller' \in [CallerThread -> CallState]
      /\ \A u \in CallerThread \ {t} : caller'[u] = caller[u]
      /\ caller'[t] = NoCall \/ caller'[t] = [caller[t] EXCEPT !.at = "refund"]
  BY CallerMoves DEF ApprovalIInv, Approve, RejectRequest
<1>a. caller'[t] # NoCall =>
        caller'[t].at = "refund" /\ caller'[t].op = caller[t].op /\ caller'[t].row = caller[t].row
  BY <1>3 DEF ApprovalIInv, ApprovalTypeOK, CallState
<1>4. ApprovalTypeOK' /\ CallersKnow'
  <2>1. ApprovalTypeOK'
    BY <1>1, <1>3 DEF ApprovalIInv, ApprovalTypeOK, Approve, RejectRequest
  <2>2. CallersKnow'
    BY <1>1, <1>2, <1>3, <1>a, OperatorAssumption DEF ApprovalIInv, CallersKnow, NoCall
  <2>. QED BY <2>1, <2>2
<1>5. MoneyIsChecked'
  BY <1>1, <1>2, OperatorAssumption DEF ApprovalIInv, MoneyIsChecked, Approve, RejectRequest
<1>. QED BY <1>4, <1>5 DEF ApprovalIInv

LEMMA RequestIInv ==
  ASSUME ApprovalIInv, NEW t \in CallerThread, Request(t)
  PROVE  ApprovalIInv'
<1>1. /\ approvals' \in Seq(Approval) /\ Len(approvals') <= MaxRequests
      /\ \A i \in DOMAIN approvals : i \in DOMAIN approvals' /\ approvals'[i] = approvals[i]
  <2> DEFINE row == [maker |-> caller[t].op, status |-> "PENDING", checker |-> NoOne]
  <2>1. row \in Approval
    BY DEF ApprovalIInv, CallersKnow, Request, Approval, Decision
  <2>2. approvals' = approvals \/ (Len(approvals) < MaxRequests /\ approvals' = Append(approvals, row))
    BY DEF Request
  <2> HIDE DEF row
  <2>. QED BY <2>1, <2>2, ApprovalAssumption DEF ApprovalIInv, ApprovalTypeOK
<1>2. ApprovalTypeOK'
  BY <1>1, ApprovalAssumption
  DEF ApprovalIInv, ApprovalTypeOK, Request, Returns, NoCall, CallState
<1>3. CallersKnow' /\ MoneyIsChecked'
  BY <1>1 DEF ApprovalIInv, ApprovalTypeOK, CallersKnow, MoneyIsChecked, Request, Returns, NoCall
<1>. QED BY <1>2, <1>3 DEF ApprovalIInv

LEMMA RefundIInv ==
  ASSUME ApprovalIInv, NEW t \in CallerThread,
         RefundAccept(t) \/ RefundSucceeds(t) \/ RefundFails(t) \/ CallerDies(t)
  PROVE  ApprovalIInv'
<1>1. /\ caller' \in [CallerThread -> CallState]
      /\ \A u \in CallerThread \ {t} : caller'[u] = caller[u]
      /\ \/ caller'[t] = NoCall
         \/ caller[t].at = "refund" /\ caller'[t] = [caller[t] EXCEPT !.at = "channel"]
  <2>1. \/ Returns(t)
        \/ caller[t].at = "refund" /\ caller' = [caller EXCEPT ![t].at = "channel"]
    BY DEF RefundAccept, RefundSucceeds, RefundFails, CallerDies
  <2>2. ApprovalTypeOK /\ "channel" \in {"refund", "channel"}
    BY DEF ApprovalIInv
  <2>3. CASE Returns(t)
    BY <2>2, <2>3, CallerMoves DEF Returns, ApprovalTypeOK
  <2>4. CASE caller[t].at = "refund" /\ caller' = [caller EXCEPT ![t].at = "channel"]
    BY <2>2, <2>4, CallerMoves
  <2>. QED BY <2>1, <2>3, <2>4
<1>2. caller'[t] # NoCall =>
        /\ caller[t].at = "refund" /\ caller'[t].at = "channel"
        /\ caller'[t].op = caller[t].op /\ caller'[t].row = caller[t].row
  BY <1>1 DEF ApprovalIInv, ApprovalTypeOK, CallState
<1>3. ApprovalTypeOK'
  BY <1>1, ApprovalAssumption
  DEF ApprovalIInv, ApprovalTypeOK, RefundAccept, RefundSucceeds, RefundFails, CallerDies, Refundable
<1>4. UNCHANGED approvals
  BY DEF RefundAccept, RefundSucceeds, RefundFails, CallerDies
<1>5. CallersKnow'
  BY <1>1, <1>2, <1>4 DEF ApprovalIInv, CallersKnow, NoCall
<1>6. caller[t].at = "refund" => caller[t].row \in DOMAIN approvals
  BY DEF ApprovalIInv, CallersKnow
<1>7. MoneyIsChecked'
  BY <1>4, <1>6 DEF ApprovalIInv, CallersKnow, MoneyIsChecked, RefundAccept, RefundSucceeds,
     RefundFails, CallerDies
<1>. QED BY <1>3, <1>5, <1>7 DEF ApprovalIInv

LEMMA ApprovalNextIInv == ASSUME ApprovalIInv, [ApprovalNext]_approvalVars PROVE ApprovalIInv'
<1>1. CASE UNCHANGED approvalVars
  BY <1>1 DEF approvalVars, ApprovalIInv, ApprovalTypeOK, CallersKnow, MoneyIsChecked
<1>2. ASSUME NEW t \in CallerThread, CallerWorks(t) \/ CallerDies(t) PROVE ApprovalIInv'
  BY <1>2, DecisionIInv, RequestIInv, RefundIInv DEF CallerWorks
<1>. QED BY <1>1, <1>2, CallsIInv DEF ApprovalNext

(* A refund leaves on the word of two: no step lets one through on one       *)
(* person's, whichever requests, confirmations and rejections cross          *)
(* (RefundService.refundByOps, rejectRefundRequest).                         *)
LEMMA ApprovalSound == ApprovalIInv => ApprovalTypeOK /\ TwoPeople
  BY DEF ApprovalIInv, CallersKnow, MoneyIsChecked, TwoPeople

-----------------------------------------------------------------------------
(* OrderTimeout                                                              *)

(* What is known of an order somebody handles: a registered, delegated or    *)
(* expired one was created; one the job looks at is overdue; so is one of a  *)
(* command, when app-task never calls early.                                 *)
HandledWasCreated ==
  /\ \A o \in expired \cup registering : status[o] # "NONE"
  /\ \A o \in TimedOrder : task[o].state # "none" => status[o] # "NONE"

LookedAtIsExpired == \A o \in TimedOrder : job[o] # "out" => o \in expired

CommandsAreDue ==
  MayBeEarly = FALSE =>
    /\ \A i \in DOMAIN queue : queue[i].order \in expired
    /\ \A w \in Worker : working[w] # NoCommand => working[w].order \in expired

TimeoutIInv ==
  /\ TimeoutTypeOK /\ HandledWasCreated /\ LookedAtIsExpired /\ CommandsAreDue
  /\ MayBeEarly = FALSE => CompletedIsTruthful

LEMMA TimeoutInitIInv == TimeoutInit => TimeoutIInv
<1>1. IsFiniteSet({}) /\ Cardinality({}) = 0
  BY FS_EmptySet
<1>. QED
  BY <1>1, TimeoutAssumption
  DEF TimeoutInit, TimeoutIInv, TimeoutTypeOK, HandledWasCreated, LookedAtIsExpired, CommandsAreDue,
      CompletedIsTruthful, NoTask, TimedOrder

LEMMA RegistrationsAreFinite == ASSUME TimeoutTypeOK PROVE IsFiniteSet(registering)
<1>1. MaxTimed \in Int
  BY TimeoutAssumption
<1>2. IsFiniteSet(TimedOrder)
  BY <1>1, FS_Interval DEF TimedOrder
<1>. QED BY <1>2, FS_Subset DEF TimeoutTypeOK

(* The order, its buyer and the clock.                                       *)
LEMMA CreateIInv ==
  ASSUME TimeoutIInv, NEW o \in TimedOrder, Create(o)
  PROVE  TimeoutIInv'
<1>1. IsFiniteSet(registering)
  BY RegistrationsAreFinite DEF TimeoutIInv
<1>2. Cardinality(registering \cup {o}) <= Cardinality(registering) + 1 /\ Cardinality(registering) \in Nat
  <2>1. Cardinality(registering) \in Nat
    BY <1>1, FS_CardinalityType
  <2>2. Cardinality(registering \cup {o}) =
          IF o \in registering THEN Cardinality(registering) ELSE Cardinality(registering) + 1
    BY <1>1, FS_AddElement
  <2>. QED BY <2>1, <2>2
<1>3. Cardinality(registering') <= RegisterCapacity
  <2>1. Cardinality(registering \cup {o}) \in Nat
    BY <1>1, FS_AddElement, FS_CardinalityType
  <2>. QED BY <1>2, <2>1, TimeoutAssumption DEF TimeoutIInv, TimeoutTypeOK, Create
<1>4. TimeoutTypeOK'
  BY <1>3 DEF TimeoutIInv, TimeoutTypeOK, Create, Becomes
<1>5. HandledWasCreated'
  BY DEF TimeoutIInv, TimeoutTypeOK, HandledWasCreated, Create, Becomes
<1>6. LookedAtIsExpired' /\ CommandsAreDue'
  BY DEF TimeoutIInv, LookedAtIsExpired, CommandsAreDue, Create
<1>7. MayBeEarly = FALSE => CompletedIsTruthful'
  BY DEF TimeoutIInv, TimeoutTypeOK, HandledWasCreated, CompletedIsTruthful, Create, Becomes
<1>. QED BY <1>4, <1>5, <1>6, <1>7 DEF TimeoutIInv

LEMMA ExpireIInv ==
  ASSUME TimeoutIInv, NEW o \in TimedOrder, Expire(o)
  PROVE  TimeoutIInv'
  BY DEF TimeoutIInv, TimeoutTypeOK, HandledWasCreated, LookedAtIsExpired, CommandsAreDue,
      CompletedIsTruthful, Expire

LEMMA MoneyIInv ==
  ASSUME TimeoutIInv, NEW o \in TimedOrder,
         Notify(o) \/ \E amount \in {"paid", "wrong"} : PayAtChannel(o, amount)
  PROVE  TimeoutIInv'
<1>1. /\ status' \in [TimedOrder -> {"NONE", "CREATED", "CLOSED", "PAID"}]
      /\ money' \in [TimedOrder -> {"unpaid", "paid", "wrong"}]
      /\ UNCHANGED <<expired, registering, task, queue, working, job, deaths>>
  <2>1. CASE Notify(o)
    BY <2>1 DEF TimeoutIInv, TimeoutTypeOK, Notify, Becomes
  <2>2. ASSUME NEW amount \in {"paid", "wrong"}, PayAtChannel(o, amount)
        PROVE  money' \in [TimedOrder -> {"unpaid", "paid", "wrong"}]
    BY <2>2 DEF TimeoutIInv, TimeoutTypeOK, PayAtChannel
  <2>. QED BY <2>1, <2>2 DEF TimeoutIInv, TimeoutTypeOK, PayAtChannel
<1>a. TimeoutTypeOK'
  BY <1>1 DEF TimeoutIInv, TimeoutTypeOK
<1>2. HandledWasCreated' /\ (MayBeEarly = FALSE => CompletedIsTruthful')
  BY DEF TimeoutIInv, TimeoutTypeOK, HandledWasCreated, CompletedIsTruthful, Notify, PayAtChannel, Becomes
<1>3. LookedAtIsExpired' /\ CommandsAreDue'
  BY DEF TimeoutIInv, LookedAtIsExpired, CommandsAreDue, Notify, PayAtChannel
<1>. QED BY <1>a, <1>2, <1>3 DEF TimeoutIInv

(* The delegation. A task goes on to a state with its calls as they are.     *)
TaskState == {"none", "waiting", "calling", "completed", "failed"}

LEMMA TaskMoves ==
  ASSUME TimeoutTypeOK, NEW o \in TimedOrder, NEW s \in TaskState,
         task' = [task EXCEPT ![o].state = s]
  PROVE  /\ task' \in [TimedOrder -> [state : TaskState, calls : 0 .. MaxCalls]]
         /\ task'[o].state = s
         /\ \A p \in TimedOrder \ {o} : task'[p] = task[p]
<1> DEFINE new == [task[o] EXCEPT !.state = s]
<1>1. task \in [TimedOrder -> [state : TaskState, calls : 0 .. MaxCalls]]
  BY DEF TimeoutTypeOK, TaskState
<1>2. new \in [state : TaskState, calls : 0 .. MaxCalls] /\ new.state = s
  BY <1>1
<1>3. task' = [task EXCEPT ![o] = new]
  OBVIOUS
<1> HIDE DEF new
<1>. QED BY <1>1, <1>2, <1>3

LEMMA UnansweredMoves ==
  ASSUME TimeoutTypeOK, NEW o \in TimedOrder, Unanswered(o)
  PROVE  /\ task' \in [TimedOrder -> [state : TaskState, calls : 0 .. MaxCalls]]
         /\ task'[o].state \in {"waiting", "failed"}
         /\ \A p \in TimedOrder \ {o} : task'[p] = task[p]
<1>1. \E s \in {"waiting", "failed"} : task' = [task EXCEPT ![o].state = s]
  BY DEF Unanswered
<1>. QED BY <1>1, TaskMoves DEF TaskState

(* Steps of the delegation that complete nothing keep the invariant.         *)
LEMMA TaskIInv ==
  ASSUME TimeoutIInv, NEW o \in TimedOrder, status[o] # "NONE",
         task' \in [TimedOrder -> [state : TaskState, calls : 0 .. MaxCalls]],
         task'[o].state # "completed" \/ task[o].state = "completed",
         \A p \in TimedOrder \ {o} : task'[p] = task[p],
         UNCHANGED <<status, expired, money, job, deaths>>,
         registering' \in {registering, registering \ {o}}
  PROVE  /\ HandledWasCreated' /\ LookedAtIsExpired' /\ (MayBeEarly = FALSE => CompletedIsTruthful')
         /\ registering' \subseteq TimedOrder /\ Cardinality(registering') <= RegisterCapacity
<1>1. HandledWasCreated' /\ LookedAtIsExpired'
  BY DEF TimeoutIInv, TimeoutTypeOK, HandledWasCreated, LookedAtIsExpired
<1>2. MayBeEarly = FALSE => CompletedIsTruthful'
  BY DEF TimeoutIInv, CompletedIsTruthful
<1>3. registering' \subseteq TimedOrder
  BY DEF TimeoutIInv, TimeoutTypeOK
<1>4. Cardinality(registering') <= RegisterCapacity
  <2>1. RegisterCapacity \in Nat
    BY TimeoutAssumption
  <2>3. IsFiniteSet(registering)
    BY RegistrationsAreFinite DEF TimeoutIInv
  <2>4. registering' \in SUBSET registering
    OBVIOUS
  <2>5. IsFiniteSet(registering') /\ Cardinality(registering') <= Cardinality(registering)
    BY <2>3, <2>4, FS_Subset
  <2>6. Cardinality(registering') \in Nat /\ Cardinality(registering) \in Nat
    BY <2>3, <2>5, FS_CardinalityType
  <2>. QED BY <2>1, <2>5, <2>6 DEF TimeoutIInv, TimeoutTypeOK
<1>. QED BY <1>1, <1>2, <1>3, <1>4

LEMMA RegisterIInv ==
  ASSUME TimeoutIInv, NEW o \in TimedOrder, Register(o)
  PROVE  TimeoutIInv'
<1>1. status[o] # "NONE"
  BY DEF TimeoutIInv, HandledWasCreated, Register
<1>2. /\ task' \in [TimedOrder -> [state : TaskState, calls : 0 .. MaxCalls]]
      /\ task'[o].state # "completed" \/ task[o].state = "completed"
      /\ \A p \in TimedOrder \ {o} : task'[p] = task[p]
  <2>1. CASE task' = [task EXCEPT ![o].state = "waiting"]
    BY <2>1, TaskMoves DEF TimeoutIInv, TaskState
  <2>2. CASE UNCHANGED task
    BY <2>2 DEF TimeoutIInv, TimeoutTypeOK, TaskState
  <2>. QED BY <2>1, <2>2 DEF Register
<1>3. UNCHANGED <<status, expired, money, queue, working, job, deaths>> /\ registering' = registering \ {o}
  BY DEF Register
<1>4. /\ HandledWasCreated' /\ LookedAtIsExpired' /\ (MayBeEarly = FALSE => CompletedIsTruthful')
      /\ registering' \subseteq TimedOrder /\ Cardinality(registering') <= RegisterCapacity
  BY <1>1, <1>2, <1>3, TaskIInv
<1>5. TimeoutTypeOK' /\ CommandsAreDue'
  BY <1>2, <1>3, <1>4 DEF TimeoutIInv, TimeoutTypeOK, CommandsAreDue, TaskState
<1>. QED BY <1>4, <1>5 DEF TimeoutIInv

LEMMA GiveUpIInv ==
  ASSUME TimeoutIInv, NEW o \in TimedOrder, GiveUp(o)
  PROVE  TimeoutIInv'
<1>1. status[o] # "NONE"
  BY DEF TimeoutIInv, HandledWasCreated, GiveUp
<1>2. /\ task' \in [TimedOrder -> [state : TaskState, calls : 0 .. MaxCalls]]
      /\ task'[o].state \in {"waiting", "failed"}
      /\ \A p \in TimedOrder \ {o} : task'[p] = task[p]
  BY UnansweredMoves DEF TimeoutIInv, GiveUp
<1>3. UNCHANGED <<status, expired, money, registering, queue, working, job, deaths>>
  BY DEF GiveUp
<1>4. /\ HandledWasCreated' /\ LookedAtIsExpired' /\ (MayBeEarly = FALSE => CompletedIsTruthful')
  BY <1>1, <1>2, <1>3, TaskIInv
<1>5. TimeoutTypeOK' /\ CommandsAreDue'
  BY <1>2, <1>3, <1>4 DEF TimeoutIInv, TimeoutTypeOK, CommandsAreDue, TaskState
<1>. QED BY <1>4, <1>5 DEF TimeoutIInv

LEMMA CallIInv ==
  ASSUME TimeoutIInv, NEW o \in TimedOrder, Call(o)
  PROVE  TimeoutIInv'
<1> DEFINE command == [order |-> o, call |-> task[o].calls + 1]
<1>1. /\ status[o] # "NONE" /\ task[o].calls + 1 \in 1 .. MaxCalls
      /\ MayBeEarly = FALSE => o \in expired
  BY TimeoutAssumption DEF TimeoutIInv, TimeoutTypeOK, HandledWasCreated, Call
<1>2. command \in Command
  BY <1>1 DEF Command
<1>3. /\ task' \in [TimedOrder -> [state : TaskState, calls : 0 .. MaxCalls]]
      /\ task'[o].state # "completed"
      /\ \A p \in TimedOrder \ {o} : task'[p] = task[p]
  <2>1. \E s \in {"calling", "failed", "waiting"} :
          task' = [task EXCEPT ![o] = [state |-> s, calls |-> task[o].calls + 1]]
    BY DEF Call
  <2>2. task \in [TimedOrder -> [state : TaskState, calls : 0 .. MaxCalls]]
    BY DEF TimeoutIInv, TimeoutTypeOK, TaskState
  <2>3. task[o].calls + 1 \in 0 .. MaxCalls
    BY <1>1
  <2>. QED BY <2>1, <2>2, <2>3 DEF TaskState
<1>4. UNCHANGED <<status, expired, money, registering, working, job, deaths>>
  BY DEF Call
<1>5. queue' = queue \/ (Len(queue) < QueueCapacity /\ queue' = Append(queue, command))
  BY DEF Call
<1>6. HandledWasCreated' /\ LookedAtIsExpired' /\ (MayBeEarly = FALSE => CompletedIsTruthful')
  BY <1>1, <1>3, <1>4, TaskIInv
<1>7. command.order = o
  OBVIOUS
<1> HIDE DEF command
<1>8. /\ queue' \in Seq(Command) /\ Len(queue') <= QueueCapacity
      /\ \A i \in DOMAIN queue' : (i \in DOMAIN queue /\ queue'[i] = queue[i]) \/ queue'[i] = command
  <2>1. queue \in Seq(Command) /\ Len(queue) <= QueueCapacity /\ QueueCapacity \in Nat
    BY TimeoutAssumption DEF TimeoutIInv, TimeoutTypeOK
  <2>. QED BY <1>2, <1>5, <2>1
<1>9. TimeoutTypeOK'
  BY <1>3, <1>4, <1>8 DEF TimeoutIInv, TimeoutTypeOK, TaskState
<1>10. CommandsAreDue'
  BY <1>1, <1>4, <1>7, <1>8 DEF TimeoutIInv, CommandsAreDue
<1>. QED BY <1>6, <1>9, <1>10 DEF TimeoutIInv

LEMMA TakeIInv ==
  ASSUME TimeoutIInv, NEW w \in Worker, Take(w)
  PROVE  TimeoutIInv'
<1>1. queue \in Seq(Command) /\ queue # <<>> /\ Len(queue) <= QueueCapacity /\ QueueCapacity \in Nat
  BY TimeoutAssumption DEF TimeoutIInv, TimeoutTypeOK, Take
<1>2. /\ Head(queue) \in Command /\ 1 \in DOMAIN queue /\ Head(queue) = queue[1]
      /\ Tail(queue) \in Seq(Command) /\ Len(Tail(queue)) <= QueueCapacity
      /\ \A i \in DOMAIN Tail(queue) : i + 1 \in DOMAIN queue /\ Tail(queue)[i] = queue[i + 1]
  BY <1>1
<1>3. /\ queue' = Tail(queue) /\ working' = [working EXCEPT ![w] = Head(queue)]
      /\ UNCHANGED <<status, expired, money, registering, task, job, deaths>>
  BY DEF Take
<1>4. TimeoutTypeOK'
  BY <1>2, <1>3 DEF TimeoutIInv, TimeoutTypeOK
<1>5. CommandsAreDue'
  BY <1>2, <1>3 DEF TimeoutIInv, TimeoutTypeOK, CommandsAreDue
<1>6. HandledWasCreated' /\ LookedAtIsExpired' /\ (MayBeEarly = FALSE => CompletedIsTruthful')
  BY <1>3 DEF TimeoutIInv, HandledWasCreated, LookedAtIsExpired, CompletedIsTruthful
<1>. QED BY <1>4, <1>5, <1>6 DEF TimeoutIInv

(* A command closes the order, or finds it no longer waiting for payment,    *)
(* and only then is completed.                                               *)
LEMMA ExecuteIInv ==
  ASSUME TimeoutIInv, NEW w \in Worker, Execute(w)
  PROVE  TimeoutIInv'
<1> DEFINE o == working[w].order
<1>1. o \in TimedOrder /\ (MayBeEarly = FALSE => o \in expired)
  BY DEF TimeoutIInv, TimeoutTypeOK, CommandsAreDue, Execute, Command
<1>2. /\ status' \in [TimedOrder -> {"NONE", "CREATED", "CLOSED", "PAID"}]
      /\ \A p \in TimedOrder \ {o} : status'[p] = status[p]
      /\ status[o] # "NONE" => status'[o] # "NONE"
      /\ status[o] # "CREATED" => status'[o] # "CREATED"
      /\ MayBeEarly = FALSE => status'[o] # "CREATED"
  BY <1>1 DEF TimeoutIInv, TimeoutTypeOK, Execute, Becomes
<1>3. /\ task' \in [TimedOrder -> [state : TaskState, calls : 0 .. MaxCalls]]
      /\ \A p \in TimedOrder \ {o} : task'[p] = task[p]
      /\ task[o].state = "none" => task'[o].state = "none"
  <2>1. CASE UNCHANGED task
    BY <2>1 DEF TimeoutIInv, TimeoutTypeOK, TaskState
  <2>2. CASE task[o].state = "calling" /\ task' = [task EXCEPT ![o].state = "completed"]
    BY <1>1, <2>2, TaskMoves DEF TimeoutIInv, TaskState
  <2>3. task[o] = [state |-> "calling", calls |-> working[w].call] => task[o].state = "calling"
    OBVIOUS
  <2>. QED BY <2>1, <2>2, <2>3 DEF Execute, Answers
<1>4. /\ working' = [working EXCEPT ![w] = NoCommand]
      /\ UNCHANGED <<expired, money, registering, queue, job, deaths>>
  BY DEF Execute
<1> HIDE DEF o
<1>5. TimeoutTypeOK'
  BY <1>2, <1>3, <1>4 DEF TimeoutIInv, TimeoutTypeOK, TaskState
<1>6. CommandsAreDue'
  BY <1>4 DEF TimeoutIInv, TimeoutTypeOK, CommandsAreDue
<1>7. HandledWasCreated'
  BY <1>1, <1>2, <1>3, <1>4 DEF TimeoutIInv, TimeoutTypeOK, HandledWasCreated
<1>8. LookedAtIsExpired' /\ (MayBeEarly = FALSE => CompletedIsTruthful')
  BY <1>1, <1>2, <1>3, <1>4 DEF TimeoutIInv, LookedAtIsExpired, CompletedIsTruthful
<1>. QED BY <1>5, <1>6, <1>7, <1>8 DEF TimeoutIInv

LEMMA ExecuteFailsIInv ==
  ASSUME TimeoutIInv, NEW w \in Worker, ExecuteFails(w)
  PROVE  TimeoutIInv'
<1> DEFINE o == working[w].order
<1>1. o \in TimedOrder
  BY DEF TimeoutIInv, TimeoutTypeOK, ExecuteFails, Command
<1>2. /\ task' \in [TimedOrder -> [state : TaskState, calls : 0 .. MaxCalls]]
      /\ task'[o].state # "completed" \/ task[o].state = "completed"
      /\ \A p \in TimedOrder \ {o} : task'[p] = task[p]
      /\ status[o] # "NONE" \/ UNCHANGED task
  <2>1. CASE UNCHANGED task
    BY <2>1 DEF TimeoutIInv, TimeoutTypeOK, TaskState
  <2>2. CASE task[o].state = "calling" /\ Unanswered(o)
    BY <1>1, <2>2, UnansweredMoves DEF TimeoutIInv, HandledWasCreated
  <2>3. task[o] = [state |-> "calling", calls |-> working[w].call] => task[o].state = "calling"
    OBVIOUS
  <2>. QED BY <2>1, <2>2, <2>3 DEF ExecuteFails
<1>3. /\ working' = [working EXCEPT ![w] = NoCommand]
      /\ UNCHANGED <<status, expired, money, registering, queue, job, deaths>>
  BY DEF ExecuteFails
<1> HIDE DEF o
<1>4. HandledWasCreated' /\ LookedAtIsExpired' /\ (MayBeEarly = FALSE => CompletedIsTruthful')
  <2>1. CASE UNCHANGED task
    BY <1>3, <2>1 DEF TimeoutIInv, HandledWasCreated, LookedAtIsExpired, CompletedIsTruthful
  <2>. QED BY <1>1, <1>2, <1>3, <2>1, TaskIInv
<1>5. TimeoutTypeOK'
  BY <1>2, <1>3 DEF TimeoutIInv, TimeoutTypeOK, TaskState
<1>6. CommandsAreDue'
  BY <1>3 DEF TimeoutIInv, TimeoutTypeOK, CommandsAreDue
<1>. QED BY <1>4, <1>5, <1>6 DEF TimeoutIInv

-----------------------------------------------------------------------------
(* The fallback job, and the death of the process.                           *)
LEMMA JobIInv ==
  ASSUME TimeoutIInv, NEW o \in TimedOrder, Processes(o)
  PROVE  TimeoutIInv'
<1>1. /\ job' \in [TimedOrder -> {"out", "listed", "unpaid", "paid", "wrong", "unknown"}]
      /\ \A p \in TimedOrder : job'[p] # "out" => job[p] # "out"
  <2>1. CASE Query(o)
    <3>1. PICK answer \in {money[o], "unknown"} : job' = [job EXCEPT ![o] = answer]
      BY <2>1 DEF Query
    <3>2. answer \in {"unpaid", "paid", "wrong", "unknown"}
      BY <3>1 DEF TimeoutIInv, TimeoutTypeOK
    <3>. QED BY <2>1, <3>1, <3>2 DEF Query, TimeoutIInv, TimeoutTypeOK
  <2>2. CASE CloseListed(o) \/ AcceptListed(o)
    BY <2>2 DEF TimeoutIInv, TimeoutTypeOK, CloseListed, AcceptListed, Leaves
  <2>. QED BY <2>1, <2>2 DEF Processes
<1>2. /\ status' \in [TimedOrder -> {"NONE", "CREATED", "CLOSED", "PAID"}]
      /\ \A p \in TimedOrder : /\ status[p] # "NONE" => status'[p] # "NONE"
                               /\ status[p] # "CREATED" => status'[p] # "CREATED"
  BY DEF TimeoutIInv, TimeoutTypeOK, Processes, Query, CloseListed, AcceptListed, Becomes
<1>3. UNCHANGED <<expired, money, registering, task, queue, working, deaths>>
  BY DEF Processes, Query, CloseListed, AcceptListed
<1>4. TimeoutTypeOK'
  BY <1>1, <1>2, <1>3 DEF TimeoutIInv, TimeoutTypeOK
<1>5. HandledWasCreated'
  BY <1>2, <1>3 DEF TimeoutIInv, TimeoutTypeOK, HandledWasCreated
<1>6. LookedAtIsExpired' /\ CommandsAreDue' /\ (MayBeEarly = FALSE => CompletedIsTruthful')
  BY <1>1, <1>2, <1>3 DEF TimeoutIInv, LookedAtIsExpired, CommandsAreDue, CompletedIsTruthful
<1>. QED BY <1>4, <1>5, <1>6 DEF TimeoutIInv

LEMMA ScanIInv == ASSUME TimeoutIInv, Scan PROVE TimeoutIInv'
<1>1. UNCHANGED <<status, expired, money, registering, task, queue, working, deaths>>
  BY DEF Scan
<1>2. /\ job' \in [TimedOrder -> {"out", "listed", "unpaid", "paid", "wrong", "unknown"}]
      /\ \A o \in TimedOrder : job'[o] # "out" => o \in expired
  BY DEF Scan, Listed, Overdue
<1>3. TimeoutTypeOK' /\ LookedAtIsExpired'
  BY <1>1, <1>2 DEF TimeoutIInv, TimeoutTypeOK, LookedAtIsExpired
<1>4. HandledWasCreated' /\ CommandsAreDue' /\ (MayBeEarly = FALSE => CompletedIsTruthful')
  BY <1>1 DEF TimeoutIInv, HandledWasCreated, CommandsAreDue, CompletedIsTruthful
<1>. QED BY <1>3, <1>4 DEF TimeoutIInv

LEMMA ProcessDiesIInv == ASSUME TimeoutIInv, ProcessDies PROVE TimeoutIInv'
<1>1. /\ UNCHANGED <<status, expired, money>> /\ registering' = {} /\ queue' = <<>>
      /\ working' = [w \in Worker |-> NoCommand] /\ job' = [o \in TimedOrder |-> "out"]
      /\ deaths' \in 0 .. MaxDeaths
  BY TimeoutAssumption DEF ProcessDies, TimeoutIInv, TimeoutTypeOK
<1>2. /\ task' \in [TimedOrder -> [state : TaskState, calls : 0 .. MaxCalls]]
      /\ \A o \in TimedOrder : /\ task'[o].state = "completed" => task[o].state = "completed"
                               /\ task'[o].state # "none" => task[o].state # "none"
  <2>1. task \in [TimedOrder -> [state : TaskState, calls : 0 .. MaxCalls]]
    BY DEF TimeoutIInv, TimeoutTypeOK, TaskState
  <2> DEFINE after(o) == IF task[o].state # "calling" THEN task[o].state
                         ELSE IF task[o].calls = MaxCalls THEN "failed" ELSE "waiting"
  <2>2. task' = [o \in TimedOrder |-> [task[o] EXCEPT !.state = after(o)]]
    BY DEF ProcessDies
  <2>3. \A o \in TimedOrder : after(o) \in TaskState
    BY <2>1 DEF TaskState
  <2>4. \A o \in TimedOrder : /\ [task[o] EXCEPT !.state = after(o)] \in [state : TaskState, calls : 0 .. MaxCalls]
                              /\ task'[o].state = after(o)
    <3> HIDE DEF after
    <3>. QED BY <2>1, <2>2, <2>3
  <2>5. task' \in [TimedOrder -> [state : TaskState, calls : 0 .. MaxCalls]]
    <3> HIDE DEF after
    <3>. QED BY <2>2, <2>4
  <2>. QED BY <2>4, <2>5
<1>3. Cardinality({}) = 0
  BY FS_EmptySet
<1>4. TimeoutTypeOK'
  <2>1. Cardinality(registering') <= RegisterCapacity /\ registering' \subseteq TimedOrder
    BY <1>1, <1>3, TimeoutAssumption
  <2>2. queue' \in Seq(Command) /\ Len(queue') <= QueueCapacity
    BY <1>1, TimeoutAssumption
  <2>. QED BY <1>1, <1>2, <2>1, <2>2 DEF TimeoutIInv, TimeoutTypeOK, TaskState
<1>5. HandledWasCreated' /\ LookedAtIsExpired' /\ CommandsAreDue'
      /\ (MayBeEarly = FALSE => CompletedIsTruthful')
  BY <1>1, <1>2 DEF TimeoutIInv, TimeoutTypeOK, HandledWasCreated, LookedAtIsExpired,
     CommandsAreDue, CompletedIsTruthful
<1>. QED BY <1>4, <1>5 DEF TimeoutIInv

LEMMA TimeoutNextIInv == ASSUME TimeoutIInv, [TimeoutNext]_timeoutVars PROVE TimeoutIInv'
<1>1. CASE UNCHANGED timeoutVars
  BY <1>1 DEF timeoutVars, TimeoutIInv, TimeoutTypeOK, HandledWasCreated, LookedAtIsExpired,
     CommandsAreDue, CompletedIsTruthful
<1>2. ASSUME NEW o \in TimedOrder,
             \/ Create(o) \/ Expire(o) \/ Notify(o) \/ Delegates(o) \/ Processes(o)
             \/ \E amount \in {"paid", "wrong"} : PayAtChannel(o, amount)
      PROVE  TimeoutIInv'
  BY <1>2, CreateIInv, ExpireIInv, MoneyIInv, RegisterIInv, CallIInv, GiveUpIInv, JobIInv DEF Delegates
<1>3. ASSUME NEW w \in Worker, Executes(w) PROVE TimeoutIInv'
  BY <1>3, TakeIInv, ExecuteIInv, ExecuteFailsIInv DEF Executes
<1>. QED BY <1>1, <1>2, <1>3, ScanIInv, ProcessDiesIInv DEF TimeoutNext

(* Only an overdue order waiting for payment is closed.                      *)
LEMMA TimeoutStep ==
  ASSUME TimeoutIInv, [TimeoutNext]_timeoutVars, NEW o \in TimedOrder,
         status[o] # "CLOSED", status'[o] = "CLOSED"
  PROVE  status[o] = "CREATED" /\ o \in expired
<1>1. CASE UNCHANGED timeoutVars
  BY <1>1 DEF timeoutVars
<1>2. ASSUME NEW p \in TimedOrder,
             \/ Create(p) \/ Expire(p) \/ Notify(p) \/ Delegates(p)
             \/ \E amount \in {"paid", "wrong"} : PayAtChannel(p, amount)
      PROVE  FALSE
  BY <1>2 DEF TimeoutIInv, TimeoutTypeOK, Create, Expire, Notify, Delegates, Register, Call, GiveUp,
     PayAtChannel, Becomes
<1>3. ASSUME NEW p \in TimedOrder, Processes(p) PROVE status[o] = "CREATED" /\ o \in expired
  BY <1>3 DEF TimeoutIInv, TimeoutTypeOK, LookedAtIsExpired, Processes, Query, CloseListed,
     AcceptListed, Becomes
<1>4. ASSUME NEW w \in Worker, Executes(w) PROVE status[o] = "CREATED" /\ o \in expired
  BY <1>4 DEF TimeoutIInv, TimeoutTypeOK, Executes, Take, Execute, ExecuteFails, Becomes
<1>5. CASE Scan \/ ProcessDies
  BY <1>5 DEF Scan, ProcessDies
<1>. QED BY <1>1, <1>2, <1>3, <1>4, <1>5 DEF TimeoutNext

-----------------------------------------------------------------------------
(* The three side by side.                                                   *)

(* The lease keeps its types without an assumption on the length of runs.    *)
LEMMA LeaseTypeOK == ASSUME TypeOK, [Next]_vars PROVE TypeOK'
<1>1. CASE Tick
  BY <1>1, TimeAssumption DEF TypeOK, Tick, Runs
<1>2. ASSUME NEW i \in Instance, Tries(i) \/ Finish(i) PROVE TypeOK'
  BY <1>2, TimeAssumption
  DEF TypeOK, Tries, TryTakeOver, TryInsert, Proceed, Finish, Holds, Goes, Place
<1>3. ASSUME NEW i \in Instance, Crash(i) PROVE TypeOK'
  BY <1>3, TimeAssumption DEF TypeOK, Crash, Goes, Place
<1>4. CASE UNCHANGED vars
  BY <1>4 DEF vars, TypeOK
<1>. QED BY <1>1, <1>2, <1>3, <1>4 DEF Next

SideIInv == TypeOK /\ ApprovalIInv /\ TimeoutIInv

LEMMA SideInitIInv == SideInit => SideIInv
  BY InitIInv, ApprovalInitIInv, TimeoutInitIInv DEF SideInit, SideIInv, IInv

LEMMA SideParts ==
  [SideNext]_sideVars => [Next]_vars /\ [ApprovalNext]_approvalVars /\ [TimeoutNext]_timeoutVars
  BY DEF SideNext, sideVars, vars, approvalVars, timeoutVars

LEMMA SideNextIInv == SideIInv /\ [SideNext]_sideVars => SideIInv'
  BY SideParts, LeaseTypeOK, ApprovalNextIInv, TimeoutNextIInv DEF SideIInv

(* Every variable of lease, approval and timeout keeps its type, and the     *)
(* queues their capacities, for instances, operators, threads, orders and    *)
(* workers of any number.                                                    *)
THEOREM SideTypeCorrect == SideSpec => []SideTypeOK
<1>1. SideIInv => SideTypeOK
  BY DEF SideIInv, SideTypeOK, ApprovalIInv, TimeoutIInv
<1>. QED BY <1>1, SideInitIInv, SideNextIInv, PTL DEF SideSpec

(* No refund leaves on one person's word, however many operators, threads    *)
(* and requests there are (RefundService.refundByOps, rejectRefundRequest).  *)
THEOREM TwoPeopleRefund == SideSpec => []TwoPeople
<1>1. SideIInv => TwoPeople
  BY ApprovalSound DEF SideIInv
<1>. QED BY <1>1, SideInitIInv, SideNextIInv, PTL DEF SideSpec

(* What app-task records as completed no longer waits for payment, provided  *)
(* app-task does not call before the deadline (TimeoutExecutionQueue.submit, *)
(* TimeoutExecutionService.execute).                                         *)
THEOREM CompletionIsTrue == ASSUME MayBeEarly = FALSE PROVE SideSpec => []CompletedIsTruthful
<1>1. SideIInv => CompletedIsTruthful
  BY DEF SideIInv, TimeoutIInv
<1>. QED BY <1>1, SideInitIInv, SideNextIInv, PTL DEF SideSpec

(* A timeout closes an order only out of CREATED and after its deadline, for *)
(* every capacity, however early app-task calls and however old the commands *)
(* and lists are it acts on (OrderTimeoutJob, TimeoutExecutionService).      *)
THEOREM OnlyOverdueClose == SideSpec => ClosesOnlyOverdue
<1>1. SideIInv /\ [SideNext]_sideVars =>
        [\A o \in TimedOrder : status[o] # "CLOSED" /\ status'[o] = "CLOSED"
                              => status[o] = "CREATED" /\ o \in expired]_timeoutVars
  BY SideParts, TimeoutStep DEF SideIInv
<1>. QED BY <1>1, SideInitIInv, SideNextIInv, PTL DEF SideSpec, ClosesOnlyOverdue
=============================================================================
