--------------------------- MODULE RefundApproval ---------------------------
(* The maker-checker gate in front of an order's refund (refundByOps and     *)
(* rejectRefundRequest with pay.refund.require-approval=true): operators     *)
(* call the endpoint on several threads, the approval rows of one order are  *)
(* read, decided and written back in separate statements, and a released     *)
(* call goes on into RefundService.refund.                                   *)
EXTENDS Integers, Sequences

CONSTANTS Operator, NoOne, CallerThread,
          MaxRequests,  \* bound: approval rows ever inserted
          MaxCallerDeaths    \* bound: threads that die between two statements

ASSUME OperatorAssumption == NoOne \notin Operator
ASSUME ApprovalAssumption == MaxRequests \in Nat /\ MaxCallerDeaths \in Nat

VARIABLES
  orderStatus, \* pay_order.status, from DELIVERED on
  approvals,   \* pay_refund_approval rows of the order, oldest first
  caller,      \* [CallerThread -> where the call is, its operator, the row it read]
  callerDeaths

approvalVars == <<orderStatus, approvals, caller, callerDeaths>>

Decision == {"PENDING", "APPROVED", "REJECTED"}
Approval == [maker : Operator, status : Decision, checker : Operator \cup {NoOne}]

NoCall == [at |-> "idle", op |-> NoOne, row |-> 0]
CallState == [at : {"idle", "request", "approve", "reject", "refund", "channel"},
              op : Operator \cup {NoOne}, row : 0 .. MaxRequests]

ApprovalInit ==
  /\ orderStatus = "DELIVERED"
  /\ approvals = <<>>
  /\ caller = [t \in CallerThread |-> NoCall]
  /\ callerDeaths = 0

Refundable == {"PAID", "DELIVERED", "REFUND_HOLD"}

Pending == {i \in DOMAIN approvals : approvals[i].status = "PENDING"}

(* The newest PENDING row, 0 when there is none.                             *)
findPendingRequest ==
  IF Pending = {} THEN 0 ELSE CHOOSE i \in Pending : \A j \in Pending : j <= i

Proceeds(t, place, op, row) ==
  caller' = [caller EXCEPT ![t] = [at |-> place, op |-> op, row |-> row]]

Returns(t) == caller' = [caller EXCEPT ![t] = NoCall]

(* Mutant of Release: the confirming operator is not compared with the maker.*)
ReleaseByAnyone(t, op) ==
  /\ caller[t] = NoCall
  /\ findPendingRequest # 0
  /\ Proceeds(t, "approve", op, findPendingRequest)
  /\ UNCHANGED <<orderStatus, approvals, callerDeaths>>

(* refundByOps finds no request: this call is the maker's.                   *)
FirstCall(t, op) ==
  /\ caller[t] = NoCall
  /\ findPendingRequest = 0
  /\ Proceeds(t, "request", op, 0)
  /\ UNCHANGED <<orderStatus, approvals, callerDeaths>>

(* The order must be refundable at that moment; the order is not touched.    *)
(* Past the bound the insert throws.                                         *)
Request(t) ==
  /\ caller[t].at = "request"
  /\ approvals' = IF orderStatus \in Refundable /\ Len(approvals) < MaxRequests
                  THEN Append(approvals, [maker |-> caller[t].op, status |-> "PENDING",
                                          checker |-> NoOne])
                  ELSE approvals
  /\ Returns(t)
  /\ UNCHANGED <<orderStatus, callerDeaths>>

(* refundByOps with confirm=true finds the request of somebody else.         *)
Release(t, op) ==
  /\ caller[t] = NoCall
  /\ findPendingRequest # 0
  /\ approvals[findPendingRequest].maker # op
  /\ Proceeds(t, "approve", op, findPendingRequest)
  /\ UNCHANGED <<orderStatus, approvals, callerDeaths>>

Decide(t, decision) ==
  approvals' = [approvals EXCEPT ![caller[t].row].status = decision,
                                 ![caller[t].row].checker = caller[t].op]

(* updateById writes the row as this call decided it, whatever it says now.  *)
Approve(t) ==
  /\ caller[t].at = "approve"
  /\ Decide(t, "APPROVED")
  /\ caller' = [caller EXCEPT ![t].at = "refund"]
  /\ UNCHANGED <<orderStatus, callerDeaths>>

RejectCall(t, op) ==
  /\ caller[t] = NoCall
  /\ findPendingRequest # 0
  /\ approvals[findPendingRequest].maker # op
  /\ Proceeds(t, "reject", op, findPendingRequest)
  /\ UNCHANGED <<orderStatus, approvals, callerDeaths>>

RejectRequest(t) ==
  /\ caller[t].at = "reject"
  /\ Decide(t, "REJECTED")
  /\ Returns(t)
  /\ UNCHANGED <<orderStatus, callerDeaths>>

-----------------------------------------------------------------------------
(* RefundService.refund as far as this gate needs it; its races are those of *)
(* module PayOrder.  The automatic refund of the second wall passes no gate  *)
(* and is not here: the order starts delivered.                              *)

RefundAccept(t) ==
  /\ caller[t].at = "refund"
  /\ IF orderStatus = "REFUNDED" THEN Returns(t) /\ UNCHANGED orderStatus
     ELSE /\ caller' = [caller EXCEPT ![t].at = "channel"]
          /\ orderStatus' = "REFUNDING"
  /\ UNCHANGED <<approvals, callerDeaths>>

RefundSucceeds(t) ==
  /\ caller[t].at = "channel"
  /\ orderStatus' = IF orderStatus = "REFUNDING" THEN "REFUNDED" ELSE orderStatus
  /\ Returns(t)
  /\ UNCHANGED <<approvals, callerDeaths>>

RefundFails(t) ==
  /\ caller[t].at = "channel"
  /\ orderStatus' = IF orderStatus = "REFUNDING" THEN "DELIVERED" ELSE orderStatus
  /\ Returns(t)
  /\ UNCHANGED <<approvals, callerDeaths>>

CallerDies(t) ==
  /\ callerDeaths < MaxCallerDeaths /\ callerDeaths' = callerDeaths + 1
  /\ caller[t] # NoCall
  /\ Returns(t)
  /\ UNCHANGED <<orderStatus, approvals>>

CallerWorks(t) ==
  \/ Request(t) \/ Approve(t) \/ RejectRequest(t)
  \/ RefundAccept(t) \/ RefundSucceeds(t) \/ RefundFails(t)

Calls(t, op) == FirstCall(t, op) \/ Release(t, op) \/ RejectCall(t, op)

ApprovalNext ==
  \E t \in CallerThread : \/ CallerWorks(t) \/ CallerDies(t)
                          \/ \E op \in Operator : Calls(t, op)

ApprovalSpec == ApprovalInit /\ [][ApprovalNext]_approvalVars

(* Running calls go on, as threads do; every operator keeps calling the       *)
(* refund endpoint.                                                          *)
ApprovalFairSpec ==
  /\ ApprovalSpec
  /\ \A t \in CallerThread : WF_approvalVars(CallerWorks(t))
  /\ \A op \in Operator :
       SF_approvalVars(\E t \in CallerThread : FirstCall(t, op) \/ Release(t, op))

-----------------------------------------------------------------------------
ApprovalTypeOK ==
  /\ orderStatus \in Refundable \cup {"REFUNDING", "REFUNDED"}
  /\ approvals \in Seq(Approval)
  /\ Len(approvals) <= MaxRequests
  /\ caller \in [CallerThread -> CallState]
  /\ callerDeaths \in 0 .. MaxCallerDeaths

(* No money leaves on one person's word: an order in or after the refund has *)
(* a request that was decided by an operator other than its maker, and a     *)
(* call that releases money works for somebody else than the maker of its    *)
(* row, whichever requests, confirmations and rejections run at the same     *)
(* time and however many requests of the order are pending.                  *)
TwoPeople ==
  /\ orderStatus \in {"REFUNDING", "REFUNDED"} =>
       \E i \in DOMAIN approvals : approvals[i].checker \notin {NoOne, approvals[i].maker}
  /\ \A t \in CallerThread : caller[t].at \in {"approve", "refund", "channel"}
                               => approvals[caller[t].row].maker # caller[t].op

(* Where no thread dies, a refund in flight comes to an end: whoever         *)
(* released it settles or reverts it, whatever the others do to the order.   *)
RefundConcludes ==
  []<>(orderStatus # "REFUNDING" \/ callerDeaths > 0)

(* RefundService 33-34: a refund that stopped between the channel and the    *)
(* database is left in REFUNDING for retry, and a replay converges.          *)
ReplayConverges == []<>(orderStatus # "REFUNDING")

(* The trail of PayInternalController 81 ("the approval trail is in          *)
(* pay_refund_approval"): a refunded order has an APPROVED request.          *)
TrailShowsApproval ==
  orderStatus = "REFUNDED" => \E i \in DOMAIN approvals : approvals[i].status = "APPROVED"
=============================================================================
