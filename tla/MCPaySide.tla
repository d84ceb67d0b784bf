------------------------------ MODULE MCPaySide ------------------------------
(* Three protocols of app-pay that share no state with each other, side by   *)
(* side for TLC: every behaviour runs one of them, on its small instance,    *)
(* and leaves the others in their initial states.                            *)
EXTENDS JobLease, RefundApproval, OrderTimeout

VARIABLE protocol

sideVars == <<protocol, vars, approvalVars, timeoutVars>>

SideInit ==
  /\ protocol \in {"lease", "approval", "timeout"}
  /\ Init /\ ApprovalInit /\ TimeoutInit

SideNext ==
  \/ protocol = "lease" /\ Next /\ UNCHANGED <<protocol, approvalVars, timeoutVars>>
  \/ protocol = "approval" /\ ApprovalNext /\ UNCHANGED <<protocol, vars, timeoutVars>>
  \/ protocol = "timeout" /\ TimeoutNext /\ UNCHANGED <<protocol, vars, approvalVars>>

(* The fairness of each module, for the protocol that runs.                  *)
SideFairness ==
  /\ SF_vars(protocol = "lease" /\ Tick)
  /\ \A i \in Instance : /\ WF_vars(protocol = "lease" /\ Tries(i))
                         /\ WF_vars(protocol = "lease" /\ Finish(i))
  /\ \A t \in CallerThread : WF_approvalVars(protocol = "approval" /\ CallerWorks(t))
  /\ \A op \in Operator :
       SF_approvalVars(protocol = "approval"
                       /\ \E t \in CallerThread : FirstCall(t, op) \/ Release(t, op))
  /\ WF_timeoutVars(protocol = "timeout" /\ Scan)
  /\ \A o \in TimedOrder : WF_timeoutVars(protocol = "timeout" /\ Processes(o))

SideSpec == SideInit /\ [][SideNext]_sideVars /\ SideFairness

(* Every variable of the three has its type.                                 *)
SideTypeOK == TypeOK /\ ApprovalTypeOK /\ TimeoutTypeOK

(* JobLease 15-16: a lease of a crashed holder is taken over, the job never  *)
(* stops for good.                                                           *)
LeasedJobKeepsRunning == []<>(protocol = "lease" => \E i \in Instance : Runs(i))

(* Each protocol gets somewhere: a released refund concludes, an overdue     *)
(* order is resolved by the fallback alone, and the leased job runs again    *)
(* and again, whatever crashes, is lost or is delegated in vain.             *)
SideConcludes == RefundConcludes /\ OverdueIsResolved /\ LeasedJobKeepsRunning
=============================================================================
