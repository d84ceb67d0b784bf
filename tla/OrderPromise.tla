---------------------------- MODULE OrderPromise ----------------------------
(* What the payment service promises of each order, with no threads, no      *)
(* channel and no refund protocol: money that arrived is owed until it is    *)
(* answered by membership days (once) or by a refund (for good), and days    *)
(* are taken back at most once, from an order that was served.               *)
EXTENDS Naturals

CONSTANT Order

VARIABLES phase,    \* [Order -> Phase]
          credited, \* how many times the order's days were added to the member
          revoked   \* how many times they were subtracted

vars == <<phase, credited, revoked>>

Phase == {"unpaid", "owing", "served", "returned"}

TypeOK == /\ phase \in [Order -> Phase]
          /\ credited \in [Order -> Nat]
          /\ revoked \in [Order -> Nat]

Init == /\ phase = [o \in Order |-> "unpaid"]
        /\ credited = [o \in Order |-> 0]
        /\ revoked = [o \in Order |-> 0]

Accept(o) == /\ phase[o] = "unpaid"
             /\ phase' = [phase EXCEPT ![o] = "owing"]
             /\ UNCHANGED <<credited, revoked>>

Serve(o) == /\ phase[o] = "owing"
            /\ phase' = [phase EXCEPT ![o] = "served"]
            /\ credited' = [credited EXCEPT ![o] = @ + 1]
            /\ UNCHANGED revoked

(* A refund that leaves the days alone: nothing was served, or the operator  *)
(* asked to keep the membership.                                             *)
Return(o) == /\ phase[o] \in {"owing", "served"}
             /\ phase' = [phase EXCEPT ![o] = "returned"]
             /\ UNCHANGED <<credited, revoked>>

ReturnAndRevoke(o) == /\ phase[o] = "served"
                      /\ phase' = [phase EXCEPT ![o] = "returned"]
                      /\ revoked' = [revoked EXCEPT ![o] = @ + 1]
                      /\ UNCHANGED credited

Next == \E o \in Order : Accept(o) \/ Serve(o) \/ Return(o) \/ ReturnAndRevoke(o)

Spec == Init /\ [][Next]_vars
=============================================================================
