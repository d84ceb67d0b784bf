------------------------------ MODULE ChatTurn ------------------------------
(***************************************************************************)
(* The chat turns of one app-ts process: ChatService.askStream with the    *)
(* weighted admission queue (services/admission.ts) in front of the agent, *)
(* the per-session lock of the agent lifecycle behind it, the assistant    *)
(* message every turn opens and must close, and the two things that cut a  *)
(* turn short: the client that goes away and the turn deadline.            *)
(*                                                                         *)
(* A step is what the event loop runs between two awaits that really wait  *)
(* (a timer, the store, the model).  The frames of a turn are left out:    *)
(* the route writes each one without waiting, so a frame is a place where  *)
(* a turn can be cut, never a place where another turn can run.            *)
(***************************************************************************)
EXTENDS Integers, FiniteSets, SequencesExt

CONSTANTS
    Lane,           \* one client each; a lane asks one turn after another
    SessionOf,      \* [Lane -> session]: the chat session a lane talks in
    BaseWeight,     \* [Lane -> Nat]: scheduling.tierWeights of its tier
    Options,        \* pairs of scheduling.maxConcurrent and queueMaxSize
    AgingWindow,    \* scheduling.agingWindowMs, in ticks
    AgingStep,      \* scheduling.agingStep
    QueueTimeout,   \* scheduling.queueTimeoutMs, in ticks
    MaxAsks         \* bound: turns asked per lane

ASSUME TurnAssumption ==
    /\ IsFiniteSet(Lane)
    /\ SessionOf \in [Lane -> {SessionOf[l] : l \in Lane}]
    /\ BaseWeight \in [Lane -> Nat]
    /\ Options \subseteq [maxConcurrent : Nat \ {0}, queueMaxSize : Nat]
    /\ AgingWindow \in Nat \ {0} /\ AgingStep \in Nat /\ QueueTimeout \in Nat \ {0}
    /\ MaxAsks \in Nat

VARIABLES
    pc,       \* where the turn of a lane is
    asks,     \* turns the lane has asked
    closed,   \* the client's connection is closed (onClientAbort)
    expired,  \* the turn timer has fired (deadlineHit)
    verdict,  \* the status the turn closes its message with
    excused,  \* history: a call of the store failed in a place that is known to
              \* leave the message pending (before the try block, or the
              \* finalizing write itself)
    msg,      \* status of the assistant message of the lane's last turn
    ticket,   \* state of the lane's AdmissionTicket
    active,   \* WeightedAdmissionQueue.active
    waiters,  \* WeightedAdmissionQueue.waiters, in enqueue (seq) order
    waited,   \* ticks each waiter has waited (Date.now() - enqueuedAt)
    opts,     \* the queue's options, read once when the process starts
    lockLine  \* per session: the turns in its promise chain, the holder first

turnVars == <<pc, asks, closed, expired, verdict, excused, msg,
              ticket, active, waiters, waited, lockLine, opts>>

Sessions == {SessionOf[l] : l \in Lane}
Steps == {"idle", "prepare", "enter", "queued", "dispatch", "lock", "stream",
          "finalize", "complete"}

TurnInit ==
    /\ pc = [l \in Lane |-> "idle"]
    /\ asks = [l \in Lane |-> 0]
    /\ closed = [l \in Lane |-> FALSE]
    /\ expired = [l \in Lane |-> FALSE]
    /\ verdict = [l \in Lane |-> "done"]
    /\ excused = [l \in Lane |-> FALSE]
    /\ msg = [l \in Lane |-> "none"]
    /\ ticket = [l \in Lane |-> "none"]
    /\ active = 0
    /\ waiters = <<>>
    /\ waited = [l \in Lane |-> 0]
    /\ lockLine = [s \in Sessions |-> <<>>]
    /\ opts \in Options

(***************************************************************************)
(* The admission queue.                                                    *)
(***************************************************************************)
\* Mutant: waiting does not age.
EffectiveWeightUnaged(l) == BaseWeight[l]

EffectiveWeight(l) == BaseWeight[l] + (waited[l] \div AgingWindow) * AgingStep

\* sortKey and compare: the higher weight first, then the older ticket.
Precedes(i, j) ==
    \/ EffectiveWeight(waiters[i]) > EffectiveWeight(waiters[j])
    \/ /\ EffectiveWeight(waiters[i]) = EffectiveWeight(waiters[j])
       /\ i < j

BestWaiter == CHOOSE i \in DOMAIN waiters :
                 \A j \in DOMAIN waiters \ {i} : Precedes(i, j)

\* release(ticket), with the wakeNext() it ends in.
GiveBack(l) ==
    IF ticket[l] # "granted"
    THEN UNCHANGED <<ticket, active, waiters, waited>>
    ELSE IF waiters = <<>> \/ active - 1 >= opts.maxConcurrent
    THEN /\ ticket' = [ticket EXCEPT ![l] = "released"]
         /\ active' = active - 1
         /\ UNCHANGED <<waiters, waited>>
    ELSE LET next == waiters[BestWaiter] IN
         /\ ticket' = [ticket EXCEPT ![l] = "released", ![next] = "granted"]
         /\ waiters' = RemoveAt(waiters, BestWaiter)
         /\ waited' = [waited EXCEPT ![next] = 0]
         /\ UNCHANGED active

\* cancel(ticket): the queued ticket leaves the queue.
Withdraw(l) ==
    /\ ticket' = [ticket EXCEPT ![l] = "cancelled"]
    /\ \E i \in DOMAIN waiters : waiters[i] = l /\ waiters' = RemoveAt(waiters, i)
    /\ waited' = [waited EXCEPT ![l] = 0]
    /\ UNCHANGED active

(***************************************************************************)
(* A turn.                                                                 *)
(***************************************************************************)
Goto(l, step) == pc' = [pc EXCEPT ![l] = step]
Aborted(l) == closed[l] \/ expired[l]
Cuttable == {"enter", "queued", "dispatch", "lock", "stream"}

\* The turn is over with this status.  From here on neither the client nor
\* the timer matters: the finally of askStream removes both.
Close(l, status) ==
    /\ verdict' = [verdict EXCEPT ![l] = status]
    /\ closed' = [closed EXCEPT ![l] = FALSE]
    /\ expired' = [expired EXCEPT ![l] = FALSE]
    /\ Goto(l, "finalize")

\* The quota gate has let the turn in: beginTurn writes the user message and
\* the pending assistant message.
Ask(l) ==
    /\ pc[l] = "idle" /\ asks[l] < MaxAsks
    /\ asks' = [asks EXCEPT ![l] = @ + 1]
    /\ msg' = [msg EXCEPT ![l] = "pending"]
    /\ ticket' = [ticket EXCEPT ![l] = "none"]
    /\ verdict' = [verdict EXCEPT ![l] = "done"]
    /\ closed' = [closed EXCEPT ![l] = FALSE]
    /\ expired' = [expired EXCEPT ![l] = FALSE]
    /\ excused' = [excused EXCEPT ![l] = FALSE]
    /\ Goto(l, "prepare")
    /\ UNCHANGED <<active, waiters, waited, lockLine, opts>>

\* recentMessages, hydrateHistoryImages, buildExtraSystem: between beginTurn
\* and the try block.  When one of them throws nothing closes the message.
Prepare(l) ==
    /\ pc[l] = "prepare"
    /\ \/ /\ Goto(l, "enter")
          /\ UNCHANGED <<closed, excused>>
       \/ /\ Goto(l, "idle")
          /\ excused' = [excused EXCEPT ![l] = TRUE]
          /\ closed' = [closed EXCEPT ![l] = FALSE]
    /\ UNCHANGED <<asks, expired, verdict, msg, ticket, active,
                   waiters, waited, lockLine, opts>>

\* onClientAbort; once the verdict is fixed it changes nothing.
ClientGone(l) ==
    /\ pc[l] \in Cuttable \cup {"prepare"} /\ ~closed[l]
    /\ closed' = [closed EXCEPT ![l] = TRUE]
    /\ UNCHANGED <<pc, asks, expired, verdict, excused, msg, ticket,
                   active, waiters, waited, lockLine, opts>>

\* Mutant: the deadline only covers the wait in the queue.
DeadlineInQueue(l) ==
    /\ pc[l] \in {"enter", "queued"} /\ ~expired[l]
    /\ expired' = [expired EXCEPT ![l] = TRUE]
    /\ UNCHANGED <<pc, asks, closed, verdict, excused, msg, ticket,
                   active, waiters, waited, lockLine, opts>>

\* turnTimer, armed just before the try block and cleared in its finally.
Deadline(l) ==
    /\ pc[l] \in Cuttable /\ ~expired[l]
    /\ expired' = [expired EXCEPT ![l] = TRUE]
    /\ UNCHANGED <<pc, asks, closed, verdict, excused, msg, ticket,
                   active, waiters, waited, lockLine, opts>>

\* admitTurn, after the tier is known: enqueue() grants, refuses or queues.
EnterGranted(l) ==
    /\ pc[l] = "enter"
    /\ active < opts.maxConcurrent /\ waiters = <<>>
    /\ active' = active + 1
    /\ ticket' = [ticket EXCEPT ![l] = "granted"]
    /\ Goto(l, "dispatch")
    /\ UNCHANGED <<asks, closed, expired, verdict, excused, msg,
                   waiters, waited, lockLine, opts>>

EnterFull(l) ==
    /\ pc[l] = "enter"
    /\ active >= opts.maxConcurrent \/ waiters # <<>>
    /\ Len(waiters) >= opts.queueMaxSize
    /\ Close(l, "failed")
    /\ UNCHANGED <<asks, excused, msg, ticket, active,
                   waiters, waited, lockLine, opts>>

EnterQueue(l) ==
    /\ pc[l] = "enter"
    /\ active >= opts.maxConcurrent \/ waiters # <<>>
    /\ Len(waiters) < opts.queueMaxSize
    /\ waiters' = Append(waiters, l)
    /\ ticket' = [ticket EXCEPT ![l] = "waiting"]
    /\ Goto(l, "queued")
    /\ UNCHANGED <<asks, closed, expired, verdict, excused, msg, active,
                   waited, lockLine, opts>>

\* A tick of the clock.  QueueTimeout bounds it: the waiter acts first.
Tick ==
    /\ waiters # <<>>
    /\ \A l \in Lane : ticket[l] = "waiting" => waited[l] < QueueTimeout
    /\ waited' = [l \in Lane |-> IF ticket[l] = "waiting" THEN waited[l] + 1
                                 ELSE waited[l]]
    /\ UNCHANGED <<pc, asks, closed, expired, verdict, excused, msg,
                   ticket, active, waiters, lockLine, opts>>

\* wait() resolves: granted, out of time, or a queue frame for a client that
\* is gone (the generator's return() runs the finally of admitTurn).
Admitted(l) ==
    /\ pc[l] = "queued" /\ ticket[l] = "granted"
    /\ Goto(l, "dispatch")
    /\ UNCHANGED <<asks, closed, expired, verdict, excused, msg, ticket,
                   active, waiters, waited, lockLine, opts>>

QueueTimedOut(l) ==
    /\ pc[l] = "queued" /\ ticket[l] = "waiting" /\ waited[l] >= QueueTimeout
    /\ Withdraw(l)
    /\ Close(l, "failed")
    /\ UNCHANGED <<asks, excused, msg, lockLine, opts>>

\* Mutant: a client that leaves the queue does not cancel its ticket.
QueueAbandonedUncancelled(l) ==
    /\ pc[l] = "queued" /\ ticket[l] = "waiting" /\ closed[l]
    /\ Close(l, "failed")
    /\ UNCHANGED <<asks, excused, msg, lockLine, opts, ticket, waiters,
                   waited, active>>

QueueAbandoned(l) ==
    /\ pc[l] = "queued" /\ ticket[l] = "waiting" /\ closed[l]
    /\ Withdraw(l)
    /\ Close(l, "failed")
    /\ UNCHANGED <<asks, excused, msg, lockLine, opts>>

\* dispatchStream: the route frame, then acquireLock of the lifecycle.
Dispatch(l) ==
    /\ pc[l] = "dispatch"
    /\ IF Aborted(l)
       THEN /\ Close(l, "failed")
            /\ UNCHANGED lockLine
       ELSE /\ lockLine' = [lockLine EXCEPT ![SessionOf[l]] = Append(@, l)]
            /\ Goto(l, "lock")
            /\ UNCHANGED <<verdict, closed, expired>>
    /\ UNCHANGED <<asks, excused, msg, ticket, active,
                   waiters, waited, opts>>

\* The previous holder has released: the turn runs, aborted or not.
TakeLock(l) ==
    /\ pc[l] = "lock" /\ Head(lockLine[SessionOf[l]]) = l
    /\ Goto(l, "stream")
    /\ UNCHANGED <<asks, closed, expired, verdict, excused, msg, ticket,
                   active, waiters, waited, lockLine, opts>>

\* release(): the turn behind the holder has its turn.
LeaveLock(l) == lockLine' = [lockLine EXCEPT ![SessionOf[l]] = Tail(@)]

\* The agent's stream ends by itself, after an error frame or without one.
StreamEnds(l) ==
    /\ pc[l] = "stream"
    /\ \E hadError \in BOOLEAN :
          Close(l, IF Aborted(l) \/ hadError THEN "failed" ELSE "done")
    /\ LeaveLock(l)
    /\ UNCHANGED <<asks, excused, msg, ticket, active,
                   waiters, waited, opts>>

\* A frame of an aborted turn: the loop breaks, or the route stops reading.
StreamCut(l) ==
    /\ pc[l] = "stream" /\ Aborted(l)
    /\ LeaveLock(l)
    /\ Close(l, "failed")
    /\ UNCHANGED <<asks, excused, msg, ticket, active,
                   waiters, waited, opts>>

\* finalizeAssistantTurn, whose failure is only logged, and for a failed turn
\* (whose touch is folded in) the finally that gives the slot back.
Finalize(l) ==
    /\ pc[l] = "finalize"
    /\ \/ /\ msg' = [msg EXCEPT ![l] = verdict[l]]
          /\ UNCHANGED excused
       \/ /\ excused' = [excused EXCEPT ![l] = TRUE]
          /\ UNCHANGED msg
    /\ IF verdict[l] = "done"
       THEN /\ Goto(l, "complete")
            /\ UNCHANGED <<ticket, active, waiters, waited>>
       ELSE /\ Goto(l, "idle")
            /\ GiveBack(l)
    /\ UNCHANGED <<asks, closed, expired, verdict, lockLine, opts>>

\* completeChatTurn, touch, then the finally.
Complete(l) ==
    /\ pc[l] = "complete"
    /\ Goto(l, "idle")
    /\ GiveBack(l)
    /\ UNCHANGED <<asks, closed, expired, verdict, excused, msg, lockLine, opts>>

TurnNext ==
    \/ Tick
    \/ \E l \in Lane :
          \/ Ask(l) \/ Prepare(l) \/ ClientGone(l) \/ Deadline(l)
          \/ EnterGranted(l) \/ EnterFull(l) \/ EnterQueue(l)
          \/ Admitted(l) \/ QueueTimedOut(l) \/ QueueAbandoned(l)
          \/ Dispatch(l) \/ TakeLock(l) \/ StreamEnds(l) \/ StreamCut(l)
          \/ Finalize(l) \/ Complete(l)

TurnSpec == TurnInit /\ [][TurnNext]_turnVars

(***************************************************************************)
(* Fairness: timers fire, awaited calls return, and an aborted stream      *)
(* yields another frame or ends.  A turn does one thing after the other,   *)
(* so its steps are fair together.  Nothing is assumed of the client, and  *)
(* nothing of the model's stream while it is not aborted: it may stall.    *)
(***************************************************************************)
TurnStep(l) ==
    \/ Prepare(l) \/ EnterGranted(l) \/ EnterFull(l) \/ EnterQueue(l)
    \/ Admitted(l) \/ Dispatch(l) \/ TakeLock(l) \/ Finalize(l) \/ Complete(l)
    \/ Deadline(l) \/ QueueTimedOut(l) \/ StreamCut(l)

TurnFairSpec == TurnSpec /\ WF_turnVars(Tick) /\ \A l \in Lane : WF_turnVars(TurnStep(l))

\* No slot is lost and none is used twice: the counter is the number of
\* granted tickets, and a granted ticket belongs to a turn that will still
\* give it back, whatever cut it short. The queue holds exactly the turns that
\* wait in it, once each, so a client that left is never handed the slot of one
\* that stayed; and no slot is idle while a turn waits (no lost wake-up).
SlotsAccountedFor ==
    /\ active = Cardinality({l \in Lane : ticket[l] = "granted"})
    /\ \A l \in Lane : ticket[l] = "granted" =>
          pc[l] \in {"queued", "dispatch", "lock", "stream", "finalize", "complete"}
    /\ \A l \in Lane : /\ ticket[l] = "waiting" <=> \E i \in DOMAIN waiters : waiters[i] = l
                       /\ ticket[l] = "waiting" => pc[l] = "queued"
    /\ \A i, j \in DOMAIN waiters : waiters[i] = waiters[j] => i = j
    /\ waiters # <<>> => active = opts.maxConcurrent

\* "Finalization must happen on every path" from the try block on: a turn that
\* has ended has left no pending message, unless the closing write failed.
NothingLeftPending ==
    \A l \in Lane :
        pc[l] = "idle" /\ ~excused[l] => msg[l] # "pending"

\* The turns of one session run one at a time, and each one that runs or waits
\* for the session is in its line once.
SessionsSerialized ==
    /\ \A l, m \in Lane :
          l # m /\ SessionOf[l] = SessionOf[m] => ~(pc[l] = "stream" /\ pc[m] = "stream")
    /\ \A s \in Sessions : \A i, j \in DOMAIN lockLine[s] :
          lockLine[s][i] = lockLine[s][j] => i = j
    /\ \A l \in Lane : pc[l] \in {"lock", "stream"} <=>
          \E i \in DOMAIN lockLine[SessionOf[l]] : lockLine[SessionOf[l]][i] = l

\* Anti-starvation: a turn that is granted while an older one keeps waiting
\* has a heavier tier, and the older one has not waited longer than the
\* difference of the weights is worth in aging windows.
OvertakingIsBounded ==
    [][\A i, j \in DOMAIN waiters :
          LET old == waiters[i]
              young == waiters[j] IN
          (i < j /\ ticket'[young] = "granted" /\ ticket'[old] = "waiting") =>
             /\ BaseWeight[young] > BaseWeight[old]
             /\ (waited[old] - waited[young]) * AgingStep
                   < AgingWindow * (BaseWeight[young] - BaseWeight[old] + AgingStep)
      ]_turnVars

\* What admission.ts says of aging: a turn queued long enough overtakes a
\* freshly arrived member.  So one that has waited almost all the time the
\* queue allows is never passed over for one that has just come.
AgingRescuesLongWaiters ==
    [][\A i, j \in DOMAIN waiters :
          LET old == waiters[i]
              young == waiters[j] IN
          (i < j /\ waited[young] = 0 /\ waited[old] >= QueueTimeout - 1) =>
             ~(ticket'[young] = "granted" /\ ticket'[old] = "waiting")
      ]_turnVars

\* A turn ends, whatever the model's stream does: the deadline reaches a turn
\* that streams, waits for its session or waits for a slot.
EveryTurnEnds == \A l \in Lane : (pc[l] # "idle") ~> (pc[l] = "idle")
=============================================================================
