----------------------------- MODULE Admission -----------------------------
(* app-sandbox's Admission: the slots for running executions, capped for the *)
(* whole service and per user, with a bounded queue of requests that wait.   *)
(* A step is what a goroutine does while it holds the mutex; the loop of     *)
(* dispatchLocked is several steps under one hold (`locked').  A queued      *)
(* request waits in a select of its grant, its timer and its caller.         *)
EXTENDS Integers, FiniteSets, SequencesExt

CONSTANTS Request, Uid,
          UidOf,         \* [Request -> Uid]
          MaxConcurrent, MaxPerUID, QueueSize

ASSUME RequestAssumption == IsFiniteSet(Request) /\ UidOf \in [Request -> Uid]
ASSUME LimitAssumption == /\ MaxConcurrent \in Nat \ {0}
                          /\ MaxPerUID \in Nat \ {0}
                          /\ QueueSize \in Nat

VARIABLES
  global,     \* Admission.global
  perUID,     \* Admission.perUID, 0 for an absent entry
  waiters,    \* Admission.waiters
  closed,     \* Admission.closed
  locked,     \* whether a Release still holds the mutex for its dispatch loop
  closing,    \* waiters that Close has taken off the queue and not granted yet
  dispatched, \* waiters whose grant is sent and not received yet
  at          \* [Request -> Place]

vars == <<global, perUID, waiters, closed, locked, closing, dispatched, at>>

(* "waiting" in the select, "leaving" when its timer or its caller's context *)
(* was chosen, before abandon has the mutex.                                 *)
Place == {"idle", "waiting", "leaving", "holding"}

Init == /\ global = 0
        /\ perUID = [u \in Uid |-> 0]
        /\ waiters = <<>>
        /\ closed = FALSE
        /\ locked = FALSE
        /\ closing = <<>>
        /\ dispatched = {}
        /\ at = [r \in Request |-> "idle"]

Goes(r, place) == at' = [at EXCEPT ![r] = place]

Fits(r) == perUID[UidOf[r]] < MaxPerUID

TakesSlot(r) == /\ global' = global + 1
                /\ perUID' = [perUID EXCEPT ![UidOf[r]] = @ + 1]

(* Acquire finds a free slot.  The queue is not looked at.                   *)
Admit(r) ==
  /\ ~locked /\ ~closed
  /\ at[r] = "idle"
  /\ global < MaxConcurrent /\ Fits(r)
  /\ TakesSlot(r)
  /\ Goes(r, "holding")
  /\ UNCHANGED <<waiters, closed, locked, closing, dispatched>>

(* A full queue and a closed Admission answer ErrQueueFull and change        *)
(* nothing.                                                                  *)
Enqueue(r) ==
  /\ ~locked /\ ~closed
  /\ at[r] = "idle"
  /\ ~(global < MaxConcurrent /\ Fits(r))
  /\ Len(waiters) < QueueSize
  /\ waiters' = Append(waiters, r)
  /\ Goes(r, "waiting")
  /\ UNCHANGED <<global, perUID, closed, locked, closing, dispatched>>

Wake(r) ==
  /\ at[r] = "waiting"
  /\ r \in dispatched
  /\ Goes(r, "holding")
  /\ dispatched' = dispatched \ {r}
  /\ UNCHANGED <<global, perUID, waiters, closed, locked, closing>>

(* The timer fired or the caller's context ended; a grant may be there too.  *)
Leave(r) ==
  /\ at[r] = "waiting"
  /\ Goes(r, "leaving")
  /\ UNCHANGED <<global, perUID, waiters, closed, locked, closing, dispatched>>

Unqueued(r) ==
  IF \E i \in DOMAIN waiters : waiters[i] = r
  THEN \E i \in DOMAIN waiters : waiters[i] = r /\ waiters' = RemoveAt(waiters, i)
  ELSE UNCHANGED waiters

(* Mutant of Abandon: the caller gives up although it was granted a slot.    *)
AbandonGranted(r) ==
  /\ ~locked
  /\ at[r] = "leaving"
  /\ Goes(r, "idle") /\ Unqueued(r)
  /\ dispatched' = dispatched \ {r}
  /\ UNCHANGED <<global, perUID, closed, locked, closing>>

(* The race of the grant and the timeout: a granted waiter goes on with its  *)
(* slot, another one leaves the queue, or is in nobody's queue any more.     *)
Abandon(r) ==
  /\ ~locked
  /\ at[r] = "leaving"
  /\ IF r \in dispatched THEN Goes(r, "holding") /\ UNCHANGED waiters
                         ELSE Goes(r, "idle") /\ Unqueued(r)
  /\ dispatched' = dispatched \ {r}
  /\ UNCHANGED <<global, perUID, closed, locked, closing>>

-----------------------------------------------------------------------------
(* Mutant of Release: nobody is woken.                                       *)
ReleaseQuietly(r) ==
  /\ ~locked
  /\ at[r] = "holding"
  /\ global' = global - 1
  /\ perUID' = [perUID EXCEPT ![UidOf[r]] = @ - 1]
  /\ Goes(r, "idle")
  /\ UNCHANGED <<waiters, closed, locked, closing, dispatched>>

(* Once per slot (sync.Once); the mutex is kept for dispatchLocked.          *)
Release(r) ==
  /\ ~locked
  /\ at[r] = "holding"
  /\ global' = IF global > 0 THEN global - 1 ELSE global
  /\ perUID' = [perUID EXCEPT ![UidOf[r]] = IF @ > 1 THEN @ - 1 ELSE 0]
  /\ Goes(r, "idle")
  /\ locked' = TRUE
  /\ UNCHANGED <<waiters, closed, closing, dispatched>>

(* Mutant of Fitting: only the head of the queue is looked at.               *)
FittingHead == {i \in DOMAIN waiters : i = 1 /\ Fits(waiters[i])}

Fitting == {i \in DOMAIN waiters : Fits(waiters[i])}

(* Mutants of Picked: the newest waiter; a waiter whose user is at the cap.  *)
PickedNewest(i) == i \in Fitting /\ \A j \in Fitting : j <= i
PickedFirst(i) == i \in DOMAIN waiters /\ \A j \in DOMAIN waiters : i <= j

Picked(i) == i \in Fitting /\ \A j \in Fitting : i <= j

(* One round of the loop: the first waiter whose user is below the cap.      *)
Dispatch ==
  /\ locked /\ ~closed
  /\ global < MaxConcurrent
  /\ \E i \in DOMAIN waiters : /\ Picked(i)
                               /\ waiters' = RemoveAt(waiters, i)
                               /\ TakesSlot(waiters[i])
                               /\ dispatched' = dispatched \cup {waiters[i]}
  /\ UNCHANGED <<closed, locked, closing, at>>

Unlock ==
  /\ locked
  /\ closed \/ global >= MaxConcurrent \/ Fitting = {}
  /\ locked' = FALSE
  /\ UNCHANGED <<global, perUID, waiters, closed, closing, dispatched, at>>

-----------------------------------------------------------------------------
(* Close takes the queue away, and then grants its waiters one by one, each  *)
(* under the mutex but not all of them under one hold.                       *)
Close ==
  /\ ~locked /\ ~closed
  /\ closed' = TRUE
  /\ closing' = waiters
  /\ waiters' = <<>>
  /\ UNCHANGED <<global, perUID, locked, dispatched, at>>

(* A waiter that has left meanwhile is granted a slot nobody will release.   *)
CloseGrants ==
  /\ ~locked
  /\ closing # <<>>
  /\ closing' = Tail(closing)
  /\ TakesSlot(Head(closing))
  /\ dispatched' = IF at[Head(closing)] \in {"waiting", "leaving"}
                   THEN dispatched \cup {Head(closing)} ELSE dispatched
  /\ UNCHANGED <<waiters, closed, locked, at>>

Proceeds(r) == Wake(r) \/ Abandon(r) \/ Release(r)

Next == \/ \E r \in Request : Admit(r) \/ Enqueue(r) \/ Leave(r) \/ Proceeds(r)
        \/ Dispatch \/ Unlock
        \/ Close \/ CloseGrants

Spec == Init /\ [][Next]_vars

(* Executions end (they have a timeout) and release; Go's mutex lets every   *)
(* goroutine in; no timer is assumed to fire, and Close need not come.       *)
FairSpec == /\ Spec
            /\ WF_vars(Dispatch \/ Unlock) /\ SF_vars(CloseGrants)
            /\ \A r \in Request : SF_vars(Proceeds(r))

-----------------------------------------------------------------------------
(* Every variable has its type, and the queue its bound.                     *)
TypeOK == /\ global \in Nat
          /\ perUID \in [Uid -> Nat]
          /\ waiters \in Seq(Request) /\ Len(waiters) <= QueueSize
          /\ closed \in BOOLEAN /\ locked \in BOOLEAN
          /\ closing \in Seq(Request)
          /\ dispatched \subseteq Request
          /\ at \in [Request -> Place]

(* Requests that own a slot: executing, or granted and not yet awake.        *)
Owner == {r \in Request : at[r] = "holding" \/ r \in dispatched}
OwnerOf(u) == {r \in Owner : UidOf[r] = u}

(* A slot is counted exactly while somebody owns it: neither a grant that    *)
(* crosses a timeout nor a release loses one or counts one twice.            *)
SlotsAccounted ==
  ~closed => /\ global = Cardinality(Owner)
             /\ \A u \in Uid : perUID[u] = Cardinality(OwnerOf(u))

(* The runtime never sees more concurrent work than configured (Admission    *)
(* 12-15), in all and per user, however grants, timeouts and releases cross. *)
CapsHold ==
  ~closed => /\ Cardinality(Owner) <= MaxConcurrent
             /\ \A u \in Uid : Cardinality(OwnerOf(u)) <= MaxPerUID

(* Nobody waits for a slot that is free: whenever the mutex is free, either  *)
(* all slots are taken or every waiter's user is at the cap.  It is why the  *)
(* fast path of Acquire need not look at the queue.                          *)
NoIdleSlot ==
  ~locked /\ ~closed /\ global < MaxConcurrent =>
    \A i \in DOMAIN waiters : perUID[UidOf[waiters[i]]] >= MaxPerUID

(* A user's requests get their slots in the order they queued, and none that *)
(* comes later, through the queue or past it, is served first.               *)
InOrder ==
  [][\A r \in Request : r \notin Owner /\ r \in Owner' /\ ~closed =>
       \A i \in DOMAIN waiters :
         UidOf[waiters[i]] = UidOf[r] =>
           \E j \in DOMAIN waiters : waiters[j] = r /\ j <= i]_vars

(* Nobody starves: a waiting request gets a slot (or gives up), whatever     *)
(* other users queue and however long nobody's timer fires.                  *)
LetIn == \A r \in Request : []<>(at[r] # "waiting")
=============================================================================
