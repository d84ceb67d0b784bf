--------------------------- MODULE WritersProofs ----------------------------
(* What a browser writes: the turns of a conversation and the saves of a     *)
(* board. For any number of conversations, sessions, windows, edits,         *)
(* snapshots and faults, and for every option of the admission queue: the    *)
(* accounts of the queue, its bound on overtaking, the line of a session and *)
(* the messages that are closed; racing saves leave the two stores of a      *)
(* board in agreement, no reader gets content older than its version, and no *)
(* edit is forgotten; and both side by side.                                 *)
EXTENDS MCWriters, DataLemmas

-----------------------------------------------------------------------------
(* Arithmetic of aging: what it takes to overtake somebody who came earlier. *)
LEMMA Product == ASSUME NEW a \in Nat, NEW x \in Int, NEW y \in Int, x <= y PROVE a * x <= a * y
  BY SMT

LEMMA DivMod ==
  ASSUME NEW a \in Nat \ {0}, NEW x \in Nat
  PROVE  x \div a \in Nat /\ x % a \in 0 .. a - 1 /\ x = a * (x \div a) + (x % a)
  BY SMT

LEMMA Overtakes ==
  ASSUME NEW window \in Nat \ {0}, NEW step \in Nat, NEW heavy \in Nat, NEW light \in Nat,
         NEW old \in Nat, NEW young \in Nat, young <= old,
         heavy + (young \div window) * step > light + (old \div window) * step
  PROVE  heavy > light /\ (old - young) * step < window * (heavy - light + step)
<1> DEFINE d == (old \div window) - (young \div window)
<1>1. /\ old \div window \in Nat /\ young \div window \in Nat
      /\ d >= 0 /\ old - young <= window * d + window - 1
  <2>1. /\ old = window * (old \div window) + (old % window) /\ old % window \in 0 .. window - 1
        /\ young = window * (young \div window) + (young % window) /\ young % window \in 0 .. window - 1
        /\ old \div window \in Nat /\ young \div window \in Nat
    BY DivMod
  <2>2. old - young = window * d + (old % window) - (young % window)
    BY <2>1
  <2>3. d >= 0
    <3>1. SUFFICES ASSUME d <= -1 PROVE FALSE
      BY <2>1
    <3>2. window * d <= window * (-1)
      BY <2>1, <3>1, Product
    <3>. QED BY <2>1, <2>2, <3>2
  <2>. QED BY <2>1, <2>2, <2>3
<1>2. d * step + 1 <= heavy - light
  BY <1>1
<1> HIDE DEF d
<1>3. d \in Nat
  BY <1>1 DEF d
<1>4. window * (d * step + 1) <= window * (heavy - light)
  BY <1>2, <1>3, Product
<1>5. step * (old - young) <= step * (window * d + window - 1)
  BY <1>1, <1>3, Product
<1>. QED BY <1>2, <1>3, <1>4, <1>5

-----------------------------------------------------------------------------
(* The turns of a conversation                                               *)

TurnTypeOK ==
  /\ pc \in [Lane -> Steps]
  /\ asks \in [Lane -> Nat]
  /\ closed \in [Lane -> BOOLEAN] /\ expired \in [Lane -> BOOLEAN]
  /\ verdict \in [Lane -> {"done", "failed"}]
  /\ excused \in [Lane -> BOOLEAN]
  /\ msg \in [Lane -> {"none", "pending", "done", "failed"}]
  /\ ticket \in [Lane -> {"none", "waiting", "granted", "released", "cancelled"}]
  /\ active \in Nat
  /\ waiters \in Seq(Lane)
  /\ waited \in [Lane -> Nat]
  /\ opts \in Options
  /\ lockLine \in [Sessions -> Seq(Lane)]

Granted == {l \in Lane : ticket[l] = "granted"}

(* The counter counts the granted tickets, within the limit, and nobody      *)
(* waits while a slot is free.                                               *)
SlotsHeld ==
  /\ active = Cardinality(Granted)
  /\ active <= opts.maxConcurrent
  /\ waiters # <<>> => active = opts.maxConcurrent

(* What the state of a ticket says of the place its turn is at.              *)
TicketsKnow ==
  \A l \in Lane :
    /\ ticket[l] = "granted" =>
         pc[l] \in {"queued", "dispatch", "lock", "stream", "finalize", "complete"}
    /\ ticket[l] = "waiting" => pc[l] = "queued"

(* The queue holds those who wait, once each, the older first; who does not  *)
(* wait has not waited.                                                      *)
QueueHolds ==
  /\ \A l \in Lane : ticket[l] = "waiting" <=> \E i \in DOMAIN waiters : waiters[i] = l
  /\ \A i, j \in DOMAIN waiters : waiters[i] = waiters[j] => i = j
  /\ \A i, j \in DOMAIN waiters : i < j => waited[waiters[i]] >= waited[waiters[j]]
  /\ \A l \in Lane : ticket[l] # "waiting" => waited[l] = 0

(* A turn that ended, or is about to, has closed its message.                *)
MessagesClosed ==
  \A l \in Lane : pc[l] \in {"idle", "complete"} /\ ~excused[l] => msg[l] # "pending"

(* Who streams is at the head of the session's line.                         *)
LinesHold ==
  /\ \A l \in Lane : pc[l] = "stream" => Head(lockLine[SessionOf[l]]) = l
  /\ \A s \in Sessions : \A i, j \in DOMAIN lockLine[s] :
       lockLine[s][i] = lockLine[s][j] => i = j
  /\ \A l \in Lane : pc[l] \in {"lock", "stream"} <=>
       \E i \in DOMAIN lockLine[SessionOf[l]] : lockLine[SessionOf[l]][i] = l

AdmissionIInv == TurnTypeOK /\ SlotsHeld /\ TicketsKnow /\ QueueHolds
TurnIInv == AdmissionIInv /\ MessagesClosed /\ LinesHold

LEMMA OptionTypes ==
  /\ \A o \in Options : o.maxConcurrent \in Nat \ {0} /\ o.queueMaxSize \in Nat
  /\ \A l \in Lane : SessionOf[l] \in Sessions
  BY TurnAssumption DEF Sessions

LEMMA WeightType == ASSUME TurnTypeOK, NEW l \in Lane PROVE EffectiveWeight(l) \in Nat
<1>1. waited[l] \div AgingWindow \in Nat
  BY TurnAssumption, DivMod DEF TurnTypeOK
<1>. QED BY <1>1, TurnAssumption DEF EffectiveWeight

(* There is a best waiter: the one whom the fewest precede. The weights have *)
(* no bound, so this is the minimum of finite sets and not of numbers.       *)
LEMMA BestIsThere ==
  ASSUME TurnTypeOK, waiters # <<>>
  PROVE  /\ BestWaiter \in DOMAIN waiters
         /\ \A j \in DOMAIN waiters \ {BestWaiter} : Precedes(BestWaiter, j)
<1> DEFINE D == DOMAIN waiters
           Before(i) == {j \in D : Precedes(j, i)}
           T == {Before(i) : i \in D}
<1>1. D = 1 .. Len(waiters) /\ Len(waiters) \in Nat \ {0}
  BY DEF TurnTypeOK
<1>2. IsFiniteSet(D) /\ 1 \in D
  <2>1. IsFiniteSet(1 .. Len(waiters))
    BY <1>1, FS_Interval
  <2>. QED BY <1>1, <2>1
<1>3. T \subseteq FiniteSubsetsOf(D) /\ T # {}
  <2>1. \A i \in D : Before(i) \in SUBSET D
    OBVIOUS
  <2>2. T \subseteq SUBSET D /\ T # {}
    BY <1>2, <2>1
  <2> HIDE DEF T, D
  <2>. QED BY <1>2, <2>2, FS_FiniteSubsetsOfFinite
<1>4. \E x \in T : \A y \in T : <<y, x>> \notin StrictSubsetOrdering(D)
  <2> HIDE DEF T
  <2>. QED BY <1>3, WFMin, FS_StrictSubsetOrderingWellFounded
<1>5. PICK i \in D : \A j \in D : <<Before(j), Before(i)>> \notin StrictSubsetOrdering(D)
  BY <1>4
<1>6. \A j \in D : EffectiveWeight(waiters[j]) \in Nat
  BY WeightType DEF TurnTypeOK
<1>7. ASSUME NEW j \in D \ {i} PROVE Precedes(i, j)
  <2>1. SUFFICES ASSUME ~Precedes(i, j) PROVE FALSE
    OBVIOUS
  <2>2. Precedes(j, i)
    BY <1>1, <1>6, <2>1 DEF Precedes
  <2>3. Before(j) \subseteq Before(i)
    BY <1>1, <1>6, <2>2 DEF Precedes
  <2>4. j \in Before(i) /\ j \notin Before(j)
    BY <1>1, <1>6, <2>2 DEF Precedes
  <2>5. <<Before(j), Before(i)>> \in StrictSubsetOrdering(D)
    BY <2>3, <2>4 DEF StrictSubsetOrdering
  <2>. QED BY <1>5, <2>5
<1>. QED BY <1>7 DEF BestWaiter

(* The queue after somebody was taken out of it.                             *)
LEMMA TakenOut ==
  ASSUME TurnTypeOK, QueueHolds, NEW i \in DOMAIN waiters, waiters' = RemoveAt(waiters, i)
  PROVE  /\ waiters' \in Seq(Lane)
         /\ waiters' # <<>> => waiters # <<>>
         /\ \A l \in Lane : (\E j \in DOMAIN waiters' : waiters'[j] = l) <=>
                            ((\E j \in DOMAIN waiters : waiters[j] = l) /\ l # waiters[i])
         /\ \A j, k \in DOMAIN waiters' : waiters'[j] = waiters'[k] => j = k
         /\ \A j, k \in DOMAIN waiters' : j < k => waited[waiters'[j]] >= waited[waiters'[k]]
<1> DEFINE place(j) == IF j < i THEN j ELSE j + 1
<1>1. /\ waiters' \in Seq(Lane) /\ Len(waiters') = Len(waiters) - 1
      /\ \A j \in 1 .. Len(waiters) - 1 :
           waiters'[j] = IF j < i THEN waiters[j] ELSE waiters[j + 1]
  <2> HIDE DEF place
  <2>1. waiters \in Seq(Lane)
    BY DEF TurnTypeOK
  <2>. QED BY <2>1, RemoveAtProperties
<1>2. DOMAIN waiters = 1 .. Len(waiters) /\ DOMAIN waiters' = 1 .. Len(waiters) - 1
      /\ Len(waiters) \in Nat /\ i \in 1 .. Len(waiters)
  BY <1>1 DEF TurnTypeOK
<1>3. \A j \in DOMAIN waiters' : waiters'[j] = waiters[place(j)]
  BY <1>1, <1>2
<1>4. /\ \A j \in DOMAIN waiters' : place(j) \in DOMAIN waiters /\ place(j) # i
      /\ \A j, k \in DOMAIN waiters' : j < k => place(j) < place(k)
      /\ \A j, k \in DOMAIN waiters' : place(j) = place(k) => j = k
      /\ \A j \in DOMAIN waiters \ {i} : \E k \in DOMAIN waiters' : place(k) = j
  <2>1. \A j \in DOMAIN waiters \ {i} : \E k \in DOMAIN waiters' : place(k) = j
    <3> SUFFICES ASSUME NEW j \in DOMAIN waiters \ {i}
                 PROVE  \E k \in DOMAIN waiters' : place(k) = j
      OBVIOUS
    <3>1. CASE j < i
      BY <1>2, <3>1
    <3>2. CASE j > i
      <4>1. j - 1 \in DOMAIN waiters' /\ place(j - 1) = j
        BY <1>2, <3>2
      <4>. QED BY <4>1
    <3>. QED BY <1>2, <3>1, <3>2
  <2>. QED BY <1>2, <2>1
<1> HIDE DEF place
<1>5. \A l \in Lane : (\E j \in DOMAIN waiters' : waiters'[j] = l) <=>
                      ((\E j \in DOMAIN waiters : waiters[j] = l) /\ l # waiters[i])
  BY <1>2, <1>3, <1>4 DEF QueueHolds
<1>6. \A j, k \in DOMAIN waiters' : waiters'[j] = waiters'[k] => j = k
  BY <1>3, <1>4 DEF QueueHolds
<1>7. \A j, k \in DOMAIN waiters' : j < k => waited[waiters'[j]] >= waited[waiters'[k]]
  BY <1>3, <1>4 DEF QueueHolds
<1>8. waiters # <<>>
  BY <1>2
<1>. QED BY <1>1, <1>5, <1>6, <1>7, <1>8

LEMMA GrantedCounts ==
  /\ IsFiniteSet(Granted) /\ Cardinality(Granted) \in Nat
  /\ \A l \in Granted : Cardinality(Granted \ {l}) = Cardinality(Granted) - 1
  /\ \A l \in Lane \ Granted : Cardinality(Granted \cup {l}) = Cardinality(Granted) + 1
<1>1. IsFiniteSet(Granted)
  BY FS_Subset, TurnAssumption DEF Granted
<1>. QED BY <1>1, FS_CardinalityType, FS_AddElement, FS_RemoveElement

-----------------------------------------------------------------------------
LEMMA TurnInitIInv == TurnInit => TurnIInv
<1> SUFFICES ASSUME TurnInit PROVE TurnIInv
  OBVIOUS
<1>1. TurnTypeOK
  BY DEF TurnInit, TurnTypeOK, Steps
<1>2. SlotsHeld
  <2>1. Granted = {}
    BY DEF TurnInit, Granted
  <2>. QED BY <2>1, FS_EmptySet, OptionTypes DEF TurnInit, SlotsHeld
<1>3. TicketsKnow /\ QueueHolds /\ MessagesClosed
  BY DEF TurnInit, TicketsKnow, QueueHolds, MessagesClosed
<1>4. LinesHold
  BY OptionTypes DEF TurnInit, LinesHold
<1>. QED BY <1>1, <1>2, <1>3, <1>4 DEF TurnIInv, AdmissionIInv

(* A step that leaves the queue, its tickets and its counter as they are.    *)
LEMMA QueueStays ==
  ASSUME AdmissionIInv, UNCHANGED <<ticket, active, waiters, waited, opts>>,
         NEW l \in Lane, NEW at \in Steps, pc' = [pc EXCEPT ![l] = at],
         ticket[l] = "granted" =>
           at \in {"queued", "dispatch", "lock", "stream", "finalize", "complete"},
         ticket[l] = "waiting" => at = "queued"
  PROVE  SlotsHeld' /\ TicketsKnow' /\ QueueHolds'
<1>1. SlotsHeld'
  <2>1. Granted' = Granted
    BY DEF Granted
  <2>. QED BY <2>1 DEF AdmissionIInv, SlotsHeld
<1>2. TicketsKnow'
  BY DEF AdmissionIInv, TurnTypeOK, TicketsKnow
<1>3. QueueHolds'
  BY DEF AdmissionIInv, QueueHolds
<1>. QED BY <1>1, <1>2, <1>3

(* A slot that comes back goes to the best waiter, or is free again.         *)
LEMMA GiveBackIInv ==
  ASSUME AdmissionIInv, NEW l \in Lane, GiveBack(l), UNCHANGED opts, pc' = [pc EXCEPT ![l] = "idle"],
         pc[l] \in {"finalize", "complete"}
  PROVE  /\ SlotsHeld' /\ TicketsKnow' /\ QueueHolds'
         /\ waiters' \in Seq(Lane) /\ active' \in Nat /\ waited' \in [Lane -> Nat]
         /\ ticket' \in [Lane -> {"none", "waiting", "granted", "released", "cancelled"}]
<1>1. CASE ticket[l] # "granted"
  <2>1. UNCHANGED <<ticket, active, waiters, waited, opts>>
    BY <1>1 DEF GiveBack
  <2>2. ticket[l] # "waiting"
    BY DEF AdmissionIInv, TicketsKnow
  <2>3. SlotsHeld' /\ TicketsKnow' /\ QueueHolds'
    BY <1>1, <2>1, <2>2, QueueStays DEF Steps
  <2>. QED BY <2>1, <2>3 DEF AdmissionIInv, TurnTypeOK
<1>2. CASE ticket[l] = "granted" /\ waiters = <<>>
  <2>1. /\ ticket' = [ticket EXCEPT ![l] = "released"] /\ active' = active - 1
        /\ UNCHANGED <<waiters, waited>>
    BY <1>2 DEF GiveBack
  <2>2. Granted' = Granted \ {l} /\ l \in Granted
    BY <1>2, <2>1 DEF Granted, AdmissionIInv, TurnTypeOK
  <2>3. active' = Cardinality(Granted') /\ active' \in Nat /\ active' <= active
    BY <2>1, <2>2, GrantedCounts, FS_CardinalityType, FS_RemoveElement DEF AdmissionIInv, SlotsHeld
  <2>4. SlotsHeld'
    BY <1>2, <2>1, <2>3, OptionTypes DEF AdmissionIInv, TurnTypeOK, SlotsHeld
  <2>5. TicketsKnow' /\ QueueHolds'
    BY <1>2, <2>1 DEF AdmissionIInv, TurnTypeOK, TicketsKnow, QueueHolds
  <2>. QED BY <2>1, <2>3, <2>4, <2>5 DEF AdmissionIInv, TurnTypeOK
<1>3. CASE ticket[l] = "granted" /\ waiters # <<>>
  <2> DEFINE next == waiters[BestWaiter]
  <2>1. BestWaiter \in DOMAIN waiters
    BY <1>3, BestIsThere DEF AdmissionIInv
  <2>2. next \in Lane /\ ticket[next] = "waiting" /\ next # l
    BY <1>3, <2>1 DEF AdmissionIInv, TurnTypeOK, QueueHolds
  <2>3. active - 1 < opts.maxConcurrent
    BY OptionTypes DEF AdmissionIInv, TurnTypeOK, SlotsHeld
  <2>4. /\ ticket' = [ticket EXCEPT ![l] = "released", ![next] = "granted"]
        /\ waiters' = RemoveAt(waiters, BestWaiter) /\ waited' = [waited EXCEPT ![next] = 0]
        /\ UNCHANGED active
    BY <1>3, <2>3, OptionTypes DEF GiveBack, AdmissionIInv, TurnTypeOK
  <2> HIDE DEF next
  <2>5. /\ ticket'[l] = "released" /\ ticket'[next] = "granted" /\ waited'[next] = 0
        /\ \A m \in Lane \ {l, next} : ticket'[m] = ticket[m]
        /\ \A m \in Lane \ {next} : waited'[m] = waited[m]
        /\ waited' \in [Lane -> Nat]
        /\ ticket' \in [Lane -> {"none", "waiting", "granted", "released", "cancelled"}]
    BY <2>2, <2>4 DEF AdmissionIInv, TurnTypeOK
  <2>6. Granted' = (Granted \ {l}) \cup {next} /\ l \in Granted /\ next \notin Granted
    BY <1>3, <2>2, <2>5 DEF Granted
  <2>7. Cardinality(Granted') = Cardinality(Granted)
    <3>1. IsFiniteSet(Granted \ {l}) /\ next \notin Granted \ {l}
      BY <2>6, GrantedCounts, FS_RemoveElement
    <3>2. Cardinality((Granted \ {l}) \cup {next}) = Cardinality(Granted \ {l}) + 1
      BY <3>1, FS_AddElement
    <3>. QED BY <2>6, <3>2, GrantedCounts
  <2>8. /\ waiters' \in Seq(Lane)
        /\ \A m \in Lane : (\E j \in DOMAIN waiters' : waiters'[j] = m) <=>
                           ((\E j \in DOMAIN waiters : waiters[j] = m) /\ m # next)
        /\ \A j, k \in DOMAIN waiters' : waiters'[j] = waiters'[k] => j = k
        /\ \A j, k \in DOMAIN waiters' : j < k => waited[waiters'[j]] >= waited[waiters'[k]]
    BY <2>1, <2>4, TakenOut DEF AdmissionIInv, next
  <2>9. SlotsHeld'
    BY <1>3, <2>4, <2>7 DEF AdmissionIInv, SlotsHeld
  <2>10. TicketsKnow'
    BY <2>2, <2>5 DEF AdmissionIInv, TurnTypeOK, TicketsKnow
  <2>11. QueueHolds'
    <3>1. \A m \in Lane : ticket'[m] = "waiting" <=> \E i \in DOMAIN waiters' : waiters'[i] = m
      BY <1>3, <2>2, <2>5, <2>8 DEF AdmissionIInv, QueueHolds
    <3>2. \A i \in DOMAIN waiters' : waiters'[i] \in Lane /\ waiters'[i] # next
      BY <2>8
    <3>3. \A i, j \in DOMAIN waiters' : i < j => waited'[waiters'[i]] >= waited'[waiters'[j]]
      BY <2>5, <2>8, <3>2
    <3>4. \A m \in Lane : ticket'[m] # "waiting" => waited'[m] = 0
      BY <1>3, <2>2, <2>5 DEF AdmissionIInv, QueueHolds
    <3>. QED BY <2>8, <3>1, <3>3, <3>4 DEF QueueHolds
  <2>. QED BY <2>4, <2>5, <2>8, <2>9, <2>10, <2>11 DEF AdmissionIInv, TurnTypeOK
<1>. QED BY <1>1, <1>2, <1>3

LEMMA FinishIInv ==
  ASSUME AdmissionIInv, NEW l \in Lane, Finalize(l) \/ Complete(l)
  PROVE  AdmissionIInv'
<1>1. /\ pc[l] \in {"finalize", "complete"} /\ UNCHANGED opts
      /\ msg' \in [Lane -> {"none", "pending", "done", "failed"}]
      /\ UNCHANGED <<asks, closed, expired, verdict, lockLine>>
      /\ excused' \in [Lane -> BOOLEAN]
  BY DEF Finalize, Complete, AdmissionIInv, TurnTypeOK
<1>2. CASE GiveBack(l) /\ pc' = [pc EXCEPT ![l] = "idle"]
  <2>1. pc' \in [Lane -> Steps]
    BY <1>2 DEF AdmissionIInv, TurnTypeOK, Steps
  <2>. QED BY <1>1, <1>2, <2>1, GiveBackIInv DEF AdmissionIInv, TurnTypeOK
<1>3. CASE UNCHANGED <<ticket, active, waiters, waited>> /\ pc' = [pc EXCEPT ![l] = "complete"]
  <2>1. pc' \in [Lane -> Steps]
    BY <1>3 DEF AdmissionIInv, TurnTypeOK, Steps
  <2>2. ticket[l] # "waiting"
    BY <1>1 DEF AdmissionIInv, TicketsKnow
  <2>3. SlotsHeld' /\ TicketsKnow' /\ QueueHolds'
    BY <1>1, <1>3, <2>2, QueueStays DEF Steps
  <2>. QED BY <1>1, <1>3, <2>1, <2>3 DEF AdmissionIInv, TurnTypeOK
<1>. QED BY <1>2, <1>3 DEF Finalize, Complete, Goto

LEMMA AskIInv == ASSUME AdmissionIInv, NEW l \in Lane, Ask(l) PROVE AdmissionIInv'
<1>1. TurnTypeOK'
  BY DEF Ask, Goto, AdmissionIInv, TurnTypeOK, Steps
<1>2. ticket[l] \notin {"granted", "waiting"}
  BY DEF Ask, AdmissionIInv, TicketsKnow
<1>3. /\ \A m \in Lane : /\ ticket'[m] = "granted" <=> ticket[m] = "granted"
                         /\ ticket'[m] = "waiting" <=> ticket[m] = "waiting"
      /\ UNCHANGED <<active, waiters, waited, opts>>
  BY <1>2 DEF Ask, AdmissionIInv, TurnTypeOK
<1>4. SlotsHeld'
  <2>1. Granted' = Granted
    BY <1>3 DEF Granted
  <2>. QED BY <1>3, <2>1 DEF AdmissionIInv, SlotsHeld
<1>5. TicketsKnow' /\ QueueHolds'
  BY <1>2, <1>3 DEF Ask, Goto, AdmissionIInv, TurnTypeOK, TicketsKnow, QueueHolds
<1>. QED BY <1>1, <1>4, <1>5 DEF AdmissionIInv

LEMMA EnterGrantedIInv == ASSUME AdmissionIInv, NEW l \in Lane, EnterGranted(l) PROVE AdmissionIInv'
<1>1. TurnTypeOK'
  BY DEF EnterGranted, Goto, AdmissionIInv, TurnTypeOK, Steps
<1>2. ticket[l] \notin {"granted", "waiting"} /\ waiters = <<>> /\ active < opts.maxConcurrent
  BY DEF EnterGranted, AdmissionIInv, TicketsKnow
<1>3. SlotsHeld'
  <2>1. Granted' = Granted \cup {l} /\ l \in Lane \ Granted
    BY <1>2 DEF EnterGranted, Granted, AdmissionIInv, TurnTypeOK
  <2>2. Cardinality(Granted') = active + 1
    BY <2>1, GrantedCounts DEF AdmissionIInv, SlotsHeld
  <2>. QED BY <1>2, <2>2, OptionTypes DEF EnterGranted, AdmissionIInv, TurnTypeOK, SlotsHeld
<1>4. TicketsKnow' /\ QueueHolds'
  BY <1>2 DEF EnterGranted, Goto, AdmissionIInv, TurnTypeOK, TicketsKnow, QueueHolds
<1>. QED BY <1>1, <1>3, <1>4 DEF AdmissionIInv

LEMMA EnterQueueIInv == ASSUME AdmissionIInv, NEW l \in Lane, EnterQueue(l) PROVE AdmissionIInv'
<1>1. TurnTypeOK'
  BY DEF EnterQueue, Goto, AdmissionIInv, TurnTypeOK, Steps
<1>2. ticket[l] \notin {"granted", "waiting"}
  BY DEF EnterQueue, AdmissionIInv, TicketsKnow
<1>3. SlotsHeld'
  <2>1. Granted' = Granted
    BY <1>2 DEF EnterQueue, Granted, AdmissionIInv, TurnTypeOK
  <2>2. active = opts.maxConcurrent
    BY OptionTypes DEF EnterQueue, AdmissionIInv, TurnTypeOK, SlotsHeld
  <2>. QED BY <2>1, <2>2 DEF EnterQueue, AdmissionIInv, SlotsHeld
<1>4. TicketsKnow'
  BY <1>2 DEF EnterQueue, Goto, AdmissionIInv, TurnTypeOK, TicketsKnow
<1>5. QueueHolds'
  <2>1. /\ waiters' = Append(waiters, l) /\ ticket' = [ticket EXCEPT ![l] = "waiting"]
        /\ UNCHANGED waited
    BY DEF EnterQueue
  <2>2. /\ DOMAIN waiters = 1 .. Len(waiters) /\ Len(waiters) \in Nat
        /\ DOMAIN waiters' = 1 .. Len(waiters) + 1
        /\ waiters'[Len(waiters) + 1] = l /\ \A i \in 1 .. Len(waiters) : waiters'[i] = waiters[i]
        /\ \A i \in 1 .. Len(waiters) : waiters[i] \in Lane
    BY <2>1 DEF AdmissionIInv, TurnTypeOK
  <2>3. /\ \A i \in DOMAIN waiters : waiters[i] # l
        /\ waited[l] = 0 /\ \A m \in Lane : waited[m] \in Nat
    BY <1>2 DEF AdmissionIInv, TurnTypeOK, QueueHolds
  <2>4. \A m \in Lane : ticket'[m] = "waiting" <=> \E i \in DOMAIN waiters' : waiters'[i] = m
    <3>1. CASE waiters = <<>>
      BY <1>2, <2>1, <2>2, <2>3, <3>1 DEF AdmissionIInv, TurnTypeOK, QueueHolds
    <3>2. \A m \in Lane : (\E i \in DOMAIN waiters' : waiters'[i] = m) <=>
                          (m = l \/ \E i \in DOMAIN waiters : waiters[i] = m)
      BY <2>2
    <3>. QED BY <2>1, <3>2 DEF AdmissionIInv, TurnTypeOK, QueueHolds
  <2>5. /\ \A i, j \in DOMAIN waiters' : waiters'[i] = waiters'[j] => i = j
        /\ \A i, j \in DOMAIN waiters' : i < j => waited[waiters'[i]] >= waited[waiters'[j]]
    BY <2>2, <2>3 DEF AdmissionIInv, QueueHolds
  <2>6. \A m \in Lane : ticket'[m] # "waiting" => waited'[m] = 0
    BY <2>1 DEF AdmissionIInv, TurnTypeOK, QueueHolds
  <2>. QED BY <2>1, <2>4, <2>5, <2>6 DEF QueueHolds
<1>. QED BY <1>1, <1>3, <1>4, <1>5 DEF AdmissionIInv

LEMMA WithdrawIInv ==
  ASSUME AdmissionIInv, NEW l \in Lane, QueueTimedOut(l) \/ QueueAbandoned(l)
  PROVE  AdmissionIInv'
<1>1. /\ ticket[l] = "waiting" /\ ticket' = [ticket EXCEPT ![l] = "cancelled"]
      /\ waited' = [waited EXCEPT ![l] = 0]
      /\ UNCHANGED <<active, asks, excused, msg, lockLine, opts>>
      /\ pc' = [pc EXCEPT ![l] = "finalize"] /\ verdict' = [verdict EXCEPT ![l] = "failed"]
      /\ closed' = [closed EXCEPT ![l] = FALSE] /\ expired' = [expired EXCEPT ![l] = FALSE]
  BY DEF QueueTimedOut, QueueAbandoned, Withdraw, Close, Goto
<1>2. PICK place \in DOMAIN waiters : waiters[place] = l /\ waiters' = RemoveAt(waiters, place)
  BY DEF QueueTimedOut, QueueAbandoned, Withdraw
<1>3. /\ waiters' \in Seq(Lane)
      /\ waiters' # <<>> => waiters # <<>>
      /\ \A m \in Lane : (\E j \in DOMAIN waiters' : waiters'[j] = m) <=>
                         ((\E j \in DOMAIN waiters : waiters[j] = m) /\ m # l)
      /\ \A j, k \in DOMAIN waiters' : waiters'[j] = waiters'[k] => j = k
      /\ \A j, k \in DOMAIN waiters' : j < k => waited[waiters'[j]] >= waited[waiters'[k]]
  BY <1>2, TakenOut DEF AdmissionIInv
<1>4. TurnTypeOK'
  BY <1>1, <1>3 DEF AdmissionIInv, TurnTypeOK, Steps
<1>5. SlotsHeld'
  <2>1. Granted' = Granted
    BY <1>1 DEF Granted, AdmissionIInv, TurnTypeOK
  <2>. QED BY <1>1, <1>3, <2>1 DEF AdmissionIInv, SlotsHeld
<1>6. TicketsKnow'
  BY <1>1 DEF AdmissionIInv, TurnTypeOK, TicketsKnow
<1>7. QueueHolds'
  <2>1. \A m \in Lane : ticket'[m] = "waiting" <=> \E i \in DOMAIN waiters' : waiters'[i] = m
    BY <1>1, <1>3 DEF AdmissionIInv, TurnTypeOK, QueueHolds
  <2>2. \A i \in DOMAIN waiters' : waiters'[i] \in Lane /\ waiters'[i] # l
    BY <1>3
  <2>3. \A i, j \in DOMAIN waiters' : i < j => waited'[waiters'[i]] >= waited'[waiters'[j]]
    BY <1>1, <1>3, <2>2 DEF AdmissionIInv, TurnTypeOK
  <2>4. \A m \in Lane : ticket'[m] # "waiting" => waited'[m] = 0
    BY <1>1 DEF AdmissionIInv, TurnTypeOK, QueueHolds
  <2>. QED BY <1>3, <2>1, <2>3, <2>4 DEF QueueHolds
<1>. QED BY <1>4, <1>5, <1>6, <1>7 DEF AdmissionIInv

LEMMA TickIInv == ASSUME AdmissionIInv, Tick PROVE AdmissionIInv'
<1>1. /\ waited' = [l \in Lane |-> IF ticket[l] = "waiting" THEN waited[l] + 1 ELSE waited[l]]
      /\ UNCHANGED <<pc, asks, closed, expired, verdict, excused, msg,
                     ticket, active, waiters, lockLine, opts>>
  BY DEF Tick
<1>2. TurnTypeOK'
  BY <1>1 DEF AdmissionIInv, TurnTypeOK
<1>3. SlotsHeld' /\ TicketsKnow'
  BY <1>1 DEF AdmissionIInv, SlotsHeld, TicketsKnow, Granted
<1>4. QueueHolds'
  <2>1. \A i \in DOMAIN waiters : waiters[i] \in Lane /\ ticket[waiters[i]] = "waiting"
    BY DEF AdmissionIInv, TurnTypeOK, QueueHolds
  <2>2. \A i \in DOMAIN waiters : waited'[waiters[i]] = waited[waiters[i]] + 1
    BY <1>1, <2>1
  <2>3. \A i, j \in DOMAIN waiters : i < j => waited'[waiters[i]] >= waited'[waiters[j]]
    BY <2>1, <2>2 DEF AdmissionIInv, TurnTypeOK, QueueHolds
  <2>. QED BY <1>1, <2>3 DEF AdmissionIInv, QueueHolds
<1>. QED BY <1>2, <1>3, <1>4 DEF AdmissionIInv

(* The steps that the queue does not see.                                    *)
LEMMA UnseenIInv ==
  ASSUME AdmissionIInv, LinesHold, NEW l \in Lane,
         \/ Prepare(l) \/ ClientGone(l) \/ Deadline(l) \/ EnterFull(l) \/ Admitted(l)
         \/ Dispatch(l) \/ TakeLock(l) \/ StreamEnds(l) \/ StreamCut(l)
  PROVE  AdmissionIInv'
<1>1. /\ UNCHANGED <<ticket, active, waiters, waited, opts, asks, msg>>
      /\ closed' \in [Lane -> BOOLEAN] /\ expired' \in [Lane -> BOOLEAN]
      /\ excused' \in [Lane -> BOOLEAN]
  BY DEF AdmissionIInv, TurnTypeOK, Prepare, ClientGone, Deadline, EnterFull, Admitted, Dispatch,
     TakeLock, StreamEnds, StreamCut, Close
<1>2. verdict' \in [Lane -> {"done", "failed"}]
  <2>1. CASE StreamEnds(l)
    <3>1. \E status \in {"done", "failed"} : verdict' = [verdict EXCEPT ![l] = status]
      BY <2>1 DEF StreamEnds, Close
    <3>. QED BY <3>1 DEF AdmissionIInv, TurnTypeOK
  <2>. QED BY <2>1 DEF AdmissionIInv, TurnTypeOK, Prepare, ClientGone, Deadline, EnterFull, Admitted,
       Dispatch, TakeLock, StreamCut, Close
<1>3. lockLine' \in [Sessions -> Seq(Lane)]
  <2>1. CASE Dispatch(l)
    <3>1. Append(lockLine[SessionOf[l]], l) \in Seq(Lane)
      BY OptionTypes DEF AdmissionIInv, TurnTypeOK
    <3>. QED BY <2>1, <3>1 DEF AdmissionIInv, TurnTypeOK, Dispatch
  <2>2. CASE StreamEnds(l) \/ StreamCut(l)
    <3>1. lockLine[SessionOf[l]] \in Seq(Lane) /\ lockLine[SessionOf[l]] # <<>>
      BY <2>2, OptionTypes DEF StreamEnds, StreamCut, AdmissionIInv, TurnTypeOK, LinesHold
    <3>2. Tail(lockLine[SessionOf[l]]) \in Seq(Lane)
      BY <3>1, HeadTailProperties
    <3>3. lockLine' = [lockLine EXCEPT ![SessionOf[l]] = Tail(lockLine[SessionOf[l]])]
      BY <2>2 DEF StreamEnds, StreamCut, LeaveLock
    <3>. QED BY <3>2, <3>3 DEF AdmissionIInv, TurnTypeOK
  <2>. QED BY <2>1, <2>2 DEF AdmissionIInv, TurnTypeOK, Prepare, ClientGone, Deadline, EnterFull,
       Admitted, TakeLock
<1>4. \E at \in Steps : /\ pc' = [pc EXCEPT ![l] = at]
                        /\ ticket[l] = "granted" =>
                             at \in {"queued", "dispatch", "lock", "stream", "finalize", "complete"}
                        /\ ticket[l] = "waiting" => at = "queued"
  <2>1. CASE ClientGone(l) \/ Deadline(l)
    <3>1. pc' = [pc EXCEPT ![l] = pc[l]] /\ pc[l] \in Steps
      BY <2>1 DEF ClientGone, Deadline, AdmissionIInv, TurnTypeOK
    <3>. QED BY <3>1 DEF AdmissionIInv, TicketsKnow
  <2>2. CASE StreamEnds(l)
    BY <2>2 DEF StreamEnds, Close, Goto, Steps, AdmissionIInv, TicketsKnow
  <2>. QED BY <2>1, <2>2 DEF AdmissionIInv, TicketsKnow, Prepare, EnterFull, Admitted, Dispatch,
       TakeLock, StreamCut, Close, Goto, Steps
<1>5. PICK at \in Steps : /\ pc' = [pc EXCEPT ![l] = at]
                          /\ ticket[l] = "granted" =>
                               at \in {"queued", "dispatch", "lock", "stream", "finalize", "complete"}
                          /\ ticket[l] = "waiting" => at = "queued"
  BY <1>4
<1>6. SlotsHeld' /\ TicketsKnow' /\ QueueHolds'
  BY <1>1, <1>5, QueueStays
<1>7. pc' \in [Lane -> Steps]
  BY <1>5 DEF AdmissionIInv, TurnTypeOK
<1>. QED BY <1>1, <1>2, <1>3, <1>6, <1>7 DEF AdmissionIInv, TurnTypeOK

LEMMA AdmissionNextIInv == ASSUME AdmissionIInv, LinesHold, [TurnNext]_turnVars PROVE AdmissionIInv'
<1>1. CASE UNCHANGED turnVars
  BY <1>1 DEF turnVars, AdmissionIInv, TurnTypeOK, SlotsHeld, Granted, TicketsKnow, QueueHolds
<1>. QED BY <1>1, AskIInv, EnterGrantedIInv, EnterQueueIInv, WithdrawIInv, TickIInv, UnseenIInv,
     FinishIInv DEF TurnNext

(* The message of a turn: only its finalizing write or a fault ends it.      *)
LEMMA MessagesNext ==
  ASSUME TurnTypeOK, MessagesClosed, [TurnNext]_turnVars PROVE MessagesClosed'
<1>1. CASE UNCHANGED turnVars
  BY <1>1 DEF turnVars, MessagesClosed
<1>2. CASE Tick
  BY <1>2 DEF Tick, MessagesClosed
<1>3. ASSUME NEW l \in Lane,
             \/ ClientGone(l) \/ Deadline(l) \/ EnterGranted(l) \/ EnterFull(l)
             \/ EnterQueue(l) \/ Admitted(l) \/ QueueTimedOut(l) \/ QueueAbandoned(l)
             \/ Dispatch(l) \/ TakeLock(l) \/ StreamEnds(l) \/ StreamCut(l)
      PROVE  MessagesClosed'
  <2>1. /\ UNCHANGED <<msg, excused>>
        /\ \A m \in Lane : pc'[m] = pc[m] \/ pc'[m] \notin {"idle", "complete"}
    BY <1>3 DEF TurnTypeOK, ClientGone, Deadline, EnterGranted, EnterFull, EnterQueue, Admitted,
       QueueTimedOut, QueueAbandoned, Dispatch, TakeLock, StreamEnds, StreamCut, Close, Goto
  <2>. QED BY <2>1 DEF MessagesClosed
<1>4. ASSUME NEW l \in Lane, Ask(l) \/ Prepare(l) \/ Complete(l) PROVE MessagesClosed'
  BY <1>4 DEF TurnTypeOK, MessagesClosed, Ask, Prepare, Complete, Goto
<1>5. ASSUME NEW l \in Lane, Finalize(l) PROVE MessagesClosed'
  <2>1. verdict[l] # "pending"
    BY DEF TurnTypeOK
  <2>2. \A m \in Lane \ {l} : pc'[m] = pc[m] /\ msg'[m] = msg[m] /\ excused'[m] = excused[m]
    BY <1>5 DEF TurnTypeOK, Finalize, Goto
  <2>3. excused'[l] \/ msg'[l] = verdict[l]
    BY <1>5 DEF TurnTypeOK, Finalize
  <2>. QED BY <2>1, <2>2, <2>3 DEF MessagesClosed
<1>. QED BY <1>1, <1>2, <1>3, <1>4, <1>5 DEF TurnNext

-----------------------------------------------------------------------------
(* The line of a session.                                                    *)

(* A step outside the line: nobody enters, leaves or reaches its head.       *)
LEMMA LinesStay ==
  ASSUME LinesHold, UNCHANGED lockLine,
         \A l \in Lane : pc'[l] \in {"lock", "stream"} <=> pc[l] \in {"lock", "stream"},
         \A l \in Lane : pc'[l] = "stream" => Head(lockLine[SessionOf[l]]) = l
  PROVE  LinesHold'
  BY DEF LinesHold

LEMMA JoinsLine ==
  ASSUME TurnTypeOK, LinesHold, NEW l \in Lane, Dispatch(l) PROVE LinesHold'
<1>1. CASE Aborted(l)
  <2>1. /\ UNCHANGED lockLine /\ pc[l] = "dispatch"
        /\ pc'[l] = "finalize" /\ \A m \in Lane \ {l} : pc'[m] = pc[m]
    BY <1>1 DEF Dispatch, Close, Goto, TurnTypeOK
  <2>. QED BY <2>1, LinesStay DEF LinesHold
<1>2. CASE ~Aborted(l)
  <2> DEFINE q == lockLine[SessionOf[l]]
  <2>1. q \in Seq(Lane) /\ SessionOf[l] \in Sessions
    BY OptionTypes DEF TurnTypeOK
  <2>2. /\ lockLine' = [lockLine EXCEPT ![SessionOf[l]] = Append(q, l)]
        /\ pc' = [pc EXCEPT ![l] = "lock"] /\ pc[l] = "dispatch"
    BY <1>2 DEF Dispatch, Goto
  <2>3. \A i \in DOMAIN q : q[i] # l
    BY <2>2 DEF LinesHold
  <2>4. /\ lockLine'[SessionOf[l]] = Append(q, l)
        /\ \A s \in Sessions \ {SessionOf[l]} : lockLine'[s] = lockLine[s]
        /\ pc'[l] = "lock" /\ \A m \in Lane \ {l} : pc'[m] = pc[m]
    BY <2>1, <2>2 DEF TurnTypeOK
  <2>5. /\ DOMAIN q = 1 .. Len(q) /\ DOMAIN Append(q, l) = 1 .. Len(q) + 1 /\ Len(q) \in Nat
        /\ Append(q, l)[Len(q) + 1] = l /\ \A i \in 1 .. Len(q) : Append(q, l)[i] = q[i]
        /\ q # <<>> => Head(Append(q, l)) = Head(q)
    BY <2>1
  <2>6. \A m \in Lane : (\E i \in DOMAIN Append(q, l) : Append(q, l)[i] = m) <=>
                        (m = l \/ \E i \in DOMAIN q : q[i] = m)
    BY <2>5
  <2>7. \A m \in Lane : SessionOf[m] = SessionOf[l] /\ pc[m] = "stream" => q # <<>> /\ Head(q) = m
    BY <2>5 DEF LinesHold
  <2> HIDE DEF q
  <2>8. \A m \in Lane : pc'[m] = "stream" => Head(lockLine'[SessionOf[m]]) = m
    BY <2>4, <2>5, <2>7, OptionTypes DEF LinesHold
  <2>9. \A s \in Sessions : \A i, j \in DOMAIN lockLine'[s] :
          lockLine'[s][i] = lockLine'[s][j] => i = j
    <3>1. \A i, j \in DOMAIN Append(q, l) : Append(q, l)[i] = Append(q, l)[j] => i = j
      BY <2>1, <2>3, <2>5 DEF LinesHold, q
    <3>. QED BY <2>4, <3>1 DEF LinesHold
  <2>10. \A m \in Lane : pc'[m] \in {"lock", "stream"} <=>
           \E i \in DOMAIN lockLine'[SessionOf[m]] : lockLine'[SessionOf[m]][i] = m
    <3>1. ASSUME NEW m \in Lane, SessionOf[m] = SessionOf[l]
          PROVE  pc'[m] \in {"lock", "stream"} <=>
                   \E i \in DOMAIN lockLine'[SessionOf[m]] : lockLine'[SessionOf[m]][i] = m
      <4>1. pc[m] \in {"lock", "stream"} <=> \E i \in DOMAIN q : q[i] = m
        BY <3>1 DEF LinesHold, q
      <4>2. lockLine'[SessionOf[m]] = Append(q, l)
        BY <2>4, <3>1
      <4>3. pc'[m] \in {"lock", "stream"} <=> m = l \/ pc[m] \in {"lock", "stream"}
        BY <2>4
      <4>. QED BY <2>6, <4>1, <4>2, <4>3
    <3>2. ASSUME NEW m \in Lane, SessionOf[m] # SessionOf[l]
          PROVE  pc'[m] \in {"lock", "stream"} <=>
                   \E i \in DOMAIN lockLine'[SessionOf[m]] : lockLine'[SessionOf[m]][i] = m
      BY <2>4, <3>2, OptionTypes DEF LinesHold
    <3>. QED BY <3>1, <3>2
  <2>. QED BY <2>8, <2>9, <2>10 DEF LinesHold
<1>. QED BY <1>1, <1>2

LEMMA LeavesLine ==
  ASSUME TurnTypeOK, LinesHold, NEW l \in Lane, StreamEnds(l) \/ StreamCut(l) PROVE LinesHold'
<1> DEFINE q == lockLine[SessionOf[l]]
<1>1. q \in Seq(Lane) /\ q # <<>> /\ SessionOf[l] \in Sessions /\ Head(q) = l
  BY OptionTypes DEF TurnTypeOK, LinesHold, StreamEnds, StreamCut
<1>2. /\ lockLine' = [lockLine EXCEPT ![SessionOf[l]] = Tail(q)]
      /\ pc' = [pc EXCEPT ![l] = "finalize"]
  BY DEF StreamEnds, StreamCut, LeaveLock, Close, Goto
<1>3. /\ lockLine'[SessionOf[l]] = Tail(q)
      /\ \A s \in Sessions \ {SessionOf[l]} : lockLine'[s] = lockLine[s]
      /\ pc'[l] = "finalize" /\ \A m \in Lane \ {l} : pc'[m] = pc[m]
  BY <1>1, <1>2 DEF TurnTypeOK
<1>4. /\ Tail(q) \in Seq(Lane) /\ Len(Tail(q)) = Len(q) - 1 /\ Len(q) \in Nat \ {0}
      /\ \A i \in 1 .. Len(Tail(q)) : Tail(q)[i] = q[i + 1]
      /\ DOMAIN q = 1 .. Len(q) /\ DOMAIN Tail(q) = 1 .. Len(q) - 1 /\ q[1] = l
  <2>. HIDE DEF q
  <2>. QED BY <1>1, HeadTailProperties
<1>5. \A i, j \in DOMAIN q : q[i] = q[j] => i = j
  BY <1>1 DEF LinesHold
<1> HIDE DEF q
<1>6. \A i, j \in DOMAIN Tail(q) : Tail(q)[i] = Tail(q)[j] => i = j
  BY <1>4, <1>5
<1>7. \A m \in Lane : (\E i \in DOMAIN Tail(q) : Tail(q)[i] = m) <=>
                      (m # l /\ \E i \in DOMAIN q : q[i] = m)
  <2>1. ASSUME NEW m \in Lane, m # l, NEW i \in DOMAIN q, q[i] = m
        PROVE  \E j \in DOMAIN Tail(q) : Tail(q)[j] = m
    <3>1. i - 1 \in DOMAIN Tail(q) /\ Tail(q)[i - 1] = m
      BY <1>4, <2>1
    <3>. QED BY <3>1
  <2>2. \A i \in DOMAIN Tail(q) : i + 1 \in DOMAIN q /\ q[i + 1] # l
    BY <1>4, <1>5
  <2>. QED BY <1>4, <2>1, <2>2
<1>8. \A m \in Lane : pc'[m] = "stream" => Head(lockLine'[SessionOf[m]]) = m
  <2>1. ASSUME NEW m \in Lane, pc'[m] = "stream" PROVE SessionOf[m] # SessionOf[l]
    BY <1>1, <1>3, <2>1 DEF LinesHold, q
  <2>. QED BY <1>3, <2>1, OptionTypes DEF LinesHold
<1>9. \A s \in Sessions : \A i, j \in DOMAIN lockLine'[s] : lockLine'[s][i] = lockLine'[s][j] => i = j
  <2>1. ASSUME NEW s \in Sessions, s # SessionOf[l]
        PROVE  \A i, j \in DOMAIN lockLine'[s] : lockLine'[s][i] = lockLine'[s][j] => i = j
    BY <1>3, <2>1 DEF LinesHold
  <2>. QED BY <1>3, <1>6, <2>1
<1>10. \A m \in Lane : pc'[m] \in {"lock", "stream"} <=>
         \E i \in DOMAIN lockLine'[SessionOf[m]] : lockLine'[SessionOf[m]][i] = m
  <2>1. ASSUME NEW m \in Lane, SessionOf[m] = SessionOf[l]
        PROVE  pc'[m] \in {"lock", "stream"} <=>
                 \E i \in DOMAIN lockLine'[SessionOf[m]] : lockLine'[SessionOf[m]][i] = m
    <3>1. pc[m] \in {"lock", "stream"} <=> \E i \in DOMAIN q : q[i] = m
      BY <2>1 DEF LinesHold, q
    <3>2. lockLine'[SessionOf[m]] = Tail(q)
      BY <1>3, <2>1
    <3>3. pc'[m] \in {"lock", "stream"} <=> m # l /\ pc[m] \in {"lock", "stream"}
      BY <1>3
    <3>. QED BY <1>7, <3>1, <3>2, <3>3
  <2>2. ASSUME NEW m \in Lane, SessionOf[m] # SessionOf[l]
        PROVE  pc'[m] \in {"lock", "stream"} <=>
                 \E i \in DOMAIN lockLine'[SessionOf[m]] : lockLine'[SessionOf[m]][i] = m
    BY <1>3, <2>2, OptionTypes DEF LinesHold
  <2>. QED BY <2>1, <2>2
<1>. QED BY <1>8, <1>9, <1>10 DEF LinesHold

LEMMA LinesNext ==
  ASSUME TurnTypeOK, LinesHold, [TurnNext]_turnVars PROVE LinesHold'
<1>1. CASE UNCHANGED turnVars \/ Tick
  BY <1>1 DEF turnVars, Tick, LinesHold
<1>2. ASSUME NEW l \in Lane,
             \/ Ask(l) \/ Prepare(l) \/ ClientGone(l) \/ Deadline(l) \/ EnterGranted(l)
             \/ EnterFull(l) \/ EnterQueue(l) \/ Admitted(l) \/ QueueTimedOut(l)
             \/ QueueAbandoned(l) \/ Finalize(l) \/ Complete(l)
      PROVE  LinesHold'
  <2>1. /\ UNCHANGED lockLine
        /\ \A m \in Lane : pc'[m] = pc[m] \/ {pc[m], pc'[m]} \cap {"lock", "stream"} = {}
    BY <1>2 DEF TurnTypeOK, Ask, Prepare, ClientGone, Deadline, EnterGranted, EnterFull, EnterQueue,
       Admitted, QueueTimedOut, QueueAbandoned, Finalize, Complete, Close, Goto
  <2>. QED BY <2>1, LinesStay DEF LinesHold
<1>3. ASSUME NEW l \in Lane, TakeLock(l) PROVE LinesHold'
  <2>1. /\ UNCHANGED lockLine /\ pc[l] = "lock" /\ Head(lockLine[SessionOf[l]]) = l
        /\ pc'[l] = "stream" /\ \A m \in Lane \ {l} : pc'[m] = pc[m]
    BY <1>3 DEF TurnTypeOK, TakeLock, Goto
  <2>. QED BY <2>1, LinesStay DEF LinesHold
<1>. QED BY <1>1, <1>2, <1>3, JoinsLine, LeavesLine DEF TurnNext

LEMMA TurnNextIInv == TurnIInv /\ [TurnNext]_turnVars => TurnIInv'
  BY AdmissionNextIInv, MessagesNext, LinesNext DEF TurnIInv, AdmissionIInv

(* A waiter that is granted while an older one goes on waiting.              *)
LEMMA OvertakingStep ==
  ASSUME AdmissionIInv, TurnNext, NEW i \in DOMAIN waiters, NEW j \in DOMAIN waiters, i < j,
         ticket'[waiters[j]] = "granted", ticket'[waiters[i]] = "waiting"
  PROVE  /\ BaseWeight[waiters[j]] > BaseWeight[waiters[i]]
         /\ (waited[waiters[i]] - waited[waiters[j]]) * AgingStep
              < AgingWindow * (BaseWeight[waiters[j]] - BaseWeight[waiters[i]] + AgingStep)
<1> DEFINE old == waiters[i]
           young == waiters[j]
<1>1. /\ old \in Lane /\ young \in Lane /\ ticket[young] = "waiting"
      /\ waited[old] \in Nat /\ waited[young] \in Nat /\ waited[young] <= waited[old]
      /\ BaseWeight[old] \in Nat /\ BaseWeight[young] \in Nat
  BY TurnAssumption DEF AdmissionIInv, TurnTypeOK, QueueHolds
<1>2. PICK l \in Lane : GiveBack(l)
  <2>1. ASSUME NEW l \in Lane,
               \/ Ask(l) \/ Prepare(l) \/ ClientGone(l) \/ Deadline(l) \/ EnterGranted(l)
               \/ EnterFull(l) \/ EnterQueue(l) \/ Admitted(l) \/ QueueTimedOut(l)
               \/ QueueAbandoned(l) \/ Dispatch(l) \/ TakeLock(l) \/ StreamEnds(l) \/ StreamCut(l)
        PROVE  ticket'[young] # "granted"
    BY <1>1, <2>1 DEF AdmissionIInv, TurnTypeOK, TicketsKnow, Ask, Prepare, ClientGone, Deadline,
       EnterGranted, EnterFull, EnterQueue, Admitted, QueueTimedOut, QueueAbandoned, Withdraw,
       Dispatch, TakeLock, StreamEnds, StreamCut
  <2>2. ASSUME NEW l \in Lane, Finalize(l) \/ Complete(l)
        PROVE  GiveBack(l)
    BY <1>1, <2>2 DEF Finalize, Complete, young
  <2>. QED BY <1>1, <2>1, <2>2 DEF TurnNext, Tick
<1>3. BestWaiter \in DOMAIN waiters /\ \A k \in DOMAIN waiters \ {BestWaiter} : Precedes(BestWaiter, k)
  <2>1. waiters # <<>>
    BY DEF AdmissionIInv, TurnTypeOK
  <2>. QED BY <2>1, BestIsThere DEF AdmissionIInv
<1>4. young = waiters[BestWaiter]
  BY <1>1, <1>2, <1>3 DEF GiveBack, AdmissionIInv, TurnTypeOK
<1>5. BestWaiter = j
  BY <1>3, <1>4 DEF AdmissionIInv, QueueHolds
<1>6. Precedes(j, i)
  BY <1>3, <1>5 DEF AdmissionIInv, TurnTypeOK
<1>7. EffectiveWeight(young) > EffectiveWeight(old)
  BY <1>6 DEF Precedes, AdmissionIInv, TurnTypeOK
<1> HIDE DEF old, young
<1>8. BaseWeight[young] + (waited[young] \div AgingWindow) * AgingStep
        > BaseWeight[old] + (waited[old] \div AgingWindow) * AgingStep
  BY <1>7 DEF EffectiveWeight
<1>9. /\ BaseWeight[young] > BaseWeight[old]
      /\ (waited[old] - waited[young]) * AgingStep
           < AgingWindow * (BaseWeight[young] - BaseWeight[old] + AgingStep)
  BY <1>1, <1>8, Overtakes, TurnAssumption
<1>. QED BY <1>9 DEF old, young

LEMMA TurnSound == TurnIInv => SlotsAccountedFor /\ NothingLeftPending /\ SessionsSerialized
<1>1. TurnIInv => SlotsAccountedFor
  BY DEF TurnIInv, AdmissionIInv, SlotsHeld, Granted, TicketsKnow, QueueHolds, SlotsAccountedFor
<1>2. TurnIInv => NothingLeftPending
  BY DEF TurnIInv, MessagesClosed, NothingLeftPending
<1>3. TurnIInv => SessionsSerialized
  BY DEF TurnIInv, LinesHold, SessionsSerialized
<1>. QED BY <1>1, <1>2, <1>3

-----------------------------------------------------------------------------
LEMMA TurnInvariance == TurnSpec => []TurnIInv
  BY TurnInitIInv, TurnNextIInv, PTL DEF TurnSpec

(* No slot of the admission queue is lost or given twice, no waiter is left  *)
(* behind and none waits beside a free slot, whichever of its exits a turn   *)
(* takes (admission.ts, chat.ts).                                            *)
THEOREM SlotsNeverLeak == TurnSpec => []SlotsAccountedFor
  BY TurnInvariance, TurnSound, PTL

(* No turn ends with its message still pending, unless the closing write     *)
(* failed (chat.ts, finalize on every path).                                 *)
THEOREM MessagesAreClosed == TurnSpec => []NothingLeftPending
  BY TurnInvariance, TurnSound, PTL

(* The turns of a session stream one at a time, in the order they came to    *)
(* its line (lifecycle.ts, the chain of promises).                           *)
THEOREM SessionsTakeTurns == TurnSpec => []SessionsSerialized
  BY TurnInvariance, TurnSound, PTL

(* Who is overtaken in the queue is overtaken by a heavier tier, and only    *)
(* while its wait is worth less than the difference of the weights; for all  *)
(* weights, aging windows and steps (admission.ts, wakeNext).                *)
THEOREM OvertakingHasAPrice == TurnSpec => OvertakingIsBounded
<1> DEFINE Fair ==
      \A i, j \in DOMAIN waiters :
        LET old == waiters[i]
            young == waiters[j] IN
        (i < j /\ ticket'[young] = "granted" /\ ticket'[old] = "waiting") =>
           /\ BaseWeight[young] > BaseWeight[old]
           /\ (waited[old] - waited[young]) * AgingStep
                 < AgingWindow * (BaseWeight[young] - BaseWeight[old] + AgingStep)
<1>1. TurnIInv /\ [TurnNext]_turnVars => [Fair]_turnVars
  <2>1. TurnIInv /\ TurnNext => Fair
    BY OvertakingStep DEF TurnIInv
  <2>. QED BY <2>1
<1>. QED BY <1>1, TurnInvariance, PTL DEF TurnSpec, OvertakingIsBounded

-----------------------------------------------------------------------------
(* The saves of a board                                                      *)

Place == {"idle", "check", "prior", "write", "bump", "undo", "drop", "reload",
          "conflict", "error", "refresh"}
Text == Nat \cup {NoText}
Body == [ver : Nat, text : Text]
Update == [at : Place, try : Nat, text : Text, base : Nat, prior : Body,
           outcome : {"none", "conflict", "error"}]
Editor == [shown : Nat, known : Nat, dirty : BOOLEAN, timer : BOOLEAN,
           trailing : BOOLEAN, failed : BOOLEAN]
Fetch == [at : {"idle", "body", "fill", "answer"}, for : {"none", "retry", "peek"},
          ver : Nat, of : Nat]

BoardTypeOK ==
  /\ meta \in Nat \ {0}
  /\ body \in Body
  /\ cached \in [ver : Nat, of : Nat]
  /\ update \in [Caller -> Update]
  /\ editor \in [Window -> Editor]
  /\ fetch \in [Window -> Fetch]
  /\ edits \in Nat /\ extras \in 0 .. MaxExtras
  /\ acked \in Text
  /\ stored \in [Window -> Nat]

(* Only windows save here, and a save carries a document; the place of a     *)
(* save says what it waits for.                                              *)
SavesKnow ==
  /\ \A a \in Agent : update[a].at = "idle"
  /\ \A w \in Window :
       /\ update[w].at # "idle" => update[w].text \in Nat
       /\ update[w].at = "undo" => update[w].outcome \in {"conflict", "error"}
       /\ fetch[w].for = "retry" => update[w].at = "refresh"

(* Nobody knows a version that the row has not reached.                      *)
VersionsPassed ==
  /\ \A w \in Window :
       /\ editor[w].known \in 1 .. meta
       /\ update[w].at # "idle" => update[w].base \in 1 .. meta
       /\ fetch[w].at # "idle" => fetch[w].ver \in 1 .. meta
  /\ cached # None => cached.ver \in 1 .. meta

(* The body between two saves: the one that was acknowledged.                *)
Settled(b) ==
  \/ b = NoBody /\ acked = NoText /\ meta = 1
  \/ b = [ver |-> meta, text |-> acked]

(* What two faults can leave behind: a body that was rolled back, put back   *)
(* by a later rollback, above the version of the row.                        *)
PutBack(b) == extras >= 2 /\ b.ver = meta + 1

(* One save at most stands between the stores, and the body is its; what a   *)
(* save remembers for its rollback is the settled body, or another's that    *)
(* was there when it looked.                                                 *)
StoresHold ==
  /\ \A c, d \in Caller : Unsettled(c) /\ Unsettled(d) => c = d
  /\ \A c \in Caller : Unsettled(c) =>
       update[c].base = meta /\ body = [ver |-> meta + 1, text |-> update[c].text]
  /\ (\A c \in Caller : ~Unsettled(c)) => Settled(body) \/ PutBack(body)
  /\ \A c \in Caller : update[c].at = "undo" => extras >= 1
  /\ \A c \in Caller :
       update[c].at \in {"write", "bump", "undo"} /\ update[c].base = meta =>
         \/ Settled(update[c].prior)
         \/ /\ update[c].prior.ver = meta + 1
            /\ \/ update[c].at = "write" /\ body.ver = meta + 1
               \/ update[c].at # "undo" /\ extras >= 1
               \/ extras >= 2

(* Who reads: the row first, so the body is not older.                       *)
ReadersHold ==
  /\ DetailIsNotBehind
  /\ \A w \in Window : fetch[w].at = "fill" =>
       /\ fetch[w].of = 0 => fetch[w].ver <= 1
       /\ fetch[w].of # 0 => fetch[w].of >= fetch[w].ver

(* Where the last edit of a window is.                                       *)
EditsHold ==
  \A w \in Window : LET e == editor[w] IN
    /\ e.dirty => e.timer \/ (e.trailing /\ InFlight(w)) \/ e.failed
    /\ InFlight(w) => ~e.failed
    /\ ~e.dirty => IF InFlight(w) THEN update[w].text = e.shown ELSE e.shown = stored[w]

BoardIInv ==
  BoardTypeOK /\ SavesKnow /\ VersionsPassed /\ StoresHold /\ ReadersHold /\ EditsHold

LEMMA BoardInitIInv == BoardInit => BoardIInv
  BY BoardAssumption
  DEF BoardInit, BoardIInv, BoardTypeOK, SavesKnow, VersionsPassed, StoresHold, Settled, Unsettled,
      ReadersHold, DetailIsNotBehind, EditsHold, InFlight, Place, Text, Body, Update, Editor, Fetch,
      NoUpdate, NoBody, NoFetch, None, Caller

-----------------------------------------------------------------------------
(* What one step does to the record of a save.                               *)

LEMMA SaveMoves ==
  ASSUME BoardTypeOK, NEW c \in Caller, NEW place \in Place, UpdateGoes(c, place)
  PROVE  /\ update' \in [Caller -> Update]
         /\ update'[c].at = place /\ update'[c].text = update[c].text
         /\ update'[c].base = update[c].base /\ update'[c].prior = update[c].prior
         /\ update'[c].outcome = update[c].outcome
         /\ \A d \in Caller \ {c} : update'[d] = update[d]
<1> DEFINE u == [update[c] EXCEPT !.at = place]
<1>1. u \in Update /\ u.at = place /\ u.text = update[c].text /\ u.base = update[c].base
      /\ u.prior = update[c].prior /\ u.outcome = update[c].outcome
  BY DEF BoardTypeOK, Update
<1>2. update' = [update EXCEPT ![c] = u]
  BY DEF UpdateGoes
<1> HIDE DEF u
<1>. QED BY <1>1, <1>2 DEF BoardTypeOK

LEMMA SaveIsReplaced ==
  ASSUME BoardTypeOK, NEW c \in Caller, NEW u \in Update, update' = [update EXCEPT ![c] = u]
  PROVE  /\ update' \in [Caller -> Update] /\ update'[c] = u
         /\ \A d \in Caller \ {c} : update'[d] = update[d]
  BY DEF BoardTypeOK

LEMMA FetchIsReplaced ==
  ASSUME BoardTypeOK, NEW w \in Window, NEW f \in Fetch, fetch' = [fetch EXCEPT ![w] = f]
  PROVE  /\ fetch' \in [Window -> Fetch] /\ fetch'[w] = f
         /\ \A v \in Window \ {w} : fetch'[v] = fetch[v]
  BY DEF BoardTypeOK

LEMMA EditorIsReplaced ==
  ASSUME BoardTypeOK, NEW w \in Window, NEW e \in Editor, editor' = [editor EXCEPT ![w] = e]
  PROVE  /\ editor' \in [Window -> Editor] /\ editor'[w] = e
         /\ \A v \in Window \ {w} : editor'[v] = editor[v]
  BY DEF BoardTypeOK

LEMMA Callers == /\ \A w \in Window : w \in Caller /\ w \notin Agent
                 /\ \A c \in Caller : c \in Window \/ c \in Agent
  BY BoardAssumption DEF Caller

(* A step that no save stands at the stores in, and that leaves them alone.  *)
LEMMA StoresStay ==
  ASSUME BoardTypeOK, StoresHold, UNCHANGED <<meta, body, acked>>, extras' \in Nat, extras' >= extras,
         NEW c \in Caller, \A d \in Caller \ {c} : update'[d] = update[d],
         update'[c] = update[c] \/ {update[c].at, update'[c].at} \cap {"write", "bump", "undo"} = {}
  PROVE  StoresHold'
<1>1. \A d \in Caller : update'[d] = update[d]
                        \/ {update[d].at, update'[d].at} \cap {"write", "bump", "undo"} = {}
  OBVIOUS
<1>2. \A d \in Caller : Unsettled(d)' <=> Unsettled(d)
  BY <1>1 DEF Unsettled
<1>3. \A b : (Settled(b)' <=> Settled(b)) /\ (PutBack(b) => PutBack(b)')
  BY DEF Settled, PutBack, BoardTypeOK
<1>4. /\ \A d \in Caller : Unsettled(d) => update'[d] = update[d]
      /\ \A d \in Caller : update'[d].at \in {"write", "bump", "undo"} => update'[d] = update[d]
  BY <1>1 DEF Unsettled
<1>. QED BY <1>2, <1>3, <1>4 DEF StoresHold, BoardTypeOK

(* A save that goes on leaves everything but the stores in order.            *)
LEMMA SaveGoesOn ==
  ASSUME BoardIInv, NEW w \in Window, NEW u \in Update, update' = [update EXCEPT ![w] = u],
         update[w].at \notin {"idle", "refresh"}, u.at # "idle",
         u.text = update[w].text, u.base = update[w].base,
         u.at = "undo" => u.outcome \in {"conflict", "error"},
         UNCHANGED <<editor, fetch, edits, stored>>, cached' \in {cached, None},
         meta' \in Nat, meta' >= meta
  PROVE  /\ update' \in [Caller -> Update] /\ update'[w] = u
         /\ \A d \in Caller \ {w} : update'[d] = update[d]
         /\ SavesKnow' /\ VersionsPassed' /\ ReadersHold' /\ EditsHold'
<1>1. /\ update' \in [Caller -> Update] /\ update'[w] = u
      /\ \A d \in Caller \ {w} : update'[d] = update[d]
  BY SaveIsReplaced, Callers DEF BoardIInv
<1>2. /\ \A v \in Window : v # w => update'[v] = update[v]
      /\ \A a \in Agent : update'[a] = update[a]
  BY <1>1, Callers DEF Caller
<1>3. SavesKnow'
  BY <1>1, <1>2 DEF BoardIInv, SavesKnow
<1>4. VersionsPassed'
  BY <1>1, <1>2 DEF BoardIInv, BoardTypeOK, VersionsPassed
<1>5. ReadersHold'
  BY DEF BoardIInv, ReadersHold, DetailIsNotBehind, None
<1>6. EditsHold'
  BY <1>1, <1>2 DEF BoardIInv, EditsHold, InFlight
<1>. QED BY <1>1, <1>3, <1>4, <1>5, <1>6

(* The same for a save that only takes another place.                        *)
LEMMA PlaceIsTaken ==
  ASSUME BoardIInv, NEW w \in Window, NEW place \in Place, UpdateGoes(w, place),
         update[w].at \notin {"idle", "refresh"}, place \notin {"idle", "undo"},
         UNCHANGED <<editor, fetch, edits, stored>>, cached' \in {cached, None},
         meta' \in Nat, meta' >= meta
  PROVE  /\ update' \in [Caller -> Update]
         /\ update'[w].at = place /\ update'[w].text = update[w].text
         /\ update'[w].base = update[w].base /\ update'[w].prior = update[w].prior
         /\ \A d \in Caller \ {w} : update'[d] = update[d]
         /\ SavesKnow' /\ VersionsPassed' /\ ReadersHold' /\ EditsHold'
<1> DEFINE u == [update[w] EXCEPT !.at = place]
<1>1. /\ u \in Update /\ u.at = place /\ u.text = update[w].text /\ u.base = update[w].base
      /\ u.prior = update[w].prior
  BY Callers DEF BoardIInv, BoardTypeOK, Update
<1>2. update' = [update EXCEPT ![w] = u]
  BY DEF UpdateGoes
<1> HIDE DEF u
<1>. QED BY <1>1, <1>2, SaveGoesOn

LEMMA CheckIInv == ASSUME BoardIInv, NEW w \in Window, Check(w) PROVE BoardIInv'
<1> DEFINE place == IF update[w].base # meta THEN "conflict"
                    ELSE IF update[w].text = NoText THEN "bump" ELSE "prior"
<1>1. place \in {"conflict", "prior"}
  BY BoardAssumption DEF Check, BoardIInv, SavesKnow
<1>2. /\ UpdateGoes(w, place) /\ update[w].at = "check"
      /\ UNCHANGED <<storeVars, editor, fetch, countVars, acked, stored>>
  BY DEF Check
<1> HIDE DEF place
<1>3. /\ update' \in [Caller -> Update] /\ update'[w].at = place
      /\ \A d \in Caller \ {w} : update'[d] = update[d]
      /\ SavesKnow' /\ VersionsPassed' /\ ReadersHold' /\ EditsHold'
  BY <1>1, <1>2, PlaceIsTaken DEF Place, storeVars, countVars, BoardIInv, BoardTypeOK
<1>4. BoardTypeOK'
  BY <1>2, <1>3 DEF BoardIInv, BoardTypeOK, storeVars, countVars
<1>5. StoresHold'
  BY <1>1, <1>2, <1>3, StoresStay, Callers DEF BoardIInv, BoardTypeOK, storeVars, countVars
<1>. QED BY <1>3, <1>4, <1>5 DEF BoardIInv

LEMMA DropCacheIInv == ASSUME BoardIInv, NEW w \in Window, DropCache(w) PROVE BoardIInv'
<1>1. /\ UpdateGoes(w, "reload") /\ update[w].at = "drop" /\ cached' = None
      /\ UNCHANGED <<meta, body, editor, fetch, countVars, acked, stored>>
  BY DEF DropCache
<1>2. /\ update' \in [Caller -> Update] /\ update'[w].at = "reload"
      /\ \A d \in Caller \ {w} : update'[d] = update[d]
      /\ SavesKnow' /\ VersionsPassed' /\ ReadersHold' /\ EditsHold'
  BY <1>1, PlaceIsTaken DEF Place, countVars, BoardIInv, BoardTypeOK
<1>3. BoardTypeOK'
  BY <1>1, <1>2 DEF BoardIInv, BoardTypeOK, countVars, None
<1>4. StoresHold'
  BY <1>1, <1>2, StoresStay, Callers DEF BoardIInv, BoardTypeOK, countVars
<1>. QED BY <1>2, <1>3, <1>4 DEF BoardIInv

LEMMA ReadPriorIInv == ASSUME BoardIInv, NEW w \in Window, ReadPrior(w) PROVE BoardIInv'
<1> DEFINE u == [update[w] EXCEPT !.at = "write", !.prior = body]
<1>1. /\ u \in Update /\ u.at = "write" /\ u.text = update[w].text /\ u.base = update[w].base
      /\ u.prior = body
  <2>1. update[w] \in Update /\ body \in Body
    BY Callers DEF BoardIInv, BoardTypeOK
  <2>. QED BY <2>1 DEF Update, Place
<1>2. /\ update' = [update EXCEPT ![w] = u] /\ update[w].at = "prior"
      /\ UNCHANGED <<meta, body, cached, editor, fetch, edits, extras, acked, stored>>
  BY DEF ReadPrior, storeVars, countVars
<1> HIDE DEF u
<1>3. /\ update' \in [Caller -> Update] /\ update'[w] = u
      /\ \A d \in Caller \ {w} : update'[d] = update[d]
      /\ SavesKnow' /\ VersionsPassed' /\ ReadersHold' /\ EditsHold'
  <2>1. /\ meta' \in Nat /\ meta' >= meta /\ cached' \in {cached, None}
        /\ update[w].at \notin {"idle", "refresh"} /\ u.at \notin {"idle", "undo"}
    BY <1>1, <1>2 DEF BoardIInv, BoardTypeOK
  <2>. QED BY <1>1, <1>2, <2>1, SaveGoesOn
<1>4. BoardTypeOK'
  BY <1>2, <1>3 DEF BoardIInv, BoardTypeOK
<1>5. StoresHold'
  <2>1. \A d \in Caller : Unsettled(d)' <=> Unsettled(d)
    BY <1>1, <1>2, <1>3 DEF Unsettled
  <2>2. \A b : (Settled(b)' <=> Settled(b)) /\ (PutBack(b)' <=> PutBack(b))
    BY <1>2 DEF Settled, PutBack
  <2>3. \A d \in Caller : Unsettled(d) => update'[d] = update[d]
    BY <1>2, <1>3 DEF Unsettled
  <2>4. Settled(body) \/ body.ver = meta + 1
    BY DEF BoardIInv, StoresHold, PutBack
  <2>. QED BY <1>1, <1>2, <1>3, <2>1, <2>2, <2>3, <2>4 DEF BoardIInv, StoresHold
<1>. QED BY <1>3, <1>4, <1>5 DEF BoardIInv

(* Only windows stand at the stores, and what they write is a document.      *)
LEMMA WhoStands ==
  ASSUME BoardIInv, NEW c \in Caller, update[c].at \in {"bump", "undo"}
  PROVE  Unsettled(c) /\ c \in Window /\ update[c].text \in Nat
  BY Callers, BoardAssumption DEF BoardIInv, SavesKnow, Unsettled

LEMMA ConditionalWriteIInv == ASSUME BoardIInv, NEW w \in Window, ConditionalWrite(w) PROVE BoardIInv'
<1>1. CASE body = NoBody \/ body.ver = update[w].base
  <2>1. /\ body' = [ver |-> update[w].base + 1, text |-> update[w].text]
        /\ UpdateGoes(w, "bump") /\ update[w].at = "write"
        /\ UNCHANGED <<meta, cached, editor, fetch, edits, extras, acked, stored>>
    BY <1>1 DEF ConditionalWrite, countVars
  <2>2. /\ update' \in [Caller -> Update] /\ update'[w].at = "bump"
        /\ update'[w].text = update[w].text /\ update'[w].base = update[w].base
        /\ update'[w].prior = update[w].prior
        /\ \A d \in Caller \ {w} : update'[d] = update[d]
        /\ SavesKnow' /\ VersionsPassed' /\ ReadersHold' /\ EditsHold'
    BY <2>1, PlaceIsTaken DEF Place, BoardIInv, BoardTypeOK
  <2>3. /\ update[w].base \in 1 .. meta /\ update[w].text \in Nat /\ update[w].text # NoText
        /\ meta \in Nat \ {0} /\ body \in Body /\ extras \in Nat
    BY <2>1, BoardAssumption DEF BoardIInv, BoardTypeOK, SavesKnow, VersionsPassed
  <2>4. BoardTypeOK'
    BY <2>1, <2>2, <2>3 DEF BoardIInv, BoardTypeOK, Body, Text
  <2>5. \A c \in Caller : ~Unsettled(c)
    BY <1>1, <2>3 DEF BoardIInv, StoresHold, NoBody
  <2>6. Settled(body)
    BY <1>1, <2>3, <2>5 DEF BoardIInv, StoresHold, PutBack, NoBody
  <2>7. update[w].base = meta /\ body.ver < meta + 1
    BY <1>1, <2>3, <2>6 DEF Settled, NoBody
  <2>8. body'.ver = meta + 1 /\ body' = [ver |-> meta' + 1, text |-> update'[w].text]
    BY <2>1, <2>2, <2>7
  <2>9. \A c \in Caller \ {w} : update[c].at \notin {"bump", "undo"}
    BY <2>5, WhoStands
  <2>10. \A c \in Caller : Unsettled(c)' <=> c = w
    BY <2>2, <2>3, <2>9, Callers DEF Unsettled
  <2>11. \A b : Settled(b)' <=> Settled(b)
    BY <2>1 DEF Settled
  <2>12. ASSUME NEW c \in Caller, update'[c].at \in {"write", "bump", "undo"},
                update'[c].base = meta'
         PROVE  \/ Settled(update[c].prior)'
                \/ /\ update'[c].prior.ver = meta' + 1
                   /\ \/ update'[c].at = "write" /\ body'.ver = meta' + 1
                      \/ update'[c].at # "undo" /\ extras' >= 1
                      \/ extras' >= 2
    <3>1. CASE c = w
      BY <2>1, <2>2, <2>3, <2>7, <2>12, <3>1 DEF BoardIInv, StoresHold, Settled
    <3>2. CASE c # w
      <4>1. update'[c] = update[c] /\ update[c].at = "write" /\ update[c].base = meta
        BY <2>1, <2>2, <2>9, <2>12, <3>2, SMT
      <4>. QED BY <2>1, <2>3, <2>8, <4>1 DEF BoardIInv, StoresHold, Settled
    <3>. QED BY <3>1, <3>2
  <2>13. \A c \in Caller : update'[c].at = "undo" => extras' >= 1
    BY <2>2, <2>9
  <2>14. StoresHold'
    <3>1. \A c, d \in Caller : Unsettled(c)' /\ Unsettled(d)' => c = d
      BY <2>10
    <3>2. \A c \in Caller : Unsettled(c)' =>
            update'[c].base = meta' /\ body' = [ver |-> meta' + 1, text |-> update'[c].text]
      BY <2>1, <2>2, <2>7, <2>8, <2>10
    <3>3. ~ \A c \in Caller : ~Unsettled(c)'
      BY <2>10, Callers
    <3>. QED BY <2>12, <2>13, <3>1, <3>2, <3>3 DEF StoresHold
  <2>. QED BY <2>2, <2>4, <2>14 DEF BoardIInv
<1>2. CASE ~(body = NoBody \/ body.ver = update[w].base)
  <2>1. /\ UpdateGoes(w, "conflict") /\ update[w].at = "write"
        /\ UNCHANGED <<meta, body, cached, editor, fetch, edits, extras, acked, stored>>
    BY <1>2 DEF ConditionalWrite, countVars
  <2>2. /\ update' \in [Caller -> Update] /\ update'[w].at = "conflict"
        /\ \A d \in Caller \ {w} : update'[d] = update[d]
        /\ SavesKnow' /\ VersionsPassed' /\ ReadersHold' /\ EditsHold'
    BY <2>1, PlaceIsTaken DEF Place, BoardIInv, BoardTypeOK
  <2>3. BoardTypeOK'
    BY <2>1, <2>2 DEF BoardIInv, BoardTypeOK
  <2>4. StoresHold'
    <3>1. \A d \in Caller : Unsettled(d)' <=> Unsettled(d)
      BY <2>1, <2>2 DEF Unsettled
    <3>2. \A b : (Settled(b)' <=> Settled(b)) /\ (PutBack(b)' <=> PutBack(b))
      BY <2>1 DEF Settled, PutBack
    <3>3. /\ \A d \in Caller : Unsettled(d) => update'[d] = update[d]
          /\ \A d \in Caller : update'[d].at \in {"write", "bump", "undo"} => update'[d] = update[d]
      BY <2>1, <2>2 DEF Unsettled
    <3>. QED BY <2>1, <3>1, <3>2, <3>3 DEF BoardIInv, StoresHold
  <2>. QED BY <2>2, <2>3, <2>4 DEF BoardIInv
<1>. QED BY <1>1, <1>2

(* A bump is never refused here: it has written the body under this version. *)
LEMMA BumpVersionIInv == ASSUME BoardIInv, NEW w \in Window, BumpVersion(w) PROVE BoardIInv'
<1>1. /\ w \in Caller /\ Unsettled(w) /\ update[w].text \in Nat /\ update[w].text # NoText
      /\ update[w].base = meta /\ body = [ver |-> meta + 1, text |-> update[w].text]
      /\ meta \in Nat \ {0}
  BY WhoStands, Callers DEF BumpVersion, Unsettled, BoardIInv, StoresHold, BoardTypeOK
<1>2. /\ meta' = meta + 1 /\ acked' = update[w].text /\ UpdateGoes(w, "drop") /\ update[w].at = "bump"
      /\ UNCHANGED <<body, cached, editor, fetch, edits, extras, stored>>
  BY <1>1 DEF BumpVersion, countVars
<1>3. /\ update' \in [Caller -> Update] /\ update'[w].at = "drop"
      /\ \A d \in Caller \ {w} : update'[d] = update[d]
      /\ SavesKnow' /\ VersionsPassed' /\ ReadersHold' /\ EditsHold'
  BY <1>1, <1>2, PlaceIsTaken DEF Place
<1>4. BoardTypeOK'
  BY <1>1, <1>2, <1>3 DEF BoardIInv, BoardTypeOK, Text
<1>5. StoresHold'
  <2>1. \A c \in Caller : update'[c].at \notin {"bump", "undo"}
    <3>1. \A c \in Caller \ {w} : update[c].at \notin {"bump", "undo"}
      BY <1>1, WhoStands DEF BoardIInv, StoresHold
    <3>. QED BY <1>3, <3>1
  <2>2. \A c \in Caller : ~Unsettled(c)'
    BY <2>1 DEF Unsettled
  <2>3. Settled(body)'
    BY <1>1, <1>2 DEF Settled
  <2>4. \A c \in Caller : update'[c].at = "write" => update'[c].base # meta'
    <3>1. \A c \in Caller : update[c].at = "write" => update[c].base \in 1 .. meta
      BY Callers DEF BoardIInv, SavesKnow, VersionsPassed
    <3>. QED BY <1>1, <1>2, <1>3, <3>1
  <2>. QED BY <2>1, <2>2, <2>3, <2>4 DEF StoresHold
<1>. QED BY <1>3, <1>4, <1>5 DEF BoardIInv

LEMMA BumpFailsIInv == ASSUME BoardIInv, NEW w \in Window, BumpFails(w) PROVE BoardIInv'
<1> DEFINE u == [update[w] EXCEPT !.at = "undo", !.outcome = "error"]
<1>1. /\ w \in Caller /\ Unsettled(w) /\ update[w].text \in Nat /\ update[w].text # NoText
      /\ update[w] \in Update /\ extras \in Nat /\ meta \in Nat
  BY WhoStands, Callers DEF BumpFails, Unsettled, BoardIInv, BoardTypeOK
<1>2. /\ u \in Update /\ u.at = "undo" /\ u.outcome = "error" /\ u.text = update[w].text
      /\ u.base = update[w].base /\ u.prior = update[w].prior
  BY <1>1 DEF Update, Place
<1>3. /\ update' = [update EXCEPT ![w] = u] /\ update[w].at = "bump"
      /\ extras < MaxExtras /\ extras' = extras + 1
      /\ UNCHANGED <<meta, body, cached, editor, fetch, edits, acked, stored>>
  BY <1>1 DEF BumpFails, storeVars
<1> HIDE DEF u
<1>4. /\ update' \in [Caller -> Update] /\ update'[w] = u
      /\ \A d \in Caller \ {w} : update'[d] = update[d]
      /\ SavesKnow' /\ VersionsPassed' /\ ReadersHold' /\ EditsHold'
  <2>1. meta' \in Nat /\ meta' >= meta /\ cached' \in {cached, None}
    BY <1>1, <1>3
  <2>. QED BY <1>2, <1>3, <2>1, SaveGoesOn
<1>5. BoardTypeOK'
  BY <1>1, <1>3, <1>4, BoardAssumption DEF BoardIInv, BoardTypeOK
<1>6. StoresHold'
  <2>1. \A c \in Caller : Unsettled(c)' <=> Unsettled(c)
    BY <1>1, <1>2, <1>3, <1>4 DEF Unsettled
  <2>2. \A b : (Settled(b)' <=> Settled(b))
    BY <1>3 DEF Settled
  <2>3. \A c, d \in Caller : Unsettled(c)' /\ Unsettled(d)' => c = d
    BY <2>1 DEF BoardIInv, StoresHold
  <2>4. \A c \in Caller : Unsettled(c)' =>
          update'[c].base = meta' /\ body' = [ver |-> meta' + 1, text |-> update'[c].text]
    BY <1>2, <1>3, <1>4, <2>1 DEF BoardIInv, StoresHold
  <2>5. \A c \in Caller : update'[c].at = "undo" => extras' >= 1
    BY <1>1, <1>3
  <2>6. ASSUME NEW c \in Caller, update'[c].at \in {"write", "bump", "undo"}, update'[c].base = meta'
        PROVE  \/ Settled(update[c].prior)'
               \/ /\ update'[c].prior.ver = meta' + 1
                  /\ \/ update'[c].at = "write" /\ body'.ver = meta' + 1
                     \/ update'[c].at # "undo" /\ extras' >= 1
                     \/ extras' >= 2
    <3>1. CASE c = w
      BY <1>1, <1>2, <1>3, <1>4, <2>6, <3>1 DEF BoardIInv, StoresHold, Settled
    <3>2. CASE c # w
      <4>1. update'[c] = update[c] /\ meta' = meta
        BY <1>3, <1>4, <3>2
      <4>. QED BY <1>1, <1>3, <2>6, <4>1 DEF BoardIInv, StoresHold, Settled
    <3>. QED BY <3>1, <3>2
  <2>7. ~ \A c \in Caller : ~Unsettled(c)'
    BY <1>1, <2>1
  <2>. QED BY <2>3, <2>4, <2>5, <2>6, <2>7 DEF StoresHold
<1>. QED BY <1>4, <1>5, <1>6 DEF BoardIInv

(* The body that is put back is the settled one, unless two faults met.      *)
LEMMA RestoreIInv == ASSUME BoardIInv, NEW w \in Window, Restore(w) PROVE BoardIInv'
<1>1. /\ w \in Caller /\ update[w].at = "undo" /\ Unsettled(w) /\ update[w].base = meta
      /\ body.ver = meta + 1 /\ update[w].outcome \in {"conflict", "error"}
      /\ update[w].prior \in Body /\ extras \in Nat /\ extras >= 1 /\ meta \in Nat
  <2>1. w \in Caller /\ update[w].at = "undo" /\ update[w] \in Update
    BY Callers DEF Restore, BoardIInv, BoardTypeOK
  <2>2. Unsettled(w)
    BY <2>1, WhoStands
  <2>. QED BY <2>1, <2>2 DEF Update, BoardIInv, StoresHold, SavesKnow, BoardTypeOK
<1>2. /\ body' = update[w].prior /\ UpdateGoes(w, update[w].outcome)
      /\ UNCHANGED <<meta, cached, editor, fetch, edits, extras, acked, stored>>
  BY <1>1 DEF Restore, countVars
<1>3. /\ update' \in [Caller -> Update] /\ update'[w].at = update[w].outcome
      /\ \A d \in Caller \ {w} : update'[d] = update[d]
      /\ SavesKnow' /\ VersionsPassed' /\ ReadersHold' /\ EditsHold'
  <2>1. update[w].outcome \in Place /\ update[w].outcome \notin {"idle", "undo"}
    BY <1>1 DEF Place
  <2>2. meta' \in Nat /\ meta' >= meta /\ cached' \in {cached, None}
    BY <1>1, <1>2
  <2>. QED BY <1>1, <1>2, <2>1, <2>2, PlaceIsTaken
<1>4. BoardTypeOK'
  BY <1>1, <1>2, <1>3 DEF BoardIInv, BoardTypeOK
<1>5. StoresHold'
  <2>1. \A c \in Caller : update'[c].at \notin {"bump", "undo"}
    <3>1. \A c \in Caller \ {w} : update[c].at \notin {"bump", "undo"}
      BY <1>1, WhoStands DEF BoardIInv, StoresHold
    <3>. QED BY <1>1, <1>3, <3>1
  <2>2. \A c \in Caller : ~Unsettled(c)'
    BY <2>1 DEF Unsettled
  <2>3. Settled(body)' \/ PutBack(body)'
    <3>1. Settled(update[w].prior) \/ (update[w].prior.ver = meta + 1 /\ extras >= 2)
      BY <1>1 DEF BoardIInv, StoresHold
    <3>. QED BY <1>2, <3>1 DEF Settled, PutBack
  <2>4. ASSUME NEW c \in Caller, update'[c].at = "write", update'[c].base = meta'
        PROVE  Settled(update[c].prior)' \/ (update'[c].prior.ver = meta' + 1 /\ extras' >= 1)
    <3>1. update'[c] = update[c] /\ meta' = meta /\ acked' = acked /\ extras' = extras
      BY <1>1, <1>2, <1>3, <2>4
    <3>. QED BY <1>1, <2>4, <3>1 DEF BoardIInv, StoresHold, Settled
  <2>. QED BY <2>1, <2>2, <2>3, <2>4 DEF StoresHold
<1>. QED BY <1>3, <1>4, <1>5 DEF BoardIInv

-----------------------------------------------------------------------------
(* The editor and its reads.                                                 *)

LEMMA EditIInv == ASSUME BoardIInv, NEW w \in Window, Edit(w) PROVE BoardIInv'
<1> DEFINE e == [editor[w] EXCEPT !.shown = edits + 1, !.dirty = TRUE, !.timer = TRUE, !.failed = FALSE]
<1>1. /\ e \in Editor /\ e.known = editor[w].known /\ e.dirty /\ e.timer /\ ~e.failed
  <2>1. editor[w] \in Editor /\ edits + 1 \in Nat
    BY DEF BoardIInv, BoardTypeOK
  <2>. QED BY <2>1 DEF Editor
<1>2. /\ editor' = [editor EXCEPT ![w] = e] /\ edits' = edits + 1
      /\ UNCHANGED <<meta, body, cached, update, fetch, extras, acked, stored>>
  BY DEF Edit, storeVars
<1> HIDE DEF e
<1>3. /\ editor' \in [Window -> Editor] /\ editor'[w] = e
      /\ \A v \in Window \ {w} : editor'[v] = editor[v]
  BY <1>1, <1>2, EditorIsReplaced DEF BoardIInv
<1>4. BoardTypeOK'
  BY <1>2, <1>3 DEF BoardIInv, BoardTypeOK
<1>5. SavesKnow' /\ VersionsPassed' /\ ReadersHold'
  BY <1>1, <1>2, <1>3
  DEF BoardIInv, SavesKnow, VersionsPassed, ReadersHold, DetailIsNotBehind
<1>6. StoresHold'
  BY <1>2 DEF BoardIInv, StoresHold, Settled, PutBack, Unsettled
<1>7. EditsHold'
  BY <1>1, <1>2, <1>3 DEF BoardIInv, EditsHold, InFlight
<1>. QED BY <1>4, <1>5, <1>6, <1>7 DEF BoardIInv

LEMMA FlushIInv == ASSUME BoardIInv, NEW w \in Window, Flush(w) PROVE BoardIInv'
<1>1. CASE InFlight(w)
  <2> DEFINE e == [editor[w] EXCEPT !.timer = FALSE, !.trailing = TRUE]
  <2>1. /\ e \in Editor /\ e.known = editor[w].known /\ e.dirty = editor[w].dirty
        /\ e.trailing /\ e.failed = editor[w].failed /\ e.shown = editor[w].shown
    BY DEF BoardIInv, BoardTypeOK, Editor
  <2>2. /\ editor' = [editor EXCEPT ![w] = e]
        /\ UNCHANGED <<meta, body, cached, update, fetch, edits, extras, acked, stored>>
    BY <1>1 DEF Flush, storeVars, countVars
  <2> HIDE DEF e
  <2>3. /\ editor' \in [Window -> Editor] /\ editor'[w] = e
        /\ \A v \in Window \ {w} : editor'[v] = editor[v]
    BY <2>1, <2>2, EditorIsReplaced DEF BoardIInv
  <2>4. BoardTypeOK'
    BY <2>2, <2>3 DEF BoardIInv, BoardTypeOK
  <2>5. SavesKnow' /\ VersionsPassed' /\ ReadersHold'
    BY <2>1, <2>2, <2>3
    DEF BoardIInv, SavesKnow, VersionsPassed, ReadersHold, DetailIsNotBehind
  <2>6. StoresHold'
    BY <2>2 DEF BoardIInv, StoresHold, Settled, PutBack, Unsettled
  <2>7. EditsHold'
    BY <1>1, <2>1, <2>2, <2>3 DEF BoardIInv, EditsHold, InFlight
  <2>. QED BY <2>4, <2>5, <2>6, <2>7 DEF BoardIInv
<1>2. CASE ~InFlight(w)
  <2> DEFINE e == [editor[w] EXCEPT !.timer = FALSE, !.dirty = FALSE, !.failed = FALSE]
             u == [NoUpdate EXCEPT !.at = "check", !.try = 1, !.text = editor[w].shown,
                                   !.base = editor[w].known]
  <2>1. editor[w] \in Editor /\ editor[w].known \in 1 .. meta
    BY DEF BoardIInv, BoardTypeOK, VersionsPassed
  <2>2. /\ e \in Editor /\ e.known = editor[w].known /\ ~e.dirty
        /\ ~e.failed /\ e.shown = editor[w].shown
    BY <2>1 DEF Editor
  <2>3. /\ u \in Update /\ u.at = "check" /\ u.text = editor[w].shown /\ u.text \in Nat
        /\ u.base \in 1 .. meta
    BY <2>1 DEF Update, Editor, NoUpdate, NoBody, Place, Text, Body, BoardIInv, BoardTypeOK
  <2>4. /\ editor' = [editor EXCEPT ![w] = e] /\ update' = [update EXCEPT ![w] = u]
        /\ update[w].at = "idle"
        /\ UNCHANGED <<meta, body, cached, fetch, edits, extras, acked, stored>>
    BY <1>2 DEF Flush, Sends, InFlight, storeVars, countVars
  <2> HIDE DEF e, u
  <2>5. /\ editor' \in [Window -> Editor] /\ editor'[w] = e
        /\ \A v \in Window \ {w} : editor'[v] = editor[v]
    BY <2>2, <2>4, EditorIsReplaced DEF BoardIInv
  <2>6. /\ update' \in [Caller -> Update] /\ update'[w] = u
        /\ \A d \in Caller \ {w} : update'[d] = update[d]
    BY <2>3, <2>4, SaveIsReplaced, Callers DEF BoardIInv
  <2>7. /\ \A v \in Window : v # w => update'[v] = update[v]
        /\ \A a \in Agent : update'[a] = update[a]
    BY <2>6, Callers DEF Caller
  <2>8. BoardTypeOK'
    BY <2>4, <2>5, <2>6 DEF BoardIInv, BoardTypeOK
  <2>9. SavesKnow'
    BY <2>3, <2>4, <2>6, <2>7 DEF BoardIInv, SavesKnow
  <2>10. VersionsPassed' /\ ReadersHold'
    BY <2>2, <2>3, <2>4, <2>5, <2>6, <2>7
    DEF BoardIInv, VersionsPassed, ReadersHold, DetailIsNotBehind
  <2>11. StoresHold'
    BY <2>3, <2>4, <2>6, StoresStay, Callers DEF BoardIInv, BoardTypeOK
  <2>12. EditsHold'
    BY <2>2, <2>3, <2>4, <2>5, <2>6, <2>7 DEF BoardIInv, EditsHold, InFlight
  <2>. QED BY <2>8, <2>9, <2>10, <2>11, <2>12 DEF BoardIInv
<1>. QED BY <1>1, <1>2

(* The end of a save: its editor keeps what was not saved.                   *)
LEMMA SaveEnds ==
  ASSUME BoardIInv, NEW w \in Window, NEW e \in Editor, editor' = [editor EXCEPT ![w] = e],
         update' = [update EXCEPT ![w] = NoUpdate], update[w].at \in {"reload", "error", "conflict"},
         e.known \in 1 .. meta, e.dirty => e.timer \/ e.failed, ~e.dirty => e.shown = stored'[w],
         stored' \in [Window -> Nat], \A v \in Window \ {w} : stored'[v] = stored[v],
         UNCHANGED <<meta, body, cached, fetch, edits, extras, acked>>
  PROVE  BoardIInv'
<1>1. NoUpdate \in Update /\ NoUpdate.at = "idle"
  BY DEF Update, NoUpdate, NoBody, Place, Text, Body
<1>2. /\ editor' \in [Window -> Editor] /\ editor'[w] = e
      /\ \A v \in Window \ {w} : editor'[v] = editor[v]
  BY EditorIsReplaced DEF BoardIInv
<1>3. /\ update' \in [Caller -> Update] /\ update'[w] = NoUpdate
      /\ \A d \in Caller \ {w} : update'[d] = update[d]
  BY <1>1, SaveIsReplaced, Callers DEF BoardIInv
<1>4. /\ \A v \in Window : v # w => update'[v] = update[v]
      /\ \A a \in Agent : update'[a] = update[a]
  BY <1>3, Callers DEF Caller
<1>5. BoardTypeOK'
  BY <1>2, <1>3 DEF BoardIInv, BoardTypeOK
<1>6. SavesKnow'
  BY <1>1, <1>3, <1>4 DEF BoardIInv, SavesKnow
<1>7. VersionsPassed' /\ ReadersHold'
  BY <1>1, <1>2, <1>3, <1>4 DEF BoardIInv, VersionsPassed, ReadersHold, DetailIsNotBehind
<1>8. StoresHold'
  BY <1>1, <1>3, StoresStay, Callers DEF BoardIInv, BoardTypeOK
<1>9. EditsHold'
  BY <1>1, <1>2, <1>3, <1>4 DEF BoardIInv, EditsHold, InFlight
<1>. QED BY <1>5, <1>6, <1>7, <1>8, <1>9 DEF BoardIInv

LEMMA AnswerIInv == ASSUME BoardIInv, NEW w \in Window, Answer(w) PROVE BoardIInv'
<1> DEFINE timer == editor[w].timer \/ editor[w].trailing
           e == [editor[w] EXCEPT !.known = meta, !.timer = timer, !.trailing = FALSE,
                                  !.failed = FALSE]
<1>1. /\ editor[w] \in Editor /\ update[w].text \in Nat /\ meta \in Nat \ {0}
      /\ stored \in [Window -> Nat] /\ update[w].at = "reload"
  BY DEF Answer, BoardIInv, BoardTypeOK, SavesKnow
<1>2. /\ editor[w].dirty => timer
      /\ ~editor[w].dirty => update[w].text = editor[w].shown
  BY <1>1 DEF BoardIInv, EditsHold, InFlight
<1>3. timer \in BOOLEAN
  OBVIOUS
<1>4. [editor[w] EXCEPT !.known = meta, !.dirty = editor[w].dirty \/ ~TRUE, !.timer = timer,
                        !.trailing = FALSE, !.failed = ~TRUE] = e
  BY <1>1 DEF Editor
<1>5. editor' = [editor EXCEPT ![w] = e]
  BY <1>4 DEF Answer, Lands
<1> HIDE DEF timer
<1>6. /\ e \in Editor /\ e.known = meta /\ e.shown = editor[w].shown
      /\ e.dirty = editor[w].dirty /\ e.timer = timer
  BY <1>1, <1>3 DEF Editor
<1> HIDE DEF e
<1>7. stored' = [stored EXCEPT ![w] = update[w].text]
  BY DEF Answer
<1>8. /\ stored' \in [Window -> Nat] /\ stored'[w] = update[w].text
      /\ \A v \in Window \ {w} : stored'[v] = stored[v]
  BY <1>1, <1>7
<1>9. /\ e.known \in 1 .. meta /\ (e.dirty => e.timer \/ e.failed) /\ (~e.dirty => e.shown = stored'[w])
  BY <1>1, <1>2, <1>6, <1>8
<1>10. /\ update' = [update EXCEPT ![w] = NoUpdate]
       /\ UNCHANGED <<meta, body, cached, fetch, edits, extras, acked>>
  BY DEF Answer, storeVars, countVars
<1>. QED BY <1>1, <1>5, <1>6, <1>8, <1>9, <1>10, SaveEnds

LEMMA FailIInv == ASSUME BoardIInv, NEW w \in Window, Fail(w) PROVE BoardIInv'
<1> DEFINE timer == editor[w].timer \/ editor[w].trailing
           e == [editor[w] EXCEPT !.dirty = TRUE, !.timer = timer, !.trailing = FALSE, !.failed = TRUE]
<1>1. /\ editor[w] \in Editor /\ editor[w].known \in 1 .. meta /\ stored \in [Window -> Nat]
      /\ update[w].at \in {"error", "conflict"}
  BY DEF Fail, BoardIInv, BoardTypeOK, VersionsPassed
<1>2. timer \in BOOLEAN
  OBVIOUS
<1>3. [editor[w] EXCEPT !.known = editor[w].known, !.dirty = editor[w].dirty \/ ~FALSE,
                        !.timer = timer, !.trailing = FALSE, !.failed = ~FALSE] = e
  BY <1>1 DEF Editor
<1>4. editor' = [editor EXCEPT ![w] = e]
  BY <1>3 DEF Fail, Lands
<1> HIDE DEF timer
<1>5. e \in Editor /\ e.known = editor[w].known /\ e.dirty /\ e.failed
  BY <1>1, <1>2 DEF Editor
<1> HIDE DEF e
<1>6. /\ update' = [update EXCEPT ![w] = NoUpdate]
      /\ UNCHANGED <<meta, body, cached, fetch, edits, extras, acked, stored>>
  BY DEF Fail, storeVars, countVars
<1>. QED BY <1>1, <1>4, <1>5, <1>6, SaveEnds

(* GetDetail begins with a version that was reached.                         *)
LEMMA FetchStarts ==
  ASSUME BoardIInv, NEW w \in Window, NEW for \in {"retry", "peek"}, Fetches(w, for)
  PROVE  /\ fetch' \in [Window -> Fetch]
         /\ fetch'[w].for = for /\ fetch'[w].ver \in 1 .. meta /\ fetch'[w].at \in {"body", "answer"}
         /\ \A v \in Window \ {w} : fetch'[v] = fetch[v]
<1> DEFINE f == IF cached # None THEN [at |-> "answer", for |-> for, ver |-> cached.ver, of |-> cached.of]
                                 ELSE [at |-> "body", for |-> for, ver |-> meta, of |-> 0]
<1>1. f \in Fetch /\ f.for = for /\ f.ver \in 1 .. meta /\ f.at \in {"body", "answer"}
  BY DEF BoardIInv, BoardTypeOK, VersionsPassed, Fetch
<1>2. fetch' = [fetch EXCEPT ![w] = f]
  BY DEF Fetches
<1> HIDE DEF f
<1>. QED BY <1>1, <1>2, FetchIsReplaced DEF BoardIInv

LEMMA RefreshIInv == ASSUME BoardIInv, NEW w \in Window, Refresh(w) PROVE BoardIInv'
<1>1. /\ UpdateGoes(w, "refresh") /\ update[w].at = "conflict" /\ Fetches(w, "retry")
      /\ UNCHANGED <<meta, body, cached, editor, edits, extras, acked, stored>>
  BY DEF Refresh, storeVars, countVars
<1>2. /\ update' \in [Caller -> Update] /\ update'[w].at = "refresh"
      /\ update'[w].text = update[w].text /\ update'[w].base = update[w].base
      /\ \A d \in Caller \ {w} : update'[d] = update[d]
  BY <1>1, SaveMoves, Callers DEF Place, BoardIInv
<1>3. /\ \A v \in Window : v # w => update'[v] = update[v]
      /\ \A a \in Agent : update'[a] = update[a]
  BY <1>2, Callers DEF Caller
<1>4. /\ fetch' \in [Window -> Fetch]
      /\ fetch'[w].ver \in 1 .. meta /\ fetch'[w].at \in {"body", "answer"}
      /\ \A v \in Window \ {w} : fetch'[v] = fetch[v]
  BY <1>1, FetchStarts
<1>5. BoardTypeOK'
  BY <1>1, <1>2, <1>4 DEF BoardIInv, BoardTypeOK
<1>6. SavesKnow' /\ VersionsPassed' /\ ReadersHold'
  BY <1>1, <1>2, <1>3, <1>4
  DEF BoardIInv, SavesKnow, VersionsPassed, ReadersHold, DetailIsNotBehind
<1>7. StoresHold'
  BY <1>1, <1>2, StoresStay, Callers DEF BoardIInv, BoardTypeOK
<1>8. EditsHold'
  BY <1>1, <1>2, <1>3 DEF BoardIInv, EditsHold, InFlight
<1>. QED BY <1>5, <1>6, <1>7, <1>8 DEF BoardIInv

LEMMA PeekIInv == ASSUME BoardIInv, NEW w \in Window, Peek(w) PROVE BoardIInv'
<1>1. /\ Fetches(w, "peek") /\ extras < MaxExtras /\ extras' = extras + 1
      /\ UNCHANGED <<meta, body, cached, update, editor, edits, acked, stored>>
  BY DEF Peek, storeVars
<1>2. /\ fetch' \in [Window -> Fetch] /\ fetch'[w].for = "peek"
      /\ fetch'[w].ver \in 1 .. meta /\ fetch'[w].at \in {"body", "answer"}
      /\ \A v \in Window \ {w} : fetch'[v] = fetch[v]
  BY <1>1, FetchStarts
<1>3. BoardTypeOK'
  BY <1>1, <1>2, BoardAssumption DEF BoardIInv, BoardTypeOK
<1>4. SavesKnow' /\ VersionsPassed' /\ ReadersHold'
  BY <1>1, <1>2 DEF BoardIInv, SavesKnow, VersionsPassed, ReadersHold, DetailIsNotBehind
<1>5. StoresHold'
  BY <1>1, StoresStay, Callers DEF BoardIInv, BoardTypeOK
<1>6. EditsHold'
  BY <1>1 DEF BoardIInv, EditsHold, InFlight
<1>. QED BY <1>3, <1>4, <1>5, <1>6 DEF BoardIInv

(* The body is read after the row: it is of the row's version, or a later    *)
(* one that stands between the stores.                                       *)
LEMMA FetchBodyIInv == ASSUME BoardIInv, NEW w \in Window, FetchBody(w) PROVE BoardIInv'
<1> DEFINE f == [fetch[w] EXCEPT !.at = "fill", !.of = body.ver]
<1>1. /\ fetch[w] \in Fetch /\ fetch[w].at = "body" /\ body \in Body /\ meta \in Nat \ {0}
      /\ fetch[w].ver \in 1 .. meta
  BY DEF FetchBody, BoardIInv, BoardTypeOK, VersionsPassed
<1>2. /\ f \in Fetch /\ f.at = "fill" /\ f.of = body.ver /\ f.ver = fetch[w].ver /\ f.for = fetch[w].for
  BY <1>1 DEF Fetch, Body
<1>3. /\ fetch' = [fetch EXCEPT ![w] = f]
      /\ UNCHANGED <<meta, body, cached, update, editor, edits, extras, acked, stored>>
  BY DEF FetchBody, storeVars, countVars
<1> HIDE DEF f
<1>4. /\ fetch' \in [Window -> Fetch] /\ fetch'[w] = f
      /\ \A v \in Window \ {w} : fetch'[v] = fetch[v]
  BY <1>2, <1>3, FetchIsReplaced DEF BoardIInv
<1>5. body.ver >= meta \/ (body.ver = 0 /\ meta = 1)
  <2>1. CASE \E c \in Caller : Unsettled(c)
    BY <1>1, <2>1 DEF BoardIInv, StoresHold
  <2>2. CASE \A c \in Caller : ~Unsettled(c)
    BY <1>1, <2>2 DEF BoardIInv, StoresHold, Settled, PutBack, NoBody
  <2>. QED BY <2>1, <2>2
<1>6. BoardTypeOK'
  BY <1>3, <1>4 DEF BoardIInv, BoardTypeOK
<1>7. SavesKnow' /\ VersionsPassed'
  <2>1. SavesKnow'
    BY <1>2, <1>3, <1>4 DEF BoardIInv, SavesKnow
  <2>2. VersionsPassed'
    <3>1. \A v \in Window : fetch'[v].at # "idle" => fetch'[v].ver \in 1 .. meta
      BY <1>1, <1>2, <1>4 DEF BoardIInv, VersionsPassed
    <3>. QED BY <1>3, <3>1 DEF BoardIInv, VersionsPassed
  <2>. QED BY <2>1, <2>2
<1>8. ReadersHold'
  <2>1. (f.of = 0 => f.ver <= 1) /\ (f.of # 0 => f.of >= f.ver)
    <3>1. f.of \in Nat /\ f.ver \in 1 .. meta /\ (f.of >= meta \/ (f.of = 0 /\ meta = 1))
      BY <1>1, <1>2, <1>5 DEF Body
    <3>. QED BY <1>1, <3>1
  <2>2. DetailIsNotBehind'
    BY <1>3 DEF BoardIInv, ReadersHold, DetailIsNotBehind
  <2>. QED BY <1>4, <2>1, <2>2 DEF BoardIInv, ReadersHold
<1>9. StoresHold' /\ EditsHold'
  BY <1>3 DEF BoardIInv, StoresHold, Settled, PutBack, Unsettled, EditsHold, InFlight
<1>. QED BY <1>6, <1>7, <1>8, <1>9 DEF BoardIInv

LEMMA FillIInv == ASSUME BoardIInv, NEW w \in Window, Fill(w) PROVE BoardIInv'
<1> DEFINE f == [fetch[w] EXCEPT !.at = "answer"]
<1>1. fetch[w] \in Fetch /\ fetch[w].at = "fill" /\ fetch[w].ver \in 1 .. meta /\ meta \in Nat \ {0}
  BY DEF Fill, BoardIInv, BoardTypeOK, VersionsPassed
<1>2. f \in Fetch /\ f.at = "answer" /\ f.ver = fetch[w].ver /\ f.for = fetch[w].for
  BY <1>1 DEF Fetch
<1>3. /\ fetch' = [fetch EXCEPT ![w] = f] /\ cached' = [ver |-> fetch[w].ver, of |-> fetch[w].of]
      /\ UNCHANGED <<meta, body, update, editor, edits, extras, acked, stored>>
  BY DEF Fill, countVars
<1> HIDE DEF f
<1>4. /\ fetch' \in [Window -> Fetch] /\ fetch'[w] = f
      /\ \A v \in Window \ {w} : fetch'[v] = fetch[v]
  BY <1>2, <1>3, FetchIsReplaced DEF BoardIInv
<1>5. BoardTypeOK'
  <2>1. cached' \in [ver : Nat, of : Nat]
    BY <1>1, <1>3 DEF Fetch
  <2>. QED BY <1>3, <1>4, <2>1 DEF BoardIInv, BoardTypeOK
<1>6. SavesKnow' /\ VersionsPassed' /\ ReadersHold'
  BY <1>1, <1>2, <1>3, <1>4
  DEF BoardIInv, SavesKnow, VersionsPassed, ReadersHold, DetailIsNotBehind
<1>7. StoresHold' /\ EditsHold'
  BY <1>3 DEF BoardIInv, StoresHold, Settled, PutBack, Unsettled, EditsHold, InFlight
<1>. QED BY <1>5, <1>6, <1>7 DEF BoardIInv

(* An answer ends a retry or a peek.                                         *)
LEMMA FetchedIInv == ASSUME BoardIInv, NEW w \in Window, Fetched(w) PROVE BoardIInv'
<1>1. /\ fetch[w] \in Fetch /\ fetch[w].at = "answer" /\ fetch[w].ver \in 1 .. meta
      /\ meta \in Nat \ {0} /\ update[w] \in Update /\ editor[w] \in Editor
  BY Callers DEF Fetched, BoardIInv, BoardTypeOK, VersionsPassed
<1>2. /\ fetch' = [fetch EXCEPT ![w] = NoFetch]
      /\ UNCHANGED <<meta, body, cached, edits, extras, acked, stored>>
  BY DEF Fetched, storeVars, countVars
<1>3. NoFetch \in Fetch /\ NoFetch.at = "idle" /\ NoFetch.for = "none"
  BY DEF NoFetch, Fetch
<1>4. /\ fetch' \in [Window -> Fetch] /\ fetch'[w] = NoFetch
      /\ \A v \in Window \ {w} : fetch'[v] = fetch[v]
  BY <1>2, <1>3, FetchIsReplaced DEF BoardIInv
<1>5. CASE fetch[w].for = "retry"
  <2> DEFINE u == [update[w] EXCEPT !.at = "check", !.try = 2, !.base = fetch[w].ver]
  <2>1. /\ u \in Update /\ u.at = "check" /\ u.base \in 1 .. meta /\ u.text = update[w].text
    BY <1>1 DEF Update, Place, Fetch
  <2>2. /\ update' = [update EXCEPT ![w] = u] /\ UNCHANGED editor /\ update[w].at = "refresh"
    BY <1>5 DEF Fetched, BoardIInv, SavesKnow
  <2> HIDE DEF u
  <2>3. /\ update' \in [Caller -> Update] /\ update'[w] = u
        /\ \A d \in Caller \ {w} : update'[d] = update[d]
    BY <2>1, <2>2, SaveIsReplaced, Callers DEF BoardIInv
  <2>4. /\ \A v \in Window : v # w => update'[v] = update[v]
        /\ \A a \in Agent : update'[a] = update[a]
    BY <2>3, Callers DEF Caller
  <2>5. BoardTypeOK'
    BY <1>2, <1>4, <2>2, <2>3 DEF BoardIInv, BoardTypeOK
  <2>6. SavesKnow' /\ VersionsPassed' /\ ReadersHold'
    BY <1>2, <1>3, <1>4, <2>1, <2>2, <2>3, <2>4
    DEF BoardIInv, SavesKnow, VersionsPassed, ReadersHold, DetailIsNotBehind
  <2>7. StoresHold'
    BY <1>2, <2>1, <2>2, <2>3, StoresStay, Callers DEF BoardIInv, BoardTypeOK
  <2>8. EditsHold'
    BY <1>2, <2>1, <2>2, <2>3, <2>4 DEF BoardIInv, EditsHold, InFlight
  <2>. QED BY <2>5, <2>6, <2>7, <2>8 DEF BoardIInv
<1>6. CASE fetch[w].for # "retry"
  <2> DEFINE e == [editor[w] EXCEPT !.known = fetch[w].ver]
  <2>1. /\ e \in Editor /\ e.known \in 1 .. meta /\ e.dirty = editor[w].dirty /\ e.timer = editor[w].timer
        /\ e.trailing = editor[w].trailing /\ e.failed = editor[w].failed /\ e.shown = editor[w].shown
    BY <1>1 DEF Editor, Fetch
  <2>2. editor' = [editor EXCEPT ![w] = e] /\ UNCHANGED update
    BY <1>6 DEF Fetched
  <2> HIDE DEF e
  <2>3. /\ editor' \in [Window -> Editor] /\ editor'[w] = e
        /\ \A v \in Window \ {w} : editor'[v] = editor[v]
    BY <2>1, <2>2, EditorIsReplaced DEF BoardIInv
  <2>4. BoardTypeOK'
    BY <1>2, <1>4, <2>2, <2>3 DEF BoardIInv, BoardTypeOK
  <2>5. SavesKnow' /\ VersionsPassed' /\ ReadersHold'
    BY <1>2, <1>3, <1>4, <2>1, <2>2, <2>3
    DEF BoardIInv, SavesKnow, VersionsPassed, ReadersHold, DetailIsNotBehind
  <2>6. StoresHold'
    BY <1>2, <2>2 DEF BoardIInv, StoresHold, Settled, PutBack, Unsettled
  <2>7. EditsHold'
    BY <1>2, <2>1, <2>2, <2>3 DEF BoardIInv, EditsHold, InFlight
  <2>. QED BY <2>4, <2>5, <2>6, <2>7 DEF BoardIInv
<1>. QED BY <1>5, <1>6

LEMMA ExpiresIInv == ASSUME BoardIInv, Expires PROVE BoardIInv'
  BY DEF Expires, countVars, BoardIInv, BoardTypeOK, SavesKnow, VersionsPassed, StoresHold, Settled,
     PutBack, Unsettled, ReadersHold, DetailIsNotBehind, EditsHold, InFlight, None

LEMMA BoardNextIInv == ASSUME BoardIInv, [BoardNext]_boardVars PROVE BoardIInv'
<1>1. ASSUME NEW w \in Window, Edit(w) \/ Flush(w) \/ SaveStep(w) \/ BumpFails(w) \/ Peek(w)
      PROVE  BoardIInv'
  BY <1>1, EditIInv, FlushIInv, CheckIInv, ReadPriorIInv, ConditionalWriteIInv, BumpVersionIInv,
     RestoreIInv, DropCacheIInv, AnswerIInv, FailIInv, RefreshIInv, FetchBodyIInv, FillIInv,
     FetchedIInv, BumpFailsIInv, PeekIInv
  DEF SaveStep, UpdateStep, FetchStep
<1>2. CASE UNCHANGED boardVars
  BY <1>2 DEF boardVars, BoardIInv, BoardTypeOK, SavesKnow, VersionsPassed, StoresHold, Settled,
     PutBack, Unsettled, ReadersHold, DetailIsNotBehind, EditsHold, InFlight
<1>. QED BY <1>1, <1>2, ExpiresIInv DEF BoardNext

(* What the invariant says of the stores, the readers and the editors.       *)
LEMMA BoardSound ==
  BoardIInv => /\ DetailIsNotBehind /\ EditIsBacked
               /\ StoresAgree \/ (extras >= 2 /\ body.ver = meta + 1)
               /\ extras < 2 => StoresAgree /\ RefusedOnlyIfStale
<1> SUFFICES ASSUME BoardIInv
             PROVE  /\ DetailIsNotBehind /\ EditIsBacked
                    /\ StoresAgree \/ (extras >= 2 /\ body.ver = meta + 1)
                    /\ extras < 2 => StoresAgree /\ RefusedOnlyIfStale
  OBVIOUS
<1>1. DetailIsNotBehind
  BY DEF BoardIInv, ReadersHold
<1>2. EditIsBacked
  BY DEF BoardIInv, EditsHold, EditIsBacked, InFlight
<1>3. StoresAgree \/ (extras >= 2 /\ body.ver = meta + 1)
  BY DEF BoardIInv, StoresHold, Settled, PutBack, StoresAgree
<1>4. ASSUME extras < 2, NEW c \in Caller, update[c].at = "write", body # NoBody, body.ver # meta
      PROVE  \E d \in Caller \ {c} : update[d].at \notin {"idle", "done"}
  <2>1. PICK d \in Caller : Unsettled(d)
    BY <1>4 DEF BoardIInv, BoardTypeOK, StoresHold, Settled, PutBack
  <2>. QED BY <1>4, <2>1 DEF Unsettled
<1>5. extras < 2 => RefusedOnlyIfStale
  BY <1>4 DEF RefusedOnlyIfStale
<1>6. extras < 2 => StoresAgree
  BY <1>3 DEF BoardIInv, BoardTypeOK
<1>. QED BY <1>1, <1>2, <1>3, <1>5, <1>6

-----------------------------------------------------------------------------
(* The two surfaces together                                                 *)

LEMMA WritersParts ==
  [WritersNext]_<<surface, turnVars, boardVars>> => [TurnNext]_turnVars /\ [BoardNext]_boardVars
  BY DEF WritersNext

LEMMA WritersInvariance == WritersSpec => [](TurnIInv /\ BoardIInv)
<1>1. WritersInit => TurnIInv /\ BoardIInv
  BY TurnInitIInv, BoardInitIInv DEF WritersInit
<1>2. (TurnIInv /\ BoardIInv) /\ [WritersNext]_<<surface, turnVars, boardVars>>
        => (TurnIInv /\ BoardIInv)'
  BY WritersParts, TurnNextIInv, BoardNextIInv
<1>. QED BY <1>1, <1>2, PTL DEF WritersSpec

(* No edit of a board and no message of a conversation is left without       *)
(* somebody who will settle it, whatever is refused, fails or is taken back  *)
(* (MindMapEditorView and WhiteboardEditorView, chat.ts).                    *)
THEOREM NobodyForgets == WritersSpec => []NothingIsForgotten
<1>1. TurnIInv /\ BoardIInv => NothingIsForgotten
  BY TurnSound, BoardSound DEF NothingIsForgotten
<1>. QED BY <1>1, WritersInvariance, PTL

(* Saves of any number of windows leave the two stores of a board in         *)
(* agreement, unless two faults of the database met: then a rollback may     *)
(* have put back another's body that was itself rolled back, and it stands   *)
(* above the version of the row (BoardService.Update, rollbackDoc).          *)
THEOREM StoresAgreeUnlessTwoFaults ==
  WritersSpec => [](StoresAgree \/ (extras >= 2 /\ body.ver = meta + 1))
<1>1. BoardIInv => StoresAgree \/ (extras >= 2 /\ body.ver = meta + 1)
  BY BoardSound
<1>. QED BY <1>1, WritersInvariance, PTL

(* Who reads a board gets no content older than its version, however cache,  *)
(* row and body are read and written around it, and with any number of       *)
(* faults (BoardService.GetDetail).                                          *)
THEOREM ReadersAreNotBehind == WritersSpec => []DetailIsNotBehind
<1>1. BoardIInv => DetailIsNotBehind
  BY BoardSound
<1>. QED BY <1>1, WritersInvariance, PTL

(* With at most one fault of the database the writers of a conversation and  *)
(* of a board are serialized: sessions, stores, readers and refusals.        *)
THEOREM WritersSerialized == ASSUME MaxExtras <= 1 PROVE WritersSpec => []WritersAreSerialized
<1>1. TurnIInv /\ BoardIInv => WritersAreSerialized
  <2>1. BoardIInv => extras < 2
    BY BoardAssumption DEF BoardIInv, BoardTypeOK
  <2>. QED BY <2>1, TurnSound, BoardSound DEF WritersAreSerialized
<1>. QED BY <1>1, WritersInvariance, PTL
=============================================================================
