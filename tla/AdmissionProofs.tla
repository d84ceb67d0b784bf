-------------------------- MODULE AdmissionProofs --------------------------
(* What lets requests in. The caps of Admission, its accounts, and the order *)
(* in which a user is served, for any requests, users and limits, until it   *)
(* is closed; and the uploads that UploadQuota lets in, which fit the quota. *)
EXTENDS Admission, UploadQuota, DataLemmas

-----------------------------------------------------------------------------
(* One more owner, one more for its user.                                    *)
LEMMA OneMore ==
  ASSUME NEW X \in SUBSET Request, NEW r \in Request, r \notin X
  PROVE  /\ Cardinality(X) \in Nat
         /\ Cardinality(X \cup {r}) = Cardinality(X) + 1
         /\ \A u \in Uid : /\ Cardinality({q \in X : UidOf[q] = u}) \in Nat
                           /\ Cardinality({q \in X \cup {r} : UidOf[q] = u}) =
                              Cardinality({q \in X : UidOf[q] = u})
                                + IF u = UidOf[r] THEN 1 ELSE 0
<1>1. IsFiniteSet(X)
  BY RequestAssumption, FS_Subset
<1>2. ASSUME NEW u \in Uid
      PROVE  /\ Cardinality({q \in X : UidOf[q] = u}) \in Nat
             /\ Cardinality({q \in X \cup {r} : UidOf[q] = u}) =
                Cardinality({q \in X : UidOf[q] = u}) + IF u = UidOf[r] THEN 1 ELSE 0
  <2>. DEFINE Y == {q \in X : UidOf[q] = u}
  <2>1. IsFiniteSet(Y) /\ r \notin Y
    BY <1>1, FS_Subset
  <2>2. Cardinality(Y) \in Nat
    BY <2>1, FS_CardinalityType
  <2>3. Cardinality(Y \cup {r}) = Cardinality(Y) + 1
    BY <2>1, FS_AddElement
  <2>4. CASE u = UidOf[r]
    <3>1. {q \in X \cup {r} : UidOf[q] = u} = Y \cup {r}
      BY <2>4
    <3>. QED BY <2>2, <2>3, <2>4, <3>1
  <2>5. CASE u # UidOf[r]
    <3>1. {q \in X \cup {r} : UidOf[q] = u} = Y
      BY <2>5
    <3>. QED BY <2>2, <2>5, <3>1
  <2>. QED BY <2>4, <2>5
<1>. QED BY <1>1, <1>2, FS_AddElement, FS_CardinalityType

(* One owner less, one less for its user.                                    *)
LEMMA OneLess ==
  ASSUME NEW X \in SUBSET Request, NEW r \in X
  PROVE  /\ Cardinality(X) \in Nat \ {0}
         /\ Cardinality(X \ {r}) = Cardinality(X) - 1
         /\ \A u \in Uid : /\ Cardinality({q \in X : UidOf[q] = u}) \in Nat
                           /\ u = UidOf[r] => Cardinality({q \in X : UidOf[q] = u}) # 0
                           /\ Cardinality({q \in X \ {r} : UidOf[q] = u}) =
                              Cardinality({q \in X : UidOf[q] = u})
                                - IF u = UidOf[r] THEN 1 ELSE 0
<1>. DEFINE Z == X \ {r}
<1>1. Z \in SUBSET Request /\ r \in Request /\ r \notin Z /\ Z \cup {r} = X
  OBVIOUS
<1>. HIDE DEF Z
<1>2. /\ Cardinality(Z) \in Nat
      /\ Cardinality(X) = Cardinality(Z) + 1
      /\ \A u \in Uid : /\ Cardinality({q \in Z : UidOf[q] = u}) \in Nat
                        /\ Cardinality({q \in X : UidOf[q] = u}) =
                           Cardinality({q \in Z : UidOf[q] = u})
                             + IF u = UidOf[r] THEN 1 ELSE 0
  BY <1>1, OneMore
<1>3. \A u \in Uid : /\ Cardinality({q \in X : UidOf[q] = u}) \in Nat
                     /\ u = UidOf[r] => Cardinality({q \in X : UidOf[q] = u}) # 0
                     /\ Cardinality({q \in Z : UidOf[q] = u}) =
                        Cardinality({q \in X : UidOf[q] = u})
                          - IF u = UidOf[r] THEN 1 ELSE 0
  <2>. SUFFICES ASSUME NEW u \in Uid
                PROVE  /\ Cardinality({q \in X : UidOf[q] = u}) \in Nat
                       /\ u = UidOf[r] => Cardinality({q \in X : UidOf[q] = u}) # 0
                       /\ Cardinality({q \in Z : UidOf[q] = u}) =
                          Cardinality({q \in X : UidOf[q] = u})
                            - IF u = UidOf[r] THEN 1 ELSE 0
    OBVIOUS
  <2>. DEFINE x == Cardinality({q \in X : UidOf[q] = u})
              z == Cardinality({q \in Z : UidOf[q] = u})
  <2>1. z \in Nat /\ x = z + IF u = UidOf[r] THEN 1 ELSE 0
    BY <1>2
  <2>. HIDE DEF x, z
  <2>2. x \in Nat /\ (u = UidOf[r] => x # 0) /\ z = x - IF u = UidOf[r] THEN 1 ELSE 0
    BY <2>1
  <2>. QED BY <2>2 DEF x, z
<1>4. Cardinality(X) \in Nat \ {0} /\ Cardinality(Z) = Cardinality(X) - 1
  <2>. DEFINE x == Cardinality(X)
              z == Cardinality(Z)
  <2>1. z \in Nat /\ x = z + 1
    BY <1>2
  <2>. HIDE DEF x, z
  <2>2. x \in Nat \ {0} /\ z = x - 1
    BY <2>1
  <2>. QED BY <2>2 DEF x, z
<1>. QED BY <1>3, <1>4 DEF Z

-----------------------------------------------------------------------------
(* The inductive invariant                                                   *)

(* The counters respect the limits.                                          *)
Within == ~closed => /\ global <= MaxConcurrent
                     /\ \A u \in Uid : perUID[u] <= MaxPerUID

(* Who is queued waits, once and without a grant; who has a grant to receive *)
(* waits; Close has taken nobody.                                            *)
Queued ==
  ~closed => /\ \A i \in DOMAIN waiters : /\ at[waiters[i]] \in {"waiting", "leaving"}
                                          /\ waiters[i] \notin dispatched
             /\ \A i, j \in DOMAIN waiters : waiters[i] = waiters[j] => i = j
             /\ \A r \in dispatched : at[r] \in {"waiting", "leaving"}
             /\ closing = <<>>

IInv == TypeOK /\ SlotsAccounted /\ Within /\ Queued /\ NoIdleSlot

LEMMA InitIInv == Init => IInv
<1>. SUFFICES ASSUME Init PROVE IInv
  OBVIOUS
<1>1. Owner = {} /\ \A u \in Uid : OwnerOf(u) = {}
  BY DEF Init, Owner, OwnerOf
<1>2. SlotsAccounted
  BY <1>1, FS_EmptySet DEF Init, SlotsAccounted
<1>3. TypeOK
  <2>1. <<>> \in Seq(Request) /\ Len(<<>>) = 0
    BY EmptySeq
  <2>2. waiters \in Seq(Request) /\ Len(waiters) <= QueueSize /\ closing \in Seq(Request)
    BY <2>1, LimitAssumption DEF Init
  <2>. QED BY <2>2 DEF Init, TypeOK, Place
<1>. QED
  BY <1>2, <1>3, LimitAssumption DEF Init, IInv, Within, Queued, NoIdleSlot

(* r takes a slot that was free for it: counters and owners go up together.  *)
LEMMA TakesSlotBooks ==
  ASSUME IInv, NEW r \in Request, r \notin Owner, global < MaxConcurrent, Fits(r),
         TakesSlot(r), Owner' = Owner \cup {r}, ~closed
  PROVE  /\ global' \in Nat /\ perUID' \in [Uid -> Nat]
         /\ SlotsAccounted' /\ Within'
<1>1. Owner \in SUBSET Request
  BY DEF Owner
<1>2. global' \in Nat /\ perUID' \in [Uid -> Nat]
  BY RequestAssumption DEF TakesSlot, IInv, TypeOK
<1>3. Within'
  BY RequestAssumption, LimitAssumption DEF IInv, TypeOK, Within, TakesSlot, Fits
<1>4. global = Cardinality(Owner) /\ \A u \in Uid : perUID[u] = Cardinality({q \in Owner : UidOf[q] = u})
  BY DEF IInv, SlotsAccounted, OwnerOf
<1>5. global' = Cardinality(Owner')
  BY <1>1, <1>4, OneMore DEF TakesSlot
<1>6. ASSUME NEW u \in Uid
      PROVE  perUID'[u] = Cardinality({q \in Owner' : UidOf[q] = u})
  <2>1. perUID'[u] = perUID[u] + IF u = UidOf[r] THEN 1 ELSE 0
    BY RequestAssumption DEF TakesSlot, IInv, TypeOK
  <2>2. Cardinality({q \in Owner \cup {r} : UidOf[q] = u}) =
          Cardinality({q \in Owner : UidOf[q] = u}) + IF u = UidOf[r] THEN 1 ELSE 0
    BY <1>1, OneMore
  <2>. QED BY <2>1, <2>2, <1>4
<1>. QED BY <1>2, <1>3, <1>5, <1>6 DEF SlotsAccounted, OwnerOf
(* A step that moves no owner and no counter keeps the books.                *)
LEMMA SameBooks ==
  ASSUME IInv, UNCHANGED <<global, perUID, closed>>, Owner' = Owner
  PROVE  SlotsAccounted' /\ Within'
  BY DEF IInv, SlotsAccounted, Within, OwnerOf

-----------------------------------------------------------------------------
(* One lemma per action                                                      *)

LEMMA AdmitIInv ==
  ASSUME IInv, NEW r \in Request, Admit(r)
  PROVE  IInv'
<1>1. r \notin Owner /\ r \notin dispatched
  BY DEF IInv, Queued, Owner, Admit
<1>2. Owner' = Owner \cup {r}
  BY <1>1 DEF Owner, Admit, Goes, IInv, TypeOK
<1>3. global' \in Nat /\ perUID' \in [Uid -> Nat] /\ SlotsAccounted' /\ Within'
  BY <1>1, <1>2, TakesSlotBooks DEF Admit
<1>4. TypeOK'
  BY <1>3 DEF IInv, TypeOK, Admit, Goes, Place
<1>5. Queued'
  BY DEF IInv, TypeOK, Queued, Admit, Goes
<1>6. NoIdleSlot'
  <2>1. \A u \in Uid : perUID[u] <= perUID'[u] /\ perUID'[u] \in Nat /\ perUID[u] \in Nat
    BY <1>3, RequestAssumption DEF IInv, TypeOK, Admit, TakesSlot
  <2>2. \A i \in DOMAIN waiters : UidOf[waiters[i]] \in Uid
    BY RequestAssumption DEF IInv, TypeOK
  <2>. QED
    BY <2>1, <2>2, LimitAssumption DEF IInv, TypeOK, NoIdleSlot, Admit, TakesSlot
<1>. QED BY <1>3, <1>4, <1>5, <1>6 DEF IInv

LEMMA EnqueueIInv ==
  ASSUME IInv, NEW r \in Request, Enqueue(r)
  PROVE  IInv'
<1>1. /\ waiters' \in Seq(Request)
      /\ Len(waiters') = Len(waiters) + 1
      /\ \A i \in 1 .. Len(waiters) : waiters'[i] = waiters[i]
      /\ waiters'[Len(waiters) + 1] = r
  BY AppendProperties DEF IInv, TypeOK, Enqueue
<1>2. DOMAIN waiters = 1 .. Len(waiters) /\ DOMAIN waiters' = 1 .. Len(waiters) + 1
      /\ Len(waiters) \in Nat
  BY <1>1 DEF IInv, TypeOK
<1>3. Owner' = Owner
  BY DEF IInv, TypeOK, Enqueue, Goes, Owner
<1>4. SlotsAccounted' /\ Within'
  BY <1>3, SameBooks DEF Enqueue
<1>5. TypeOK'
  BY <1>1, <1>2, LimitAssumption DEF IInv, TypeOK, Enqueue, Goes, Place
<1>6. Queued'
  <2>1. \A i \in DOMAIN waiters : waiters[i] # r
    BY DEF IInv, Queued, Enqueue
  <2>. QED BY <1>1, <1>2, <2>1 DEF IInv, TypeOK, Queued, Enqueue, Goes
<1>7. NoIdleSlot'
  BY <1>1, <1>2, RequestAssumption, LimitAssumption
     DEF IInv, TypeOK, NoIdleSlot, Enqueue, Fits
<1>. QED BY <1>4, <1>5, <1>6, <1>7 DEF IInv

LEMMA WakeIInv ==
  ASSUME IInv, NEW r \in Request, Wake(r)
  PROVE  IInv'
<1>1. Owner' = Owner
  BY DEF IInv, TypeOK, Wake, Goes, Owner
<1>2. SlotsAccounted' /\ Within'
  BY <1>1, SameBooks DEF Wake
<1>3. TypeOK'
  BY DEF IInv, TypeOK, Wake, Goes, Place
<1>4. Queued'
  BY DEF IInv, TypeOK, Queued, Wake, Goes
<1>5. NoIdleSlot'
  BY DEF IInv, NoIdleSlot, Wake
<1>. QED BY <1>2, <1>3, <1>4, <1>5 DEF IInv

LEMMA LeaveIInv ==
  ASSUME IInv, NEW r \in Request, Leave(r)
  PROVE  IInv'
<1>1. Owner' = Owner
  BY DEF IInv, TypeOK, Leave, Goes, Owner
<1>2. SlotsAccounted' /\ Within'
  BY <1>1, SameBooks DEF Leave
<1>3. TypeOK'
  BY DEF IInv, TypeOK, Leave, Goes, Place
<1>4. Queued'
  BY DEF IInv, TypeOK, Queued, Leave, Goes
<1>5. NoIdleSlot'
  BY DEF IInv, NoIdleSlot, Leave
<1>. QED BY <1>2, <1>3, <1>4, <1>5 DEF IInv

(* The queue after its i-th waiter was taken out is the queue without it, in *)
(* the same order.                                                           *)
LEMMA TakenOut ==
  ASSUME TypeOK, NEW i \in DOMAIN waiters, waiters' = RemoveAt(waiters, i),
         \A j, k \in DOMAIN waiters : waiters[j] = waiters[k] => j = k
  PROVE  /\ waiters' \in Seq(Request) /\ Len(waiters') <= QueueSize
         /\ \A j \in DOMAIN waiters' :
              \E k \in DOMAIN waiters : waiters'[j] = waiters[k] /\ k # i
         /\ \A j, k \in DOMAIN waiters' : waiters'[j] = waiters'[k] => j = k
<1>1. waiters \in Seq(Request) /\ Len(waiters) \in Nat /\ DOMAIN waiters = 1 .. Len(waiters)
      /\ Len(waiters) <= QueueSize /\ i \in Nat
  BY DEF TypeOK
<1>2. /\ waiters' \in Seq(Request)
      /\ Len(waiters') = Len(waiters) - 1
      /\ \A j \in 1 .. Len(waiters) - 1 :
           waiters'[j] = IF j < i THEN waiters[j] ELSE waiters[j + 1]
  BY <1>1, RemoveAtProperties
<1>3. DOMAIN waiters' = 1 .. Len(waiters) - 1
  BY <1>2
<1>4. ASSUME NEW j \in DOMAIN waiters'
      PROVE  \E k \in DOMAIN waiters : waiters'[j] = waiters[k] /\ k # i
  <2>1. CASE j < i
    <3>1. j \in DOMAIN waiters /\ waiters'[j] = waiters[j] /\ j # i
      BY <2>1, <1>1, <1>2, <1>3
    <3>. QED BY <3>1
  <2>2. CASE ~(j < i)
    <3>1. j + 1 \in DOMAIN waiters /\ waiters'[j] = waiters[j + 1] /\ j + 1 # i
      BY <2>2, <1>1, <1>2, <1>3
    <3>. QED BY <3>1
  <2>. QED BY <2>1, <2>2
<1>5. ASSUME NEW j \in DOMAIN waiters', NEW k \in DOMAIN waiters', waiters'[j] = waiters'[k]
      PROVE  j = k
  <2>. DEFINE old(n) == IF n < i THEN n ELSE n + 1
  <2>1. old(j) \in DOMAIN waiters /\ old(k) \in DOMAIN waiters
    BY <1>1, <1>3
  <2>2. waiters'[j] = waiters[old(j)] /\ waiters'[k] = waiters[old(k)]
    BY <1>2, <1>3
  <2>3. old(j) = old(k)
    BY <2>1, <2>2, <1>5
  <2>. QED BY <2>3, <1>1, <1>3
<1>6. Len(waiters') <= QueueSize
  BY <1>1, <1>2, LimitAssumption
<1>. QED BY <1>2, <1>4, <1>5, <1>6

LEMMA AbandonIInv ==
  ASSUME IInv, NEW r \in Request, Abandon(r)
  PROVE  IInv'
<1>1. CASE r \in dispatched
  <2>1. Owner' = Owner
    BY <1>1 DEF IInv, TypeOK, Abandon, Goes, Owner
  <2>2. SlotsAccounted' /\ Within'
    BY <2>1, SameBooks DEF Abandon
  <2>3. TypeOK'
    BY <1>1 DEF IInv, TypeOK, Abandon, Goes, Place
  <2>4. Queued'
    BY <1>1 DEF IInv, TypeOK, Queued, Abandon, Goes
  <2>5. NoIdleSlot'
    BY <1>1 DEF IInv, NoIdleSlot, Abandon
  <2>. QED BY <2>2, <2>3, <2>4, <2>5 DEF IInv
<1>2. CASE r \notin dispatched /\ \E i \in DOMAIN waiters : waiters[i] = r
  <2>1. PICK i \in DOMAIN waiters : waiters[i] = r /\ waiters' = RemoveAt(waiters, i)
    BY <1>2 DEF Abandon, Unqueued
  <2>2. Owner' = Owner
    BY <1>2 DEF IInv, TypeOK, Abandon, Goes, Owner
  <2>3. SlotsAccounted' /\ Within'
    BY <2>2, SameBooks DEF Abandon
  <2>4. CASE closed
    <3>1. waiters' \in Seq(Request) /\ Len(waiters') <= QueueSize
      <4>1. /\ waiters' \in Seq(Request)
            /\ Len(waiters') = Len(waiters) - 1 /\ Len(waiters) \in Nat
        BY <2>1, RemoveAtProperties DEF IInv, TypeOK
      <4>. QED BY <4>1, LimitAssumption DEF IInv, TypeOK
    <3>2. TypeOK'
      BY <1>2, <3>1 DEF IInv, TypeOK, Abandon, Goes, Place
    <3>. QED BY <2>3, <2>4, <3>2 DEF IInv, Queued, NoIdleSlot, Abandon
  <2>5. CASE ~closed
    <3>1. /\ waiters' \in Seq(Request) /\ Len(waiters') <= QueueSize
          /\ \A j \in DOMAIN waiters' :
               \E k \in DOMAIN waiters : waiters'[j] = waiters[k] /\ k # i
          /\ \A j, k \in DOMAIN waiters' : waiters'[j] = waiters'[k] => j = k
      BY <2>1, <2>5, TakenOut DEF IInv, Queued
    <3>2. TypeOK'
      BY <1>2, <3>1 DEF IInv, TypeOK, Abandon, Goes, Place
    <3>3. \A j \in DOMAIN waiters' : waiters'[j] # r
      BY <2>1, <2>5, <3>1 DEF IInv, Queued
    <3>4. Queued'
      BY <1>2, <2>5, <3>1, <3>3 DEF IInv, TypeOK, Queued, Abandon, Goes
    <3>5. NoIdleSlot'
      BY <2>5, <3>1 DEF IInv, NoIdleSlot, Abandon
    <3>. QED BY <2>3, <3>2, <3>4, <3>5 DEF IInv
  <2>. QED BY <2>4, <2>5
<1>3. CASE r \notin dispatched /\ ~\E i \in DOMAIN waiters : waiters[i] = r
  <2>1. Owner' = Owner
    BY <1>3 DEF IInv, TypeOK, Abandon, Goes, Owner
  <2>2. SlotsAccounted' /\ Within'
    BY <2>1, SameBooks DEF Abandon
  <2>3. waiters' = waiters
    BY <1>3 DEF Abandon, Unqueued
  <2>4. TypeOK'
    BY <1>3, <2>3 DEF IInv, TypeOK, Abandon, Goes, Place
  <2>5. Queued'
    BY <1>3, <2>3 DEF IInv, TypeOK, Queued, Abandon, Goes
  <2>6. NoIdleSlot'
    BY <2>3 DEF IInv, NoIdleSlot, Abandon
  <2>. QED BY <2>2, <2>4, <2>5, <2>6 DEF IInv
<1>. QED BY <1>1, <1>2, <1>3

LEMMA ReleaseIInv ==
  ASSUME IInv, NEW r \in Request, Release(r)
  PROVE  IInv'
<1>1. TypeOK'
  <2>1. global' \in Nat
    BY DEF IInv, TypeOK, Release
  <2>2. perUID' \in [Uid -> Nat]
    <3>. DEFINE left(n) == IF n > 1 THEN n - 1 ELSE 0
    <3>1. \A n \in Nat : left(n) \in Nat
      OBVIOUS
    <3>2. perUID' = [perUID EXCEPT ![UidOf[r]] = left(@)]
      BY DEF Release
    <3>. HIDE DEF left
    <3>. QED BY <3>1, <3>2, RequestAssumption DEF IInv, TypeOK
  <2>3. at' \in [Request -> Place]
    BY DEF IInv, TypeOK, Release, Goes, Place
  <2>. QED BY <2>1, <2>2, <2>3 DEF IInv, TypeOK, Release
<1>2. NoIdleSlot'
  BY DEF NoIdleSlot, Release
<1>3. Queued'
  BY DEF IInv, TypeOK, Queued, Release, Goes
<1>4. CASE closed
  BY <1>1, <1>2, <1>3, <1>4 DEF IInv, SlotsAccounted, Within, Release
<1>5. CASE ~closed
  <2>1. Owner \in SUBSET Request /\ r \in Owner /\ r \notin dispatched
    BY <1>5 DEF IInv, Queued, Owner, Release
  <2>2. Owner' = Owner \ {r}
    BY <2>1 DEF IInv, TypeOK, Release, Goes, Owner
  <2>3. global = Cardinality(Owner)
        /\ \A u \in Uid : perUID[u] = Cardinality({q \in Owner : UidOf[q] = u})
    BY <1>5 DEF IInv, SlotsAccounted, OwnerOf
  <2>4. global' = global - 1 /\ global' = Cardinality(Owner')
    BY <2>1, <2>2, <2>3, OneLess DEF Release
  <2>5. ASSUME NEW u \in Uid
        PROVE  /\ perUID'[u] = Cardinality({q \in Owner' : UidOf[q] = u})
               /\ perUID'[u] <= perUID[u]
    <3>1. /\ Cardinality({q \in Owner : UidOf[q] = u}) \in Nat
          /\ u = UidOf[r] => Cardinality({q \in Owner : UidOf[q] = u}) # 0
          /\ Cardinality({q \in Owner \ {r} : UidOf[q] = u}) =
             Cardinality({q \in Owner : UidOf[q] = u}) - IF u = UidOf[r] THEN 1 ELSE 0
      BY <2>1, OneLess
    <3>2. perUID'[u] = IF u = UidOf[r] THEN IF perUID[u] > 1 THEN perUID[u] - 1 ELSE 0
                                       ELSE perUID[u]
      BY RequestAssumption DEF Release, IInv, TypeOK
    <3>3. perUID[u] \in Nat /\ (u = UidOf[r] => perUID[u] # 0)
      BY <2>3, <3>1
    <3>4. perUID'[u] = perUID[u] - IF u = UidOf[r] THEN 1 ELSE 0
      BY <3>2, <3>3
    <3>. QED BY <2>2, <2>3, <3>1, <3>3, <3>4
  <2>6. SlotsAccounted'
    BY <2>4, <2>5 DEF SlotsAccounted, OwnerOf
  <2>7. Within'
    <3>1. global \in Nat /\ \A u \in Uid : perUID[u] \in Nat /\ perUID'[u] \in Nat
      BY <1>1 DEF IInv, TypeOK
    <3>. QED BY <3>1, <2>4, <2>5, <1>5, LimitAssumption DEF IInv, Within, Release
  <2>. QED BY <1>1, <1>2, <1>3, <2>6, <2>7 DEF IInv
<1>. QED BY <1>4, <1>5

LEMMA DispatchIInv ==
  ASSUME IInv, Dispatch
  PROVE  IInv'
<1>1. PICK i \in DOMAIN waiters : /\ Picked(i)
                                  /\ waiters' = RemoveAt(waiters, i)
                                  /\ TakesSlot(waiters[i])
                                  /\ dispatched' = dispatched \cup {waiters[i]}
  BY DEF Dispatch
<1>. DEFINE r == waiters[i]
<1>2. r \in Request /\ r \notin Owner /\ Fits(r)
  BY <1>1 DEF IInv, TypeOK, Queued, Owner, Dispatch, Picked, Fitting
<1>3. Owner' = Owner \cup {r}
  BY <1>1, <1>2 DEF Owner, Dispatch
<1>4. global' \in Nat /\ perUID' \in [Uid -> Nat] /\ SlotsAccounted' /\ Within'
  BY <1>1, <1>2, <1>3, TakesSlotBooks DEF Dispatch
<1>5. /\ waiters' \in Seq(Request) /\ Len(waiters') <= QueueSize
      /\ \A j \in DOMAIN waiters' :
           \E k \in DOMAIN waiters : waiters'[j] = waiters[k] /\ k # i
      /\ \A j, k \in DOMAIN waiters' : waiters'[j] = waiters'[k] => j = k
  BY <1>1, TakenOut DEF IInv, Queued, Dispatch
<1>6. TypeOK'
  BY <1>1, <1>2, <1>4, <1>5 DEF IInv, TypeOK, Dispatch
<1>7. Queued'
  BY <1>1, <1>5 DEF IInv, Queued, Dispatch
<1>8. NoIdleSlot'
  BY DEF NoIdleSlot, Dispatch
<1>. QED BY <1>4, <1>6, <1>7, <1>8 DEF IInv

LEMMA UnlockIInv ==
  ASSUME IInv, Unlock
  PROVE  IInv'
<1>1. Owner' = Owner
  BY DEF Unlock, Owner
<1>2. SlotsAccounted' /\ Within'
  BY <1>1, SameBooks DEF Unlock
<1>3. TypeOK' /\ Queued'
  BY DEF IInv, TypeOK, Queued, Unlock
<1>4. NoIdleSlot'
  BY RequestAssumption, LimitAssumption DEF IInv, TypeOK, NoIdleSlot, Unlock, Fitting, Fits
<1>. QED BY <1>2, <1>3, <1>4 DEF IInv

LEMMA CloseIInv ==
  ASSUME IInv, Close
  PROVE  IInv'
<1>1. <<>> \in Seq(Request) /\ Len(<<>>) = 0
  BY EmptySeq
<1>2. waiters' \in Seq(Request) /\ Len(waiters') <= QueueSize /\ closing' \in Seq(Request)
  BY <1>1, LimitAssumption DEF IInv, TypeOK, Close
<1>3. TypeOK'
  <2>1. global' \in Nat /\ perUID' \in [Uid -> Nat] /\ closed' \in BOOLEAN /\ locked' \in BOOLEAN
    BY DEF IInv, TypeOK, Close
  <2>2. dispatched' \subseteq Request /\ at' \in [Request -> Place]
    BY DEF IInv, TypeOK, Close
  <2>. QED BY <1>2, <2>1, <2>2 DEF TypeOK
<1>. QED
  BY <1>3 DEF IInv, SlotsAccounted, Within, Queued, NoIdleSlot, Close

LEMMA CloseGrantsIInv ==
  ASSUME IInv, CloseGrants
  PROVE  IInv'
<1>1. closed
  BY DEF IInv, Queued, CloseGrants
<1>2. Head(closing) \in Request /\ Tail(closing) \in Seq(Request)
  BY HeadTailProperties DEF IInv, TypeOK, CloseGrants
<1>3. TypeOK'
  BY <1>2, RequestAssumption DEF IInv, TypeOK, CloseGrants, TakesSlot
<1>. QED
  BY <1>1, <1>3 DEF IInv, SlotsAccounted, Within, Queued, NoIdleSlot, CloseGrants

LEMMA NextIInv == IInv /\ [Next]_vars => IInv'
<1>. SUFFICES ASSUME IInv, [Next]_vars PROVE IInv'
  OBVIOUS
<1>1. ASSUME NEW r \in Request,
             Admit(r) \/ Enqueue(r) \/ Leave(r) \/ Wake(r) \/ Abandon(r) \/ Release(r)
      PROVE  IInv'
  BY <1>1, AdmitIInv, EnqueueIInv, LeaveIInv, WakeIInv, AbandonIInv, ReleaseIInv
<1>2. CASE Dispatch \/ Unlock \/ Close \/ CloseGrants
  BY <1>2, DispatchIInv, UnlockIInv, CloseIInv, CloseGrantsIInv
<1>3. CASE UNCHANGED vars
  BY <1>3 DEF vars, IInv, TypeOK, SlotsAccounted, Owner, OwnerOf, Within, Queued, NoIdleSlot
<1>. QED BY <1>1, <1>2, <1>3 DEF Next, Proceeds

-----------------------------------------------------------------------------
(* The theorems                                                              *)

(* The inductive invariant IInv holds in every reachable state.              *)
THEOREM Invariance == Spec => []IInv
<1>. QED BY InitIInv, NextIInv, PTL DEF Spec

(* Every variable keeps its type and the queue its bound.                    *)
THEOREM TypeCorrect == Spec => []TypeOK
<1>1. IInv => TypeOK BY DEF IInv
<1>. QED BY Invariance, <1>1, PTL

(* For any number of requests, users and slots, no grant, timeout or release *)
(* loses a slot or counts one twice.                                         *)
THEOREM Accounts == Spec => []SlotsAccounted
<1>1. IInv => SlotsAccounted BY DEF IInv
<1>. QED BY Invariance, <1>1, PTL

(* Never more executions than configured, in all and per user (Acquire,      *)
(* Release, dispatchLocked, abandon).                                        *)
THEOREM Capped == Spec => []CapsHold
<1>1. IInv => CapsHold
  BY DEF IInv, SlotsAccounted, Within, CapsHold
<1>. QED BY Invariance, <1>1, PTL

(* What InOrder says of one step.                                            *)
ServedInOrder(r) ==
  \A i \in DOMAIN waiters :
    UidOf[waiters[i]] = UidOf[r] => \E j \in DOMAIN waiters : waiters[j] = r /\ j <= i

LEMMA StepInOrder ==
  ASSUME IInv, [Next]_vars, NEW r \in Request, r \notin Owner, r \in Owner', ~closed
  PROVE  ServedInOrder(r)
<1>1. ASSUME NEW q \in Request, Admit(q) PROVE ServedInOrder(r)
  <2>1. q = r
    BY <1>1 DEF IInv, TypeOK, Owner, Admit, Goes
  <2>2. \A i \in DOMAIN waiters : perUID[UidOf[waiters[i]]] >= MaxPerUID
    BY <1>1 DEF IInv, NoIdleSlot, Admit
  <2>3. perUID[UidOf[r]] < MaxPerUID /\ perUID[UidOf[r]] \in Nat
    BY <1>1, <2>1, RequestAssumption DEF IInv, TypeOK, Admit, Fits
  <2>. QED BY <2>2, <2>3, LimitAssumption DEF ServedInOrder
<1>2. CASE Dispatch
  <2>1. PICK i \in DOMAIN waiters : Picked(i) /\ dispatched' = dispatched \cup {waiters[i]}
    BY <1>2 DEF Dispatch
  <2>2. waiters[i] = r
    BY <1>2, <2>1 DEF Owner, Dispatch
  <2>3. ASSUME NEW k \in DOMAIN waiters, UidOf[waiters[k]] = UidOf[r] PROVE i <= k
    <3>1. k \in Fitting
      BY <2>1, <2>2, <2>3 DEF Picked, Fitting, Fits
    <3>. QED BY <3>1, <2>1 DEF Picked
  <2>. QED BY <2>2, <2>3 DEF ServedInOrder
<1>3. ASSUME NEW q \in Request,
             Enqueue(q) \/ Leave(q) \/ Wake(q) \/ Abandon(q) \/ Release(q)
      PROVE  FALSE
  BY <1>3 DEF IInv, TypeOK, Owner, Enqueue, Leave, Wake, Abandon, Release, Goes
<1>4. CASE Unlock \/ Close
  BY <1>4 DEF Owner, Unlock, Close
<1>5. CASE CloseGrants
  BY <1>5 DEF IInv, Queued, CloseGrants
<1>6. CASE UNCHANGED vars
  BY <1>6 DEF vars, Owner
<1>. QED BY <1>1, <1>2, <1>3, <1>4, <1>5, <1>6 DEF Next, Proceeds

(* A user's requests are served in the order they came: neither the fast     *)
(* path of Acquire nor dispatchLocked lets one pass another of its user.     *)
THEOREM FirstComeFirstServed == Spec => InOrder
<1>1. IInv /\ [Next]_vars =>
        \A r \in Request : r \notin Owner /\ r \in Owner' /\ ~closed => ServedInOrder(r)
  BY StepInOrder
<1>. QED BY <1>1, Invariance, PTL DEF Spec, InOrder, ServedInOrder

(* No request waits while it could run.                                      *)
THEOREM WorkConserving == Spec => []NoIdleSlot
<1>1. IInv => NoIdleSlot BY DEF IInv
<1>. QED BY Invariance, <1>1, PTL

-----------------------------------------------------------------------------
(* Uploads.                                                                  *)

(* The places of a request, and those between its two readings of what is    *)
(* used and the second check.                                                *)
Rechecking == {"recheck", "sum", "exists", "seed", "pending"}
UploadPlace == Rechecking \union
               {"new", "reserve", "opening", "open", "verified", "created", "ended"}
UploadRecord == [at : UploadPlace, round : {1, 2}, used : Int, saw : SUBSET Upload]

UploadTypeOK ==
  /\ upload \in [Upload -> UploadRecord]
  /\ stored \in [Upload -> {"none", "active", "trash"}]
  /\ counter \in [there : BOOLEAN, bytes : Int]
  /\ ledger \in [Upload -> {"none", "fresh", "stale"}]
  /\ session \subseteq Upload /\ heart \subseteq Upload /\ beating \subseteq Upload
  /\ healer \in [at : {"idle", "listed", "differs"}, sum : Int]
  /\ unseen \subseteq Upload /\ drifted \in BOOLEAN

(* The second round belongs to an upload whose reservation is registered.    *)
RoundFits == \A u \in Upload :
  /\ upload[u].at \in {"recheck", "pending"} => upload[u].round = 2
  /\ upload[u].round = 2 => upload[u].at \in Rechecking /\ ledger[u] = "fresh"

(* Who was let in by a check has an entry until its file has a row.          *)
GrantedAreListed == \A u \in Granted \ unseen : ledger[u] = "fresh"

(* A counter without a row is 0, and one that was behind has been noticed.   *)
CounterFits == (~counter.there => counter.bytes = 0) /\ (Behind => drifted)

(* What the recheck works with covers the rows that were there.              *)
SawIsCounted == \A u \in Upload :
  /\ upload[u].round = 2 /\ upload[u].at \in {"exists", "seed", "pending"}
  /\ ~drifted
  => Cardinality(upload[u].saw) <= upload[u].used

UploadIInv == /\ UploadTypeOK /\ RoundFits /\ GrantedAreListed
              /\ CounterFits /\ SawIsCounted /\ BytesFit

(* Sets of uploads are finite.                                               *)
LEMMA UploadsCounted ==
  ASSUME NEW A \in SUBSET Upload
  PROVE  IsFiniteSet(A) /\ Cardinality(A) \in Nat
BY UploadAssumption, FS_Subset, FS_CardinalityType

(* At first, only old files count.                                           *)
LEMMA UploadInitIInv == UploadInit => UploadIInv
<1> SUFFICES ASSUME UploadInit PROVE UploadIInv
  OBVIOUS
<1>1. PICK old \in SUBSET Old :
        /\ upload = [u \in Upload |-> [NewUpload EXCEPT !.at = IF u \in old THEN "ended" ELSE "new"]]
        /\ stored \in [Upload -> {"none", "active", "trash"}]
        /\ \A u \in Upload : u \in old <=> stored[u] # "none"
  BY DEF UploadInit
<1>2. \A u \in Upload : /\ upload[u] \in UploadRecord /\ upload[u].round = 1
                        /\ upload[u].at \in {"new", "ended"}
  BY <1>1 DEF NewUpload, UploadRecord, UploadPlace, Rechecking
<1>a. upload \in [Upload -> UploadRecord]
  BY <1>1, <1>2
<1>3. UploadTypeOK
  <2>1. counter \in [there : BOOLEAN, bytes : Int] /\ healer \in [at : {"idle", "listed", "differs"}, sum : Int]
    BY DEF UploadInit, Resting
  <2>2. ledger \in [Upload -> {"none", "fresh", "stale"}]
    BY DEF UploadInit
  <2>. QED BY <1>1, <1>a, <2>1, <2>2 DEF UploadInit, UploadTypeOK
<1>4. RoundFits /\ SawIsCounted
  BY <1>2 DEF RoundFits, SawIsCounted
<1>5. Granted = {}
  BY <1>2 DEF Granted
<1>6. GrantedAreListed /\ CounterFits
  BY <1>5 DEF GrantedAreListed, CounterFits, Behind, UploadInit
<1>7. (Active \union Granted) \ unseen \subseteq Old
  BY <1>1, <1>5 DEF Active
<1>8. BytesFit
  <2>1. IsFiniteSet(Old) /\ Cardinality(Old) \in Nat
    BY UploadAssumption, UploadsCounted
  <2>2. Cardinality((Active \union Granted) \ unseen) <= Cardinality(Old)
        /\ Cardinality((Active \union Granted) \ unseen) \in Nat
    BY <1>7, <2>1, FS_Subset, FS_CardinalityType
  <2>. QED BY <2>1, <2>2, UploadAssumption DEF BytesFit
<1>. QED BY <1>3, <1>4, <1>6, <1>8 DEF UploadIInv

-----------------------------------------------------------------------------
(* What a step does to one request's record.                                 *)
Only(u) == /\ upload' \in [Upload -> UploadRecord]
           /\ \A v \in Upload \ {u} : upload'[v] = upload[v]

(* It goes on.                                                               *)
LEMMA EntersOnly ==
  ASSUME UploadTypeOK, NEW u \in Upload, NEW place \in UploadPlace, Enters(u, place)
  PROVE  /\ Only(u) /\ upload'[u].at = place /\ upload'[u].round = upload[u].round
         /\ upload'[u].used = upload[u].used /\ upload'[u].saw = upload[u].saw
<1>1. upload[u] \in UploadRecord
  BY DEF UploadTypeOK
<1>2. [upload[u] EXCEPT !.at = place] \in UploadRecord
  BY <1>1 DEF UploadRecord
<1>3. Only(u) /\ upload'[u] = [upload[u] EXCEPT !.at = place]
  BY <1>2 DEF UploadTypeOK, Enters, Only
<1>. QED BY <1>1, <1>3 DEF UploadRecord

(* It is through with the checks, or over.                                   *)
LEMMA LeavesOnly ==
  ASSUME UploadTypeOK, NEW u \in Upload, NEW place \in UploadPlace, Leaves(u, place)
  PROVE  Only(u) /\ upload'[u].at = place /\ upload'[u].round = 1
BY DEF UploadTypeOK, UploadRecord, Leaves, NewUpload, Only

(* It reads what is used.                                                    *)
LEMMA ReadsOnly ==
  ASSUME UploadTypeOK, NEW u \in Upload, NEW place \in UploadPlace, NEW n \in Int, Reads(u, n, place)
  PROVE  /\ Only(u) /\ upload'[u].at = place /\ upload'[u].round = upload[u].round
         /\ upload'[u].used = n /\ (upload[u].round = 2 => upload'[u].saw = Active)
<1>1. Active \in SUBSET Upload
  BY DEF Active
<1> DEFINE seen == IF upload[u].round = 2 THEN Active ELSE {}
<1>2. seen \in SUBSET Upload
  BY <1>1
<1>3. upload' = [upload EXCEPT ![u].at = place, ![u].used = n, ![u].saw = seen]
  BY DEF Reads
<1> HIDE DEF seen
<1>4. /\ Only(u) /\ upload'[u].at = place /\ upload'[u].round = upload[u].round
      /\ upload'[u].used = n /\ upload'[u].saw = seen
  <2>1. upload[u] \in UploadRecord
    BY DEF UploadTypeOK
  <2>2. upload' = [upload EXCEPT ![u] = [upload[u] EXCEPT !.at = place, !.used = n, !.saw = seen]]
    BY <1>3
  <2>3. [upload[u] EXCEPT !.at = place, !.used = n, !.saw = seen] \in UploadRecord
    BY <1>2, <2>1 DEF UploadRecord
  <2>4. Only(u) /\ upload'[u] = [upload[u] EXCEPT !.at = place, !.used = n, !.saw = seen]
    BY <2>2, <2>3 DEF UploadTypeOK, Only
  <2>. QED BY <2>1, <2>4 DEF UploadRecord
<1>. QED BY <1>4 DEF seen

(* Nobody new is counted: the bytes still fit.                               *)
LEMMA NoMoreBytes ==
  ASSUME UploadIInv, Watch,
         ((Active \union Granted) \ unseen)' \subseteq (Active \union Granted) \ unseen
  PROVE  BytesFit'
<1> DEFINE A == (Active \union Granted) \ unseen
           B == ((Active \union Granted) \ unseen)'
<1>1. A \in SUBSET Upload
  BY DEF Active, Granted
<1>2. IsFiniteSet(A) /\ Cardinality(A) \in Nat
  BY <1>1, UploadsCounted
<1>3. Cardinality(B) <= Cardinality(A) /\ Cardinality(B) \in Nat
  BY <1>2, FS_Subset, FS_CardinalityType
<1>4. ~drifted' => Cardinality(A) <= Quota
  BY DEF UploadIInv, UploadTypeOK, BytesFit, Watch
<1> HIDE DEF A, B
<1>5. ~drifted' => Cardinality(B) <= Quota
  BY <1>2, <1>3, <1>4, UploadAssumption
<1>. QED BY <1>5 DEF BytesFit, B

-----------------------------------------------------------------------------
(* A step of one upload: the types, and the others' entries and sessions.    *)
Alone(u) ==
  /\ Only(u)
  /\ stored' \in [Upload -> {"none", "active", "trash"}]
  /\ counter' \in [there : BOOLEAN, bytes : Int]
  /\ ledger' \in [Upload -> {"none", "fresh", "stale"}]
  /\ session' \subseteq Upload /\ heart' \subseteq Upload /\ beating' \subseteq Upload
  /\ healer' = healer
  /\ unseen \subseteq unseen' /\ unseen' \subseteq Upload
  /\ \A v \in Upload \ {u} :
       /\ stored'[v] = stored[v]
       /\ ledger[v] = "fresh" => ledger'[v] = "fresh"
       /\ v \in session' => v \in session

(* What it must see to itself.                                               *)
Suits(u) ==
  /\ upload'[u].at \in {"recheck", "pending"} => upload'[u].round = 2
  /\ upload'[u].round = 2 => upload'[u].at \in Rechecking /\ ledger'[u] = "fresh"
  /\ u \in Granted' \ unseen' => ledger'[u] = "fresh"
  /\ ~counter'.there => counter'.bytes = 0
  /\ (upload'[u].round = 2 /\ upload'[u].at \in {"exists", "seed", "pending"} /\ ~drifted')
       => Cardinality(upload'[u].saw) <= upload'[u].used

(* It is not counted anew.                                                   *)
NotNew(u) == u \in ((Active \union Granted) \ unseen)' => u \in (Active \union Granted) \ unseen

(* Such a step keeps the invariant, when the bytes fit after it.             *)
LEMMA AloneKeeps ==
  ASSUME UploadIInv, Watch, NEW u \in Upload, Alone(u), Suits(u), NotNew(u) \/ BytesFit'
  PROVE  UploadIInv'
<1>0. \A v \in Upload \ {u} : upload'[v] = upload[v]
  BY DEF Alone, Only
<1>1. UploadTypeOK'
  BY DEF Alone, Only, UploadIInv, UploadTypeOK, Watch, Behind
<1>2. RoundFits'
  BY <1>0 DEF Alone, Suits, UploadIInv, RoundFits
<1>3. \A v \in Upload \ {u} : v \in Granted' => v \in Granted
  BY <1>0 DEF Alone, Granted
<1>4. GrantedAreListed'
  <2>1. \A v \in Granted' : v \in Upload
    BY DEF Granted
  <2>2. \A v \in Upload \ {u} : v \in Granted' \ unseen' => ledger'[v] = "fresh"
    BY <1>3 DEF Alone, UploadIInv, GrantedAreListed
  <2>. QED BY <2>1, <2>2 DEF Suits, GrantedAreListed
<1>5. CounterFits'
  BY DEF Suits, CounterFits, Watch
<1>6. SawIsCounted'
  <2>1. ~drifted' => ~drifted
    BY DEF Watch
  <2>2. \A v \in Upload \ {u} :
          (upload'[v].round = 2 /\ upload'[v].at \in {"exists", "seed", "pending"} /\ ~drifted')
          => Cardinality(upload'[v].saw) <= upload'[v].used
    BY <1>0, <2>1 DEF UploadIInv, SawIsCounted
  <2>. QED BY <2>2 DEF Suits, SawIsCounted
<1>7. ASSUME NotNew(u) PROVE BytesFit'
  <2>1. \A v \in (Active \union Granted)' : v \in Upload
    BY DEF Active, Granted
  <2>2. \A v \in Upload \ {u} : v \in Active' => v \in Active
    BY DEF Alone, Active
  <2>3. ((Active \union Granted) \ unseen)' \subseteq (Active \union Granted) \ unseen
    BY <1>3, <1>7, <2>1, <2>2 DEF NotNew, Alone
  <2>. QED BY <2>3, NoMoreBytes
<1>. QED BY <1>1, <1>2, <1>4, <1>5, <1>6, <1>7 DEF UploadIInv

-----------------------------------------------------------------------------
(* UsedBytes.                                                                *)
LEMMA AnswersFit ==
  ASSUME UploadIInv, NEW u \in Upload
  PROVE  /\ Answered(u) \in {"reserve", "pending"}
         /\ Answered(u) = "pending" <=> upload[u].round = 2
BY DEF UploadIInv, UploadTypeOK, UploadRecord, Answered

(* The counter is read; what it says covers the rows unless it has drifted.  *)
LEMMA ReadCounterKeeps ==
  ASSUME UploadIInv, Watch, NEW u \in Upload, ReadCounter(u) PROVE UploadIInv'
<1>1. counter.bytes \in Int /\ UploadTypeOK
  BY DEF UploadIInv, UploadTypeOK
<1>2. PICK place \in {"sum", "reserve", "pending"} :
        /\ Only(u) /\ upload'[u].at = place /\ upload'[u].round = upload[u].round
        /\ place = "pending" => upload[u].round = 2 /\ upload'[u].used = counter.bytes
                                /\ counter.bytes # 0 /\ upload'[u].saw = Active
        /\ place = "reserve" => upload[u].round # 2
  <2>1. CASE counter.bytes # 0
    <3>1. Reads(u, counter.bytes, Answered(u)) /\ Answered(u) \in UploadPlace
      BY <2>1, AnswersFit DEF ReadCounter, UploadPlace, Rechecking
    <3>. QED BY <1>1, <2>1, <3>1, AnswersFit, ReadsOnly
  <2>2. CASE counter.bytes = 0
    <3>1. Enters(u, "sum") /\ "sum" \in UploadPlace
      BY <2>2 DEF ReadCounter, UploadPlace, Rechecking
    <3>. QED BY <1>1, <3>1, EntersOnly
  <2>. QED BY <2>1, <2>2
<1>3. UNCHANGED <<filesVars, redisVars, healer, unseen>>
  BY DEF ReadCounter
<1>4. Alone(u)
  BY <1>2, <1>3 DEF Alone, UploadIInv, UploadTypeOK, filesVars, redisVars
<1>5. place = "pending" /\ ~drifted' => Cardinality(Active) <= counter.bytes
  <2>1. Cardinality(Active) \in Nat
    BY UploadsCounted DEF Active
  <2>. QED BY <1>1, <1>2, <2>1 DEF UploadIInv, UploadTypeOK, CounterFits, Behind, Watch
<1>6. u \notin Granted'
  BY <1>2 DEF Granted
<1>7. Suits(u)
  BY <1>2, <1>3, <1>5, <1>6 DEF Suits, Rechecking, UploadIInv, RoundFits, CounterFits, filesVars, redisVars
<1>8. NotNew(u)
  BY <1>3, <1>6 DEF NotNew, Active, filesVars
<1>. QED BY <1>4, <1>7, <1>8, AloneKeeps

(* Or the rows are summed.                                                   *)
LEMMA SumKeeps ==
  ASSUME UploadIInv, Watch, NEW u \in Upload, SumActiveBytes(u) PROVE UploadIInv'
<1>1. Cardinality(Active) \in Nat /\ UploadTypeOK
  BY UploadsCounted DEF UploadIInv, Active
<1>2. /\ Only(u) /\ upload'[u].at = "exists" /\ upload'[u].round = upload[u].round
      /\ upload'[u].used = Cardinality(Active) /\ (upload[u].round = 2 => upload'[u].saw = Active)
  <2>1. Reads(u, Cardinality(Active), "exists") /\ "exists" \in UploadPlace /\ Cardinality(Active) \in Int
    BY <1>1 DEF SumActiveBytes, UploadPlace, Rechecking
  <2>. QED BY <1>1, <2>1, ReadsOnly
<1>3. UNCHANGED <<filesVars, redisVars, healer, unseen>>
  BY DEF SumActiveBytes
<1>4. Alone(u)
  BY <1>2, <1>3 DEF Alone, UploadIInv, UploadTypeOK, filesVars, redisVars
<1>6. u \notin Granted'
  BY <1>2 DEF Granted
<1>7. Suits(u)
  BY <1>1, <1>2, <1>3, <1>6 DEF Suits, Rechecking, UploadIInv, RoundFits, CounterFits, filesVars, redisVars
<1>8. NotNew(u)
  BY <1>3, <1>6 DEF NotNew, Active, filesVars
<1>. QED BY <1>4, <1>7, <1>8, AloneKeeps

(* A missing row of the counter is looked for, and filled with that sum.     *)
LEMMA FillKeeps ==
  ASSUME UploadIInv, Watch, NEW u \in Upload, CountRows(u) \/ Seed(u) PROVE UploadIInv'
<1>1. UploadTypeOK /\ upload[u].used \in Int /\ counter.bytes \in Int
  BY DEF UploadIInv, UploadTypeOK, UploadRecord
<1>2. PICK place \in {"seed", "reserve", "pending"} :
        /\ Only(u) /\ upload'[u].at = place /\ upload'[u].round = upload[u].round
        /\ upload'[u].used = upload[u].used /\ upload'[u].saw = upload[u].saw
        /\ place = "pending" => upload[u].round = 2
        /\ place = "reserve" => upload[u].round # 2
  <2>1. PICK place \in {"seed", "reserve", "pending"} :
          /\ Enters(u, place) /\ (place = "pending" => upload[u].round = 2)
          /\ (place = "reserve" => upload[u].round # 2)
    BY AnswersFit DEF CountRows, Seed
  <2>. QED BY <1>1, <2>1, EntersOnly DEF UploadPlace, Rechecking
<1>3. UNCHANGED <<stored, redisVars, healer, unseen>> /\ upload[u].at \in {"exists", "seed"}
  BY DEF CountRows, Seed, filesVars
<1>4. counter' \in [there : BOOLEAN, bytes : Int] /\ (~counter'.there => counter'.bytes = 0)
  <2>1. CASE CountRows(u)
    <3>1. counter' = counter
      BY <2>1 DEF CountRows, filesVars
    <3>. QED BY <3>1 DEF UploadIInv, UploadTypeOK, CounterFits
  <2>2. CASE Seed(u)
    <3>1. counter' = [there |-> TRUE, bytes |-> counter.bytes + upload[u].used]
      BY <2>2 DEF Seed, applyUsageDelta
    <3>2. counter.bytes + upload[u].used \in Int
      BY <1>1
    <3>. QED BY <3>1, <3>2
  <2>. QED BY <2>1, <2>2
<1>5. Alone(u)
  BY <1>2, <1>3, <1>4 DEF Alone, UploadIInv, UploadTypeOK, redisVars
<1>6. u \notin Granted'
  BY <1>2 DEF Granted
<1>7. Suits(u)
  <2>1. (upload[u].round = 2 /\ ~drifted') => Cardinality(upload[u].saw) <= upload[u].used
    BY <1>3 DEF UploadIInv, SawIsCounted, Watch
  <2>. QED BY <1>2, <1>3, <1>4, <1>6, <2>1 DEF Suits, Rechecking, UploadIInv, RoundFits, redisVars
<1>8. NotNew(u)
  BY <1>3, <1>6 DEF NotNew, Active
<1>. QED BY <1>5, <1>7, <1>8, AloneKeeps

-----------------------------------------------------------------------------
(* The rest of a step that touches rows and counter not at all, and Redis    *)
(* for its own upload.                                                       *)
Beside(u) ==
  /\ UNCHANGED <<filesVars, healer>>
  /\ ledger' \in [Upload -> {"none", "fresh", "stale"}]
  /\ session' \subseteq Upload /\ heart' \subseteq Upload /\ beating' \subseteq Upload
  /\ unseen \subseteq unseen' /\ unseen' \subseteq Upload
  /\ \A v \in Upload \ {u} :
       /\ ledger[v] = "fresh" => ledger'[v] = "fresh"
       /\ v \in session' => v \in session

(* What prunes, registers and removes leaves the other fresh entries.        *)
LEMMA Entries ==
  ASSUME UploadTypeOK, NEW u \in Upload
  PROVE  /\ {Pruned, Registered(u), Removed(u), [Pruned EXCEPT ![u] = "none"]}
              \subseteq [Upload -> {"none", "fresh", "stale"}]
         /\ \A v \in Upload : Pruned[v] = "fresh" <=> ledger[v] = "fresh"
         /\ \A v \in Upload \ {u} : ledger[v] = "fresh" =>
              /\ Registered(u)[v] = "fresh" /\ Removed(u)[v] = "fresh"
              /\ [Pruned EXCEPT ![u] = "none"][v] = "fresh"
         /\ Registered(u)[u] = "fresh"
<1>1. Pruned \in [Upload -> {"none", "fresh", "stale"}]
  BY DEF UploadTypeOK, Pruned
<1>2. \A v \in Upload : Pruned[v] = "fresh" <=> ledger[v] = "fresh"
  BY DEF Pruned
<1>. QED BY <1>1, <1>2 DEF UploadTypeOK, Registered, Removed

(* An upload ends.                                                           *)
LEMMA EndKeeps ==
  ASSUME UploadIInv, Watch, NEW u \in Upload, Leaves(u, "ended"), Beside(u) PROVE UploadIInv'
<1>1. UploadTypeOK /\ "ended" \in UploadPlace
  BY DEF UploadIInv, UploadPlace
<1>2. Only(u) /\ upload'[u].at = "ended" /\ upload'[u].round = 1
  BY <1>1, LeavesOnly
<1>3. Alone(u)
  BY <1>1, <1>2 DEF Alone, Beside, UploadTypeOK, filesVars
<1>4. u \notin Granted'
  BY <1>2 DEF Granted
<1>5. Suits(u)
  BY <1>2, <1>4 DEF Suits, Beside, filesVars, UploadIInv, CounterFits
<1>6. NotNew(u)
  BY <1>4 DEF NotNew, Active, Beside, filesVars
<1>. QED BY <1>3, <1>5, <1>6, AloneKeeps

(* An upload is let in without a check that counts.                          *)
LEMMA UnseenKeeps ==
  ASSUME UploadIInv, Watch, NEW u \in Upload, Leaves(u, "opening"), Beside(u),
         unseen' = unseen \union {u}
  PROVE  UploadIInv'
<1>1. UploadTypeOK /\ "opening" \in UploadPlace
  BY DEF UploadIInv, UploadPlace
<1>2. Only(u) /\ upload'[u].at = "opening" /\ upload'[u].round = 1
  BY <1>1, LeavesOnly
<1>3. Alone(u)
  BY <1>1, <1>2 DEF Alone, Beside, UploadTypeOK, filesVars
<1>5. Suits(u)
  BY <1>2 DEF Suits, Beside, filesVars, UploadIInv, CounterFits
<1>6. NotNew(u)
  BY DEF NotNew
<1>. QED BY <1>3, <1>5, <1>6, AloneKeeps

(* The failures, and what simply ends.                                       *)
LEMMA EndsKeep ==
  ASSUME UploadIInv, Watch, NEW u \in Upload,
         \/ UsageFails(u) \/ ReserveFails(u) \/ SumFails(u) \/ OpenFails(u) \/ CompleteFails(u)
         \/ CreateFails(u) \/ RequestDies(u) \/ GivesUp(u) \/ Settle(u)
  PROVE  UploadIInv'
<1>0. UploadTypeOK
  BY DEF UploadIInv
<1>1. Beside(u)
  <2>1. /\ UNCHANGED <<filesVars, healer>> /\ heart' = heart /\ beating' = beating
        /\ session' = session \/ session' = session \ {u}
        /\ unseen' \in {unseen, unseen \union {u}}
        /\ ledger' \in {ledger, Registered(u), Removed(u)}
    <3>1. CASE UsageFails(u) \/ CreateFails(u) \/ RequestDies(u) \/ GivesUp(u)
      BY <3>1 DEF UsageFails, CreateFails, RequestDies, GivesUp, redisVars
    <3>2. CASE ReserveFails(u)
      BY <3>2 DEF ReserveFails
    <3>3. CASE SumFails(u)
      BY <3>3 DEF SumFails
    <3>4. CASE OpenFails(u) \/ Settle(u)
      BY <3>4 DEF OpenFails, Settle
    <3>5. CASE CompleteFails(u)
      BY <3>5 DEF CompleteFails
    <3>. QED BY <3>1, <3>2, <3>3, <3>4, <3>5
  <2>2. ledger' \in [Upload -> {"none", "fresh", "stale"}]
        /\ \A v \in Upload \ {u} : ledger[v] = "fresh" => ledger'[v] = "fresh"
    BY <1>0, <2>1, Entries DEF UploadTypeOK
  <2>. QED BY <1>0, <2>1, <2>2 DEF Beside, UploadTypeOK
<1>2. \/ Leaves(u, "ended")
      \/ Leaves(u, "opening") /\ unseen' = unseen \union {u}
  <2>1. CASE UsageFails(u) \/ ReserveFails(u) \/ SumFails(u)
    BY <2>1, Zenon DEF UsageFails, ReserveFails, SumFails
  <2>2. CASE OpenFails(u) \/ CompleteFails(u) \/ CreateFails(u) \/ RequestDies(u) \/ GivesUp(u) \/ Settle(u)
    BY <2>2 DEF OpenFails, CompleteFails, CreateFails, RequestDies, GivesUp, Settle
  <2>. QED BY <2>1, <2>2
<1>. QED BY <1>1, <1>2, EndKeeps, UnseenKeeps

(* The script registers an upload, or refuses it.                            *)
LEMMA ReserveKeeps ==
  ASSUME UploadIInv, Watch, NEW u \in Upload, Reserve(u) PROVE UploadIInv'
<1>0. UploadTypeOK
  BY DEF UploadIInv
<1>1. /\ UNCHANGED <<filesVars, session, heart, beating, healer, unseen>>
      /\ \/ ledger' = Pruned /\ Leaves(u, "ended")
         \/ /\ ledger' = Registered(u)
            /\ upload' = [upload EXCEPT ![u].at = "recheck", ![u].round = 2]
  BY DEF Reserve
<1>2. Beside(u)
  <2>1. ledger' \in [Upload -> {"none", "fresh", "stale"}]
        /\ \A v \in Upload \ {u} : ledger[v] = "fresh" => ledger'[v] = "fresh"
    BY <1>0, <1>1, Entries
  <2>. QED BY <1>0, <1>1, <2>1 DEF Beside, UploadTypeOK
<1>3. ASSUME ledger' = Registered(u), upload' = [upload EXCEPT ![u].at = "recheck", ![u].round = 2]
      PROVE  UploadIInv'
  <2>1. Only(u) /\ upload'[u].at = "recheck" /\ upload'[u].round = 2
    <3>1. upload[u] \in UploadRecord
      BY <1>0 DEF UploadTypeOK
    <3>2. upload' = [upload EXCEPT ![u] = [upload[u] EXCEPT !.at = "recheck", !.round = 2]]
      BY <1>3
    <3>3. [upload[u] EXCEPT !.at = "recheck", !.round = 2] \in UploadRecord
      BY <3>1 DEF UploadRecord, UploadPlace, Rechecking
    <3>4. Only(u) /\ upload'[u] = [upload[u] EXCEPT !.at = "recheck", !.round = 2]
      BY <1>0, <3>2, <3>3 DEF UploadTypeOK, Only
    <3>. QED BY <3>1, <3>4 DEF UploadRecord
  <2>2. Alone(u)
    BY <1>0, <1>2, <2>1 DEF Alone, Beside, UploadTypeOK, filesVars
  <2>3. u \notin Granted' /\ ledger'[u] = "fresh"
    BY <1>0, <1>3, <2>1, Entries DEF Granted
  <2>4. Suits(u)
    BY <1>1, <2>1, <2>3 DEF Suits, Rechecking, filesVars, UploadIInv, CounterFits
  <2>5. NotNew(u)
    BY <1>1, <2>3 DEF NotNew, Active, filesVars
  <2>. QED BY <2>2, <2>4, <2>5, AloneKeeps
<1>. QED BY <1>1, <1>2, <1>3, EndKeeps

(* Those let in have entries that Sum has counted, the rows were counted by  *)
(* UsedBytes, and what was in neither is what nobody has seen.               *)
LEMMA RecheckFits ==
  ASSUME UploadIInv, Watch, NEW u \in Upload, Recheck(u), Leaves(u, "opening"),
         upload[u].used + Cardinality(Pending) =< Quota, unseen' = unseen \union Torn(u)
  PROVE  BytesFit'
<1> DEFINE S == upload[u].saw
           P == Pending
           B == ((Active \union Granted) \ unseen)'
           s == Cardinality(S)
           p == Cardinality(P)
           b == Cardinality(B)
           n == upload[u].used
<1>0. UploadTypeOK /\ upload[u].at = "pending" /\ upload[u].round = 2 /\ ledger[u] = "fresh"
      /\ UNCHANGED <<filesVars, session>>
  BY DEF UploadIInv, RoundFits, Recheck
<1>1. S \in SUBSET Upload /\ P \in SUBSET Upload /\ n \in Int
  BY <1>0 DEF UploadTypeOK, UploadRecord, Pending
<1>2. IsFiniteSet(S) /\ s \in Nat /\ IsFiniteSet(P) /\ p \in Nat
  BY <1>1, UploadsCounted
<1>3. \A v \in Upload \ {u} : upload'[v] = upload[v]
  BY <1>0, LeavesOnly DEF Only, UploadPlace
<1>4. ASSUME NEW v \in B PROVE v \in S \union P
  <2>1. v \in Upload /\ v \notin unseen /\ v \notin Torn(u)
    BY DEF Active, Granted
  <2>2. CASE v \in Active'
    BY <1>0, <2>1, <2>2 DEF Active, Torn, Pending, filesVars
  <2>3. CASE v \in Granted' /\ v # u
    <3>1. v \in Granted
      BY <1>0, <1>3, <2>1, <2>3 DEF Granted
    <3>. QED BY <2>1, <3>1 DEF UploadIInv, GrantedAreListed, Pending
  <2>4. CASE v = u
    BY <1>0, <2>4 DEF Pending
  <2>. QED BY <2>2, <2>3, <2>4
<1>5. IsFiniteSet(S \union P) /\ Cardinality(S \union P) \in Nat /\ Cardinality(S \union P) <= s + p
  <2>1. S \union P \in SUBSET Upload
    BY <1>1
  <2>2. IsFiniteSet(S \union P) /\ Cardinality(S \union P) \in Nat
    BY <2>1, UploadsCounted
  <2>3. S \cap P \in SUBSET Upload
    BY <1>1
  <2>4. Cardinality(S \cap P) \in Nat
    BY <2>3, UploadsCounted
  <2>5. Cardinality(S \union P) = Cardinality(S) + Cardinality(P) - Cardinality(S \cap P)
    BY <1>2, FS_Union
  <2>. QED BY <1>2, <2>2, <2>4, <2>5
<1>6. b <= Cardinality(S \union P) /\ b \in Nat
  BY <1>4, <1>5, FS_Subset, FS_CardinalityType
<1>7. ~drifted' => s <= n
  BY <1>0 DEF UploadIInv, UploadTypeOK, SawIsCounted, Watch
<1>8. n + p <= Quota
  OBVIOUS
<1> HIDE DEF S, P, B, s, p, b, n
<1>9. ~drifted' => b <= Quota
  <2>1. \A c \in Nat : b <= c /\ c <= s + p /\ s <= n => b <= Quota
    BY <1>1, <1>2, <1>6, <1>8, UploadAssumption DEF n
  <2>. QED BY <1>5, <1>6, <1>7, <2>1
<1>. QED BY <1>9 DEF BytesFit, B, b

(* The recheck keeps the reservation, or releases it.                        *)
LEMMA RecheckKeeps ==
  ASSUME UploadIInv, Watch, NEW u \in Upload, Recheck(u) PROVE UploadIInv'
<1>0. UploadTypeOK /\ "opening" \in UploadPlace /\ Torn(u) \in SUBSET Upload
  BY DEF UploadIInv, UploadPlace, Torn, Active
<1>1. /\ UNCHANGED <<filesVars, session, heart, beating, healer>>
      /\ ledger' \in {Pruned, [Pruned EXCEPT ![u] = "none"]}
      /\ unseen \subseteq unseen' /\ unseen' \in SUBSET Upload
  BY <1>0 DEF Recheck, UploadTypeOK
<1>2. Beside(u)
  <2>1. ledger' \in [Upload -> {"none", "fresh", "stale"}]
        /\ \A v \in Upload \ {u} : ledger[v] = "fresh" => ledger'[v] = "fresh"
    BY <1>0, <1>1, Entries
  <2>. QED BY <1>0, <1>1, <2>1 DEF Beside, UploadTypeOK
<1>3. ASSUME ~Leaves(u, "ended") PROVE UploadIInv'
  <2>0. Cardinality(Pending) \in Nat /\ upload[u].used \in Int
    BY <1>0, UploadsCounted DEF UploadTypeOK, UploadRecord, Pending
  <2>1. /\ ~(upload[u].used + Cardinality(Pending) > Quota)
        /\ ledger' = Pruned /\ Leaves(u, "opening") /\ unseen' = unseen \union Torn(u)
    BY <1>3 DEF Recheck
  <2>2. upload[u].used + Cardinality(Pending) =< Quota
    BY <2>0, <2>1, UploadAssumption
  <2>3. BytesFit'
    BY <2>1, <2>2, RecheckFits
  <2>4. Only(u) /\ upload'[u].at = "opening" /\ upload'[u].round = 1
    BY <1>0, <2>1, LeavesOnly
  <2>5. Alone(u)
    BY <1>0, <1>2, <2>4 DEF Alone, Beside, UploadTypeOK, filesVars
  <2>6. ledger'[u] = "fresh"
    BY <1>0, <2>1, Entries DEF UploadIInv, RoundFits, Recheck
  <2>7. Suits(u)
    BY <1>1, <2>4, <2>6 DEF Suits, filesVars, UploadIInv, CounterFits
  <2>. QED BY <2>3, <2>5, <2>7, AloneKeeps
<1>. QED BY <1>2, <1>3, EndKeeps

-----------------------------------------------------------------------------
(* The session is opened, and its chunks are complete.                       *)
LEMMA OpenKeeps ==
  ASSUME UploadIInv, Watch, NEW u \in Upload, OpenSession(u) \/ Complete(u) PROVE UploadIInv'
<1>0. UploadTypeOK
  BY DEF UploadIInv
<1>1. /\ UNCHANGED <<filesVars, ledger, beating, healer, unseen>>
      /\ heart' \in {heart, heart \union {u}} /\ session' \in {session, session \union {u}}
  BY DEF OpenSession, Complete, redisVars
<1>2. PICK place \in {"open", "verified", "ended"} :
        /\ Enters(u, place)
        /\ place = "open" => upload[u].at = "opening"
        /\ place = "verified" => upload[u].at = "open" /\ u \in session
        /\ upload[u].at \in {"opening", "open"}
  BY DEF OpenSession, Complete
<1>3. Only(u) /\ upload'[u].at = place /\ upload'[u].round = upload[u].round /\ upload[u].round # 2
  <2>1. place \in UploadPlace
    BY DEF UploadPlace
  <2>2. upload[u].round # 2
    BY <1>2 DEF UploadIInv, RoundFits, Rechecking
  <2>. QED BY <1>0, <1>2, <2>1, <2>2, EntersOnly
<1>4. Beside(u)
  BY <1>0, <1>1 DEF Beside, UploadTypeOK
<1>5. Alone(u)
  BY <1>0, <1>3, <1>4 DEF Alone, Beside, UploadTypeOK, filesVars
<1>6. u \in Granted' => u \in Granted
  BY <1>2, <1>3 DEF Granted
<1>7. Suits(u)
  BY <1>1, <1>3, <1>6 DEF Suits, filesVars, UploadIInv, CounterFits, GrantedAreListed
<1>8. NotNew(u)
  BY <1>1, <1>6 DEF NotNew, Active, filesVars
<1>. QED BY <1>5, <1>7, <1>8, AloneKeeps

(* The counter, moved by a file more or a file less.                         *)
LEMMA DeltaFits ==
  ASSUME UploadIInv, NEW d \in Int, applyUsageDelta(d)
  PROVE  counter' \in [there : BOOLEAN, bytes : Int] /\ counter'.there
<1>1. counter.bytes + d \in Int
  BY DEF UploadIInv, UploadTypeOK
<1>2. counter' = [there |-> TRUE, bytes |-> counter.bytes + d]
  BY DEF applyUsageDelta
<1>. QED BY <1>1, <1>2

(* The row of a verified upload takes the place of what it was granted.      *)
LEMMA CreateKeeps ==
  ASSUME UploadIInv, Watch, NEW u \in Upload, CreateRow(u) PROVE UploadIInv'
<1>0. UploadTypeOK /\ "created" \in UploadPlace
  BY DEF UploadIInv, UploadPlace
<1>1. /\ UNCHANGED <<redisVars, healer, unseen>> /\ upload[u].at = "verified"
      /\ stored' = [stored EXCEPT ![u] = "active"] /\ Enters(u, "created")
      /\ counter' \in [there : BOOLEAN, bytes : Int] /\ counter'.there
  BY DeltaFits DEF CreateRow
<1>2. Only(u) /\ upload'[u].at = "created" /\ upload'[u].round # 2
  <2>1. upload[u].round # 2
    BY <1>1 DEF UploadIInv, RoundFits, Rechecking
  <2>. QED BY <1>0, <1>1, <2>1, EntersOnly
<1>3. Alone(u)
  BY <1>0, <1>1, <1>2 DEF Alone, UploadTypeOK, redisVars
<1>4. u \notin Granted' /\ u \in Granted
  BY <1>1, <1>2 DEF Granted
<1>5. Suits(u)
  BY <1>1, <1>2, <1>4 DEF Suits
<1>6. NotNew(u)
  BY <1>1, <1>4 DEF NotNew
<1>. QED BY <1>3, <1>5, <1>6, AloneKeeps

(* Heartbeats, and time, which takes a session with its entry.               *)
LEMMA TimeKeeps ==
  ASSUME UploadIInv, Watch, NEW u \in Upload,
         Beat(u) \/ TouchStores(u) \/ HeartLapses(u) \/ HourEnds(u)
  PROVE  UploadIInv'
<1>0. UploadTypeOK
  BY DEF UploadIInv
<1>1. UNCHANGED <<upload, filesVars, healer>>
  BY DEF Beat, TouchStores, HeartLapses, HourEnds
<1>2. /\ unseen \subseteq unseen' /\ unseen' \subseteq Upload
      /\ session' \in {session, session \ {u}}
      /\ heart' \subseteq Upload /\ beating' \subseteq Upload
      /\ ledger' \in {ledger, [ledger EXCEPT ![u] = "fresh"], [ledger EXCEPT ![u] = "stale"]}
  <2>1. CASE Beat(u)
    BY <1>0, <2>1 DEF Beat, UploadTypeOK
  <2>2. CASE TouchStores(u)
    BY <1>0, <2>2 DEF TouchStores, TouchedEntry, UploadTypeOK
  <2>3. CASE HeartLapses(u)
    BY <1>0, <2>3 DEF HeartLapses, UploadTypeOK
  <2>4. CASE HourEnds(u)
    BY <1>0, <2>4 DEF HourEnds, UploadTypeOK
  <2>. QED BY <2>1, <2>2, <2>3, <2>4
<1>3. \/ ledger'[u] = ledger[u] \/ ledger'[u] = "fresh"
      \/ /\ u \notin session' /\ upload[u].at \in {"open", "verified", "created", "ended"}
         /\ upload[u].at = "verified" => u \in unseen'
  BY <1>0 DEF UploadTypeOK, Beat, TouchStores, TouchedEntry, HeartLapses, HourEnds, Opened
<1>4. Alone(u)
  BY <1>0, <1>1, <1>2 DEF Alone, Only, UploadTypeOK, filesVars
<1>5. u \in Granted' => u \in Granted
  BY <1>1, <1>2 DEF Granted
<1>6. u \in Granted' \ unseen' => ledger'[u] = "fresh"
  <2>1. ASSUME u \in Granted' \ unseen' PROVE ledger[u] = "fresh"
    BY <1>2, <1>5, <2>1 DEF UploadIInv, GrantedAreListed
  <2>. QED BY <1>1, <1>3, <2>1 DEF Granted
<1>7. upload[u].round = 2 => ledger'[u] = "fresh" /\ upload[u].at \in Rechecking
  BY <1>3 DEF UploadIInv, RoundFits, Rechecking
<1>8. (upload'[u].round = 2 /\ upload'[u].at \in {"exists", "seed", "pending"} /\ ~drifted')
       => Cardinality(upload'[u].saw) <= upload'[u].used
  BY <1>1 DEF UploadIInv, SawIsCounted, Watch
<1>9. Suits(u)
  BY <1>1, <1>6, <1>7, <1>8 DEF Suits, filesVars, UploadIInv, RoundFits, CounterFits
<1>10. NotNew(u)
  BY <1>1, <1>2, <1>5 DEF NotNew, Active, filesVars
<1>. QED BY <1>4, <1>9, <1>10, AloneKeeps

(* The trash, and what comes out of it unasked.                              *)
LEMMA FileKeeps ==
  ASSUME UploadIInv, Watch, NEW u \in Upload, FileStep(u) PROVE UploadIInv'
<1>0. UploadTypeOK
  BY DEF UploadIInv
<1>1. /\ UNCHANGED <<upload, redisVars, healer>>
      /\ counter' \in [there : BOOLEAN, bytes : Int] /\ counter'.there
  BY DeltaFits DEF FileStep, SoftDelete, Restore
<1>2. \/ stored' = [stored EXCEPT ![u] = "trash"] /\ unseen' = unseen
      \/ stored' = [stored EXCEPT ![u] = "active"] /\ unseen' = unseen \union {u}
  BY DEF FileStep, SoftDelete, Restore
<1>3. Alone(u)
  BY <1>0, <1>1, <1>2 DEF Alone, Only, UploadTypeOK, redisVars
<1>4. u \in Granted' => u \in Granted
  BY <1>1 DEF Granted, redisVars
<1>5. (upload'[u].round = 2 /\ upload'[u].at \in {"exists", "seed", "pending"} /\ ~drifted')
       => Cardinality(upload'[u].saw) <= upload'[u].used
  BY <1>1 DEF UploadIInv, SawIsCounted, Watch
<1>6. Suits(u)
  BY <1>1, <1>2, <1>4, <1>5 DEF Suits, redisVars, UploadIInv, RoundFits, GrantedAreListed
<1>7. NotNew(u)
  <2>1. CASE stored' = [stored EXCEPT ![u] = "trash"] /\ unseen' = unseen
    BY <1>0, <1>4, <2>1 DEF NotNew, Active, UploadTypeOK
  <2>2. CASE unseen' = unseen \union {u}
    BY <2>2 DEF NotNew
  <2>. QED BY <1>2, <2>1, <2>2
<1>. QED BY <1>3, <1>6, <1>7, AloneKeeps

(* The reconciler writes the counter only; if it is behind, Watch notes it.  *)
LEMMA HealerKeeps ==
  ASSUME UploadIInv, Watch, HealerStep PROVE UploadIInv'
<1>0. UploadTypeOK
  BY DEF UploadIInv
<1>1. Cardinality(Active) \in Nat
  BY UploadsCounted DEF Active
<1>2. /\ UNCHANGED <<upload, stored, redisVars, unseen>>
      /\ healer' \in [at : {"idle", "listed", "differs"}, sum : Int]
      /\ \/ counter' = counter
         \/ counter' = [there |-> TRUE, bytes |-> healer.sum]
  <2>1. CASE HealerLists
    BY <1>1, <2>1 DEF HealerLists, filesVars
  <2>2. CASE HealerCompares
    BY <1>0, <2>2 DEF HealerCompares, Resting, filesVars, UploadTypeOK
  <2>3. CASE HealerWrites
    BY <2>3 DEF HealerWrites, Resting
  <2>. QED BY <2>1, <2>2, <2>3 DEF HealerStep
<1>3. counter' \in [there : BOOLEAN, bytes : Int] /\ (~counter'.there => counter'.bytes = 0)
  <2>1. CASE counter' = counter
    BY <1>0, <2>1 DEF UploadTypeOK, UploadIInv, CounterFits
  <2>2. CASE counter' = [there |-> TRUE, bytes |-> healer.sum]
    <3>1. healer.sum \in Int
      BY <1>0 DEF UploadTypeOK
    <3>. QED BY <2>2, <3>1
  <2>. QED BY <1>2, <2>1, <2>2
<1>4. UploadTypeOK'
  BY <1>0, <1>2, <1>3 DEF UploadTypeOK, redisVars, Watch, Behind
<1>5. RoundFits' /\ GrantedAreListed' /\ SawIsCounted'
  BY <1>2 DEF UploadIInv, RoundFits, GrantedAreListed, Granted, SawIsCounted, redisVars, Watch
<1>6. CounterFits'
  BY <1>3 DEF CounterFits, Watch
<1>7. BytesFit'
  BY <1>2, NoMoreBytes DEF Active, Granted, redisVars
<1>. QED BY <1>4, <1>5, <1>6, <1>7 DEF UploadIInv

(* The invariant is inductive.                                               *)
LEMMA UploadNextIInv == UploadIInv /\ [UploadNext]_uploadVars => UploadIInv'
<1> SUFFICES ASSUME UploadIInv, [UploadNext]_uploadVars PROVE UploadIInv'
  OBVIOUS
<1>1. CASE UNCHANGED uploadVars
  BY <1>1 DEF uploadVars, filesVars, redisVars, UploadIInv, UploadTypeOK, RoundFits, GrantedAreListed,
     Granted, CounterFits, Behind, Active, SawIsCounted, BytesFit
<1>2. CASE UploadNext
  <2>1. Watch
    BY <1>2 DEF UploadNext
  <2>2. CASE HealerStep
    BY <2>1, <2>2, HealerKeeps
  <2>3. ASSUME NEW u \in Upload,
               \/ InitStep(u) \/ CompleteStep(u) \/ ServerFails(u)
               \/ ClientStep(u) \/ TouchStores(u) \/ TimeStep(u) \/ FileStep(u)
        PROVE  UploadIInv'
    <3>1. CASE InitStep(u)
      BY <2>1, <3>1, ReadCounterKeeps, SumKeeps, FillKeeps, ReserveKeeps, RecheckKeeps, OpenKeeps
         DEF InitStep, UsageStep
    <3>2. CASE CompleteStep(u) \/ ServerFails(u) \/ ClientStep(u)
      BY <2>1, <3>2, CreateKeeps, EndsKeep, OpenKeeps, TimeKeeps DEF CompleteStep, ServerFails, ClientStep
    <3>3. CASE TouchStores(u) \/ TimeStep(u) \/ FileStep(u)
      BY <2>1, <3>3, TimeKeeps, FileKeeps DEF TimeStep
    <3>. QED BY <2>3, <3>1, <3>2, <3>3
  <2>. QED BY <1>2, <2>2, <2>3 DEF UploadNext
<1>. QED BY <1>1, <1>2

(* However many uploads, heartbeats, failures and reconcilers run side by    *)
(* side: the files and the uploads let in by a check stay within the quota,  *)
(* as long as the counter has not fallen behind the rows (ReserveUpload).    *)
THEOREM LetInWithinQuota == UploadSpec => []BytesFit
<1>1. UploadIInv => BytesFit
  BY DEF UploadIInv
<1>. QED BY <1>1, UploadInitIInv, UploadNextIInv, PTL DEF UploadSpec
=============================================================================
