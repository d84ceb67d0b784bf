--------------------------- MODULE ChatPathProofs ---------------------------
(* Theorems about what a chat turn of app-ts uses - the daily quota, the     *)
(* context of an agent, the agents' runs, the history of a session - for any *)
(* lanes, turns, askers and limits.                                          *)
EXTENDS MCChatPath, DataLemmas

-----------------------------------------------------------------------------
(* The daily quota.                                                          *)

(* A command that was given up and may still reach Redis is one its request  *)
(* could send: for a day that has come, its script's check where it has one. *)
LimboCommand == [counter : Counters, day : Days, delta : Nat, capped : BOOLEAN, id : Nat]

CommandFits(c) ==
  /\ c.id < giveUps /\ c.day <= today
  /\ c.counter = "chat" => c.delta = 1 /\ ~c.capped
  /\ c.counter = "cost" => c.delta = TurnCost /\ ~c.capped
  /\ c.counter \in {"ocr", "grade"} => c.delta = 1 /\ c.capped

LimboKnown ==
  /\ IsFiniteSet(limbo) /\ limbo \subseteq LimboCommand /\ Cardinality(limbo) <= giveUps
  /\ \A c \in limbo : CommandFits(c)
  /\ store = "memory" => limbo = {} /\ giveUps = 0

(* Where a request is tells what it is; its day has come.                    *)
LaneFits(l) ==
  /\ qday[l] <= today
  /\ qstep[l] \in {"gate", "images", "addImages", "charge", "chargeCost"} => qjob[l] = "chat"
  /\ qstep[l] = "peek" => qjob[l] = "ocr"
  /\ qstep[l] = "work" => qjob[l] \in {"chat", "ocr", "grade"}
  /\ qstep[l] = "consume" => qjob[l] \in {"ocr", "grade"} /\ left[l] >= 1

LanesKnown == \A l \in QLane : LaneFits(l)

DaysToComeAreEmpty == \A c \in Counters, d \in Days : d > today => spent[c][d] = 0

QuotaShape == QuotaTypeOK /\ LimboKnown /\ LanesKnown /\ DaysToComeAreEmpty

(* The initial state has the shape.                                          *)
LEMMA QuotaInitShape == QuotaInit => QuotaShape
<1> SUFFICES ASSUME QuotaInit PROVE QuotaShape
  OBVIOUS
<1>1. IsFiniteSet(limbo) /\ Cardinality(limbo) <= giveUps
  BY FS_EmptySet DEF QuotaInit
<1>2. images \in [QLane -> BOOLEAN] /\ qday \in [QLane -> Days] /\ left \in [QLane -> 0 .. Batch]
  BY QuotaAssumption DEF QuotaInit, Days
<1>3. spent \in [Counters -> [Days -> Nat]] /\ shown \in [Days -> Nat]
  BY QuotaAssumption DEF QuotaInit, Counters, Kinds
<1>4. QuotaTypeOK
  BY <1>2, <1>3, QuotaAssumption DEF QuotaInit, QuotaTypeOK, QSteps, Days
<1>. QED BY <1>1, <1>4, QuotaAssumption DEF QuotaInit, QuotaShape, LimboKnown, LanesKnown, LaneFits,
     DaysToComeAreEmpty, Counters, Kinds, Days

(* What a step of one request may do to the others' data.                    *)
OneLane(l) ==
  /\ today' = today /\ store' = store
  /\ qstep' \in [QLane -> QSteps] /\ qjob' \in [QLane -> Kinds \cup {"none"}]
  /\ images' \in [QLane -> BOOLEAN] /\ qday' \in [QLane -> Days]
  /\ left' \in [QLane -> 0 .. Batch]
  /\ \A m \in QLane \ {l} : /\ qstep'[m] = qstep[m] /\ qjob'[m] = qjob[m]
                            /\ qday'[m] = qday[m] /\ left'[m] = left[m]
  /\ LaneFits(l)'

(* A request begins: the others keep theirs, its lane fits its step.         *)
LEMMA BeginLane == ASSUME QuotaShape, NEW l \in QLane, BeginRequest(l) PROVE OneLane(l)
<1> PICK kind \in Kinds \ {"chat_images"}, img \in BOOLEAN :
      /\ qjob' = [qjob EXCEPT ![l] = kind]
      /\ images' = [images EXCEPT ![l] = img]
      /\ qstep' = [qstep EXCEPT ![l] = CASE kind = "chat" -> "gate"
                                         [] kind = "grade" -> "consume"
                                         [] OTHER -> "peek"]
      /\ left' = [left EXCEPT ![l] = IF kind = "grade" THEN 1 ELSE 0]
  BY DEF BeginRequest
<1>1. qday' = [qday EXCEPT ![l] = today] /\ today' = today /\ store' = store
  BY DEF BeginRequest, TakeNow
<1>2. qjob' \in [QLane -> Kinds \cup {"none"}] /\ qday' \in [QLane -> Days]
  BY <1>1 DEF QuotaShape, QuotaTypeOK
<1>3. images' \in [QLane -> BOOLEAN]
  BY DEF QuotaShape, QuotaTypeOK
<1>4. left' \in [QLane -> 0 .. Batch]
  BY QuotaAssumption DEF QuotaShape, QuotaTypeOK
<1>5. qstep'[l] = (CASE kind = "chat" -> "gate" [] kind = "grade" -> "consume" [] OTHER -> "peek")
  BY DEF QuotaShape, QuotaTypeOK
<1>6. qstep'[l] \in {"gate", "consume", "peek"} /\ qjob'[l] = kind
      /\ (qstep'[l] = "gate" => kind = "chat") /\ (qstep'[l] = "consume" => kind = "grade")
      /\ (qstep'[l] = "peek" => kind = "ocr")
  BY <1>5 DEF Kinds, QuotaShape, QuotaTypeOK
<1>7. qstep' \in [QLane -> QSteps]
  <2>1. \A m \in QLane : qstep'[m] \in QSteps
    BY <1>6 DEF QSteps, QuotaShape, QuotaTypeOK
  <2>. QED BY <2>1 DEF QuotaShape, QuotaTypeOK
<1>8. LaneFits(l)'
  BY <1>1, <1>6 DEF LaneFits, QuotaShape, QuotaTypeOK, Days
<1>. QED BY <1>1, <1>2, <1>3, <1>4, <1>7, <1>8 DEF OneLane, QuotaShape, QuotaTypeOK

(* The gate, with its own clock reading.                                     *)
LEMMA GateLane == ASSUME QuotaShape, NEW l \in QLane, Gate(l) PROVE OneLane(l)
<1>1. /\ today' = today /\ store' = store /\ left' = left
      /\ qday' = [qday EXCEPT ![l] = today] /\ images' = [images EXCEPT ![l] = FALSE]
  BY DEF Gate, TakeNow
<1>2. qjob[l] = "chat"
  BY DEF QuotaShape, LanesKnown, LaneFits, Gate
<1>3. PICK s \in {"idle", "images", "work"} : QGoto(l, s)
  BY DEF Gate
<1>4. /\ qstep' \in [QLane -> QSteps] /\ qjob' \in [QLane -> Kinds \cup {"none"}]
      /\ qstep'[l] = s /\ (s # "idle" => qjob'[l] = "chat")
      /\ \A m \in QLane \ {l} : qstep'[m] = qstep[m] /\ qjob'[m] = qjob[m]
  BY <1>2, <1>3 DEF QuotaShape, QuotaTypeOK, QGoto, QSteps
<1>5. today \in Days /\ today \in Int
  BY QuotaAssumption DEF QuotaShape, QuotaTypeOK, Days
<1>6. /\ images' \in [QLane -> BOOLEAN] /\ qday' \in [QLane -> Days] /\ left' \in [QLane -> 0 .. Batch]
      /\ qday'[l] = today /\ \A m \in QLane \ {l} : qday'[m] = qday[m]
  BY <1>1, <1>5 DEF QuotaShape, QuotaTypeOK
<1>7. qday'[l] <= today'
  BY <1>1, <1>5, <1>6
<1>8. LaneFits(l)'
  BY <1>3, <1>4, <1>7 DEF LaneFits
<1>. QED BY <1>1, <1>4, <1>6, <1>8 DEF OneLane

(* The check of the images.                                                  *)
LEMMA CheckImagesLane == ASSUME QuotaShape, NEW l \in QLane, CheckImages(l) PROVE OneLane(l)
BY QuotaAssumption DEF QuotaShape, QuotaTypeOK, LanesKnown, LaneFits, OneLane, CheckImages, QGoto, TakeNow, QSteps, Kinds, Days

(* The counting of the images.                                               *)
LEMMA AddImagesLane == ASSUME QuotaShape, NEW l \in QLane, AddImages(l) PROVE OneLane(l)
BY QuotaAssumption DEF QuotaShape, QuotaTypeOK, LanesKnown, LaneFits, OneLane, AddImages, QGoto, TakeNow, QSteps, Kinds, Days

(* The look at the OCR budget before work.                                   *)
LEMMA PeekLane == ASSUME QuotaShape, NEW l \in QLane, Peek(l) PROVE OneLane(l)
BY QuotaAssumption DEF QuotaShape, QuotaTypeOK, LanesKnown, LaneFits, OneLane, Peek, QGoto, TakeNow, QSteps, Kinds, Days

(* The work itself.                                                          *)
LEMMA WorkLane == ASSUME QuotaShape, NEW l \in QLane, Work(l) PROVE OneLane(l)
BY QuotaAssumption DEF QuotaShape, QuotaTypeOK, LanesKnown, LaneFits, OneLane, Work, QGoto, TakeNow, QSteps, Kinds, Days

(* The two charges after a turn.                                             *)
LEMMA ChargeLane == ASSUME QuotaShape, NEW l \in QLane, ChargeTurn(l) \/ ChargeCost(l) PROVE OneLane(l)
BY QuotaAssumption DEF QuotaShape, QuotaTypeOK, LanesKnown, LaneFits, OneLane, ChargeTurn, ChargeCost, QGoto, TakeNow, QSteps, Kinds, Days

(* One unit consumed, and where the request goes with what is left.          *)
LEMMA ConsumeLane == ASSUME QuotaShape, NEW l \in QLane, ConsumeUnit(l) PROVE OneLane(l)
<1>0. left[l] \in 1 .. Batch
  BY QuotaAssumption DEF QuotaShape, QuotaTypeOK, LanesKnown, LaneFits, ConsumeUnit
<1>a. \/ left' = [left EXCEPT ![l] = @ - 1] /\ (qstep'[l] = "consume" => left[l] > 1)
      \/ left' = [left EXCEPT ![l] = 0] /\ qstep'[l] # "consume"
  BY DEF QuotaShape, QuotaTypeOK, ConsumeUnit, AfterConsume, QGoto
<1>1. left' \in [QLane -> 0 .. Batch] /\ (\A m \in QLane \ {l} : left'[m] = left[m])
      /\ (qstep'[l] = "consume" => left'[l] >= 1)
  BY <1>0, <1>a, QuotaAssumption DEF QuotaShape, QuotaTypeOK
<1>2. qjob[l] \in {"ocr", "grade"} /\ qday[l] <= today
  BY DEF QuotaShape, LanesKnown, LaneFits, ConsumeUnit
<1>3. \E s \in {"consume", "work", "idle"} : QGoto(l, s)
  BY DEF ConsumeUnit, AfterConsume
<1>4. qstep' \in [QLane -> QSteps] /\ qjob' \in [QLane -> Kinds \cup {"none"}]
      /\ qstep'[l] \in {"consume", "work", "idle"}
      /\ (qstep'[l] # "idle" => qjob'[l] = qjob[l])
      /\ \A m \in QLane \ {l} : qstep'[m] = qstep[m] /\ qjob'[m] = qjob[m]
  BY <1>3 DEF QuotaShape, QuotaTypeOK, QGoto, QSteps
<1>5. UNCHANGED <<today, store, images, qday>>
  BY DEF ConsumeUnit
<1>6. LaneFits(l)'
  BY <1>1, <1>2, <1>4, <1>5 DEF LaneFits, QuotaShape, QuotaTypeOK, Days
<1>. QED BY <1>1, <1>4, <1>5, <1>6 DEF OneLane, QuotaShape, QuotaTypeOK

(* What a step of a request does to the counters: nothing, perhaps because a *)
(* read was given up; one command executed; or one command given up.         *)
Keeps ==
  /\ UNCHANGED <<spent, limbo>>
  /\ giveUps' \in giveUps .. MaxGiveUps
  /\ store = "memory" => giveUps' = giveUps
Takes(c, d, n) == Spend(c, d, n) /\ UNCHANGED <<limbo, giveUps>>
Drops(c) ==
  /\ store = "redis" /\ giveUps < MaxGiveUps /\ giveUps' = giveUps + 1
  /\ limbo' = limbo \cup {c}
  /\ UNCHANGED spent

(* The command of a request that is about to send one.                       *)
LEMMA CommandOf ==
  ASSUME QuotaShape, NEW l \in QLane, qstep[l] \in {"addImages", "charge", "chargeCost", "consume"}
  PROVE  /\ Command(l) \in LimboCommand
         /\ Command(l).id = giveUps /\ Command(l).day = qday[l]
         /\ qstep[l] = "addImages" => Command(l).counter = "chat_images"
         /\ qstep[l] = "charge" =>
              Command(l).counter = "chat" /\ Command(l).delta = 1 /\ ~Command(l).capped
         /\ qstep[l] = "chargeCost" =>
              Command(l).counter = "cost" /\ Command(l).delta = TurnCost /\ ~Command(l).capped
         /\ qstep[l] = "consume" =>
              Command(l).counter = qjob[l] /\ Command(l).delta = 1 /\ Command(l).capped
<1> DEFINE counter == CASE qstep[l] = "addImages" -> "chat_images"
                        [] qstep[l] = "charge" -> "chat"
                        [] qstep[l] = "chargeCost" -> "cost"
                        [] OTHER -> qjob[l]
           delta == CASE qstep[l] = "addImages" -> Batch
                      [] qstep[l] = "chargeCost" -> TurnCost
                      [] OTHER -> 1
<1>1. Command(l) = [counter |-> counter, day |-> qday[l], delta |-> delta,
                    capped |-> qstep[l] = "consume", id |-> giveUps]
  BY DEF Command
<1>2. counter \in Counters /\ delta \in Nat /\ qday[l] \in Days /\ giveUps \in Nat
  BY QuotaAssumption DEF QuotaShape, QuotaTypeOK, LanesKnown, LaneFits, Counters, Kinds
<1>3. /\ qstep[l] = "addImages" => counter = "chat_images"
      /\ qstep[l] = "charge" => counter = "chat" /\ delta = 1
      /\ qstep[l] = "chargeCost" => counter = "cost" /\ delta = TurnCost
      /\ qstep[l] = "consume" => counter = qjob[l] /\ delta = 1
  OBVIOUS
<1> HIDE DEF counter, delta
<1>4. Command(l).counter = counter /\ Command(l).day = qday[l] /\ Command(l).delta = delta
      /\ Command(l).id = giveUps
  BY <1>1
<1>5. Command(l).capped = (qstep[l] = "consume")
  BY <1>1
<1>6. Command(l) \in LimboCommand
  <2>1. PICK cap \in BOOLEAN : cap = (qstep[l] = "consume")
    BY Zenon
  <2>2. Command(l) = [counter |-> counter, day |-> qday[l], delta |-> delta,
                      capped |-> cap, id |-> giveUps]
    BY <1>1, <2>1, Zenon
  <2>. QED BY <1>2, <2>2 DEF LimboCommand
<1>7. /\ qstep[l] = "charge" \/ qstep[l] = "chargeCost" => ~Command(l).capped
      /\ qstep[l] = "consume" => Command(l).capped
  BY <1>5
<1>. QED BY <1>3, <1>4, <1>6, <1>7

(* A step of a request with one of the four effects keeps the shape.         *)
LEMMA ShapeAfter ==
  ASSUME QuotaShape, NEW l \in QLane, OneLane(l), shown' \in [Days -> Nat],
         requests' \in 0 .. MaxRequests, wins' \in Nat, dropped' \in Nat,
         \/ Keeps
         \/ \E c \in Counters, d \in Days, n \in Nat : d <= today /\ Takes(c, d, n)
         \/ /\ qstep[l] \in {"addImages", "charge", "chargeCost", "consume"}
            /\ Drops(Command(l))
  PROVE  QuotaShape'
<1>1. LanesKnown'
  BY DEF QuotaShape, LanesKnown, LaneFits, OneLane
<1>2. giveUps \in 0 .. MaxGiveUps /\ giveUps' \in 0 .. MaxGiveUps /\ giveUps' >= giveUps
  BY QuotaAssumption DEF QuotaShape, QuotaTypeOK, Keeps, Takes, Drops
<1>3. spent' \in [Counters -> [Days -> Nat]] /\ DaysToComeAreEmpty'
  <2>1. CASE spent' = spent
    BY <2>1 DEF QuotaShape, QuotaTypeOK, DaysToComeAreEmpty, OneLane
  <2>2. ASSUME NEW c \in Counters, NEW d \in Days, NEW n \in Nat, d <= today, Spend(c, d, n)
        PROVE  spent' \in [Counters -> [Days -> Nat]] /\ DaysToComeAreEmpty'
    <3>1. spent' = [spent EXCEPT ![c][d] = @ + n] /\ spent[c][d] + n \in Nat
      BY <2>2 DEF Spend, QuotaShape, QuotaTypeOK
    <3>2. \A e \in Counters, x \in Days :
            spent'[e][x] = IF e = c /\ x = d THEN spent[c][d] + n ELSE spent[e][x]
      BY <3>1 DEF QuotaShape, QuotaTypeOK
    <3>3. spent' \in [Counters -> [Days -> Nat]]
      BY <3>1 DEF QuotaShape, QuotaTypeOK
    <3>4. DaysToComeAreEmpty'
      <4> SUFFICES ASSUME NEW e \in Counters, NEW x \in Days, x > today' PROVE spent'[e][x] = 0
        BY DEF DaysToComeAreEmpty
      <4>1. today' = today /\ today \in Int /\ d \in Int /\ x \in Int
        BY DEF OneLane, QuotaShape, QuotaTypeOK, Days
      <4>2. x # d
        BY <2>2, <4>1
      <4>3. spent[e][x] = 0
        BY <4>1 DEF QuotaShape, DaysToComeAreEmpty
      <4>. QED BY <3>2, <4>2, <4>3
    <3>. QED BY <3>3, <3>4
  <2>3. ASSUME NEW c \in Counters, NEW d \in Days, NEW n \in Nat, d <= today, Takes(c, d, n)
        PROVE  Spend(c, d, n)
    BY <2>3 DEF Takes
  <2>4. Keeps \/ Drops(Command(l)) => spent' = spent
    BY DEF Keeps, Drops
  <2>. QED BY <2>1, <2>2, <2>3, <2>4
<1>4. QuotaTypeOK'
  BY <1>2, <1>3 DEF QuotaShape, QuotaTypeOK, OneLane
<1>5. LimboKnown'
  <2>1. CASE UNCHANGED limbo /\ (store = "memory" => giveUps' = giveUps)
    BY <2>1, <1>2, FS_CardinalityType DEF QuotaShape, LimboKnown, LimboCommand, CommandFits, OneLane
  <2>2. CASE qstep[l] \in {"addImages", "charge", "chargeCost", "consume"} /\ Drops(Command(l))
    <3> DEFINE c == Command(l)
    <3>1. c \in LimboCommand /\ c.id = giveUps /\ c.day <= today
          /\ (c.counter = "chat" => c.delta = 1 /\ ~c.capped)
          /\ (c.counter = "cost" => c.delta = TurnCost /\ ~c.capped)
          /\ (c.counter \in {"ocr", "grade"} => c.delta = 1 /\ c.capped)
      BY <2>2, CommandOf DEF QuotaShape, LanesKnown, LaneFits
    <3> HIDE DEF c
    <3>2. limbo' = limbo \cup {c} /\ giveUps' = giveUps + 1 /\ store = "redis"
      BY <2>2 DEF Drops, c
    <3>3. IsFiniteSet(limbo') /\ Cardinality(limbo') <= giveUps'
      <4>1. IsFiniteSet(limbo) /\ Cardinality(limbo) <= giveUps /\ Cardinality(limbo) \in Nat
        BY FS_CardinalityType DEF QuotaShape, LimboKnown
      <4>2. /\ IsFiniteSet(limbo \cup {c})
            /\ Cardinality(limbo \cup {c}) \in {Cardinality(limbo), Cardinality(limbo) + 1}
        BY <4>1, FS_AddElement
      <4>. QED BY <4>1, <4>2, <3>2, <1>2
    <3>4. \A e \in limbo' : CommandFits(e)'
      BY <3>1, <3>2, <1>2 DEF QuotaShape, LimboKnown, CommandFits, LimboCommand, OneLane
    <3>. QED BY <3>1, <3>2, <3>3, <3>4 DEF QuotaShape, LimboKnown, OneLane
  <2>. QED BY <2>1, <2>2 DEF Keeps, Takes
<1>. QED BY <1>1, <1>3, <1>4, <1>5 DEF QuotaShape

(* The step of each request, in these terms.                                 *)
LEMMA BeginEffect == ASSUME QuotaShape, NEW l \in QLane, BeginRequest(l)
                     PROVE Keeps /\ UNCHANGED <<shown, wins, dropped>> /\ requests' \in 0 .. MaxRequests
BY QuotaAssumption DEF BeginRequest, Keeps, QuotaShape, QuotaTypeOK

(* The gate reads.                                                           *)
LEMMA GateEffect == ASSUME QuotaShape, NEW l \in QLane, Gate(l)
                    PROVE Keeps /\ UNCHANGED <<shown, wins, dropped, requests>>
<1>1. \E silent \in 0 .. 2 : /\ silent > 0 => store = "redis" /\ giveUps + silent <= MaxGiveUps
                             /\ giveUps' = giveUps + silent
  BY DEF Gate
<1>. QED BY <1>1, QuotaAssumption DEF Gate, Keeps, QuotaShape, QuotaTypeOK

(* So does the check of the images; it may show them.                        *)
LEMMA CheckImagesEffect == ASSUME QuotaShape, NEW l \in QLane, CheckImages(l)
                           PROVE Keeps /\ UNCHANGED <<wins, dropped, requests>> /\ shown' \in [Days -> Nat]
<1>1. shown' = shown \/ Show(l)
  BY DEF CheckImages
<1>2. shown' \in [Days -> Nat]
  BY <1>1, QuotaAssumption DEF Show, QuotaShape, QuotaTypeOK
<1>. QED BY <1>2, QuotaAssumption DEF CheckImages, CanGiveUp, GaveUp, Keeps, QuotaShape, QuotaTypeOK

(* So does the look at the OCR budget.                                       *)
LEMMA PeekEffect == ASSUME QuotaShape, NEW l \in QLane, Peek(l)
                    PROVE Keeps /\ UNCHANGED <<shown, wins, dropped, requests>>
BY QuotaAssumption DEF Peek, CanGiveUp, GaveUp, Keeps, QuotaShape, QuotaTypeOK

(* The work counts the turn's success.                                       *)
LEMMA WorkEffect == ASSUME QuotaShape, NEW l \in QLane, Work(l)
                    PROVE Keeps /\ UNCHANGED <<shown, dropped, requests>> /\ wins' \in Nat
<1>1. wins' \in {wins, wins + 1}
  BY DEF Work
<1>. QED BY <1>1, QuotaAssumption DEF Work, Keeps, QuotaShape, QuotaTypeOK

(* A charge executes, or is given up.                                        *)
LEMMA AddEffect ==
  ASSUME QuotaShape, NEW l \in QLane, Add(l), qstep[l] \in {"addImages", "charge", "chargeCost"}
  PROVE  \/ Takes(Command(l).counter, qday[l], Command(l).delta)
         \/ Drops(Command(l))
BY CommandOf DEF Add, Takes, Drops, CanGiveUp, GaveUp

(* A unit is refused, consumed below the limit, or given up.                 *)
LEMMA ConsumeEffect ==
  ASSUME QuotaShape, NEW l \in QLane, ConsumeUnit(l)
  PROVE  /\ \/ Keeps
            \/ Takes(qjob[l], qday[l], 1) /\ spent[qjob[l]][qday[l]] < Limit[qjob[l]]
            \/ Drops(Command(l))
         /\ UNCHANGED <<shown, wins, dropped, requests>>
BY QuotaAssumption DEF ConsumeUnit, Keeps, Takes, Drops, CanGiveUp, GaveUp, QuotaShape, QuotaTypeOK

(* Every step of a request keeps the shape.                                  *)
LEMMA QuotaStepShape ==
  ASSUME QuotaShape, NEW l \in QLane, BeginRequest(l) \/ QuotaStep(l)
  PROVE  QuotaShape'
<1>0. shown \in [Days -> Nat] /\ requests \in 0 .. MaxRequests /\ wins \in Nat /\ dropped \in Nat
  BY DEF QuotaShape, QuotaTypeOK
<1>1. CASE BeginRequest(l)
  BY <1>0, <1>1, BeginLane, BeginEffect, ShapeAfter
<1>2. CASE Gate(l)
  BY <1>0, <1>2, GateLane, GateEffect, ShapeAfter
<1>3. CASE CheckImages(l)
  BY <1>0, <1>3, CheckImagesLane, CheckImagesEffect, ShapeAfter
<1>4. CASE Peek(l)
  BY <1>0, <1>4, PeekLane, PeekEffect, ShapeAfter
<1>5. CASE Work(l)
  BY <1>0, <1>5, WorkLane, WorkEffect, ShapeAfter
<1>6. CASE AddImages(l) \/ ChargeTurn(l) \/ ChargeCost(l)
  <2>1. /\ qstep[l] \in {"addImages", "charge", "chargeCost"} /\ Add(l)
        /\ UNCHANGED <<wins, dropped, requests>> /\ (shown' = shown \/ Show(l))
    BY <1>6 DEF AddImages, ChargeTurn, ChargeCost
  <2>2. OneLane(l)
    BY <1>6, AddImagesLane, ChargeLane
  <2>3. shown' \in [Days -> Nat]
    BY <1>0, <2>1, QuotaAssumption DEF Show, QuotaShape, QuotaTypeOK
  <2>4. Command(l) \in LimboCommand
    BY <2>1, CommandOf
  <2>5. Command(l).counter \in Counters /\ Command(l).delta \in Nat
        /\ qday[l] \in Days /\ qday[l] <= today
    BY <2>4 DEF LimboCommand, QuotaShape, QuotaTypeOK, LanesKnown, LaneFits
  <2>6. \/ Takes(Command(l).counter, qday[l], Command(l).delta)
        \/ Drops(Command(l))
    BY <2>1, AddEffect
  <2>. QED BY <1>0, <2>1, <2>2, <2>3, <2>5, <2>6, ShapeAfter
<1>7. CASE ConsumeUnit(l)
  <2>1. qjob[l] \in Counters /\ qday[l] \in Days /\ qday[l] <= today /\ qstep[l] = "consume" /\ 1 \in Nat
    BY <1>7 DEF ConsumeUnit, QuotaShape, QuotaTypeOK, LanesKnown, LaneFits, Counters, Kinds
  <2>. QED BY <1>0, <1>7, <2>1, ConsumeLane, ConsumeEffect, ShapeAfter
<1>. QED BY <1>1, <1>2, <1>3, <1>4, <1>5, <1>6, <1>7 DEF QuotaStep

(* So does a command that lands late, or never.                              *)
LEMMA LateShape == ASSUME QuotaShape, LandsLate \/ Lost PROVE QuotaShape'
<1>1. PICK c \in limbo : /\ limbo' = limbo \ {c}
                         /\ \/ Spend(c.counter, c.day, c.delta) \/ UNCHANGED spent
                         /\ dropped' \in {dropped, dropped + 1}
  BY DEF LandsLate, Lost
<1>2. UNCHANGED <<store, shown, today, qstep, qjob, images, qday, left, requests, giveUps, wins>>
  BY DEF LandsLate, Lost
<1>3. c.counter \in Counters /\ c.day \in Days /\ c.delta \in Nat /\ c.day <= today
  BY DEF QuotaShape, LimboKnown, LimboCommand, CommandFits
<1>4. spent' \in [Counters -> [Days -> Nat]] /\ DaysToComeAreEmpty'
  <2>1. CASE spent' = spent
    BY <2>1, <1>2 DEF QuotaShape, QuotaTypeOK, DaysToComeAreEmpty
  <2>2. CASE Spend(c.counter, c.day, c.delta)
    <3>1. PICK e \in Counters, d \in Days, n \in Nat : e = c.counter /\ d = c.day /\ n = c.delta
      BY <1>3
    <3>2. spent' = [spent EXCEPT ![e][d] = @ + n] /\ spent[e][d] + n \in Nat /\ d <= today
      BY <2>2, <3>1, <1>3 DEF Spend, QuotaShape, QuotaTypeOK
    <3>3. \A f \in Counters, x \in Days :
            spent'[f][x] = IF f = e /\ x = d THEN spent[e][d] + n ELSE spent[f][x]
      BY <3>2 DEF QuotaShape, QuotaTypeOK
    <3>4. spent' \in [Counters -> [Days -> Nat]]
      BY <3>2 DEF QuotaShape, QuotaTypeOK
    <3>. QED BY <1>2, <3>2, <3>3, <3>4 DEF QuotaShape, QuotaTypeOK, DaysToComeAreEmpty, Days
  <2>. QED BY <1>1, <2>1, <2>2
<1>5. LimboKnown'
  <2>1. IsFiniteSet(limbo') /\ Cardinality(limbo') <= giveUps'
    <3>1. IsFiniteSet(limbo) /\ Cardinality(limbo) <= giveUps /\ Cardinality(limbo) \in Nat
          /\ giveUps \in Int
      BY QuotaAssumption, FS_CardinalityType DEF QuotaShape, QuotaTypeOK, LimboKnown
    <3>2. /\ IsFiniteSet(limbo \ {c})
          /\ Cardinality(limbo \ {c}) = Cardinality(limbo) - 1
      BY <3>1, FS_RemoveElement
    <3>. QED BY <3>1, <3>2, <1>1, <1>2
  <2>. QED BY <1>1, <1>2, <2>1 DEF QuotaShape, LimboKnown, CommandFits
<1>6. LanesKnown'
  BY <1>2 DEF QuotaShape, LanesKnown, LaneFits
<1>7. QuotaTypeOK'
  BY <1>1, <1>2, <1>4 DEF QuotaShape, QuotaTypeOK
<1>. QED BY <1>4, <1>5, <1>6, <1>7 DEF QuotaShape

(* So does the end of the day.                                               *)
LEMMA MidnightShape == ASSUME QuotaShape, Midnight PROVE QuotaShape'
<1>1. today' = today + 1 /\ today < MaxDay /\ today \in Days
  BY DEF Midnight, QuotaShape, QuotaTypeOK
<1>2. today' \in Days
  BY <1>1, QuotaAssumption DEF Days
<1>3. QuotaTypeOK'
  BY <1>2 DEF Midnight, QuotaShape, QuotaTypeOK
<1>4. LimboKnown'
  BY <1>1 DEF Midnight, QuotaShape, LimboKnown, LimboCommand, CommandFits, Days
<1>5. LanesKnown' /\ DaysToComeAreEmpty'
  BY <1>1 DEF Midnight, QuotaShape, QuotaTypeOK, LanesKnown, LaneFits, DaysToComeAreEmpty, Days
<1>. QED BY <1>3, <1>4, <1>5 DEF QuotaShape

(* The shape is inductive.                                                   *)
LEMMA QuotaNextShape == QuotaShape /\ [QuotaNext]_quotaVars => QuotaShape'
<1> SUFFICES ASSUME QuotaShape, [QuotaNext]_quotaVars PROVE QuotaShape'
  OBVIOUS
<1>1. CASE UNCHANGED quotaVars
  BY <1>1 DEF quotaVars, QuotaShape, QuotaTypeOK, LimboKnown, CommandFits, LanesKnown, LaneFits,
     DaysToComeAreEmpty
<1>. QED BY <1>1, QuotaStepShape, LateShape, MidnightShape DEF QuotaNext

-----------------------------------------------------------------------------
(* Who may still be charged for a day.                                       *)

(* The turns past the gate, or before it with the `now` of an earlier day.   *)
TurnsOf(d) ==
  {l \in QLane : \/ qstep[l] \in {"images", "addImages", "work"} /\ qjob[l] = "chat" /\ today <= d
                 \/ qstep[l] = "charge" /\ qday[l] = d
                 \/ qstep[l] = "gate" /\ qday[l] < d}
PayingOn(d) == {l \in QLane : qstep[l] = "chargeCost" /\ qday[l] = d}
AddingOn(d) == {l \in QLane : qstep[l] = "addImages" /\ qday[l] = d}
Charging == {l \in QLane : qstep[l] = "charge"}
LimboOf(c, d) == {e \in limbo : e.counter = c /\ e.day = d}
LimboTurns == {c \in limbo : c.counter = "chat"}

(* A set of requests is finite and has at most one more than the others.     *)
LEMMA LanesCounted ==
  ASSUME NEW A \in SUBSET QLane
  PROVE  IsFiniteSet(A) /\ Cardinality(A) \in 0 .. (Others + 1) /\ Others \in Nat
<1>1. IsFiniteSet(QLane) /\ QLane # {}
  BY QuotaAssumption
<1>2. IsFiniteSet(A) /\ Cardinality(A) <= Cardinality(QLane)
  BY <1>1, FS_Subset
<1>3. Cardinality(QLane) \in Nat \ {0} /\ Cardinality(A) \in Nat
  BY <1>1, <1>2, FS_CardinalityType, FS_EmptySet
<1>. QED BY <1>2, <1>3 DEF Others

(* Two sets that differ in one request at most differ by one in size.        *)
LEMMA LanesMove ==
  ASSUME NEW A \in SUBSET QLane, NEW B \in SUBSET QLane, NEW l \in QLane, A \ {l} = B \ {l}
  PROVE  /\ l \in A /\ l \notin B => Cardinality(B) = Cardinality(A) - 1
         /\ l \notin A /\ l \in B => Cardinality(B) = Cardinality(A) + 1
         /\ (l \in A <=> l \in B) => B = A
<1>1. IsFiniteSet(A) /\ IsFiniteSet(B) /\ Cardinality(A) \in Nat /\ Cardinality(B) \in Nat
  BY LanesCounted
<1>2. l \in A /\ l \notin B => B = A \ {l}
  OBVIOUS
<1>3. l \notin A /\ l \in B => B = A \cup {l}
  OBVIOUS
<1>4. l \in A => Cardinality(A \ {l}) = Cardinality(A) - 1
  BY <1>1, FS_RemoveElement
<1>5. l \notin A => Cardinality(A \cup {l}) = Cardinality(A) + 1
  BY <1>1, FS_AddElement
<1>6. (l \in A <=> l \in B) => B = A
  OBVIOUS
<1>. QED BY <1>2, <1>3, <1>4, <1>5, <1>6

(* At most as many commands are in limbo as were given up.                   *)
LEMMA LimboCounted ==
  ASSUME QuotaShape, NEW A \in SUBSET limbo
  PROVE  IsFiniteSet(A) /\ Cardinality(A) \in 0 .. giveUps
<1>1. IsFiniteSet(limbo) /\ Cardinality(limbo) <= giveUps /\ giveUps \in Nat
  BY QuotaAssumption DEF QuotaShape, QuotaTypeOK, LimboKnown
<1>2. IsFiniteSet(A) /\ Cardinality(A) <= Cardinality(limbo)
  BY <1>1, FS_Subset
<1>3. Cardinality(limbo) \in Nat /\ Cardinality(A) \in Nat
  BY <1>1, <1>2, FS_CardinalityType
<1>. QED BY <1>1, <1>2, <1>3

(* The other requests stay where they are in these sets.                     *)
LEMMA SetsMove ==
  ASSUME QuotaShape, NEW l \in QLane, OneLane(l), NEW d
  PROVE  /\ TurnsOf(d) \in SUBSET QLane /\ TurnsOf(d)' \in SUBSET QLane
         /\ PayingOn(d) \in SUBSET QLane /\ PayingOn(d)' \in SUBSET QLane
         /\ AddingOn(d) \in SUBSET QLane /\ AddingOn(d)' \in SUBSET QLane
         /\ Charging \in SUBSET QLane /\ Charging' \in SUBSET QLane
         /\ TurnsOf(d) \ {l} = TurnsOf(d)' \ {l}
         /\ PayingOn(d) \ {l} = PayingOn(d)' \ {l}
         /\ AddingOn(d) \ {l} = AddingOn(d)' \ {l}
         /\ Charging \ {l} = Charging' \ {l}
BY DEF OneLane, TurnsOf, PayingOn, AddingOn, Charging

(* One command given up is one more in limbo of its counter and day.         *)
LEMMA DropsCount ==
  ASSUME QuotaShape, NEW l \in QLane, qstep[l] \in {"addImages", "charge", "chargeCost", "consume"},
         Drops(Command(l)), NEW c, NEW d
  PROVE  /\ Cardinality(LimboOf(c, d)') = Cardinality(LimboOf(c, d))
              + (IF Command(l).counter = c /\ Command(l).day = d THEN 1 ELSE 0)
         /\ Cardinality(LimboTurns') = Cardinality(LimboTurns)
              + (IF Command(l).counter = "chat" THEN 1 ELSE 0)
<1>1. Command(l) \notin limbo
  BY CommandOf DEF QuotaShape, QuotaTypeOK, LimboKnown, CommandFits, LimboCommand
<1>2. LimboOf(c, d) \in SUBSET limbo /\ LimboTurns \in SUBSET limbo
  BY DEF LimboOf, LimboTurns
<1>3. /\ LimboOf(c, d)' = IF Command(l).counter = c /\ Command(l).day = d
                          THEN LimboOf(c, d) \cup {Command(l)} ELSE LimboOf(c, d)
      /\ LimboTurns' = IF Command(l).counter = "chat" THEN LimboTurns \cup {Command(l)} ELSE LimboTurns
  <2> DEFINE e == Command(l)
  <2>1. limbo' = limbo \cup {e}
    BY DEF Drops
  <2> HIDE DEF e
  <2>2. /\ LimboOf(c, d)' = IF e.counter = c /\ e.day = d THEN LimboOf(c, d) \cup {e} ELSE LimboOf(c, d)
        /\ LimboTurns' = IF e.counter = "chat" THEN LimboTurns \cup {e} ELSE LimboTurns
    BY <2>1 DEF LimboOf, LimboTurns
  <2>. QED BY <2>2 DEF e
<1>4. /\ IsFiniteSet(LimboOf(c, d)) /\ Cardinality(LimboOf(c, d)) \in Nat
      /\ IsFiniteSet(LimboTurns) /\ Cardinality(LimboTurns) \in Nat
  BY <1>2, LimboCounted, FS_CardinalityType
<1>5. Command(l) \notin LimboOf(c, d) /\ Command(l) \notin LimboTurns
  BY <1>1, <1>2
<1>6. /\ Cardinality(LimboOf(c, d) \cup {Command(l)}) = Cardinality(LimboOf(c, d)) + 1
      /\ Cardinality(LimboTurns \cup {Command(l)}) = Cardinality(LimboTurns) + 1
  BY <1>4, <1>5, FS_AddElement
<1>. QED BY <1>3, <1>4, <1>6

(* One command out of limbo is one less for its counter and day.             *)
LEMMA LimboShrinks ==
  ASSUME QuotaShape, NEW e \in limbo, limbo' = limbo \ {e}, NEW c, NEW d
  PROVE  /\ Cardinality(LimboOf(c, d)') = Cardinality(LimboOf(c, d))
              - (IF e.counter = c /\ e.day = d THEN 1 ELSE 0)
         /\ Cardinality(LimboTurns') = Cardinality(LimboTurns)
              - (IF e.counter = "chat" THEN 1 ELSE 0)
<1>1. LimboOf(c, d) \in SUBSET limbo /\ LimboTurns \in SUBSET limbo
  BY DEF LimboOf, LimboTurns
<1>2. /\ LimboOf(c, d)' = IF e.counter = c /\ e.day = d THEN LimboOf(c, d) \ {e} ELSE LimboOf(c, d)
      /\ LimboTurns' = IF e.counter = "chat" THEN LimboTurns \ {e} ELSE LimboTurns
  BY DEF LimboOf, LimboTurns
<1>3. /\ IsFiniteSet(LimboOf(c, d)) /\ Cardinality(LimboOf(c, d)) \in Nat
      /\ IsFiniteSet(LimboTurns) /\ Cardinality(LimboTurns) \in Nat
  BY <1>1, LimboCounted, FS_CardinalityType
<1>4. /\ e.counter = c /\ e.day = d => e \in LimboOf(c, d)
      /\ e.counter = "chat" => e \in LimboTurns
  BY DEF LimboOf, LimboTurns
<1>5. /\ e.counter = c /\ e.day = d =>
            Cardinality(LimboOf(c, d) \ {e}) = Cardinality(LimboOf(c, d)) - 1
      /\ e.counter = "chat" => Cardinality(LimboTurns \ {e}) = Cardinality(LimboTurns) - 1
  BY <1>3, <1>4, FS_RemoveElement
<1>. QED BY <1>2, <1>3, <1>5

(* A counter moves on one day only.                                          *)
LEMMA SpendAt ==
  ASSUME QuotaShape, NEW c \in Counters, NEW d \in Days, NEW n \in Nat, Spend(c, d, n)
  PROVE  \A e \in Counters, x \in Days :
           spent'[e][x] = IF e = c /\ x = d THEN spent[c][d] + n ELSE spent[e][x]
BY DEF Spend, QuotaShape, QuotaTypeOK

(* As long as limbo is unchanged, so are its parts.                          *)
LEMMA LimboSame ==
  ASSUME limbo' = limbo, NEW c, NEW d
  PROVE  LimboOf(c, d)' = LimboOf(c, d) /\ LimboTurns' = LimboTurns
BY DEF LimboOf, LimboTurns

(* The numbers of a day.                                                     *)
LEMMA DayNumbers ==
  ASSUME QuotaShape, NEW d \in Days
  PROVE  /\ \A c \in Counters : spent[c][d] \in Nat /\ Cardinality(LimboOf(c, d)) \in 0 .. giveUps
         /\ Cardinality(TurnsOf(d)) \in 0 .. (Others + 1)
         /\ Cardinality(PayingOn(d)) \in 0 .. (Others + 1)
         /\ Cardinality(AddingOn(d)) \in 0 .. (Others + 1)
         /\ Others \in Nat /\ giveUps \in Nat
<1>1. \A c \in Counters : LimboOf(c, d) \in SUBSET limbo
  BY DEF LimboOf
<1>2. TurnsOf(d) \in SUBSET QLane /\ PayingOn(d) \in SUBSET QLane /\ AddingOn(d) \in SUBSET QLane
  BY DEF TurnsOf, PayingOn, AddingOn
<1>3. giveUps \in Nat
  BY QuotaAssumption DEF QuotaShape, QuotaTypeOK
<1>4. \A c \in Counters : spent[c][d] \in Nat
  BY DEF QuotaShape, QuotaTypeOK
<1>5. \A c \in Counters : Cardinality(LimboOf(c, d)) \in 0 .. giveUps
  BY <1>1, LimboCounted
<1>. QED BY <1>2, <1>3, <1>4, <1>5, LanesCounted

(* A counter and its commands in limbo, by the effect of a request's step.   *)
LEMMA CounterMoves ==
  ASSUME QuotaShape, NEW l \in QLane, NEW c \in Counters, NEW d \in Days
  PROVE  /\ Keeps => /\ spent'[c][d] = spent[c][d]
                     /\ LimboOf(c, d)' = LimboOf(c, d) /\ LimboTurns' = LimboTurns
                     /\ giveUps' >= giveUps
         /\ \A e \in Counters, x \in Days, k \in Nat : Takes(e, x, k) =>
              /\ spent'[c][d] = spent[c][d] + (IF e = c /\ x = d THEN k ELSE 0)
              /\ LimboOf(c, d)' = LimboOf(c, d) /\ LimboTurns' = LimboTurns
              /\ giveUps' = giveUps
         /\ qstep[l] \in {"addImages", "charge", "chargeCost", "consume"} /\ Drops(Command(l)) =>
              /\ spent'[c][d] = spent[c][d]
              /\ Cardinality(LimboOf(c, d)') = Cardinality(LimboOf(c, d))
                   + (IF Command(l).counter = c /\ Command(l).day = d THEN 1 ELSE 0)
              /\ giveUps' = giveUps + 1
<1>0. spent[c][d] \in Nat /\ giveUps \in Nat
  BY QuotaAssumption DEF QuotaShape, QuotaTypeOK
<1>1. ASSUME Keeps
      PROVE  /\ spent'[c][d] = spent[c][d] /\ giveUps' >= giveUps
             /\ LimboOf(c, d)' = LimboOf(c, d) /\ LimboTurns' = LimboTurns
  BY <1>0, <1>1, LimboSame DEF Keeps
<1>2. ASSUME NEW e \in Counters, NEW x \in Days, NEW k \in Nat, Takes(e, x, k)
      PROVE  /\ spent'[c][d] = spent[c][d] + (IF e = c /\ x = d THEN k ELSE 0)
             /\ LimboOf(c, d)' = LimboOf(c, d) /\ LimboTurns' = LimboTurns /\ giveUps' = giveUps
  <2>1. Spend(e, x, k) /\ limbo' = limbo /\ giveUps' = giveUps
    BY <1>2 DEF Takes
  <2>2. spent'[c][d] = IF c = e /\ d = x THEN spent[e][x] + k ELSE spent[c][d]
    BY <2>1, SpendAt
  <2>3. LimboOf(c, d)' = LimboOf(c, d) /\ LimboTurns' = LimboTurns
    BY <2>1, LimboSame
  <2>. QED BY <1>0, <2>1, <2>2, <2>3
<1>3. ASSUME qstep[l] \in {"addImages", "charge", "chargeCost", "consume"}, Drops(Command(l))
      PROVE  /\ spent'[c][d] = spent[c][d] /\ giveUps' = giveUps + 1
             /\ Cardinality(LimboOf(c, d)') = Cardinality(LimboOf(c, d))
                  + (IF Command(l).counter = c /\ Command(l).day = d THEN 1 ELSE 0)
  BY <1>3, DropsCount DEF Drops
<1>. QED BY <1>1, <1>2, <1>3

(* Where a request is, before and after its step, in the sets of a day.      *)
LEMMA Passes ==
  ASSUME QuotaShape, NEW l \in QLane, NEW d \in Days, d <= today
  PROVE  /\ BeginRequest(l) =>
              /\ l \notin TurnsOf(d) \cup PayingOn(d) \cup AddingOn(d) \cup Charging
              /\ l \notin TurnsOf(d)' \cup PayingOn(d)' \cup AddingOn(d)' \cup Charging'
         /\ Gate(l) =>
              /\ l \notin PayingOn(d) \cup AddingOn(d) \cup Charging
              /\ l \notin PayingOn(d)' \cup AddingOn(d)' \cup Charging'
              /\ l \in TurnsOf(d)' => (l \in TurnsOf(d) \/ qday[l] = d) /\ qstep'[l] # "idle"
         /\ CheckImages(l) =>
              /\ l \notin PayingOn(d) \cup AddingOn(d) \cup Charging
              /\ l \notin PayingOn(d)' \cup Charging'
              /\ l \in TurnsOf(d)' => l \in TurnsOf(d)
              /\ l \in AddingOn(d)' <=> qstep'[l] = "addImages" /\ qday[l] = d
         /\ AddImages(l) =>
              /\ l \notin PayingOn(d) \cup Charging
              /\ l \notin PayingOn(d)' \cup AddingOn(d)' \cup Charging'
              /\ l \in TurnsOf(d)' <=> l \in TurnsOf(d)
              /\ l \in AddingOn(d) <=> qday[l] = d
         /\ Peek(l) \/ ConsumeUnit(l) =>
              /\ l \notin TurnsOf(d) \cup PayingOn(d) \cup AddingOn(d) \cup Charging
              /\ l \notin TurnsOf(d)' \cup PayingOn(d)' \cup AddingOn(d)' \cup Charging'
         /\ Work(l) =>
              /\ l \notin PayingOn(d) \cup AddingOn(d) \cup Charging
              /\ l \notin PayingOn(d)' \cup AddingOn(d)'
              /\ l \in TurnsOf(d)' => l \in TurnsOf(d)
              /\ l \in Charging' <=> qstep'[l] = "charge"
         /\ ChargeTurn(l) =>
              /\ l \notin PayingOn(d) \cup AddingOn(d) /\ l \in Charging
              /\ l \notin TurnsOf(d)' \cup AddingOn(d)' \cup Charging'
              /\ l \in TurnsOf(d) <=> qday[l] = d
              /\ l \in PayingOn(d)' <=> qday[l] = d /\ TurnCost > 0
         /\ ChargeCost(l) =>
              /\ l \notin TurnsOf(d) \cup AddingOn(d) \cup Charging
              /\ l \notin TurnsOf(d)' \cup PayingOn(d)' \cup AddingOn(d)' \cup Charging'
              /\ l \in PayingOn(d) <=> qday[l] = d
<1>0. /\ qstep \in [QLane -> QSteps] /\ qjob \in [QLane -> Kinds \cup {"none"}]
      /\ qday \in [QLane -> Days] /\ today \in Int /\ d \in Int /\ LaneFits(l) /\ qday[l] \in Int
  BY DEF QuotaShape, QuotaTypeOK, LanesKnown, Days
<1>1. ASSUME BeginRequest(l)
      PROVE  /\ l \notin TurnsOf(d) \cup PayingOn(d) \cup AddingOn(d) \cup Charging
             /\ l \notin TurnsOf(d)' \cup PayingOn(d)' \cup AddingOn(d)' \cup Charging'
  <2>1. qstep[l] = "idle" /\ today' = today /\ qday'[l] = today
    BY <1>0, <1>1 DEF BeginRequest, TakeNow
  <2>2. qstep'[l] \in {"gate", "consume", "peek"}
    BY <1>0, <1>1 DEF BeginRequest
  <2>. QED BY <1>0, <2>1, <2>2 DEF TurnsOf, PayingOn, AddingOn, Charging
<1>2. ASSUME Gate(l)
      PROVE  /\ l \notin PayingOn(d) \cup AddingOn(d) \cup Charging
             /\ l \notin PayingOn(d)' \cup AddingOn(d)' \cup Charging'
             /\ l \in TurnsOf(d)' => (l \in TurnsOf(d) \/ qday[l] = d) /\ qstep'[l] # "idle"
  <2>1. qstep[l] = "gate" /\ today' = today /\ qday'[l] = today
    BY <1>0, <1>2 DEF Gate, TakeNow
  <2>2. qstep'[l] \in {"idle", "images", "work"}
    BY <1>0, <1>2 DEF Gate, QGoto
  <2>. QED BY <1>0, <2>1, <2>2 DEF TurnsOf, PayingOn, AddingOn, Charging, LaneFits
<1>3. ASSUME CheckImages(l)
      PROVE  /\ l \notin PayingOn(d) \cup AddingOn(d) \cup Charging
             /\ l \notin PayingOn(d)' \cup Charging'
             /\ l \in TurnsOf(d)' => l \in TurnsOf(d)
             /\ l \in AddingOn(d)' <=> qstep'[l] = "addImages" /\ qday[l] = d
  <2>1. qstep[l] = "images" /\ today' = today /\ qday' = qday
    BY <1>0, <1>3 DEF CheckImages
  <2>2. qstep'[l] \in {"idle", "addImages", "work"} /\ (qstep'[l] # "idle" => qjob'[l] = qjob[l])
    BY <1>0, <1>3 DEF CheckImages, QGoto
  <2>. QED BY <1>0, <2>1, <2>2 DEF TurnsOf, PayingOn, AddingOn, Charging
<1>4. ASSUME AddImages(l)
      PROVE  /\ l \notin PayingOn(d) \cup Charging
             /\ l \notin PayingOn(d)' \cup AddingOn(d)' \cup Charging'
             /\ l \in TurnsOf(d)' <=> l \in TurnsOf(d)
             /\ l \in AddingOn(d) <=> qday[l] = d
  <2>1. qstep[l] = "addImages" /\ today' = today /\ qday' = qday
    BY <1>0, <1>4 DEF AddImages
  <2>2. qstep'[l] = "work" /\ qjob'[l] = qjob[l]
    BY <1>0, <1>4 DEF AddImages, QGoto
  <2>. QED BY <1>0, <2>1, <2>2 DEF TurnsOf, PayingOn, AddingOn, Charging
<1>5. ASSUME Peek(l) \/ ConsumeUnit(l)
      PROVE  /\ l \notin TurnsOf(d) \cup PayingOn(d) \cup AddingOn(d) \cup Charging
             /\ l \notin TurnsOf(d)' \cup PayingOn(d)' \cup AddingOn(d)' \cup Charging'
  <2>1. qstep[l] \in {"peek", "consume"} /\ qjob[l] # "chat"
    BY <1>0, <1>5 DEF Peek, ConsumeUnit, LaneFits
  <2>2. qstep'[l] \in {"idle", "consume", "work"} /\ qjob'[l] \in {qjob[l], "none"}
    BY <1>0, <1>5 DEF Peek, ConsumeUnit, AfterConsume, QGoto
  <2>. QED BY <1>0, <2>1, <2>2 DEF TurnsOf, PayingOn, AddingOn, Charging
<1>6. ASSUME Work(l)
      PROVE  /\ l \notin PayingOn(d) \cup AddingOn(d) \cup Charging
             /\ l \notin PayingOn(d)' \cup AddingOn(d)'
             /\ l \in TurnsOf(d)' => l \in TurnsOf(d)
             /\ l \in Charging' <=> qstep'[l] = "charge"
  <2>1. qstep[l] = "work" /\ today' = today /\ qday'[l] = today
    BY <1>0, <1>6 DEF Work, TakeNow
  <2>2. qstep'[l] \in {"idle", "charge", "consume"} /\ (qstep'[l] = "charge" => qjob[l] = "chat")
    BY <1>0, <1>6 DEF Work, QGoto
  <2>. QED BY <1>0, <2>1, <2>2 DEF TurnsOf, PayingOn, AddingOn, Charging
<1>7. ASSUME ChargeTurn(l)
      PROVE  /\ l \notin PayingOn(d) \cup AddingOn(d) /\ l \in Charging
             /\ l \notin TurnsOf(d)' \cup AddingOn(d)' \cup Charging'
             /\ l \in TurnsOf(d) <=> qday[l] = d
             /\ l \in PayingOn(d)' <=> qday[l] = d /\ TurnCost > 0
  <2>1. qstep[l] = "charge" /\ today' = today /\ qday' = qday
    BY <1>0, <1>7 DEF ChargeTurn
  <2>2. qstep'[l] = IF TurnCost > 0 THEN "chargeCost" ELSE "idle"
    BY <1>0, <1>7 DEF ChargeTurn, QGoto
  <2>. QED BY <1>0, <2>1, <2>2 DEF TurnsOf, PayingOn, AddingOn, Charging
<1>8. ASSUME ChargeCost(l)
      PROVE  /\ l \notin TurnsOf(d) \cup AddingOn(d) \cup Charging
             /\ l \notin TurnsOf(d)' \cup PayingOn(d)' \cup AddingOn(d)' \cup Charging'
             /\ l \in PayingOn(d) <=> qday[l] = d
  <2>1. qstep[l] = "chargeCost" /\ today' = today /\ qday' = qday /\ qstep'[l] = "idle"
    BY <1>0, <1>8 DEF ChargeCost, QGoto
  <2>. QED BY <1>0, <2>1 DEF TurnsOf, PayingOn, AddingOn, Charging
<1>. QED BY <1>1, <1>2, <1>3, <1>4, <1>5, <1>6, <1>7, <1>8

-----------------------------------------------------------------------------
(* The turns of a day.                                                       *)

TurnsWithin(d) ==
  spent["chat"][d] + Cardinality(LimboOf("chat", d)) + Cardinality(TurnsOf(d))
    <= Limit["chat"] + Others + giveUps

TurnsBounded == \A d \in Days : d <= today => TurnsWithin(d)

(* Who passes the gate saw both counters below their limits, or gave one up. *)
LEMMA GateAdmits ==
  ASSUME QuotaShape, NEW l \in QLane, Gate(l), qstep'[l] # "idle"
  PROVE  \/ giveUps' >= giveUps + 1
         \/ /\ spent["chat"][qday[l]] < Limit["chat"]
            /\ \/ CostGuard = 0 \/ spent["cost"][qday[l]] < CostGuard
               \/ spent["chat"][qday[l]] = 0
<1>0. /\ giveUps \in Nat /\ qday[l] \in Days /\ Limit["chat"] \in Nat \ {0} /\ CostGuard \in Nat
      /\ spent["chat"][qday[l]] \in Nat /\ spent["cost"][qday[l]] \in Nat
  BY QuotaAssumption DEF QuotaShape, QuotaTypeOK, Counters, Kinds
<1>1. PICK countKnown \in BOOLEAN, costKnown \in BOOLEAN :
        /\ giveUps' = giveUps + (IF countKnown THEN 0 ELSE 1) + (IF costKnown THEN 0 ELSE 1)
        /\ countKnown /\ ~Missing("chat", qday[l]) =>
             ~ \/ costKnown /\ CostGuard > 0 /\ spent["cost"][qday[l]] >= CostGuard
               \/ spent["chat"][qday[l]] >= Limit["chat"]
  BY <1>0 DEF Gate, QGoto, QuotaShape, QuotaTypeOK
<1>2. Missing("chat", qday[l]) => spent["chat"][qday[l]] = 0
  BY DEF Missing
<1>3. CASE ~countKnown \/ ~costKnown
  BY <1>0, <1>1, <1>3
<1>4. CASE countKnown /\ costKnown
  BY <1>0, <1>1, <1>2, <1>4
<1>. QED BY <1>3, <1>4

(* A request's step keeps a day's turns within the limit and what was beside. *)
LEMMA TurnsStepWithin ==
  ASSUME QuotaShape, QuotaShape', TurnsBounded, NEW l \in QLane, BeginRequest(l) \/ QuotaStep(l),
         OneLane(l), NEW d \in Days, d <= today
  PROVE  TurnsWithin(d)'
<1> DEFINE s == spent["chat"][d]
           i == Cardinality(LimboOf("chat", d))
           n == Cardinality(TurnsOf(d))
           s1 == spent'["chat"][d]
           i1 == Cardinality(LimboOf("chat", d)')
           n1 == Cardinality(TurnsOf(d)')
<1>1. /\ s \in Nat /\ i \in 0 .. giveUps /\ n \in 0 .. (Others + 1) /\ Others \in Nat /\ giveUps \in Nat
      /\ s1 \in Nat /\ i1 \in Nat /\ n1 \in 0 .. (Others + 1) /\ giveUps' \in Nat
  <2>1. "chat" \in Counters
    BY DEF Counters, Kinds
  <2>2. LimboOf("chat", d) \in SUBSET limbo /\ TurnsOf(d)' \in SUBSET QLane
    BY SetsMove DEF LimboOf
  <2>3. s1 \in Nat /\ giveUps' \in Nat
    BY <2>1, QuotaAssumption DEF QuotaShape, QuotaTypeOK
  <2>4. IsFiniteSet(limbo') /\ LimboOf("chat", d)' \in SUBSET limbo'
    BY DEF QuotaShape, LimboKnown, LimboOf
  <2>5. i1 \in Nat
    BY <2>4, FS_Subset, FS_CardinalityType
  <2>6. n1 \in 0 .. (Others + 1)
    BY <2>2, LanesCounted
  <2>. QED BY <2>1, <2>3, <2>5, <2>6, DayNumbers
<1>2. s + i + n <= Limit["chat"] + Others + giveUps /\ Limit["chat"] \in Nat \ {0}
  BY QuotaAssumption DEF TurnsBounded, TurnsWithin, Kinds
<1>3. TurnsWithin(d)' <=> s1 + i1 + n1 <= Limit["chat"] + Others + giveUps'
  BY DEF TurnsWithin
<1>4. /\ l \in TurnsOf(d) /\ l \notin TurnsOf(d)' => n1 = n - 1
      /\ l \notin TurnsOf(d) /\ l \in TurnsOf(d)' => n1 = n + 1
      /\ (l \in TurnsOf(d) <=> l \in TurnsOf(d)') => n1 = n
  <2>1. TurnsOf(d) \in SUBSET QLane /\ TurnsOf(d)' \in SUBSET QLane /\ TurnsOf(d) \ {l} = TurnsOf(d)' \ {l}
    BY SetsMove
  <2>. QED BY <2>1, LanesMove
<1>5. /\ Keeps => s1 = s /\ i1 = i /\ giveUps' >= giveUps
      /\ \A c \in Counters, x \in Days, k \in Nat : Takes(c, x, k) =>
           s1 = s + (IF c = "chat" /\ x = d THEN k ELSE 0) /\ i1 = i /\ giveUps' = giveUps
      /\ qstep[l] \in {"addImages", "charge", "chargeCost", "consume"} /\ Drops(Command(l)) =>
           /\ s1 = s /\ giveUps' = giveUps + 1
           /\ i1 = i + (IF Command(l).counter = "chat" /\ Command(l).day = d THEN 1 ELSE 0)
  <2>1. "chat" \in Counters
    BY DEF Counters, Kinds
  <2>. QED BY <2>1, CounterMoves
<1> HIDE DEF s, i, n, s1, i1, n1
<1>8. CASE BeginRequest(l) \/ Peek(l) \/ Work(l) \/ CheckImages(l)
  <2>1. Keeps
    BY <1>8, BeginEffect, PeekEffect, WorkEffect, CheckImagesEffect
  <2>2. n1 <= n
    BY <1>1, <1>4, <1>8, Passes
  <2>. QED BY <1>1, <1>2, <1>3, <1>5, <2>1, <2>2
<1>9. CASE Gate(l)
  <2>1. Keeps
    BY <1>9, GateEffect
  <2>2. CASE n1 <= n
    BY <1>1, <1>2, <1>3, <1>5, <2>1, <2>2
  <2>3. CASE ~(n1 <= n)
    <3>1. n1 = n + 1 /\ l \in TurnsOf(d)' /\ l \notin TurnsOf(d)
      BY <2>3, <1>1, <1>4
    <3>2. qday[l] = d /\ qstep'[l] # "idle"
      BY <3>1, <1>9, Passes
    <3>3. giveUps' >= giveUps + 1 \/ s < Limit["chat"]
      BY <3>2, <1>9, GateAdmits DEF s
    <3>. QED BY <1>1, <1>2, <1>3, <1>5, <2>1, <3>1, <3>3
  <2>. QED BY <2>2, <2>3
<1>10. CASE AddImages(l) \/ ChargeCost(l)
  <2>1. qstep[l] \in {"addImages", "chargeCost"} /\ Add(l)
    BY <1>10 DEF AddImages, ChargeCost
  <2>2. n1 = n
    BY <1>4, <1>10, Passes
  <2>3. Command(l).counter # "chat" /\ Command(l).counter \in Counters /\ Command(l).delta \in Nat
    BY <2>1, CommandOf DEF LimboCommand
  <2>4. qday[l] \in Days
    BY DEF QuotaShape, QuotaTypeOK
  <2>5. s1 = s /\ i1 = i /\ giveUps' >= giveUps
    BY <2>1, <2>3, <2>4, <1>1, <1>5, AddEffect
  <2>. QED BY <1>1, <1>2, <1>3, <2>2, <2>5
<1>11. CASE ChargeTurn(l)
  <2>1. qstep[l] = "charge" /\ Add(l)
    BY <1>11 DEF ChargeTurn
  <2>2. Command(l).counter = "chat" /\ Command(l).delta = 1 /\ Command(l).day = qday[l]
        /\ "chat" \in Counters /\ qday[l] \in Days /\ 1 \in Nat
    BY <2>1, CommandOf DEF QuotaShape, QuotaTypeOK, Counters, Kinds
  <2>3. n1 = n - (IF qday[l] = d THEN 1 ELSE 0)
    BY <1>4, <1>11, <1>1, Passes
  <2>4. \/ s1 = s + (IF qday[l] = d THEN 1 ELSE 0) /\ i1 = i /\ giveUps' = giveUps
        \/ s1 = s /\ i1 = i + (IF qday[l] = d THEN 1 ELSE 0) /\ giveUps' = giveUps + 1
    BY <2>1, <2>2, <1>5, AddEffect
  <2>. QED BY <1>1, <1>2, <1>3, <2>3, <2>4
<1>12. CASE ConsumeUnit(l)
  <2>1. qstep[l] = "consume" /\ qjob[l] \in {"ocr", "grade"} /\ qday[l] \in Days
        /\ qjob[l] \in Counters /\ 1 \in Nat
    BY <1>12 DEF ConsumeUnit, QuotaShape, QuotaTypeOK, LanesKnown, LaneFits, Counters, Kinds
  <2>2. n1 = n
    BY <1>4, <1>12, Passes
  <2>3. Command(l).counter # "chat"
    BY <2>1, CommandOf
  <2>4. s1 = s /\ i1 = i /\ giveUps' >= giveUps
    BY <2>1, <2>3, <1>1, <1>5, <1>12, ConsumeEffect
  <2>. QED BY <1>1, <1>2, <1>3, <2>2, <2>4
<1>. QED BY <1>8, <1>9, <1>10, <1>11, <1>12 DEF QuotaStep

(* The step in which a given-up command reaches Redis, or does not.          *)
LEMMA LateMoves ==
  ASSUME QuotaShape, LandsLate \/ Lost
  PROVE  /\ \E e \in limbo :
              /\ limbo' = limbo \ {e}
              /\ dropped' = IF Lost /\ e.counter = "chat" THEN dropped + 1 ELSE dropped
              /\ \A c \in Counters, d \in Days :
                   /\ spent[c][d] \in Nat
                   /\ c \in {"chat", "cost"} =>
                        spent'[c][d] = spent[c][d]
                          + (IF ~Lost /\ e.counter = c /\ e.day = d THEN e.delta ELSE 0)
                   /\ spent'[c][d] \in {spent[c][d], spent[c][d] + e.delta}
                   /\ c \in {"ocr", "grade"} =>
                        \/ spent'[c][d] = spent[c][d]
                        \/ spent'[c][d] = spent[c][d] + 1 /\ spent[c][d] < Limit[c]
         /\ UNCHANGED <<store, today, qstep, qjob, qday, giveUps, wins, shown>>
<1>0. Limit \in [Kinds -> Nat \ {0}] /\ \A c \in Counters, d \in Days : spent[c][d] \in Nat
  BY QuotaAssumption DEF QuotaShape, QuotaTypeOK
<1>1. CASE Lost
  BY <1>0, <1>1 DEF Lost
<1>2. CASE ~Lost
  <2>1. PICK e \in limbo :
          /\ limbo' = limbo \ {e}
          /\ IF e.capped /\ spent[e.counter][e.day] >= Limit[e.counter]
             THEN UNCHANGED spent
             ELSE Spend(e.counter, e.day, e.delta)
    BY <1>2 DEF LandsLate
  <2>2. UNCHANGED <<store, today, qstep, qjob, qday, giveUps, wins, shown, dropped>>
    BY <1>2 DEF LandsLate
  <2>3. /\ e.counter \in Counters /\ e.day \in Days /\ e.delta \in Nat
        /\ e.counter \in {"chat", "cost"} => ~e.capped
        /\ e.counter \in {"ocr", "grade"} => e.capped /\ e.delta = 1
    BY DEF QuotaShape, LimboKnown, LimboCommand, CommandFits
  <2>4. CASE UNCHANGED spent /\ e.capped
    BY <1>0, <1>2, <2>1, <2>2, <2>3, <2>4
  <2>5. CASE /\ Spend(e.counter, e.day, e.delta)
             /\ ~(e.capped /\ spent[e.counter][e.day] >= Limit[e.counter])
    <3>1. PICK f \in Counters, x \in Days, k \in Nat : f = e.counter /\ x = e.day /\ k = e.delta
      BY <2>3
    <3>2. \A c \in Counters, d \in Days :
            spent'[c][d] = IF c = f /\ d = x THEN spent[f][x] + k ELSE spent[c][d]
      BY <2>5, <3>1, SpendAt
    <3>3. f \in {"ocr", "grade"} => spent[f][x] < Limit[f] /\ k = 1
      BY <2>3, <2>5, <3>1, <1>0 DEF Kinds
    <3>. QED BY <1>0, <1>2, <2>1, <2>2, <2>3, <3>1, <3>2, <3>3
  <2>. QED BY <2>1, <2>4, <2>5
<1>. QED BY <1>1, <1>2

(* So does a late command.                                                   *)
LEMMA TurnsLateWithin ==
  ASSUME QuotaShape, TurnsBounded, LandsLate \/ Lost, NEW d \in Days, d <= today
  PROVE  TurnsWithin(d)'
<1>1. PICK e \in limbo :
        /\ limbo' = limbo \ {e}
        /\ spent'["chat"][d] = spent["chat"][d]
             + (IF ~Lost /\ e.counter = "chat" /\ e.day = d THEN e.delta ELSE 0)
  <2>1. "chat" \in Counters
    BY DEF Counters, Kinds
  <2>. QED BY <2>1, LateMoves
<1>2. Cardinality(LimboOf("chat", d)') = Cardinality(LimboOf("chat", d))
        - (IF e.counter = "chat" /\ e.day = d THEN 1 ELSE 0)
  BY <1>1, LimboShrinks
<1>3. e.counter = "chat" => e.delta = 1
  BY DEF QuotaShape, LimboKnown, CommandFits
<1>4. TurnsOf(d)' = TurnsOf(d) /\ giveUps' = giveUps
  BY LateMoves DEF TurnsOf
<1>5. /\ spent["chat"][d] \in Nat /\ Cardinality(LimboOf("chat", d)) \in Nat /\ giveUps \in Nat
      /\ Cardinality(TurnsOf(d)) \in Nat /\ Others \in Nat /\ Limit["chat"] \in Nat
  BY QuotaAssumption, DayNumbers DEF Counters, Kinds
<1>6. TurnsWithin(d)
  BY DEF TurnsBounded
<1>. QED BY <1>1, <1>2, <1>3, <1>4, <1>5, <1>6 DEF TurnsWithin

(* So does midnight, for the new day as well.                                *)
LEMMA TurnsMidnightWithin ==
  ASSUME QuotaShape, TurnsBounded, Midnight, NEW d \in Days, d <= today'
  PROVE  TurnsWithin(d)'
<1>1. /\ today' = today + 1 /\ today \in Int /\ d \in Int
      /\ UNCHANGED <<spent, qstep, qjob, qday, limbo, giveUps>>
  BY DEF Midnight, QuotaShape, QuotaTypeOK, Days
<1>2. LimboOf("chat", d)' = LimboOf("chat", d)
  BY <1>1, LimboSame
<1>3. TurnsOf(d)' \in SUBSET TurnsOf(d)
  BY <1>1 DEF TurnsOf
<1>4. TurnsOf(d) \in SUBSET QLane /\ TurnsOf(d)' \in SUBSET QLane
  BY DEF TurnsOf
<1>5. Cardinality(TurnsOf(d)') <= Cardinality(TurnsOf(d)) /\ Cardinality(TurnsOf(d)') \in 0 .. (Others + 1)
  BY <1>3, <1>4, LanesCounted, FS_Subset
<1>6. /\ spent["chat"][d] \in Nat /\ Cardinality(LimboOf("chat", d)) \in Nat /\ giveUps \in Nat
      /\ Cardinality(TurnsOf(d)) \in Nat /\ Others \in Nat /\ Limit["chat"] \in Nat \ {0}
  BY QuotaAssumption, DayNumbers DEF Counters, Kinds
<1>7. CASE d <= today
  BY <1>1, <1>2, <1>5, <1>6, <1>7 DEF TurnsBounded, TurnsWithin
<1>8. CASE d > today
  <2>1. spent["chat"][d] = 0
    BY <1>8 DEF QuotaShape, DaysToComeAreEmpty, Counters, Kinds
  <2>2. LimboOf("chat", d) = {}
    BY <1>1, <1>8 DEF QuotaShape, LimboKnown, CommandFits, LimboCommand, LimboOf, Days
  <2>3. Cardinality(LimboOf("chat", d)) = 0
    BY <2>2, FS_EmptySet
  <2>. QED BY <1>1, <1>2, <1>5, <1>6, <2>1, <2>3 DEF TurnsWithin
<1>. QED BY <1>1, <1>7, <1>8

-----------------------------------------------------------------------------
(* The cost of a day.                                                        *)

(* The cost already charged or on its way is that of turns that were charged *)
(* or whose charge was given up.                                             *)
CostFollows(d) ==
  spent["cost"][d] + TurnCost * (Cardinality(LimboOf("cost", d)) + Cardinality(PayingOn(d)))
    <= 0 + TurnCost * (spent["chat"][d] + giveUps)

CostWithin(d) ==
  spent["cost"][d] + TurnCost * (Cardinality(LimboOf("cost", d)) + Cardinality(PayingOn(d))
                                   + Cardinality(TurnsOf(d)))
    <= CostGuard + TurnCost * (Others + giveUps + 1)

CostsBounded == \A d \in Days : d <= today => CostFollows(d) /\ (CostGuard > 0 => CostWithin(d))

(* Multiplication by a weight distributes, and keeps the order.              *)
LEMMA Weighs ==
  ASSUME NEW t \in Nat, NEW a \in Int, NEW b \in Int
  PROVE  t * (a + b) = t * a + t * b /\ (a <= b => t * a <= t * b) /\ t * a \in Int
<1>1. ASSUME a <= b PROVE t * a <= t * b
  <2>1. b - a >= 0 /\ b - a \in Int
    BY <1>1
  <2>2. t * (b - a) >= 0
    BY <2>1
  <2>3. t * (b - a) = t * b - t * a
    OBVIOUS
  <2>. QED BY <2>2, <2>3
<1>. QED BY <1>1

(* A bound on a weighted load moves with the sizes it is made of.            *)
LEMMA LoadMoves ==
  ASSUME NEW t \in Nat, NEW y \in Int, NEW k \in Int, NEW g \in Int,
         NEW u \in Int, NEW v \in Int, NEW u1 \in Int, NEW v1 \in Int,
         y + t * u <= g + t * v, k + u1 - u <= v1 - v
  PROVE  y + t * k + t * u1 <= g + t * v1
<1>1. /\ t * u \in Int /\ t * v \in Int /\ t * k \in Int /\ t * u1 \in Int /\ t * v1 \in Int
      /\ t * (k + u1) = t * k + t * u1 /\ t * (u + (v1 - v)) = t * u + t * (v1 - v)
      /\ t * (v + (v1 - v)) = t * v + t * (v1 - v) /\ t * (v1 - v) \in Int
  BY Weighs
<1>2. t * (k + u1) <= t * (u + (v1 - v))
  <2>1. k + u1 \in Int /\ u + (v1 - v) \in Int /\ k + u1 <= u + (v1 - v)
    OBVIOUS
  <2>. QED BY <2>1, Weighs
<1>3. v + (v1 - v) = v1
  OBVIOUS
<1>. QED BY <1>1, <1>2, <1>3

(* A request is at one place only.                                           *)
LEMMA TurnsOrPaying ==
  ASSUME NEW A \in SUBSET QLane, NEW B \in SUBSET QLane, A \cap B = {}
  PROVE  Cardinality(A) + Cardinality(B) <= Others + 1
<1>1. A \cup B \in SUBSET QLane
  OBVIOUS
<1>2. Cardinality(A \cup B) = Cardinality(A) + Cardinality(B) - Cardinality(A \cap B)
  BY LanesCounted, FS_Union
<1>3. Cardinality(A \cap B) = 0 /\ Cardinality(A) \in Nat /\ Cardinality(B) \in Nat
  BY LanesCounted, FS_EmptySet
<1>. QED BY <1>1, <1>2, <1>3, LanesCounted

(* How a request's step moves the numbers of a day that has come: k charges  *)
(* of the cost arrive.                                                       *)
LEMMA CostStepWithin ==
  ASSUME QuotaShape, QuotaShape', CostsBounded, NEW l \in QLane, BeginRequest(l) \/ QuotaStep(l),
         OneLane(l), NEW d \in Days, d <= today
  PROVE  CostFollows(d)' /\ (CostGuard > 0 => CostWithin(d)')
<1> DEFINE y == spent["cost"][d]
           s == spent["chat"][d]
           i == Cardinality(LimboOf("cost", d))
           n == Cardinality(TurnsOf(d))
           p == Cardinality(PayingOn(d))
           y1 == spent'["cost"][d]
           s1 == spent'["chat"][d]
           i1 == Cardinality(LimboOf("cost", d)')
           n1 == Cardinality(TurnsOf(d)')
           p1 == Cardinality(PayingOn(d)')
           g1 == giveUps'
<1>0. "chat" \in Counters /\ "cost" \in Counters /\ 1 \in Nat /\ TurnCost \in Nat /\ CostGuard \in Nat
  BY QuotaAssumption DEF Counters, Kinds
<1>1. /\ y \in Nat /\ s \in Nat /\ i \in 0 .. giveUps /\ n \in 0 .. (Others + 1) /\ p \in 0 .. (Others + 1)
      /\ Others \in Nat /\ giveUps \in Nat
      /\ y1 \in Nat /\ s1 \in Nat /\ i1 \in 0 .. g1 /\ g1 \in Nat
      /\ n1 \in 0 .. (Others + 1) /\ p1 \in 0 .. (Others + 1) /\ n1 + p1 <= Others + 1
  <2>1. /\ TurnsOf(d)' \in SUBSET QLane /\ PayingOn(d)' \in SUBSET QLane
        /\ TurnsOf(d)' \cap PayingOn(d)' = {}
    BY SetsMove DEF TurnsOf, PayingOn
  <2>2. y1 \in Nat /\ s1 \in Nat /\ g1 \in Nat
    BY <1>0, QuotaAssumption DEF QuotaShape, QuotaTypeOK
  <2>3. IsFiniteSet(limbo') /\ LimboOf("cost", d)' \in SUBSET limbo' /\ Cardinality(limbo') <= g1
    BY DEF QuotaShape, LimboKnown, LimboOf
  <2>4. i1 \in 0 .. g1
    <3>1. Cardinality(limbo') \in Nat /\ i1 \in Nat /\ i1 <= Cardinality(limbo')
      BY <2>3, FS_Subset, FS_CardinalityType
    <3>. QED BY <2>2, <2>3, <3>1
  <2>. QED BY <1>0, <2>1, <2>2, <2>4, DayNumbers, LanesCounted, TurnsOrPaying
<1>2. /\ y + TurnCost * (i + p) <= 0 + TurnCost * (s + giveUps)
      /\ CostGuard > 0 => y + TurnCost * (i + p + n) <= CostGuard + TurnCost * (Others + giveUps + 1)
  BY DEF CostsBounded, CostFollows, CostWithin
<1>3. /\ CostFollows(d)' <=> y1 + TurnCost * (i1 + p1) <= 0 + TurnCost * (s1 + g1)
      /\ CostWithin(d)' <=> y1 + TurnCost * (i1 + p1 + n1) <= CostGuard + TurnCost * (Others + g1 + 1)
  BY DEF CostFollows, CostWithin
<1>4. /\ l \in TurnsOf(d) /\ l \notin TurnsOf(d)' => n1 = n - 1
      /\ l \notin TurnsOf(d) /\ l \in TurnsOf(d)' => n1 = n + 1
      /\ (l \in TurnsOf(d) <=> l \in TurnsOf(d)') => n1 = n
      /\ l \in PayingOn(d) /\ l \notin PayingOn(d)' => p1 = p - 1
      /\ l \notin PayingOn(d) /\ l \in PayingOn(d)' => p1 = p + 1
      /\ (l \in PayingOn(d) <=> l \in PayingOn(d)') => p1 = p
  <2>1. /\ TurnsOf(d) \in SUBSET QLane /\ TurnsOf(d)' \in SUBSET QLane /\ TurnsOf(d) \ {l} = TurnsOf(d)' \ {l}
        /\ PayingOn(d) \in SUBSET QLane /\ PayingOn(d)' \in SUBSET QLane
        /\ PayingOn(d) \ {l} = PayingOn(d)' \ {l}
    BY SetsMove
  <2>. QED BY <2>1, LanesMove
<1>5. /\ Keeps => y1 = y /\ s1 = s /\ i1 = i /\ g1 >= giveUps
      /\ \A c \in Counters, x \in Days, k \in Nat : Takes(c, x, k) =>
           /\ y1 = y + (IF c = "cost" /\ x = d THEN k ELSE 0)
           /\ s1 = s + (IF c = "chat" /\ x = d THEN k ELSE 0)
           /\ i1 = i /\ g1 = giveUps
      /\ qstep[l] \in {"addImages", "charge", "chargeCost", "consume"} /\ Drops(Command(l)) =>
           /\ y1 = y /\ s1 = s /\ g1 = giveUps + 1
           /\ i1 = i + (IF Command(l).counter = "cost" /\ Command(l).day = d THEN 1 ELSE 0)
  <2>1. /\ Keeps => y1 = y /\ i1 = i /\ g1 >= giveUps
        /\ \A c \in Counters, x \in Days, k \in Nat : Takes(c, x, k) =>
             y1 = y + (IF c = "cost" /\ x = d THEN k ELSE 0) /\ i1 = i /\ g1 = giveUps
        /\ qstep[l] \in {"addImages", "charge", "chargeCost", "consume"} /\ Drops(Command(l)) =>
             /\ y1 = y /\ g1 = giveUps + 1
             /\ i1 = i + (IF Command(l).counter = "cost" /\ Command(l).day = d THEN 1 ELSE 0)
    BY <1>0, CounterMoves
  <2>2. /\ Keeps => s1 = s
        /\ \A c \in Counters, x \in Days, k \in Nat : Takes(c, x, k) =>
             s1 = s + (IF c = "chat" /\ x = d THEN k ELSE 0)
        /\ qstep[l] \in {"addImages", "charge", "chargeCost", "consume"} /\ Drops(Command(l)) => s1 = s
    BY <1>0, CounterMoves
  <2> HIDE DEF y, s, i, y1, s1, i1, g1
  <2>. QED BY <2>1, <2>2
<1> HIDE DEF y, s, i, n, p, y1, s1, i1, n1, p1, g1
<1> DEFINE Goal == CostFollows(d)' /\ (CostGuard > 0 => CostWithin(d)')
<1> SUFFICES Goal
  BY DEF Goal
<1> HIDE DEF Goal
<1>1a. /\ y \in Int /\ s \in Int /\ i \in Int /\ n \in Int /\ p \in Int /\ Others \in Int /\ giveUps \in Int
       /\ y1 \in Int /\ s1 \in Int /\ i1 \in Int /\ n1 \in Int /\ p1 \in Int /\ g1 \in Int
  BY <1>1
<1>1b. i <= giveUps /\ n >= 0 /\ p >= 0 /\ n <= Others + 1 /\ p <= Others + 1 /\ i1 <= g1 /\ n1 + p1 <= Others + 1
       /\ n1 >= 0 /\ p1 >= 0 /\ i >= 0 /\ i1 >= 0 /\ n1 <= Others + 1 /\ s >= 0 /\ y >= 0
  BY <1>1
<1>6. ASSUME NEW k \in 0 .. 1, y1 = y + TurnCost * k,
             k + (i1 + p1) - (i + p) <= (s1 + g1) - (s + giveUps),
             k + (i1 + p1 + n1) - (i + p + n) <= g1 - giveUps
      PROVE  Goal
  <2> DEFINE a == i + p
             b == s + giveUps
             a1 == i1 + p1
             b1 == s1 + g1
             u == i + p + n
             v == Others + giveUps + 1
             u1 == i1 + p1 + n1
             v1 == Others + g1 + 1
  <2>1. /\ a \in Int /\ b \in Int /\ a1 \in Int /\ b1 \in Int /\ k \in Int /\ y \in Int /\ 0 \in Int
        /\ u \in Int /\ v \in Int /\ u1 \in Int /\ v1 \in Int /\ CostGuard \in Int
        /\ k + a1 - a <= b1 - b /\ k + u1 - u <= v1 - v
    BY <1>0, <1>1a, <1>1b, <1>6
  <2>2. /\ y + TurnCost * a <= 0 + TurnCost * b
        /\ CostGuard > 0 => y + TurnCost * u <= CostGuard + TurnCost * v
    BY <1>2
  <2>3. /\ CostFollows(d)' <=> y1 + TurnCost * a1 <= 0 + TurnCost * b1
        /\ CostWithin(d)' <=> y1 + TurnCost * u1 <= CostGuard + TurnCost * v1
    BY <1>3
  <2> HIDE DEF a, b, a1, b1, u, v, u1, v1
  <2>4. y + TurnCost * k + TurnCost * a1 <= 0 + TurnCost * b1
    BY <1>0, <2>1, <2>2, LoadMoves
  <2>5. CostGuard > 0 => y + TurnCost * k + TurnCost * u1 <= CostGuard + TurnCost * v1
    BY <1>0, <2>1, <2>2, LoadMoves
  <2>. QED BY <1>6, <2>3, <2>4, <2>5 DEF Goal
<1>6a. ASSUME y1 = y, s1 = s, i1 = i, p1 = p, g1 >= giveUps, y < CostGuard \/ s = 0 \/ CostGuard = 0
      PROVE  Goal
  <2> DEFINE a == i + p
             b == s + giveUps
             b1 == s1 + g1
             u1 == i1 + p1 + n1
             v1 == Others + g1 + 1
  <2>1. /\ a \in Int /\ b \in Int /\ b1 \in Int /\ y \in Int /\ 0 \in Int
        /\ u1 \in Int /\ v1 \in Int /\ CostGuard \in Int /\ n1 \in Int
        /\ 0 + a - a <= b1 - b /\ u1 <= v1 /\ a + n1 = u1 /\ (s = 0 => 0 + u1 - a <= v1 - b)
    BY <1>0, <1>1a, <1>1b, <1>6a
  <2>2. y + TurnCost * a <= 0 + TurnCost * b
    BY <1>2
  <2>3. /\ CostFollows(d)' <=> y + TurnCost * a <= 0 + TurnCost * b1
        /\ CostWithin(d)' <=> y + TurnCost * u1 <= CostGuard + TurnCost * v1
    BY <1>3, <1>6a
  <2> HIDE DEF a, b, b1, u1, v1
  <2>4. y + TurnCost * 0 + TurnCost * a <= 0 + TurnCost * b1
    BY <1>0, <2>1, <2>2, LoadMoves
  <2>5. TurnCost * 0 = 0 /\ TurnCost * a \in Int /\ TurnCost * u1 \in Int /\ TurnCost * v1 \in Int
    BY <1>0, <2>1, Weighs
  <2>6. CASE y < CostGuard
    <3>1. TurnCost * u1 <= TurnCost * v1
      BY <1>0, <2>1, Weighs
    <3>. QED BY <2>1, <2>3, <2>4, <2>5, <2>6, <3>1 DEF Goal
  <2>7. CASE s = 0
    <3>1. y + TurnCost * 0 + TurnCost * u1 <= 0 + TurnCost * v1
      BY <1>0, <2>1, <2>2, <2>7, LoadMoves
    <3>. QED BY <1>0, <2>1, <2>3, <2>4, <2>5, <3>1 DEF Goal
  <2>8. CASE CostGuard = 0
    BY <2>1, <2>3, <2>4, <2>5, <2>8 DEF Goal
  <2>. QED BY <1>6a, <2>6, <2>7, <2>8
<1>7. ASSUME y1 = y, (i1 + p1) - (i + p) <= (s1 + g1) - (s + giveUps),
             (i1 + p1 + n1) - (i + p + n) <= g1 - giveUps
      PROVE  Goal
  <2>1. 0 \in 0 .. 1 /\ TurnCost * 0 = 0
    BY <1>0
  <2>2. y1 = y + TurnCost * 0
    BY <1>1a, <1>1b, <1>7, <2>1
  <2>3. /\ 0 + (i1 + p1) - (i + p) <= (s1 + g1) - (s + giveUps)
        /\ 0 + (i1 + p1 + n1) - (i + p + n) <= g1 - giveUps
    BY <1>1a, <1>1b, <1>7
  <2>. QED BY <1>6, <2>1, <2>2, <2>3
<1>7a. ASSUME y1 = y + TurnCost, 1 + (i1 + p1) - (i + p) <= (s1 + g1) - (s + giveUps),
              1 + (i1 + p1 + n1) - (i + p + n) <= g1 - giveUps
       PROVE  Goal
  <2>1. 1 \in 0 .. 1 /\ TurnCost * 1 = TurnCost
    BY <1>0
  <2>2. y1 = y + TurnCost * 1
    BY <1>7a, <2>1
  <2>. QED BY <1>6, <1>7a, <2>1, <2>2
<1>8. CASE BeginRequest(l) \/ Peek(l) \/ Work(l) \/ CheckImages(l)
  <2>1. Keeps
    BY <1>8, BeginEffect, PeekEffect, WorkEffect, CheckImagesEffect
  <2>2. n1 <= n /\ p1 = p
    BY <1>1a, <1>1b, <1>4, <1>8, Passes
  <2>. QED BY <1>1a, <1>1b, <1>5, <1>7, <2>1, <2>2
<1>9. CASE Gate(l)
  <2>1. Keeps /\ p1 = p
    BY <1>4, <1>9, GateEffect, Passes
  <2>2. CASE n1 <= n
    BY <1>1a, <1>1b, <1>5, <1>7, <2>1, <2>2
  <2>3. CASE ~(n1 <= n)
    <3>1. n1 = n + 1 /\ l \in TurnsOf(d)' /\ l \notin TurnsOf(d)
      BY <2>3, <1>1a, <1>1b, <1>4
    <3>2. qday[l] = d /\ qstep'[l] # "idle"
      BY <3>1, <1>9, Passes
    <3>3. g1 >= giveUps + 1 \/ CostGuard = 0 \/ y < CostGuard \/ s = 0
      BY <3>2, <1>9, GateAdmits DEF y, s, g1
    <3>. QED BY <1>1a, <1>1b, <1>5, <1>6a, <1>7, <2>1, <3>1, <3>3
  <2>. QED BY <2>2, <2>3
<1>10. CASE AddImages(l)
  <2>1. qstep[l] = "addImages" /\ Add(l)
    BY <1>10 DEF AddImages
  <2>2. n1 = n /\ p1 = p
    BY <1>4, <1>10, Passes
  <2>3. Command(l).counter = "chat_images" /\ Command(l).counter \in Counters /\ Command(l).delta \in Nat
    BY <2>1, CommandOf DEF LimboCommand
  <2>4. qday[l] \in Days
    BY DEF QuotaShape, QuotaTypeOK
  <2>5. y1 = y /\ s1 = s /\ i1 = i /\ g1 >= giveUps
    BY <2>1, <2>3, <2>4, <1>1a, <1>1b, <1>5, AddEffect
  <2>. QED BY <1>1a, <1>1b, <1>7, <2>2, <2>5
<1>11. CASE ChargeTurn(l)
  <2>1. qstep[l] = "charge" /\ Add(l)
    BY <1>11 DEF ChargeTurn
  <2>2. Command(l).counter = "chat" /\ Command(l).delta = 1 /\ qday[l] \in Days
    BY <2>1, CommandOf DEF QuotaShape, QuotaTypeOK
  <2>3. /\ n1 = n - (IF qday[l] = d THEN 1 ELSE 0)
        /\ p1 = p + (IF qday[l] = d /\ TurnCost > 0 THEN 1 ELSE 0)
    BY <1>4, <1>11, <1>1a, <1>1b, Passes
  <2>4. \/ y1 = y /\ s1 = s + (IF qday[l] = d THEN 1 ELSE 0) /\ i1 = i /\ g1 = giveUps
        \/ y1 = y /\ s1 = s /\ i1 = i /\ g1 = giveUps + 1
    BY <1>0, <1>1a, <1>1b, <2>1, <2>2, <1>5, AddEffect
  <2>. QED BY <1>1a, <1>1b, <1>7, <2>3, <2>4
<1>12. CASE ChargeCost(l)
  <2>1. qstep[l] = "chargeCost" /\ Add(l)
    BY <1>12 DEF ChargeCost
  <2>2. Command(l).counter = "cost" /\ Command(l).delta = TurnCost /\ Command(l).day = qday[l]
        /\ qday[l] \in Days
    BY <2>1, CommandOf DEF QuotaShape, QuotaTypeOK
  <2>3. n1 = n /\ p1 = p - (IF qday[l] = d THEN 1 ELSE 0)
    BY <1>4, <1>12, <1>1a, <1>1b, Passes
  <2>4. \/ y1 = y + (IF qday[l] = d THEN TurnCost ELSE 0) /\ s1 = s /\ i1 = i /\ g1 = giveUps
        \/ y1 = y /\ s1 = s /\ i1 = i + (IF qday[l] = d THEN 1 ELSE 0) /\ g1 = giveUps + 1
    BY <1>0, <1>1a, <1>1b, <2>1, <2>2, <1>5, AddEffect
  <2>5. CASE y1 = y + TurnCost /\ qday[l] = d
    BY <1>1a, <1>1b, <1>7a, <2>3, <2>4, <2>5
  <2>. QED BY <1>1a, <1>1b, <1>7, <2>3, <2>4, <2>5
<1>13. CASE ConsumeUnit(l)
  <2>1. qstep[l] = "consume" /\ qjob[l] \in {"ocr", "grade"} /\ qday[l] \in Days
        /\ qjob[l] \in Counters
    BY <1>13 DEF ConsumeUnit, QuotaShape, QuotaTypeOK, LanesKnown, LaneFits, Counters, Kinds
  <2>2. n1 = n /\ p1 = p
    BY <1>4, <1>13, Passes
  <2>3. Command(l).counter # "cost"
    BY <2>1, CommandOf
  <2>4. y1 = y /\ s1 = s /\ i1 = i /\ g1 >= giveUps
    BY <1>0, <2>1, <2>3, <1>1a, <1>1b, <1>5, <1>13, ConsumeEffect
  <2>. QED BY <1>1a, <1>1b, <1>7, <2>2, <2>4
<1>. QED BY <1>8, <1>9, <1>10, <1>11, <1>12, <1>13 DEF QuotaStep

(* A late command keeps the day's cost within what its turns may cost.       *)
LEMMA CostLateWithin ==
  ASSUME QuotaShape, CostsBounded, LandsLate \/ Lost, NEW d \in Days, d <= today
  PROVE  CostFollows(d)' /\ (CostGuard > 0 => CostWithin(d)')
<1>0. "chat" \in Counters /\ "cost" \in Counters /\ TurnCost \in Nat /\ CostGuard \in Nat
  BY QuotaAssumption DEF Counters, Kinds
<1>1. PICK e \in limbo :
        /\ limbo' = limbo \ {e}
        /\ spent'["cost"][d] = spent["cost"][d]
             + (IF ~Lost /\ e.counter = "cost" /\ e.day = d THEN e.delta ELSE 0)
        /\ spent'["chat"][d] = spent["chat"][d]
             + (IF ~Lost /\ e.counter = "chat" /\ e.day = d THEN e.delta ELSE 0)
  BY <1>0, LateMoves
<1> DEFINE y == spent["cost"][d]
           s == spent["chat"][d]
           i == Cardinality(LimboOf("cost", d))
           n == Cardinality(TurnsOf(d))
           p == Cardinality(PayingOn(d))
           y1 == spent'["cost"][d]
           s1 == spent'["chat"][d]
           j == IF e.counter = "cost" /\ e.day = d THEN 1 ELSE 0
           k == IF ~Lost /\ e.counter = "cost" /\ e.day = d THEN 1 ELSE 0
           a == i + p
           b == s + giveUps
           a1 == (i - j) + p
           b1 == s1 + giveUps
           u == i + p + n
           v == Others + giveUps + 1
           u1 == (i - j) + p + n
<1>2. Cardinality(LimboOf("cost", d)') = i - j
  BY <1>1, LimboShrinks
<1>3. /\ y \in Nat /\ s \in Nat /\ i \in Nat /\ n \in Nat /\ p \in Nat /\ Others \in Nat /\ giveUps \in Nat
  BY <1>0, DayNumbers
<1>4. /\ j \in 0 .. 1 /\ k \in 0 .. 1 /\ k <= j /\ y1 = y + TurnCost * k /\ s1 \in Nat /\ s1 >= s
  <2>1. e.counter = "cost" => e.delta = TurnCost
    BY DEF QuotaShape, LimboKnown, CommandFits
  <2>2. e.counter = "chat" => e.delta = 1
    BY DEF QuotaShape, LimboKnown, CommandFits
  <2>3. TurnCost * 0 = 0 /\ TurnCost * 1 = TurnCost
    BY <1>0
  <2>. QED BY <1>1, <1>3, <2>1, <2>2, <2>3
<1>5. TurnsOf(d)' = TurnsOf(d) /\ PayingOn(d)' = PayingOn(d) /\ giveUps' = giveUps
  BY LateMoves DEF TurnsOf, PayingOn
<1>6. /\ CostFollows(d)' <=> y1 + TurnCost * a1 <= 0 + TurnCost * b1
      /\ CostWithin(d)' <=> y1 + TurnCost * u1 <= CostGuard + TurnCost * v
  BY <1>2, <1>5 DEF CostFollows, CostWithin
<1>7. /\ y + TurnCost * a <= 0 + TurnCost * b
      /\ CostGuard > 0 => y + TurnCost * u <= CostGuard + TurnCost * v
  BY DEF CostsBounded, CostFollows, CostWithin
<1> HIDE DEF y, s, i, n, p, y1, s1, j, k
<1>8. /\ a \in Int /\ b \in Int /\ a1 \in Int /\ b1 \in Int /\ k \in Int /\ y \in Int /\ 0 \in Int
      /\ u \in Int /\ v \in Int /\ u1 \in Int /\ CostGuard \in Int
      /\ k + a1 - a <= b1 - b /\ k + u1 - u <= v - v
  BY <1>0, <1>3, <1>4
<1> HIDE DEF a, b, a1, b1, u, v, u1
<1>9. y + TurnCost * k + TurnCost * a1 <= 0 + TurnCost * b1
  BY <1>0, <1>7, <1>8, LoadMoves
<1>10. CostGuard > 0 => y + TurnCost * k + TurnCost * u1 <= CostGuard + TurnCost * v
  BY <1>0, <1>7, <1>8, LoadMoves
<1>. QED BY <1>4, <1>6, <1>9, <1>10

(* So does midnight.                                                         *)
LEMMA CostMidnightWithin ==
  ASSUME QuotaShape, CostsBounded, Midnight, NEW d \in Days, d <= today'
  PROVE  CostFollows(d)' /\ (CostGuard > 0 => CostWithin(d)')
<1>0. "chat" \in Counters /\ "cost" \in Counters /\ TurnCost \in Nat /\ CostGuard \in Nat
  BY QuotaAssumption DEF Counters, Kinds
<1>1. /\ today' = today + 1 /\ today \in Int /\ d \in Int
      /\ UNCHANGED <<spent, qstep, qjob, qday, limbo, giveUps>>
  BY DEF Midnight, QuotaShape, QuotaTypeOK, Days
<1> DEFINE y == spent["cost"][d]
           s == spent["chat"][d]
           i == Cardinality(LimboOf("cost", d))
           n == Cardinality(TurnsOf(d))
           p == Cardinality(PayingOn(d))
           n1 == Cardinality(TurnsOf(d)')
<1>2. LimboOf("cost", d)' = LimboOf("cost", d) /\ PayingOn(d)' = PayingOn(d)
  BY <1>1, LimboSame DEF PayingOn
<1>3. TurnsOf(d)' \in SUBSET TurnsOf(d) /\ TurnsOf(d) \in SUBSET QLane /\ TurnsOf(d)' \in SUBSET QLane
  BY <1>1 DEF TurnsOf
<1>4. n1 <= n /\ n1 \in 0 .. (Others + 1)
  BY <1>3, LanesCounted, FS_Subset
<1>5. /\ y \in Nat /\ s \in Nat /\ i \in Nat /\ n \in Nat /\ p \in Nat /\ Others \in Nat /\ giveUps \in Nat
  BY <1>0, DayNumbers
<1>6. /\ CostFollows(d)' <=> y + TurnCost * (i + p) <= 0 + TurnCost * (s + giveUps)
      /\ CostWithin(d)' <=> y + TurnCost * (i + p + n1) <= CostGuard + TurnCost * (Others + giveUps + 1)
  BY <1>1, <1>2 DEF CostFollows, CostWithin
<1>7. CASE d <= today
  <2>1. /\ y + TurnCost * (i + p) <= 0 + TurnCost * (s + giveUps)
        /\ CostGuard > 0 => y + TurnCost * (i + p + n) <= CostGuard + TurnCost * (Others + giveUps + 1)
    BY <1>7 DEF CostsBounded, CostFollows, CostWithin
  <2> HIDE DEF y, s, i, n, p, n1
  <2> DEFINE u == i + p + n
             u1 == i + p + n1
             v == Others + giveUps + 1
  <2>2. u \in Int /\ u1 \in Int /\ u1 <= u /\ v \in Int
    BY <1>4, <1>5
  <2>3. CostGuard > 0 => y + TurnCost * u <= CostGuard + TurnCost * v
    BY <2>1
  <2>4. CostWithin(d)' <=> y + TurnCost * u1 <= CostGuard + TurnCost * v
    BY <1>6
  <2> HIDE DEF u, u1, v
  <2>5. TurnCost * u1 <= TurnCost * u /\ TurnCost * u \in Int /\ TurnCost * u1 \in Int /\ TurnCost * v \in Int
    BY <1>0, <2>2, Weighs
  <2>6. CostGuard > 0 => CostWithin(d)'
    BY <1>0, <1>5, <2>3, <2>4, <2>5
  <2>. QED BY <1>6, <2>1, <2>6
<1>8. CASE d > today
  <2>1. y = 0 /\ s = 0
    BY <1>0, <1>8 DEF QuotaShape, DaysToComeAreEmpty
  <2>2. LimboOf("cost", d) = {} /\ PayingOn(d) = {}
    BY <1>1, <1>8 DEF QuotaShape, QuotaTypeOK, LimboKnown, CommandFits, LimboCommand, LimboOf, PayingOn,
       LanesKnown, LaneFits, Days
  <2>3. i = 0 /\ p = 0
    BY <2>2, FS_EmptySet
  <2> HIDE DEF y, s, i, n, p, n1
  <2> DEFINE v == Others + giveUps + 1
  <2>4. n1 \in Int /\ v \in Int /\ n1 <= v /\ 0 <= giveUps /\ 0 \in Int /\ giveUps \in Int
    BY <1>4, <1>5
  <2>5. i + p = 0 /\ s + giveUps = giveUps /\ i + p + n1 = n1
    BY <1>5, <2>1, <2>3, <2>4
  <2>6. CostWithin(d)' <=> y + TurnCost * n1 <= CostGuard + TurnCost * v
    BY <1>6, <2>5
  <2>7. CostFollows(d)' <=> y + TurnCost * 0 <= 0 + TurnCost * giveUps
    BY <1>6, <2>5
  <2> HIDE DEF v
  <2>8. /\ TurnCost * n1 <= TurnCost * v /\ TurnCost * 0 <= TurnCost * giveUps
        /\ TurnCost * n1 \in Int /\ TurnCost * v \in Int /\ TurnCost * 0 \in Int /\ TurnCost * giveUps \in Int
    BY <1>0, <2>4, Weighs
  <2>. QED BY <1>0, <2>1, <2>6, <2>7, <2>8
<1>. QED BY <1>1, <1>7, <1>8

-----------------------------------------------------------------------------
(* The counters of the script.                                               *)

ScriptsHold == \A k \in {"ocr", "grade"}, d \in Days : spent[k][d] <= Limit[k]

(* A scripted counter never passes its limit: the script checks as it adds.  *)
LEMMA ScriptsStep ==
  ASSUME QuotaShape, ScriptsHold, NEW l \in QLane, BeginRequest(l) \/ QuotaStep(l)
  PROVE  ScriptsHold'
<1> SUFFICES ASSUME NEW k \in {"ocr", "grade"}, NEW d \in Days PROVE spent'[k][d] <= Limit[k]
  BY DEF ScriptsHold
<1>0. k \in Counters /\ k \in Kinds /\ spent[k][d] \in Nat /\ Limit[k] \in Nat /\ spent[k][d] <= Limit[k]
  BY QuotaAssumption DEF ScriptsHold, QuotaShape, QuotaTypeOK, Counters, Kinds
<1>1. Keeps \/ Drops(Command(l)) => spent'[k][d] = spent[k][d]
  BY DEF Keeps, Drops
<1>2. ASSUME NEW e \in Counters, NEW x \in Days, NEW n \in Nat, Takes(e, x, n)
      PROVE  spent'[k][d] = IF k = e /\ d = x THEN spent[e][x] + n ELSE spent[k][d]
  <2>1. Spend(e, x, n)
    BY <1>2 DEF Takes
  <2>2. \A c \in Counters, y \in Days :
          spent'[c][y] = IF c = e /\ y = x THEN spent[e][x] + n ELSE spent[c][y]
    BY <2>1, SpendAt
  <2>. QED BY <1>0, <2>2
<1>3. CASE BeginRequest(l) \/ Peek(l) \/ Work(l) \/ CheckImages(l) \/ Gate(l)
  <2>1. Keeps
    BY <1>3, BeginEffect, PeekEffect, WorkEffect, CheckImagesEffect, GateEffect
  <2>. QED BY <1>0, <1>1, <2>1
<1>4. CASE AddImages(l) \/ ChargeTurn(l) \/ ChargeCost(l)
  <2>1. qstep[l] \in {"addImages", "charge", "chargeCost"} /\ Add(l)
    BY <1>4 DEF AddImages, ChargeTurn, ChargeCost
  <2>2. /\ Command(l).counter \in {"chat_images", "chat", "cost"} /\ Command(l).counter \in Counters
        /\ Command(l).delta \in Nat /\ qday[l] \in Days
    BY <2>1, CommandOf DEF LimboCommand, QuotaShape, QuotaTypeOK
  <2>3. \/ Takes(Command(l).counter, qday[l], Command(l).delta)
        \/ Drops(Command(l))
    BY <2>1, AddEffect
  <2>4. Takes(Command(l).counter, qday[l], Command(l).delta) => spent'[k][d] = spent[k][d]
    BY <1>2, <2>2
  <2>. QED BY <1>0, <1>1, <2>3, <2>4
<1>5. CASE ConsumeUnit(l)
  <2>1. qjob[l] \in Counters /\ qday[l] \in Days /\ 1 \in Nat
    BY <1>5 DEF ConsumeUnit, QuotaShape, QuotaTypeOK, LanesKnown, LaneFits, Counters, Kinds
  <2>2. \/ Keeps \/ Drops(Command(l))
        \/ Takes(qjob[l], qday[l], 1) /\ spent[qjob[l]][qday[l]] < Limit[qjob[l]]
    BY <1>5, ConsumeEffect
  <2>3. Takes(qjob[l], qday[l], 1) =>
          spent'[k][d] = IF k = qjob[l] /\ d = qday[l] THEN spent[qjob[l]][qday[l]] + 1 ELSE spent[k][d]
    BY <1>2, <2>1
  <2>. QED BY <1>0, <1>1, <2>2, <2>3
<1>. QED BY <1>3, <1>4, <1>5 DEF QuotaStep

(* Not even when the script runs late.                                       *)
LEMMA ScriptsLate == ASSUME QuotaShape, ScriptsHold, LandsLate \/ Lost PROVE ScriptsHold'
<1> SUFFICES ASSUME NEW k \in {"ocr", "grade"}, NEW d \in Days PROVE spent'[k][d] <= Limit[k]
  BY DEF ScriptsHold
<1>0. k \in Counters /\ k \in Kinds /\ spent[k][d] \in Nat /\ Limit[k] \in Nat /\ spent[k][d] <= Limit[k]
  BY QuotaAssumption DEF ScriptsHold, QuotaShape, QuotaTypeOK, Counters, Kinds
<1>1. \/ spent'[k][d] = spent[k][d]
      \/ spent'[k][d] = spent[k][d] + 1 /\ spent[k][d] < Limit[k]
  BY <1>0, LateMoves
<1>. QED BY <1>0, <1>1

-----------------------------------------------------------------------------
(* The images of a day, counted in memory.                                   *)

ImagesInMemory ==
  store = "memory" =>
    \A d \in Days : /\ shown[d] = spent["chat_images"][d]
                    /\ shown[d] + Batch * Cardinality(AddingOn(d))
                         <= Limit["chat_images"] + Batch * Others

(* Requests between the check and the count overshoot by a batch each.       *)
LEMMA ImagesStep ==
  ASSUME QuotaShape, QuotaShape', ImagesInMemory, NEW l \in QLane, BeginRequest(l) \/ QuotaStep(l), OneLane(l)
  PROVE  ImagesInMemory'
<1> SUFFICES ASSUME store = "memory", NEW d \in Days
             PROVE  /\ shown'[d] = spent'["chat_images"][d]
                    /\ shown'[d] + Batch * Cardinality(AddingOn(d)')
                         <= Limit["chat_images"] + Batch * Others
  BY DEF ImagesInMemory, OneLane
<1> DEFINE x == spent["chat_images"][d]
           x1 == spent'["chat_images"][d]
           w == shown[d]
           w1 == shown'[d]
           n == Cardinality(AddingOn(d))
           n1 == Cardinality(AddingOn(d)')
           L == Limit["chat_images"]
<1>0. "chat_images" \in Counters /\ L \in Nat /\ Batch \in Nat /\ Others \in Nat /\ giveUps = 0
  BY QuotaAssumption, LanesCounted DEF Counters, Kinds, QuotaShape, LimboKnown, Others
<1>1. /\ x \in Nat /\ w \in Nat /\ w1 \in Nat /\ x1 \in Nat /\ n \in 0 .. (Others + 1) /\ n1 \in 0 .. (Others + 1)
      /\ w = x /\ w + Batch * n <= L + Batch * Others
  <2>1. AddingOn(d)' \in SUBSET QLane /\ AddingOn(d) \in SUBSET QLane
    BY SetsMove
  <2>. QED BY <1>0, <2>1, LanesCounted DEF ImagesInMemory, QuotaShape, QuotaTypeOK
<1>2. /\ l \in AddingOn(d) /\ l \notin AddingOn(d)' => n1 = n - 1
      /\ l \notin AddingOn(d) /\ l \in AddingOn(d)' => n1 = n + 1 /\ n <= Others
      /\ (l \in AddingOn(d) <=> l \in AddingOn(d)') => n1 = n
  <2>1. /\ AddingOn(d) \in SUBSET QLane /\ AddingOn(d)' \in SUBSET QLane
        /\ AddingOn(d) \ {l} = AddingOn(d)' \ {l}
    BY SetsMove
  <2>2. /\ l \in AddingOn(d) /\ l \notin AddingOn(d)' => n1 = n - 1
        /\ l \notin AddingOn(d) /\ l \in AddingOn(d)' => n1 = n + 1
        /\ (l \in AddingOn(d) <=> l \in AddingOn(d)') => n1 = n
    BY <2>1, LanesMove
  <2> HIDE DEF n, n1
  <2>. QED BY <1>0, <1>1, <2>2
<1>3. ~Drops(Command(l)) /\ (Keeps => x1 = x)
  BY DEF Drops, Keeps
<1>4. \A c \in Counters, y \in Days, k \in Nat : Takes(c, y, k) =>
        x1 = x + (IF c = "chat_images" /\ y = d THEN k ELSE 0)
  BY <1>0, CounterMoves
<1> HIDE DEF x, x1, w, w1, n, n1, L
<1>5. ASSUME x1 = x, w1 = w, n1 <= n
      PROVE  w1 = x1 /\ w1 + Batch * n1 <= L + Batch * Others
  <2>1. Batch * n1 <= Batch * n /\ Batch * n1 \in Int /\ Batch * n \in Int /\ Batch * Others \in Int
    BY <1>0, <1>1, <1>5, Weighs
  <2>. QED BY <1>0, <1>1, <1>5, <2>1
<1>6. SUFFICES w1 = x1 /\ w1 + Batch * n1 <= L + Batch * Others
  BY DEF x1, w1, n1, L
<1>7. CASE BeginRequest(l) \/ Peek(l) \/ Work(l) \/ Gate(l)
  <2>1. Keeps /\ shown' = shown
    BY <1>7, BeginEffect, PeekEffect, WorkEffect, GateEffect
  <2>2. w1 = w
    BY <2>1 DEF w, w1
  <2>3. n1 = n
    <3>1. d \in Int /\ today \in Int
      BY DEF QuotaShape, QuotaTypeOK, Days
    <3>2. l \notin AddingOn(d) /\ l \notin AddingOn(d)'
      <4>1. qstep[l] # "addImages"
        BY <1>7 DEF BeginRequest, Peek, Work, Gate
      <4>2. qstep'[l] # "addImages"
        BY <1>7 DEF BeginRequest, Peek, Work, Gate, QGoto, QuotaShape, QuotaTypeOK
      <4>. QED BY <4>1, <4>2 DEF AddingOn
    <3>. QED BY <1>2, <3>2
  <2>. QED BY <1>1, <1>3, <1>5, <2>1, <2>2, <2>3
<1>8. CASE ChargeTurn(l) \/ ChargeCost(l)
  <2>1. qstep[l] \in {"charge", "chargeCost"} /\ Add(l) /\ shown' = shown
        /\ qstep'[l] \in {"chargeCost", "idle"}
    BY <1>8 DEF ChargeTurn, ChargeCost, QGoto, QuotaShape, QuotaTypeOK
  <2>2. w1 = w
    BY <2>1 DEF w, w1
  <2>3. n1 = n
    BY <1>2, <2>1 DEF AddingOn
  <2>4. Command(l).counter # "chat_images" /\ Command(l).counter \in Counters /\ Command(l).delta \in Nat
        /\ qday[l] \in Days
    BY <2>1, CommandOf DEF LimboCommand, QuotaShape, QuotaTypeOK
  <2>5. Takes(Command(l).counter, qday[l], Command(l).delta)
    BY <1>3, <2>1, AddEffect
  <2>6. x1 = x
    BY <1>1, <1>4, <2>4, <2>5
  <2>. QED BY <1>1, <1>5, <2>2, <2>3, <2>6
<1>9. CASE ConsumeUnit(l)
  <2>1. qjob[l] \in Counters /\ qjob[l] # "chat_images" /\ qday[l] \in Days /\ 1 \in Nat
        /\ qstep[l] = "consume" /\ qstep'[l] \in {"consume", "work", "idle"}
    BY <1>9 DEF ConsumeUnit, AfterConsume, QGoto, QuotaShape, QuotaTypeOK, LanesKnown, LaneFits, Counters, Kinds
  <2>2. w1 = w
    BY <1>9, ConsumeEffect DEF w, w1
  <2>3. n1 = n
    BY <1>2, <2>1 DEF AddingOn
  <2>4. Keeps \/ Takes(qjob[l], qday[l], 1)
    BY <1>3, <1>9, ConsumeEffect
  <2>5. x1 = x
    BY <1>1, <1>3, <1>4, <2>1, <2>4
  <2>. QED BY <1>1, <1>5, <2>2, <2>3, <2>5
<1>10. CASE AddImages(l)
  <2>1. qstep[l] = "addImages" /\ Add(l) /\ Show(l) /\ qday[l] \in Days /\ qstep'[l] = "work"
    BY <1>10 DEF AddImages, QGoto, QuotaShape, QuotaTypeOK
  <2>2. Command(l).counter = "chat_images" /\ Command(l).delta = Batch
    BY <2>1 DEF Command
  <2>3. Takes("chat_images", qday[l], Batch)
    BY <1>3, <2>1, <2>2, AddEffect
  <2>4. x1 = x + (IF qday[l] = d THEN Batch ELSE 0)
    BY <1>0, <1>4, <2>1, <2>3
  <2>5. w1 = w + (IF qday[l] = d THEN Batch ELSE 0)
    BY <1>0, <1>1, <2>1 DEF Show, w, w1, QuotaShape, QuotaTypeOK
  <2>6. CASE qday[l] # d
    <3>1. n1 = n
      BY <1>2, <2>1, <2>6 DEF AddingOn
    <3>. QED BY <1>0, <1>1, <1>5, <2>4, <2>5, <2>6, <3>1
  <2>7. CASE qday[l] = d
    <3>1. n1 = n - 1
      BY <1>2, <2>1, <2>7 DEF AddingOn
    <3>2. n = n1 + 1 /\ n1 \in Int /\ 1 \in Int
      BY <1>1, <3>1
    <3>3. Batch * n = Batch * n1 + Batch * 1 /\ Batch * n1 \in Int /\ Batch * 1 = Batch /\ Batch * Others \in Int
      BY <1>0, <3>2, Weighs
    <3>. QED BY <1>0, <1>1, <2>4, <2>5, <2>7, <3>3
  <2>. QED BY <2>6, <2>7
<1>11. CASE CheckImages(l)
  <2>1. Keeps /\ shown' = shown /\ qstep[l] = "images" /\ qday' = qday
        /\ qstep'[l] = IF spent["chat_images"][qday[l]] + Batch > Limit["chat_images"] THEN "idle" ELSE "addImages"
    BY <1>0, <1>11, CheckImagesEffect, QuotaAssumption
       DEF CheckImages, Missing, CanGiveUp, QGoto, QuotaShape, QuotaTypeOK
  <2>2. w1 = w /\ x1 = x
    BY <1>3, <2>1 DEF w, w1
  <2>3. l \notin AddingOn(d)
    BY <2>1 DEF AddingOn
  <2>4. CASE l \notin AddingOn(d)'
    BY <1>1, <1>2, <1>5, <2>2, <2>3, <2>4
  <2>5. CASE l \in AddingOn(d)'
    <3>1. ~(x + Batch > L) /\ n1 = n + 1 /\ n <= Others
      BY <1>2, <2>1, <2>3, <2>5 DEF AddingOn, x, L
    <3>2. n1 \in Int /\ n \in Int /\ 1 \in Int /\ Others \in Int
      BY <1>0, <1>1
    <3>3. /\ Batch * n1 = Batch * n + Batch * 1 /\ Batch * n <= Batch * Others /\ Batch * n \in Int
          /\ Batch * 1 = Batch /\ Batch * Others \in Int
      BY <1>0, <3>1, <3>2, Weighs
    <3>. QED BY <1>0, <1>1, <2>2, <3>1, <3>3
  <2>. QED BY <2>4, <2>5
<1>. QED BY <1>7, <1>8, <1>9, <1>10, <1>11 DEF QuotaStep

(* In memory no command is in limbo.                                         *)
LEMMA ImagesLate == ASSUME QuotaShape, ImagesInMemory, LandsLate \/ Lost PROVE ImagesInMemory'
<1>1. store' = store /\ limbo # {}
  BY LateMoves
<1>. QED BY <1>1 DEF QuotaShape, LimboKnown, ImagesInMemory

-----------------------------------------------------------------------------
(* The turns that succeeded.                                                 *)

Charged ==
  SumFunction(spent["chat"]) + dropped + Cardinality(LimboTurns) + Cardinality(Charging) = wins

(* The sum of a counter over the days moves with it.                         *)
LEMMA TurnsAddUp ==
  ASSUME QuotaShape, QuotaShape'
  PROVE  /\ SumFunction(spent["chat"]) \in Int
         /\ spent'["chat"] = spent["chat"] => SumFunction(spent'["chat"]) = SumFunction(spent["chat"])
         /\ \A d \in Days, n \in Int :
              Spend("chat", d, n) => SumFunction(spent'["chat"]) = SumFunction(spent["chat"]) + n
<1>1. spent["chat"] \in [Days -> Int] /\ spent'["chat"] \in [Days -> Int] /\ IsFiniteSet(Days)
  <2>1. MaxDay \in Int /\ 1 \in Int
    BY QuotaAssumption
  <2>2. IsFiniteSet(Days)
    BY <2>1, FS_Interval DEF Days
  <2>. QED BY <2>2 DEF QuotaShape, QuotaTypeOK, Counters, Kinds
<1>2. SumFunction(spent["chat"]) \in Int
  BY <1>1, SumIsAnInteger
<1>3. ASSUME NEW d \in Days, NEW n \in Int, Spend("chat", d, n)
      PROVE  SumFunction(spent'["chat"]) = SumFunction(spent["chat"]) + n
  <2> DEFINE h == spent["chat"]
             k == spent'["chat"]
  <2>1. k = [h EXCEPT ![d] = @ + n]
    BY <1>3 DEF Spend, QuotaShape, QuotaTypeOK, Counters, Kinds
  <2>2. h \in [Days -> Int] /\ k \in [Days -> Int] /\ SumFunction(h) \in Int
    BY <1>1, <1>2
  <2> HIDE DEF h, k
  <2>3. k[d] = h[d] + n /\ \A y \in Days : y # d => h[y] = k[y]
    BY <2>1, <2>2
  <2>4. SumFunction(k) = SumFunction(h) + k[d] - h[d]
    BY <1>1, <2>2, <2>3, SumMoves
  <2>5. SumFunction(k) = SumFunction(h) + n
    BY <2>2, <2>3, <2>4
  <2>. QED BY <2>5 DEF h, k
<1>. QED BY <1>2, <1>3

(* The turns that succeeded are charged, being charged, in limbo or lost.    *)
LEMMA ChargedStep ==
  ASSUME QuotaShape, QuotaShape', Charged, NEW l \in QLane, BeginRequest(l) \/ QuotaStep(l), OneLane(l)
  PROVE  Charged'
<1> DEFINE t == SumFunction(spent["chat"])
           t1 == SumFunction(spent'["chat"])
           i == Cardinality(LimboTurns)
           i1 == Cardinality(LimboTurns')
           n == Cardinality(Charging)
           n1 == Cardinality(Charging')
           w1 == wins'
<1>1. /\ t \in Int /\ t1 \in Int /\ i \in Int /\ n \in Int /\ n1 \in Int /\ dropped \in Int
      /\ wins \in Int /\ t + dropped + i + n = wins
  <2>1. LimboTurns \in SUBSET limbo /\ Charging \in SUBSET QLane /\ Charging' \in SUBSET QLane
    BY DEF LimboTurns, Charging
  <2>2. i \in Int /\ n \in Int /\ n1 \in Int
    BY <2>1, LimboCounted, LanesCounted
  <2>3. t1 \in Int
    <3>1. spent'["chat"] \in [Days -> Int] /\ MaxDay \in Int /\ 1 \in Int
      BY QuotaAssumption DEF QuotaShape, QuotaTypeOK, Counters, Kinds
    <3>2. IsFiniteSet(Days)
      BY <3>1, FS_Interval DEF Days
    <3>. QED BY <3>1, <3>2, SumIsAnInteger
  <2>. QED BY <2>2, <2>3, TurnsAddUp DEF Charged, QuotaShape, QuotaTypeOK
<1>2. /\ l \in Charging /\ l \notin Charging' => n1 = n - 1
      /\ l \notin Charging /\ l \in Charging' => n1 = n + 1
      /\ (l \in Charging <=> l \in Charging') => n1 = n
  <2>1. Charging \in SUBSET QLane /\ Charging' \in SUBSET QLane /\ Charging \ {l} = Charging' \ {l}
    BY SetsMove
  <2>. QED BY <2>1, LanesMove
<1>3. dropped' = dropped
  BY BeginEffect, GateEffect, CheckImagesEffect, PeekEffect, WorkEffect, ConsumeEffect
     DEF QuotaStep, AddImages, ChargeTurn, ChargeCost
<1>4. Keeps => t1 = t /\ i1 = i
  BY TurnsAddUp, LimboSame DEF Keeps
<1>5. \A c \in Counters, x \in Days, k \in Nat : Takes(c, x, k) =>
        t1 = t + (IF c = "chat" THEN k ELSE 0) /\ i1 = i
  <2> SUFFICES ASSUME NEW c \in Counters, NEW x \in Days, NEW k \in Nat, Takes(c, x, k)
               PROVE  t1 = t + (IF c = "chat" THEN k ELSE 0) /\ i1 = i
    OBVIOUS
  <2>1. Spend(c, x, k) /\ limbo' = limbo
    BY DEF Takes
  <2>2. i1 = i
    BY <2>1, LimboSame
  <2>3. CASE c = "chat"
    <3>1. t1 = t + k
      BY <2>1, <2>3, TurnsAddUp
    <3>. QED BY <2>2, <2>3, <3>1
  <2>4. CASE c # "chat"
    <3>1. spent'["chat"] = spent["chat"]
      BY <2>1, <2>4 DEF Spend, QuotaShape, QuotaTypeOK, Counters, Kinds
    <3>2. t1 = t
      BY <3>1
    <3> HIDE DEF t, t1
    <3>. QED BY <1>1, <2>2, <2>4, <3>2
  <2>. QED BY <2>3, <2>4
<1>6. qstep[l] \in {"addImages", "charge", "chargeCost", "consume"} /\ Drops(Command(l)) =>
        t1 = t /\ i1 = i + (IF Command(l).counter = "chat" THEN 1 ELSE 0)
  <2> SUFFICES ASSUME qstep[l] \in {"addImages", "charge", "chargeCost", "consume"}, Drops(Command(l))
               PROVE  t1 = t /\ i1 = i + (IF Command(l).counter = "chat" THEN 1 ELSE 0)
    OBVIOUS
  <2>1. t1 = t
    BY DEF Drops
  <2>2. i1 = i + (IF Command(l).counter = "chat" THEN 1 ELSE 0)
    BY DropsCount
  <2>. QED BY <2>1, <2>2
<1> HIDE DEF t, t1, i, i1, n, n1, w1
<1>7. SUFFICES t1 + dropped + i1 + n1 = w1
  BY <1>3 DEF Charged, t1, i1, n1, w1
<1>0. today \in Days /\ today <= today /\ w1 = wins'
  BY DEF QuotaShape, QuotaTypeOK, Days, w1
<1>8. CASE BeginRequest(l) \/ Peek(l) \/ CheckImages(l) \/ Gate(l)
  <2>1. Keeps /\ w1 = wins
    BY <1>0, <1>8, BeginEffect, PeekEffect, CheckImagesEffect, GateEffect
  <2>2. n1 = n
    BY <1>0, <1>2, <1>8, Passes
  <2>. QED BY <1>1, <1>4, <2>1, <2>2
<1>9. CASE Work(l)
  <2>1. Keeps /\ l \notin Charging /\ (l \in Charging' <=> qstep'[l] = "charge")
    BY <1>0, <1>9, WorkEffect, Passes
  <2>2. \/ qstep'[l] = "charge" /\ w1 = wins + 1
        \/ qstep'[l] # "charge" /\ w1 = wins
    BY <1>0, <1>9 DEF Work, QGoto, QuotaShape, QuotaTypeOK
  <2>. QED BY <1>1, <1>2, <1>4, <2>1, <2>2
<1>10. CASE AddImages(l) \/ ChargeCost(l)
  <2>1. qstep[l] \in {"addImages", "chargeCost"} /\ Add(l) /\ w1 = wins
    BY <1>0, <1>10 DEF AddImages, ChargeCost
  <2>2. n1 = n
    BY <1>0, <1>2, <1>10, Passes
  <2>3. Command(l).counter # "chat" /\ Command(l).counter \in Counters /\ Command(l).delta \in Nat
        /\ qday[l] \in Days
    BY <2>1, CommandOf DEF LimboCommand, QuotaShape, QuotaTypeOK
  <2>4. t1 = t /\ i1 = i
    BY <1>1, <1>5, <1>6, <2>1, <2>3, AddEffect
  <2>. QED BY <1>1, <2>1, <2>2, <2>4
<1>11. CASE ChargeTurn(l)
  <2>1. qstep[l] = "charge" /\ Add(l) /\ w1 = wins
    BY <1>0, <1>11 DEF ChargeTurn
  <2>2. n1 = n - 1
    BY <1>0, <1>2, <1>11, Passes
  <2>3. Command(l).counter = "chat" /\ Command(l).delta = 1 /\ qday[l] \in Days /\ "chat" \in Counters /\ 1 \in Nat
    BY <2>1, CommandOf DEF QuotaShape, QuotaTypeOK, Counters, Kinds
  <2>4. \/ t1 = t + 1 /\ i1 = i
        \/ t1 = t /\ i1 = i + 1
    BY <1>5, <1>6, <2>1, <2>3, AddEffect
  <2>. QED BY <1>1, <2>1, <2>2, <2>4
<1>12. CASE ConsumeUnit(l)
  <2>1. qstep[l] = "consume" /\ qjob[l] # "chat" /\ qday[l] \in Days /\ qjob[l] \in Counters /\ 1 \in Nat
    BY <1>12 DEF ConsumeUnit, QuotaShape, QuotaTypeOK, LanesKnown, LaneFits, Counters, Kinds
  <2>2. n1 = n /\ w1 = wins
    BY <1>0, <1>2, <1>12, Passes, ConsumeEffect
  <2>3. Command(l).counter # "chat"
    BY <2>1, CommandOf
  <2>4. t1 = t /\ i1 = i
    <3>1. \/ Keeps \/ Drops(Command(l)) \/ Takes(qjob[l], qday[l], 1)
      BY <1>12, ConsumeEffect
    <3>. QED BY <1>1, <1>4, <1>5, <1>6, <2>1, <2>3, <3>1
  <2>. QED BY <1>1, <2>2, <2>4
<1>. QED BY <1>8, <1>9, <1>10, <1>11, <1>12 DEF QuotaStep

(* A command out of limbo is charged or lost.                                *)
LEMMA ChargedLate == ASSUME QuotaShape, QuotaShape', Charged, LandsLate \/ Lost PROVE Charged'
<1> DEFINE t == SumFunction(spent["chat"])
           t1 == SumFunction(spent'["chat"])
           i == Cardinality(LimboTurns)
           i1 == Cardinality(LimboTurns')
           n == Cardinality(Charging)
           r1 == dropped'
<1>1. /\ t \in Int /\ i \in Int /\ n \in Int /\ dropped \in Int /\ wins \in Int /\ t + dropped + i + n = wins
  <2>1. LimboTurns \in SUBSET limbo /\ Charging \in SUBSET QLane
    BY DEF LimboTurns, Charging
  <2>2. i \in Int /\ n \in Int
    BY <2>1, LimboCounted, LanesCounted
  <2>. QED BY <2>2, TurnsAddUp DEF Charged, QuotaShape, QuotaTypeOK
<1>2. wins' = wins /\ Charging' = Charging
  BY LateMoves DEF Charging
<1>3. \E e \in limbo : /\ i1 = i - (IF e.counter = "chat" THEN 1 ELSE 0)
                       /\ \/ r1 = dropped + (IF e.counter = "chat" THEN 1 ELSE 0) /\ t1 = t
                          \/ r1 = dropped /\ t1 = t + (IF e.counter = "chat" THEN 1 ELSE 0)
  <2>1. CASE Lost
    <3>1. PICK e \in limbo :
            /\ limbo' = limbo \ {e} /\ UNCHANGED spent
            /\ dropped' = IF e.counter = "chat" THEN dropped + 1 ELSE dropped
      BY <2>1 DEF Lost
    <3>2. i1 = i - (IF e.counter = "chat" THEN 1 ELSE 0) /\ t1 = t
      BY <3>1, LimboShrinks
    <3>3. r1 = dropped + (IF e.counter = "chat" THEN 1 ELSE 0)
      BY <1>1, <3>1
    <3>. QED BY <3>2, <3>3
  <2>2. CASE LandsLate
    <3>1. PICK e \in limbo :
            /\ limbo' = limbo \ {e} /\ dropped' = dropped
            /\ IF e.capped /\ spent[e.counter][e.day] >= Limit[e.counter]
               THEN UNCHANGED spent
               ELSE Spend(e.counter, e.day, e.delta)
      BY <2>2 DEF LandsLate
    <3>2. i1 = i - (IF e.counter = "chat" THEN 1 ELSE 0)
      BY <3>1, LimboShrinks
    <3>3. /\ e.counter \in Counters /\ e.day \in Days /\ e.delta \in Nat
          /\ e.counter = "chat" => ~e.capped /\ e.delta = 1
      BY DEF QuotaShape, LimboKnown, LimboCommand, CommandFits
    <3>4. CASE e.counter = "chat"
      <4>1. e.day \in Days /\ 1 \in Int /\ Spend("chat", e.day, 1)
        BY <3>1, <3>3, <3>4
      <4>2. t1 = t + 1
        BY <4>1, TurnsAddUp
      <4>. QED BY <3>1, <3>2, <3>4, <4>2
    <3>5. CASE e.counter # "chat"
      <4>1. spent'["chat"] = spent["chat"]
        BY <3>1, <3>5 DEF Spend, QuotaShape, QuotaTypeOK, Counters, Kinds
      <4>2. t1 = t
        BY <4>1
      <4> HIDE DEF t, t1, i, i1
      <4>. QED BY <1>1, <3>1, <3>2, <3>5, <4>2
    <3>. QED BY <3>4, <3>5
  <2>. QED BY <2>1, <2>2
<1>4. Charged' <=> t1 + r1 + i1 + n = wins
  BY <1>2 DEF Charged
<1> HIDE DEF t, t1, i, i1, n, r1
<1>. QED BY <1>1, <1>3, <1>4

-----------------------------------------------------------------------------
(* Together.                                                                 *)

QuotaIInv == QuotaShape /\ TurnsBounded /\ CostsBounded /\ ScriptsHold /\ ImagesInMemory /\ Charged

(* The quota's invariant holds at first.                                     *)
LEMMA QuotaInitIInv == QuotaInit => QuotaIInv
<1> SUFFICES ASSUME QuotaInit PROVE QuotaIInv
  OBVIOUS
<1>0. QuotaShape /\ "chat" \in Counters /\ "cost" \in Counters
  BY QuotaInitShape DEF Counters, Kinds
<1>1. /\ \A c \in Counters, d \in Days : spent[c][d] = 0 /\ Cardinality(LimboOf(c, d)) = 0
      /\ \A d \in Days : /\ Cardinality(TurnsOf(d)) = 0 /\ Cardinality(PayingOn(d)) = 0
                         /\ Cardinality(AddingOn(d)) = 0 /\ shown[d] = 0
      /\ Cardinality(LimboTurns) = 0 /\ Cardinality(Charging) = 0
  <2>1. /\ \A c \in Counters, d \in Days : spent[c][d] = 0 /\ LimboOf(c, d) = {}
        /\ \A d \in Days : TurnsOf(d) = {} /\ PayingOn(d) = {} /\ AddingOn(d) = {} /\ shown[d] = 0
        /\ LimboTurns = {} /\ Charging = {}
    BY DEF QuotaInit, LimboOf, TurnsOf, PayingOn, AddingOn, LimboTurns, Charging, Days
  <2>. QED BY <2>1, FS_EmptySet
<1>2. giveUps = 0 /\ dropped = 0 /\ wins = 0
  BY DEF QuotaInit
<1>3. Limit["chat"] \in Nat /\ Limit["chat_images"] \in Nat /\ CostGuard \in Nat /\ TurnCost \in Nat
      /\ Batch \in Nat /\ Others \in Nat /\ TurnCost * (Others + 0 + 1) >= 0 /\ Batch * Others >= 0
  <2>1. {} \in SUBSET QLane
    OBVIOUS
  <2>2. Others \in Nat /\ TurnCost \in Nat /\ Batch \in Nat
    BY <2>1, QuotaAssumption, LanesCounted
  <2>3. \A a, b \in Nat : a * b >= 0
    OBVIOUS
  <2>. QED BY <2>2, <2>3, QuotaAssumption DEF Kinds
<1>4. TurnsBounded
  BY <1>0, <1>1, <1>2, <1>3 DEF TurnsBounded, TurnsWithin
<1>5. CostsBounded
  BY <1>0, <1>1, <1>2, <1>3 DEF CostsBounded, CostFollows, CostWithin
<1>6. ScriptsHold
  BY <1>1, QuotaAssumption DEF ScriptsHold, Counters, Kinds
<1>7. ImagesInMemory
  BY <1>1, <1>3 DEF ImagesInMemory, Counters, Kinds
<1>8. Charged
  <2>1. spent["chat"] = [d \in Days |-> 0] /\ MaxDay \in Int /\ 1 \in Int
    BY QuotaAssumption DEF QuotaInit, Counters, Kinds
  <2>2. IsFiniteSet(Days)
    BY <2>1, FS_Interval DEF Days
  <2>3. SumFunction(spent["chat"]) = 0
    BY <2>1, <2>2, SumOfNothing
  <2>. QED BY <1>1, <1>2, <2>3 DEF Charged
<1>. QED BY <1>0, <1>4, <1>5, <1>6, <1>7, <1>8 DEF QuotaIInv

(* Every step of a request touches one lane.                                 *)
LEMMA StepsOneLane ==
  ASSUME QuotaShape, NEW l \in QLane, BeginRequest(l) \/ QuotaStep(l)
  PROVE  OneLane(l)
BY BeginLane, GateLane, CheckImagesLane, AddImagesLane, PeekLane, WorkLane, ChargeLane, ConsumeLane
   DEF QuotaStep

(* The quota's invariant is inductive.                                       *)
LEMMA QuotaNextIInv == QuotaIInv /\ [QuotaNext]_quotaVars => QuotaIInv'
<1> SUFFICES ASSUME QuotaIInv, [QuotaNext]_quotaVars PROVE QuotaIInv'
  OBVIOUS
<1>0. QuotaShape /\ QuotaShape' /\ TurnsBounded /\ CostsBounded /\ ScriptsHold /\ ImagesInMemory /\ Charged
  BY QuotaNextShape DEF QuotaIInv
<1>1. CASE UNCHANGED quotaVars
  <2>1. TurnsBounded' /\ CostsBounded' /\ ScriptsHold' /\ ImagesInMemory' /\ Charged'
    BY <1>0, <1>1 DEF quotaVars, TurnsBounded, TurnsWithin, CostsBounded, CostFollows, CostWithin,
       ScriptsHold, ImagesInMemory, Charged, TurnsOf, PayingOn, AddingOn, Charging, LimboOf, LimboTurns
  <2>. QED BY <1>0, <2>1 DEF QuotaIInv
<1>2. CASE LandsLate \/ Lost
  <2>1. today' = today
    BY <1>0, <1>2, LateMoves
  <2>2. TurnsBounded'
    BY <1>0, <1>2, <2>1, TurnsLateWithin DEF TurnsBounded
  <2>3. CostsBounded'
    BY <1>0, <1>2, <2>1, CostLateWithin DEF CostsBounded
  <2>. QED BY <1>0, <1>2, <2>2, <2>3, ScriptsLate, ImagesLate, ChargedLate DEF QuotaIInv
<1>3. CASE Midnight
  <2>1. TurnsBounded' /\ CostsBounded'
    BY <1>0, <1>3, TurnsMidnightWithin, CostMidnightWithin DEF TurnsBounded, CostsBounded
  <2>2. ScriptsHold' /\ ImagesInMemory' /\ Charged'
    BY <1>0, <1>3 DEF Midnight, ScriptsHold, ImagesInMemory, Charged, AddingOn, Charging, LimboTurns
  <2>. QED BY <1>0, <2>1, <2>2 DEF QuotaIInv
<1>4. ASSUME NEW l \in QLane, BeginRequest(l) \/ QuotaStep(l)
      PROVE  QuotaIInv'
  <2>1. OneLane(l) /\ today' = today
    BY <1>0, <1>4, StepsOneLane DEF OneLane
  <2>2. TurnsBounded'
    BY <1>0, <1>4, <2>1, TurnsStepWithin DEF TurnsBounded
  <2>3. CostsBounded'
    BY <1>0, <1>4, <2>1, CostStepWithin DEF CostsBounded
  <2>. QED BY <1>0, <1>4, <2>1, <2>2, <2>3, ScriptsStep, ImagesStep, ChargedStep DEF QuotaIInv
<1>. QED BY <1>1, <1>2, <1>3, <1>4 DEF QuotaNext

(* It gives the types, the limits and the charge per success.                *)
LEMMA QuotaIInvHolds == QuotaIInv => QuotaTypeOK /\ LimitsHold /\ ChargedOncePerSuccess
<1> SUFFICES ASSUME QuotaIInv PROVE QuotaTypeOK /\ LimitsHold /\ ChargedOncePerSuccess
  OBVIOUS
<1>0. QuotaShape /\ "chat" \in Counters /\ "cost" \in Counters /\ today \in Int /\ Days \subseteq Int
      /\ Others \in Nat /\ giveUps \in Nat /\ TurnCost \in Nat /\ CostGuard \in Nat /\ Batch \in Nat
      /\ Limit["chat"] \in Nat /\ Limit["chat_images"] \in Nat
  <2>1. {} \in SUBSET QLane
    OBVIOUS
  <2>2. Others \in Nat
    BY <2>1, LanesCounted
  <2>3. QuotaShape /\ today \in Days /\ giveUps \in 0 .. MaxGiveUps
    BY DEF QuotaIInv, QuotaShape, QuotaTypeOK
  <2>4. Limit["chat"] \in Nat /\ Limit["chat_images"] \in Nat
    BY QuotaAssumption DEF Kinds
  <2>5. "chat" \in Counters /\ "cost" \in Counters /\ Days \subseteq Int
    BY DEF Counters, Kinds, Days
  <2>. QED BY <2>2, <2>3, <2>4, <2>5, QuotaAssumption
<1>1. ChargedOncePerSuccess
  BY DEF QuotaIInv, Charged, LimboTurns, Charging, ChargedOncePerSuccess
<1>2. ASSUME NEW d \in Days
      PROVE  spent["chat"][d] <= Limit["chat"] + Others + giveUps
  <2>1. spent["chat"][d] \in Nat /\ Cardinality(LimboOf("chat", d)) \in Nat /\ Cardinality(TurnsOf(d)) \in Nat
    BY <1>0, DayNumbers
  <2>2. CASE d <= today
    BY <1>0, <2>1, <2>2 DEF QuotaIInv, TurnsBounded, TurnsWithin
  <2>3. CASE d > today
    BY <1>0, <2>3 DEF QuotaShape, DaysToComeAreEmpty
  <2>. QED BY <1>0, <2>2, <2>3
<1>3. ASSUME NEW d \in Days, CostGuard > 0
      PROVE  spent["cost"][d] <= CostGuard + TurnCost * (Others + giveUps + 1)
  <2> DEFINE i == Cardinality(LimboOf("cost", d))
             n == Cardinality(TurnsOf(d))
             p == Cardinality(PayingOn(d))
             u == i + p + n
             v == Others + giveUps + 1
  <2>1. spent["cost"][d] \in Nat /\ i \in Nat /\ n \in Nat /\ p \in Nat
    BY <1>0, DayNumbers
  <2> HIDE DEF i, n, p
  <2>2. u \in Nat /\ v \in Nat
    BY <1>0, <2>1
  <2>3. d <= today => spent["cost"][d] + TurnCost * u <= CostGuard + TurnCost * v
    BY <1>3 DEF QuotaIInv, CostsBounded, CostWithin, i, n, p
  <2>4. TurnCost * u \in Nat /\ TurnCost * v \in Nat
    <3> HIDE DEF u, v
    <3>1. \A a, b \in Nat : a * b \in Nat
      OBVIOUS
    <3>. QED BY <1>0, <2>2, <3>1
  <2>5. d > today => spent["cost"][d] = 0
    BY <1>0 DEF QuotaShape, DaysToComeAreEmpty
  <2> HIDE DEF u
  <2>6. spent["cost"][d] <= CostGuard + TurnCost * v
    <3> HIDE DEF v
    <3>. QED BY <1>0, <2>1, <2>3, <2>4, <2>5
  <2>. QED BY <2>6
<1>4. store = "memory" => ImagesBounded
  <2> SUFFICES ASSUME store = "memory", NEW d \in Days
               PROVE  shown[d] <= Limit["chat_images"] + Batch * (Others + giveUps)
    BY DEF ImagesBounded
  <2> DEFINE n == Cardinality(AddingOn(d))
  <2>1. giveUps = 0 /\ shown[d] + Batch * n <= Limit["chat_images"] + Batch * Others
        /\ n \in Nat /\ shown[d] \in Nat
    BY <1>0, DayNumbers DEF QuotaIInv, QuotaShape, QuotaTypeOK, LimboKnown, ImagesInMemory
  <2> HIDE DEF n
  <2>2. Batch * n \in Nat /\ Batch * Others \in Nat /\ Others + giveUps = Others
    <3>1. \A a, b \in Nat : a * b \in Nat
      OBVIOUS
    <3>. QED BY <1>0, <2>1, <3>1
  <2>. QED BY <1>0, <2>1, <2>2
<1>5. LimitsHold
  BY <1>2, <1>3, <1>4 DEF LimitsHold, QuotaIInv, ScriptsHold
<1>. QED BY <1>1, <1>5 DEF QuotaIInv, QuotaShape

-----------------------------------------------------------------------------
(* The context of an agent.                                                  *)

(* The compression of a context, with the numbers it has read.               *)
CJob == [step : {"idle", "count", "look", "list", "save", "trim", "write"}, total : Nat, already : Nat,
         base : SUBSET Nat, picked : SUBSET Nat, kept : Seq(Nat)]

(* Entries that have been appended.                                          *)
Entered(s) == Len(s) <= appended /\ \A i \in 1 .. Len(s) : s[i] \in 1 .. appended

ContextShape ==
  /\ appended \in 0 .. MaxEntries /\ entries \in Seq(Nat) /\ Entered(entries)
  /\ told \subseteq 1 .. appended /\ pruned \subseteq 1 .. appended
  /\ counted \in 0 .. appended /\ (counted > 0 => counted + AgentKeep <= appended)

JobShape ==
  /\ cjob \in CJob /\ Entered(cjob.kept) /\ cjob.total <= appended
  /\ cjob.base \subseteq 1 .. appended /\ cjob.picked \subseteq 1 .. appended
  /\ cjob.step \in {"look", "list"} => cjob.total <= Len(entries)
  /\ cjob.step \in {"list", "save"} => SummaryTarget >= 1

ContextIInv == ContextShape /\ JobShape /\ RecentIsLatest

(* The context's invariant holds at first.                                   *)
LEMMA ContextInitIInv == ContextInit => ContextIInv
<1> SUFFICES ASSUME ContextInit PROVE ContextIInv
  OBVIOUS
<1>1. ContextShape
  BY ContextAssumption DEF ContextInit, ContextShape, Entered
<1>2. JobShape
  BY ContextAssumption DEF ContextInit, JobShape, CJob, NoJob, Entered, SummaryTarget
<1>3. RecentIsLatest
  BY ContextAssumption DEF ContextInit, RecentIsLatest
<1>. QED BY <1>1, <1>2, <1>3 DEF ContextIInv

(* The record of no job.                                                     *)
LEMMA JobBegins == NoJob \in CJob /\ NoJob.kept = <<>> /\ NoJob.total = 0 /\ NoJob.base = {}
                   /\ NoJob.picked = {} /\ NoJob.step = "idle"
BY DEF NoJob, CJob

(* The shape of no job.                                                      *)
LEMMA NoJobKeeps == ASSUME cjob' = NoJob, appended' \in Nat PROVE JobShape'
<1>1. Entered(cjob.kept)'
  BY JobBegins DEF Entered
<1>. QED BY <1>1, JobBegins DEF JobShape

(* The latest of a sequence of entries.                                      *)
LEMMA RecentOf ==
  ASSUME NEW s \in Seq(Nat)
  PROVE  /\ Recent(s) \in Seq(Nat)
         /\ Len(Recent(s)) = IF Len(s) > AgentKeep THEN AgentKeep ELSE Len(s)
         /\ Len(Recent(s)) <= Len(s)
         /\ \A i \in 1 .. Len(Recent(s)) : Recent(s)[i] = s[Len(s) - Len(Recent(s)) + i]
<1> DEFINE from == IF Len(s) > AgentKeep THEN Len(s) - AgentKeep + 1 ELSE 1
<1>0. AgentKeep \in Nat \ {0} /\ Len(s) \in Nat
  BY ContextAssumption
<1>1. from \in 1 .. Len(s) + 1
  BY <1>0
<1>2. Recent(s) = SubSeq(s, from, Len(s))
  BY DEF Recent
<1>a. \A i \in from .. Len(s) : s[i] \in Nat
  BY <1>1
<1>b. from \in Int /\ Len(s) \in Int
  BY <1>0, <1>1
<1> DEFINE to == Len(s)
<1> HIDE DEF from, to
<1>c. /\ SubSeq(s, from, to) \in Seq(Nat)
      /\ Len(SubSeq(s, from, to)) = IF from <= to THEN to - from + 1 ELSE 0
      /\ \A i \in 1 .. to - from + 1 : SubSeq(s, from, to)[i] = s[from + i - 1]
  <2>1. from \in Int /\ to \in Int /\ \A i \in from .. to : s[i] \in Nat
    BY <1>a, <1>b DEF to
  <2>. QED BY <2>1, SubSeqProperties
<1>d. (IF from <= to THEN to - from + 1 ELSE 0) = to - from + 1
  <2>1. from \in Int /\ to \in Int /\ from <= to + 1
    BY <1>0, <1>1 DEF to
  <2>. QED BY <2>1
<1>3. Recent(s) \in Seq(Nat) /\ Len(Recent(s)) = Len(s) - from + 1
      /\ \A i \in 1 .. Len(s) - from + 1 : Recent(s)[i] = s[from + i - 1]
  BY <1>2, <1>c, <1>d, Zenon DEF to
<1> USE DEF from
<1>. QED BY <1>0, <1>3

(* An entry is appended.                                                     *)
LEMMA AppendKeeps == ASSUME ContextIInv, AppendEntry PROVE ContextIInv'
<1>0. /\ appended' = appended + 1 /\ appended \in Nat /\ appended' \in 0 .. MaxEntries
      /\ entries' = Append(entries, appended')
      /\ cjob' \in {cjob} \cup (IF cjob.step = "idle" THEN {[NoJob EXCEPT !.step = "count"]} ELSE {})
      /\ UNCHANGED <<told, counted, pruned>> /\ entries \in Seq(Nat)
  BY ContextAssumption DEF AppendEntry, ContextIInv, ContextShape
<1>1. entries' \in Seq(Nat) /\ Len(entries') = Len(entries) + 1
      /\ (\A i \in 1 .. Len(entries) : entries'[i] = entries[i]) /\ entries'[Len(entries) + 1] = appended'
  BY <1>0
<1>2. Entered(entries)'
  BY <1>0, <1>1 DEF ContextIInv, ContextShape, Entered
<1>3. ContextShape'
  BY <1>0, <1>1, <1>2, ContextAssumption DEF ContextIInv, ContextShape
<1>4. JobShape'
  <2>1. CASE cjob' = cjob
    BY <1>0, <1>1, <2>1 DEF ContextIInv, ContextShape, JobShape, CJob, Entered, SummaryTarget
  <2>2. CASE cjob' = [NoJob EXCEPT !.step = "count"]
    <3>1. /\ cjob' \in CJob /\ cjob'.step = "count" /\ cjob'.total = 0 /\ cjob'.kept = <<>>
          /\ cjob'.base = {} /\ cjob'.picked = {}
      <4>1. cjob' = [step |-> "count", total |-> 0, already |-> 0, base |-> {}, picked |-> {}, kept |-> <<>>]
        BY <2>2 DEF NoJob
      <4>. QED BY <4>1 DEF CJob
    <3>2. Entered(cjob.kept)'
      BY <1>0, <3>1 DEF Entered
    <3>. QED BY <1>0, <3>1, <3>2 DEF JobShape
  <2>. QED BY <1>0, <2>1, <2>2
<1>5. RecentIsLatest'
  <2> SUFFICES ASSUME late' # "overwritten"
               PROVE  /\ entries' = [i \in 1 .. Len(entries') |-> appended' - Len(entries') + i]
                      /\ Len(entries') >= (IF appended' < AgentKeep THEN appended' ELSE AgentKeep)
    BY DEF RecentIsLatest
  <2>1. late # "overwritten"
    BY DEF AppendEntry
  <2>2. /\ entries = [i \in 1 .. Len(entries) |-> appended - Len(entries) + i]
        /\ Len(entries) >= (IF appended < AgentKeep THEN appended ELSE AgentKeep)
    BY <2>1 DEF ContextIInv, RecentIsLatest
  <2>3. \A i \in 1 .. Len(entries') : entries'[i] = appended' - Len(entries') + i
    <3> TAKE i \in 1 .. Len(entries')
    <3>1. CASE i = Len(entries) + 1
      BY <1>0, <1>1, <3>1
    <3>2. CASE i \in 1 .. Len(entries)
      <4>1. entries[i] = appended - Len(entries) + i
        BY <2>2, <3>2
      <4>. QED BY <1>0, <1>1, <3>2, <4>1
    <3>. QED BY <1>0, <1>1, <3>1, <3>2
  <2>4. entries' = [i \in 1 .. Len(entries') |-> entries'[i]]
    BY <1>1
  <2>. QED BY <1>0, <1>1, <2>2, <2>3, <2>4, ContextAssumption
<1>. QED BY <1>3, <1>4, <1>5 DEF ContextIInv

(* The compression counts the entries.                                       *)
LEMMA CountKeeps == ASSUME ContextIInv, CountEntries PROVE ContextIInv'
<1>1. cjob' = [cjob EXCEPT !.step = "look", !.total = Len(entries)]
      /\ UNCHANGED <<appended, entries, told, counted, late, pruned>> /\ Len(entries) \in Nat
  BY DEF CountEntries, ContextIInv, ContextShape
<1>2. /\ cjob' \in CJob /\ cjob'.step = "look" /\ cjob'.total = Len(entries) /\ cjob'.kept = cjob.kept
      /\ cjob'.base = cjob.base /\ cjob'.picked = cjob.picked
  BY <1>1 DEF ContextIInv, JobShape, CJob
<1>3. JobShape'
  BY <1>1, <1>2 DEF ContextIInv, ContextShape, JobShape, Entered
<1>. QED BY <1>1, <1>3 DEF ContextIInv, ContextShape, RecentIsLatest, Entered

(* It looks what the summary has told already.                               *)
LEMMA LookKeeps == ASSUME ContextIInv, Look PROVE ContextIInv'
<1>1. /\ cjob.step = "look"
      /\ cjob' = IF SummaryTarget - counted < AgentMin THEN NoJob
                 ELSE [cjob EXCEPT !.step = "list", !.already = counted, !.base = told]
      /\ UNCHANGED <<appended, entries, told, counted, late, pruned>>
  BY DEF Look
<1>2. counted \in Nat /\ told \subseteq 1 .. appended /\ appended \in Nat /\ AgentMin \in Nat \ {0} /\ AgentKeep \in Nat
  BY ContextAssumption DEF ContextIInv, ContextShape
<1>3. JobShape'
  <2>1. CASE cjob' = NoJob
    BY <1>1, <1>2, <2>1, NoJobKeeps
  <2>2. CASE ~(SummaryTarget - counted < AgentMin)
    <3>1. /\ cjob' \in CJob /\ cjob'.step = "list" /\ cjob'.total = cjob.total /\ cjob'.kept = cjob.kept
          /\ cjob'.base = told /\ cjob'.picked = cjob.picked /\ cjob.total \in Nat
      <4>1. cjob' = [cjob EXCEPT !.step = "list", !.already = counted, !.base = told]
        BY <1>1, <2>2
      <4>2. told \in SUBSET Nat
        BY <1>2
      <4>. QED BY <1>2, <4>1, <4>2 DEF ContextIInv, JobShape, CJob
    <3>2. cjob'.total - AgentKeep >= 1
      BY <1>2, <2>2, <3>1 DEF SummaryTarget
    <3>. QED BY <1>1, <1>2, <3>1, <3>2 DEF ContextIInv, JobShape, Entered, SummaryTarget
  <2>. QED BY <1>1, <2>1, <2>2
<1>. QED BY <1>1, <1>3 DEF ContextIInv, ContextShape, RecentIsLatest, Entered

(* It lists what is to be summarised.                                        *)
LEMMA ListKeeps == ASSUME ContextIInv, ListEntries PROVE ContextIInv'
<1> DEFINE new == {entries[i] : i \in (cjob.already + 1) .. SummaryTarget}
<1>1. cjob.step = "list" /\ cjob' = [cjob EXCEPT !.step = "save", !.picked = new]
      /\ UNCHANGED <<appended, entries, told, counted, late, pruned>>
  BY DEF ListEntries
<1>2. new \subseteq 1 .. appended
  <2>1. cjob.already \in Nat /\ cjob.total \in Nat /\ cjob.total <= Len(entries) /\ entries \in Seq(Nat)
        /\ AgentKeep \in Nat
    BY <1>1, ContextAssumption DEF ContextIInv, ContextShape, JobShape, CJob
  <2>2. \A i \in (cjob.already + 1) .. SummaryTarget : i \in 1 .. Len(entries)
    BY <2>1 DEF SummaryTarget
  <2>3. \A i \in 1 .. Len(entries) : entries[i] \in 1 .. appended
    BY DEF ContextIInv, ContextShape, Entered
  <2>. QED BY <2>2, <2>3
<1>3. appended \in Nat /\ new \subseteq Nat
  BY <1>2 DEF ContextIInv, ContextShape
<1> HIDE DEF new
<1>4. JobShape'
  BY <1>1, <1>2, <1>3 DEF ContextIInv, JobShape, CJob, Entered, SummaryTarget
<1>. QED BY <1>1, <1>4 DEF ContextIInv, ContextShape, RecentIsLatest, Entered

(* It saves the summary.                                                     *)
LEMMA SaveKeeps == ASSUME ContextIInv, SaveSummary PROVE ContextIInv'
<1>1. cjob.step = "save" /\ told' = cjob.base \cup cjob.picked /\ counted' = SummaryTarget
      /\ cjob' = [cjob EXCEPT !.step = "trim"] /\ UNCHANGED <<appended, entries, late, pruned>>
  BY DEF SaveSummary
<1>2. JobShape'
  BY <1>1 DEF ContextIInv, JobShape, CJob, Entered, SummaryTarget
<1>3. ContextShape'
  BY <1>1, ContextAssumption DEF ContextIInv, ContextShape, JobShape, CJob, Entered, SummaryTarget
<1>. QED BY <1>1, <1>2, <1>3 DEF ContextIInv, RecentIsLatest

(* The trim loads the entries.                                               *)
LEMMA TrimLoadKeeps == ASSUME ContextIInv, TrimLoad PROVE ContextIInv'
<1>1. cjob' = [cjob EXCEPT !.step = "write", !.kept = entries]
      /\ UNCHANGED <<appended, entries, told, counted, late, pruned>>
  BY DEF TrimLoad
<1>2. JobShape'
  BY <1>1 DEF ContextIInv, ContextShape, JobShape, CJob, Entered, SummaryTarget
<1>. QED BY <1>1, <1>2 DEF ContextIInv, ContextShape, RecentIsLatest, Entered

(* It writes back the latest: what came in between is gone, and was told.    *)
LEMMA TrimWriteKeeps == ASSUME ContextIInv, TrimWrite PROVE ContextIInv'
<1> DEFINE s == cjob.kept
           r == Recent(s)
<1>1. /\ cjob.step = "write" /\ entries' = r /\ cjob' = NoJob
      /\ late' = (IF entries # s THEN "overwritten" ELSE late)
      /\ pruned' = pruned \cup (Range(entries) \ Range(r))
      /\ UNCHANGED <<appended, told, counted>>
  BY DEF TrimWrite
<1>2. s \in Seq(Nat) /\ Len(s) <= appended /\ \A i \in 1 .. Len(s) : s[i] \in 1 .. appended
  BY DEF ContextIInv, JobShape, CJob, Entered
<1>3. appended \in Nat /\ AgentKeep \in Nat \ {0}
  BY ContextAssumption DEF ContextIInv, ContextShape
<1>4. /\ r \in Seq(Nat) /\ Len(r) = (IF Len(s) > AgentKeep THEN AgentKeep ELSE Len(s))
      /\ Len(r) <= Len(s) /\ \A i \in 1 .. Len(r) : r[i] = s[Len(s) - Len(r) + i]
  BY <1>2, RecentOf
<1> HIDE DEF r
<1>a. \A i \in 1 .. Len(r) : Len(s) - Len(r) + i \in 1 .. Len(s)
  BY <1>2, <1>4
<1>5. Len(r) <= appended /\ \A i \in 1 .. Len(r) : r[i] \in 1 .. appended
  <2>1. Len(r) <= appended
    BY <1>2, <1>3, <1>4
  <2>. QED BY <2>1, <1>2, <1>4, <1>a
<1>6. Range(entries) \subseteq 1 .. appended
  BY DEF ContextIInv, ContextShape, Entered, Range
<1>7. ContextShape'
  BY <1>1, <1>4, <1>5, <1>6 DEF ContextIInv, ContextShape, Entered
<1>8. JobShape'
  BY <1>1, <1>3, NoJobKeeps
<1>9. RecentIsLatest'
  <2> SUFFICES ASSUME late' # "overwritten"
               PROVE  /\ r = [i \in 1 .. Len(r) |-> appended - Len(r) + i]
                      /\ Len(r) >= (IF appended < AgentKeep THEN appended ELSE AgentKeep)
    BY <1>1 DEF RecentIsLatest
  <2>1. entries = s /\ late # "overwritten"
    BY <1>1
  <2>2. /\ s = [i \in 1 .. Len(s) |-> appended - Len(s) + i]
        /\ Len(s) >= (IF appended < AgentKeep THEN appended ELSE AgentKeep)
    BY <2>1 DEF ContextIInv, RecentIsLatest
  <2> HIDE DEF s
  <2>3. \A i \in 1 .. Len(s) : s[i] = appended - Len(s) + i
    BY <2>2
  <2>4. \A i \in 1 .. Len(r) : r[i] = appended - Len(r) + i
    <3> TAKE i \in 1 .. Len(r)
    <3>1. PICK j \in 1 .. Len(s) : j = Len(s) - Len(r) + i
      BY <1>a
    <3>2. r[i] = appended - Len(s) + j
      BY <1>4, <2>3, <3>1
    <3>. QED BY <1>2, <1>3, <1>4, <3>1, <3>2
  <2>5. r = [i \in 1 .. Len(r) |-> r[i]]
    BY <1>4
  <2>. QED BY <1>2, <1>3, <1>4, <2>2, <2>4, <2>5
<1>. QED BY <1>7, <1>8, <1>9 DEF ContextIInv

(* The context's invariant is inductive.                                     *)
LEMMA ContextNextIInv == ContextIInv /\ [ContextNext]_contextVars => ContextIInv'
<1> SUFFICES ASSUME ContextIInv, [ContextNext]_contextVars PROVE ContextIInv'
  OBVIOUS
<1>1. CASE CompressionFails
  <2>1. cjob' = NoJob /\ UNCHANGED <<appended, entries, told, counted, late, pruned>>
    BY <1>1 DEF CompressionFails
  <2>2. appended \in Nat
    BY DEF ContextIInv, ContextShape
  <2>3. JobShape'
    BY <2>1, <2>2, NoJobKeeps
  <2>. QED BY <2>1, <2>3 DEF ContextIInv, ContextShape, RecentIsLatest, Entered
<1>2. CASE UNCHANGED contextVars
  BY <1>2 DEF contextVars, ContextIInv, ContextShape, JobShape, RecentIsLatest, Entered, SummaryTarget
<1>. QED BY <1>1, <1>2, AppendKeeps, CountKeeps, LookKeeps, ListKeeps, SaveKeeps, TrimLoadKeeps,
     TrimWriteKeeps DEF ContextNext

(* It gives the types.                                                       *)
LEMMA ContextTypes == ContextIInv => ContextTypeOK
<1>1. ContextIInv => Range(entries) \subseteq 1 .. appended
  BY DEF ContextIInv, ContextShape, Entered, Range
<1>. QED BY <1>1 DEF ContextIInv, ContextShape, JobShape, CJob, ContextTypeOK

-----------------------------------------------------------------------------
(* The agents' runs.                                                         *)

Runs == {"idle", "starting", "running", "refused", "clean", "error", "aborted"}
Calls == {"none", "wait tool", "wait delegate"} \cup Tools
Breakers == Tools \cup {"main", "sub"}

(* Every breaker is one of its states with its count.                        *)
BreakersFit ==
  /\ breaker \in [Breakers -> [state : {"closed", "open", "cooled", "half_open"}, fails : 0 .. Threshold]]
  /\ \A b \in Breakers : breaker[b].state = "closed" => breaker[b].fails < Threshold

AgentShape ==
  /\ run \in [P -> Runs] /\ sig \in [P -> BOOLEAN] /\ call \in [P -> Calls]
  /\ calls \in [P -> 0 .. MaxCalls]
  /\ width \in SlotOptions /\ held \in 0 .. width /\ line \in Seq(P)
  /\ gauge \in [{"main", "sub"} -> Nat]

(* Only main agents delegate, and a sub-agent that is waited for is not      *)
(* started before the slot is there.                                         *)
DelegationsFit ==
  /\ \A p \in P : call[p] \in {"delegate", "wait delegate"} => p[2] = "main"
  /\ \A t \in Turn : call[main(t)] = "wait delegate" => run[sub(t)] = "idle"

(* The runs of an agent that have begun.                                     *)
Begun(a) == {t \in Turn : run[<<t, a>>] \notin {"idle", "starting"}}
GaugesFit == \A a \in {"main", "sub"} : gauge[a] <= Cardinality(Begun(a))

AgentIInv == AgentShape /\ BreakersFit /\ GateAccounted /\ DelegationsFit /\ GaugesFit

Executing == {p \in P : call[p] \in Tools}
InLine == {p \in P : call[p] \in {"wait tool", "wait delegate"}}

(* Every agent is the main or the sub-agent of its turn.                     *)
LEMMA AgentsOf ==
  /\ \A t \in Turn : main(t) \in P /\ sub(t) \in P /\ main(t)[1] = t /\ main(t)[2] = "main"
                     /\ sub(t)[1] = t /\ sub(t)[2] = "sub"
  /\ \A p \in P : p[1] \in Turn /\ p[2] \in {"main", "sub"} /\ (p[2] = "main" => p = main(p[1]))
  /\ \A t, u \in Turn : main(t) = main(u) => t = u
BY DEF P, main, sub

(* The agents are finitely many.                                             *)
LEMMA AgentsCounted ==
  /\ IsFiniteSet(P)
  /\ \A A \in SUBSET P : IsFiniteSet(A) /\ Cardinality(A) \in Nat
  /\ \A A \in SUBSET Turn : IsFiniteSet(A) /\ Cardinality(A) \in Nat
  /\ \A A, B \in SUBSET Turn : A \subseteq B => Cardinality(A) <= Cardinality(B)
<1>1. IsFiniteSet({"main", "sub"})
  <2>1. IsFiniteSet({"main"})
    BY FS_Singleton
  <2>2. IsFiniteSet({"main"} \cup {"sub"}) /\ {"main"} \cup {"sub"} = {"main", "sub"}
    BY <2>1, FS_AddElement
  <2>. QED BY <2>2
<1>2. IsFiniteSet(P) /\ IsFiniteSet(Turn)
  BY <1>1, AgentAssumption, FS_Product DEF P
<1>3. \A A \in SUBSET P : IsFiniteSet(A)
  BY <1>2, FS_Subset
<1>4. \A A \in SUBSET Turn : IsFiniteSet(A)
  BY <1>2, FS_Subset
<1>5. ASSUME NEW A \in SUBSET Turn, NEW B \in SUBSET Turn, A \subseteq B
      PROVE  Cardinality(A) <= Cardinality(B)
  BY <1>4, <1>5, FS_Subset
<1>. QED BY <1>2, <1>3, <1>4, <1>5, FS_CardinalityType

(* What a waiting call wants.                                                *)
LEMMA WantedOf == Wanted("wait tool") = "tool" /\ Wanted("wait delegate") = "delegate"
<1>1. Waiting["tool"] = "wait tool" /\ Waiting["delegate"] = "wait delegate"
  BY DEF Waiting
<1>2. \A b \in Tools : Waiting[b] = "wait tool" <=> b = "tool"
  BY <1>1 DEF Tools
<1>3. \A b \in Tools : Waiting[b] = "wait delegate" <=> b = "delegate"
  BY <1>1 DEF Tools
<1>. QED BY <1>2, <1>3 DEF Wanted, Tools

(* The agents' invariant holds at first.                                     *)
LEMMA AgentInitIInv == AgentInit => AgentIInv
<1> SUFFICES ASSUME AgentInit PROVE AgentIInv
  OBVIOUS
<1>1. AgentShape
  <2>1. SlotOptions \subseteq Nat \ {0} /\ MaxCalls \in Nat
    BY AgentAssumption
  <2>2. width \in SlotOptions /\ held = 0 /\ line = <<>>
    BY DEF AgentInit
  <2>. QED BY <2>1, <2>2 DEF AgentInit, AgentShape, Runs, Calls
<1>2. BreakersFit
  BY AgentAssumption DEF AgentInit, BreakersFit, Breakers
<1>3. GateAccounted
  <2>1. {p \in P : call[p] \in Tools} = {} /\ {p \in P : call[p] \in {"wait tool", "wait delegate"}} = {}
    BY DEF AgentInit, Tools
  <2>2. line = <<>> /\ held = 0 /\ Range(line) = {} /\ IsInjective(line)
    BY DEF AgentInit, Range, IsInjective
  <2>. QED BY <2>1, <2>2, FS_EmptySet DEF GateAccounted
<1>4. DelegationsFit
  BY AgentsOf DEF AgentInit, DelegationsFit
<1>5. GaugesFit
  <2>1. \A a \in {"main", "sub"} : gauge[a] = 0 /\ Begun(a) \in SUBSET Turn
    BY DEF AgentInit, Begun
  <2>. QED BY <2>1, AgentsCounted DEF GaugesFit
<1>. QED BY <1>1, <1>2, <1>3, <1>4, <1>5 DEF AgentIInv

-----------------------------------------------------------------------------
(* The breakers.                                                             *)
LEMMA BreakersMove ==
  ASSUME BreakersFit, NEW b \in Breakers,
         \/ breaker' = breaker \/ breaker' = Probe(b) \/ breaker' = Success(b) \/ breaker' = Failure(b)
         \/ Cool(b)
  PROVE  BreakersFit'
<1> DEFINE S == {"closed", "open", "cooled", "half_open"}
<1>0. /\ breaker \in [Breakers -> [state : S, fails : 0 .. Threshold]]
      /\ \A c \in Breakers : breaker[c].state = "closed" => breaker[c].fails < Threshold
      /\ Threshold \in Nat \ {0}
  BY AgentAssumption DEF BreakersFit
<1>1. ASSUME NEW st \in S, NEW n \in 0 .. Threshold, st = "closed" => n < Threshold,
             breaker' = [breaker EXCEPT ![b] = [state |-> st, fails |-> n]]
      PROVE  BreakersFit'
  <2>1. breaker' \in [Breakers -> [state : S, fails : 0 .. Threshold]]
    BY <1>0, <1>1
  <2>2. \A c \in Breakers : breaker'[c].state = "closed" => breaker'[c].fails < Threshold
    BY <1>0, <1>1
  <2>. QED BY <2>1, <2>2 DEF BreakersFit
<1>2. ASSUME NEW st \in S \ {"closed"}, breaker' = [breaker EXCEPT ![b].state = st]
      PROVE  BreakersFit'
  <2>1. breaker[b].fails \in 0 .. Threshold
    BY <1>0
  <2>2. [breaker[b] EXCEPT !.state = st] = [state |-> st, fails |-> breaker[b].fails]
    BY <1>0
  <2>3. breaker' = [breaker EXCEPT ![b] = [state |-> st, fails |-> breaker[b].fails]]
    BY <1>2, <2>2
  <2>. QED BY <1>1, <2>1, <2>3
<1>3. CASE breaker' = breaker
  BY <1>3 DEF BreakersFit
<1>4. CASE breaker' = Probe(b)
  BY <1>2, <1>3, <1>4 DEF Probe
<1>5. CASE breaker' = Success(b)
  <2>1. breaker' = [breaker EXCEPT ![b] = [state |-> "closed", fails |-> 0]] /\ 0 < Threshold /\ 0 \in 0 .. Threshold
    BY <1>0, <1>5 DEF Success
  <2>. QED BY <1>1, <2>1
<1>6. CASE breaker' = Failure(b)
  <2> DEFINE n == IF breaker[b].fails < Threshold THEN breaker[b].fails + 1 ELSE Threshold
             st == IF breaker[b].state = "half_open" \/ n = Threshold THEN "open" ELSE breaker[b].state
  <2>1. breaker' = [breaker EXCEPT ![b] = [state |-> st, fails |-> n]]
    BY <1>6 DEF Failure
  <2>2. n \in 0 .. Threshold /\ st \in S /\ (st = "closed" => n < Threshold)
    BY <1>0
  <2> HIDE DEF n, st
  <2>. QED BY <1>1, <2>1, <2>2
<1>7. CASE Cool(b)
  BY <1>2, <1>7 DEF Cool
<1>. QED BY <1>3, <1>4, <1>5, <1>6, <1>7

-----------------------------------------------------------------------------
(* The gate.                                                                 *)

(* What a step of the gate leaves: its books, the shape of what it changed   *)
(* and the sub-agents that are waited for.                                   *)
GateMoves ==
  /\ call' \in [P -> Calls] /\ held' \in 0 .. width /\ line' \in Seq(P) /\ run' \in [P -> Runs]
  /\ held' = Cardinality(Executing') /\ Range(line') = InLine' /\ IsInjective(line')
  /\ line' # <<>> => held' = width
  /\ \A p \in P : call'[p] \in {"delegate", "wait delegate"} => p[2] = "main"
  /\ \A t \in Turn : call'[main(t)] = "wait delegate" => run'[sub(t)] = "idle"
  /\ \A p \in P : run[p] \notin {"idle", "starting"} => run'[p] = run[p]

(* A run that moves on without the gate leaves its books alone.              *)
LEMMA GateKeeps ==
  ASSUME AgentIInv, NEW t \in Turn, NEW a \in {"main", "sub"}, NEW s \in Runs \ {"idle", "starting"},
         UNCHANGED <<call, held, line, width>>, run' = [run EXCEPT ![<<t, a>>] = s],
         a = "sub" => run[<<t, a>>] # "idle"
  PROVE  /\ run' \in [P -> Runs] /\ GateAccounted' /\ DelegationsFit'
         /\ \A p \in P : run[p] \notin {"idle", "starting"} => run'[p] \notin {"idle", "starting"}
<1>1. <<t, a>> \in P /\ run \in [P -> Runs]
  BY DEF P, AgentIInv, AgentShape
<1>2. run' \in [P -> Runs] /\ \A p \in P : run[p] \notin {"idle", "starting"} => run'[p] \notin {"idle", "starting"}
  BY <1>1
<1>3. GateAccounted'
  BY DEF AgentIInv, GateAccounted
<1>4. ASSUME NEW u \in Turn, call[main(u)] = "wait delegate"
      PROVE  run'[sub(u)] = "idle"
  <2>1. run[sub(u)] = "idle" /\ sub(u) \in P
    BY <1>4, AgentsOf DEF AgentIInv, DelegationsFit
  <2>2. sub(u) # <<t, a>>
    BY <2>1 DEF sub
  <2>. QED BY <1>1, <2>1, <2>2
<1>. QED BY <1>2, <1>3, <1>4 DEF AgentIInv, DelegationsFit

(* A call ends: its slot goes to the first in line, or is free.              *)
LEMMA ReleaseMoves ==
  ASSUME AgentIInv, NEW p \in P, call[p] \in Tools, Release(p)
  PROVE  GateMoves
<1>0. /\ run \in [P -> Runs] /\ call \in [P -> Calls] /\ held \in 0 .. width /\ line \in Seq(P)
      /\ held = Cardinality(Executing) /\ Range(line) = InLine /\ IsInjective(line)
      /\ line # <<>> => held = width
      /\ width \in Nat
  BY AgentAssumption DEF AgentIInv, AgentShape, GateAccounted, Executing, InLine
<1>1. /\ \A q \in P : call[q] \in {"delegate", "wait delegate"} => q[2] = "main"
      /\ \A t \in Turn : call[main(t)] = "wait delegate" => run[sub(t)] = "idle"
  BY DEF AgentIInv, DelegationsFit
<1>2. /\ IsFiniteSet(Executing) /\ Cardinality(Executing) \in Nat /\ p \in Executing
      /\ Executing \in SUBSET P
  BY AgentsCounted DEF Executing
<1>3. IsFiniteSet(Executing \ {p}) /\ Cardinality(Executing \ {p}) = held - 1
  BY <1>0, <1>2, FS_RemoveElement
<1>4. Cardinality(Executing \ {p}) \in Nat
  BY <1>3, FS_CardinalityType
<1>5. CASE line = <<>>
  <2>1. held' = held - 1 /\ call' = [call EXCEPT ![p] = "none"] /\ line' = line /\ run' = run
    BY <1>5 DEF Release
  <2>2. Executing' = Executing \ {p} /\ InLine' = InLine
    BY <1>0, <2>1 DEF Executing, InLine, Tools
  <2>3. call' \in [P -> Calls] /\ call'[p] = "none" /\ \A q \in P : q # p => call'[q] = call[q]
    BY <1>0, <2>1 DEF Calls
  <2>4. held - 1 \in 0 .. width
    <3>1. held - 1 \in Nat /\ held \in Nat /\ held <= width
      BY <1>0, <1>3, <1>4
    <3>. QED BY <1>0, <3>1
  <2>5. held' \in 0 .. width /\ held' = Cardinality(Executing')
    BY <1>3, <2>1, <2>2, <2>4
  <2>6. /\ \A q \in P : call'[q] \in {"delegate", "wait delegate"} => q[2] = "main"
        /\ \A t \in Turn : call'[main(t)] = "wait delegate" => run'[sub(t)] = "idle"
    BY <1>1, <2>1, <2>3, AgentsOf
  <2>7. line' = <<>> /\ line' \in Seq(P) /\ Range(line') = InLine' /\ IsInjective(line')
    BY <1>0, <1>5, <2>1, <2>2
  <2>8. run' \in [P -> Runs] /\ \A q \in P : run[q] \notin {"idle", "starting"} => run'[q] = run[q]
    BY <1>0, <2>1
  <2>. QED BY <2>3, <2>5, <2>6, <2>7, <2>8 DEF GateMoves
<1>6. CASE line # <<>>
  <2> DEFINE q == Head(line)
             b == Wanted(call[q])
  <2>1. line' = Tail(line) /\ call' = [call EXCEPT ![p] = "none", ![q] = b] /\ run' = RunWhenGranted(q, b)
        /\ held' = held
    BY <1>6 DEF Release
  <2>2. /\ line' \in Seq(P) /\ IsInjective(line') /\ q \in P /\ q \in InLine
        /\ Range(line') = InLine \ {q}
    BY <1>0, <1>6, <2>1, LineAdvances
  <2>3. /\ call[q] \in {"wait tool", "wait delegate"} /\ b \in Tools
        /\ b = "delegate" <=> call[q] = "wait delegate"
    BY <2>2, WantedOf DEF InLine, Tools
  <2> HIDE DEF q, b
  <2>4. q # p
    BY <2>3 DEF Tools
  <2>5. Executing' = (Executing \ {p}) \cup {q} /\ InLine' = InLine \ {q}
    BY <1>0, <2>1, <2>2, <2>3, <2>4 DEF Executing, InLine, Tools
  <2>6. q \notin Executing \ {p}
    BY <2>3 DEF Executing, Tools
  <2>7. Cardinality((Executing \ {p}) \cup {q}) = Cardinality(Executing \ {p}) + 1
    BY <1>3, <2>6, FS_AddElement
  <2>8. Cardinality(Executing') = held
    BY <1>0, <1>3, <1>4, <2>5, <2>7
  <2>9. /\ call' \in [P -> Calls] /\ call'[p] = "none" /\ call'[q] = b
        /\ \A r \in P : r # p /\ r # q => call'[r] = call[r]
    BY <1>0, <2>1, <2>2, <2>3, <2>4 DEF Calls
  <2>10. b = "delegate" => q[2] = "main" /\ q = main(q[1]) /\ q[1] \in Turn /\ run[sub(q[1])] = "idle"
                           /\ sub(q[1]) \in P
    <3> SUFFICES ASSUME b = "delegate"
                 PROVE  q[2] = "main" /\ q = main(q[1]) /\ q[1] \in Turn /\ run[sub(q[1])] = "idle"
                        /\ sub(q[1]) \in P
      OBVIOUS
    <3>1. call[q] = "wait delegate" /\ q[2] = "main"
      BY <1>1, <2>2, <2>3
    <3>2. q = main(q[1]) /\ q[1] \in Turn
      BY <2>2, <3>1, AgentsOf
    <3>3. call[main(q[1])] = "wait delegate"
      BY <3>1, <3>2
    <3>. QED BY <1>1, <3>1, <3>2, <3>3, AgentsOf
  <2>11. \/ run' = run
         \/ b = "delegate" /\ run' = [run EXCEPT ![sub(q[1])] = "starting"]
    BY <2>1 DEF RunWhenGranted
  <2>12. run' \in [P -> Runs] /\ \A r \in P : run[r] \notin {"idle", "starting"} => run'[r] = run[r]
    <3>1. CASE run' = run
      BY <1>0, <3>1
    <3>2. CASE b = "delegate" /\ run' = [run EXCEPT ![sub(q[1])] = "starting"]
      BY <1>0, <2>10, <3>2 DEF Runs
    <3>. QED BY <2>11, <3>1, <3>2
  <2>13. \A r \in P : call'[r] \in {"delegate", "wait delegate"} => r[2] = "main"
    <3>1. b # "wait delegate"
      BY <2>3 DEF Tools
    <3>. QED BY <1>1, <2>3, <2>9, <2>10, <3>1
  <2>14. ASSUME NEW t \in Turn, call'[main(t)] = "wait delegate"
         PROVE  run'[sub(t)] = "idle"
    <3>1. main(t) \in P /\ main(t) # q /\ main(t) # p
      <4>1. b # "wait delegate" /\ main(t) \in P
        BY <2>3, AgentsOf DEF Tools
      <4>. QED BY <2>9, <2>14, <4>1
    <3>2. call[main(t)] = "wait delegate"
      BY <2>9, <2>14, <3>1
    <3>3. run[sub(t)] = "idle" /\ sub(t) \in P
      BY <1>1, <3>2, AgentsOf
    <3>4. CASE run' = run
      BY <3>3, <3>4
    <3>5. CASE b = "delegate" /\ run' = [run EXCEPT ![sub(q[1])] = "starting"]
      <4>1. sub(t) # sub(q[1])
        BY <2>10, <3>1, <3>5 DEF sub
      <4>. QED BY <1>0, <2>10, <3>3, <3>5, <4>1
    <3>. QED BY <2>11, <3>4, <3>5
  <2>15. held' \in 0 .. width /\ held' = Cardinality(Executing') /\ (line' # <<>> => held' = width)
    BY <1>0, <1>6, <2>1, <2>8
  <2>16. line' \in Seq(P) /\ Range(line') = InLine' /\ IsInjective(line')
    BY <2>2, <2>5
  <2>. QED BY <2>9, <2>12, <2>13, <2>14, <2>15, <2>16 DEF GateMoves
<1>. QED BY <1>5, <1>6

(* A wait in line expires.                                                   *)
LEMMA WaitMoves == ASSUME AgentIInv, NEW p \in P, WaitExpires(p) PROVE GateMoves
<1>0. /\ run \in [P -> Runs] /\ call \in [P -> Calls] /\ held \in 0 .. width /\ line \in Seq(P)
      /\ held = Cardinality(Executing) /\ Range(line) = InLine /\ IsInjective(line)
      /\ line # <<>> => held = width
  BY DEF AgentIInv, AgentShape, GateAccounted, Executing, InLine
<1>1. PICK i \in DOMAIN line : line[i] = p /\ line' = RemoveAt(line, i)
  BY DEF WaitExpires
<1>2. call' = [call EXCEPT ![p] = "none"] /\ UNCHANGED <<run, width, held>>
  BY DEF WaitExpires
<1>4. line' \in Seq(P) /\ IsInjective(line') /\ Range(line') = InLine \ {p}
  BY <1>0, <1>1, LineShrinks
<1>5. call[p] \in {"wait tool", "wait delegate"}
  BY <1>0, <1>1 DEF InLine, Range
<1>6. Executing' = Executing /\ InLine' = InLine \ {p}
  BY <1>0, <1>2, <1>5 DEF Executing, InLine, Tools
<1>7. line # <<>>
  BY <1>1
<1>8. /\ call' \in [P -> Calls] /\ call'[p] = "none"
      /\ \A q \in P : q # p => call'[q] = call[q]
  BY <1>0, <1>2 DEF Calls
<1>9. /\ \A q \in P : call[q] \in {"delegate", "wait delegate"} => q[2] = "main"
      /\ \A t \in Turn : call[main(t)] = "wait delegate" => run[sub(t)] = "idle"
  BY DEF AgentIInv, DelegationsFit
<1>10. /\ \A q \in P : call'[q] \in {"delegate", "wait delegate"} => q[2] = "main"
       /\ \A t \in Turn : call'[main(t)] = "wait delegate" => run'[sub(t)] = "idle"
  BY <1>2, <1>8, <1>9, AgentsOf
<1>11. held' \in 0 .. width /\ held' = Cardinality(Executing') /\ held' = width
  BY <1>0, <1>2, <1>6, <1>7
<1>12. Range(line') = InLine'
  BY <1>4, <1>6
<1>13. run' \in [P -> Runs] /\ \A q \in P : run[q] \notin {"idle", "starting"} => run'[q] = run[q]
  BY <1>0, <1>2
<1>. QED BY <1>4, <1>8, <1>10, <1>11, <1>12, <1>13 DEF GateMoves

(* A call takes a free slot, or stands in line.                              *)
LEMMA CallMoves == ASSUME AgentIInv, NEW p \in P, NEW b \in Tools, CallTool(p, b) PROVE GateMoves
<1>0. /\ run \in [P -> Runs] /\ call \in [P -> Calls] /\ held \in 0 .. width /\ line \in Seq(P)
      /\ held = Cardinality(Executing) /\ Range(line) = InLine /\ IsInjective(line)
      /\ line # <<>> => held = width
      /\ width \in Nat
  BY AgentAssumption DEF AgentIInv, AgentShape, GateAccounted, Executing, InLine
<1>1. /\ \A q \in P : call[q] \in {"delegate", "wait delegate"} => q[2] = "main"
      /\ \A t \in Turn : call[main(t)] = "wait delegate" => run[sub(t)] = "idle"
  BY DEF AgentIInv, DelegationsFit
<1>2. /\ call[p] = "none" /\ width' = width
      /\ b = "delegate" => p[2] = "main" /\ run[sub(p[1])] = "idle"
  BY DEF CallTool
<1>3. b = "delegate" => p = main(p[1]) /\ p[1] \in Turn /\ sub(p[1]) \in P
  BY <1>2, AgentsOf
<1>4. CASE UNCHANGED <<run, call, held, line>>
  BY <1>0, <1>1, <1>4 DEF GateMoves, Executing, InLine
<1>5. CASE held < width /\ held' = held + 1 /\ call' = [call EXCEPT ![p] = b] /\ run' = RunWhenGranted(p, b)
           /\ line' = line
  <2>1. Executing' = Executing \cup {p} /\ p \notin Executing /\ InLine' = InLine
    BY <1>0, <1>2, <1>5 DEF Executing, InLine, Tools
  <2>2. IsFiniteSet(Executing) /\ Cardinality(Executing) \in Nat
    BY AgentsCounted DEF Executing
  <2>3. Cardinality(Executing \cup {p}) = Cardinality(Executing) + 1
    BY <2>1, <2>2, FS_AddElement
  <2>4. /\ call' \in [P -> Calls] /\ call'[p] = b /\ \A r \in P : r # p => call'[r] = call[r]
        /\ held' \in 0 .. width /\ held' = Cardinality(Executing')
    <3>1. call' \in [P -> Calls] /\ call'[p] = b /\ \A r \in P : r # p => call'[r] = call[r]
      BY <1>0, <1>5 DEF Calls
    <3>2. held + 1 \in 0 .. width
      BY <1>0, <1>5
    <3>3. held' = Cardinality(Executing')
      BY <1>0, <1>5, <2>1, <2>3
    <3>. QED BY <1>5, <3>1, <3>2, <3>3
  <2>5. line' = <<>>
    BY <1>0, <1>5
  <2>6. \/ run' = run
        \/ b = "delegate" /\ run' = [run EXCEPT ![sub(p[1])] = "starting"]
    BY <1>5 DEF RunWhenGranted
  <2>7. run' \in [P -> Runs] /\ \A r \in P : run[r] \notin {"idle", "starting"} => run'[r] = run[r]
    <3>1. CASE run' = run
      BY <1>0, <3>1
    <3>2. CASE b = "delegate" /\ run' = [run EXCEPT ![sub(p[1])] = "starting"]
      BY <1>0, <1>2, <1>3, <3>2 DEF Runs
    <3>. QED BY <2>6, <3>1, <3>2
  <2>8. \A r \in P : call'[r] \in {"delegate", "wait delegate"} => r[2] = "main"
    BY <1>1, <1>2, <2>4 DEF Tools
  <2>9. ASSUME NEW t \in Turn, call'[main(t)] = "wait delegate"
        PROVE  run'[sub(t)] = "idle"
    <3>1. main(t) \in P /\ main(t) # p /\ sub(t) \in P
      BY <2>4, <2>9, AgentsOf DEF Tools
    <3>2. call[main(t)] = "wait delegate"
      BY <2>4, <2>9, <3>1
    <3>3. run[sub(t)] = "idle"
      BY <1>1, <3>2
    <3>4. CASE run' = run
      BY <3>3, <3>4
    <3>5. CASE b = "delegate" /\ run' = [run EXCEPT ![sub(p[1])] = "starting"]
      <4>1. sub(t) # sub(p[1])
        BY <1>3, <3>1, <3>5 DEF sub
      <4>. QED BY <1>0, <1>3, <3>1, <3>3, <3>5, <4>1
    <3>. QED BY <2>6, <3>4, <3>5
  <2>10. line' \in Seq(P) /\ Range(line') = InLine' /\ IsInjective(line')
    BY <1>0, <1>5, <2>1
  <2>. QED BY <2>4, <2>5, <2>7, <2>8, <2>9, <2>10 DEF GateMoves
<1>6. CASE ~(held < width) /\ line' = Append(line, p) /\ call' = [call EXCEPT ![p] = Waiting[b]]
           /\ UNCHANGED <<held, run>>
  <2>1. Waiting[b] \in {"wait tool", "wait delegate"} /\ (Waiting[b] = "wait delegate" => b = "delegate")
    <3>1. Waiting["tool"] = "wait tool" /\ Waiting["delegate"] = "wait delegate"
      BY DEF Waiting
    <3>. QED BY <3>1 DEF Tools
  <2>2. Executing' = Executing /\ InLine' = InLine \cup {p}
    <3>1. call'[p] = Waiting[b] /\ \A r \in P : r # p => call'[r] = call[r]
      BY <1>0, <1>6
    <3>2. call'[p] \notin Tools /\ call[p] \notin Tools
      BY <1>2, <2>1, <3>1 DEF Tools
    <3>. QED BY <2>1, <3>1, <3>2 DEF Executing, InLine
  <2>3. p \notin Range(line)
    BY <1>0, <1>2 DEF InLine
  <2>4. line' \in Seq(P) /\ IsInjective(line') /\ Range(line') = InLine \cup {p}
    <3>1. line \in Seq(P) /\ IsInjective(line) /\ line' = Append(line, p) /\ Range(line) = InLine
      BY <1>0, <1>6
    <3>2. /\ Append(line, p) \in Seq(P) /\ IsInjective(Append(line, p))
          /\ Range(Append(line, p)) = Range(line) \cup {p}
      BY <2>3, <3>1, LineGrows
    <3> DEFINE r == Append(line, p)
    <3>3. r \in Seq(P) /\ IsInjective(r) /\ Range(r) = InLine \cup {p} /\ line' = r
      BY <3>1, <3>2, Zenon
    <3> HIDE DEF r
    <3>. QED BY <3>3
  <2>5. held' = width /\ call' \in [P -> Calls]
    <3>1. held = width
      BY <1>0, <1>6
    <3>2. call' = [call EXCEPT ![p] = Waiting[b]] /\ Waiting[b] \in Calls /\ held' = held
      BY <1>6, <2>1 DEF Calls
    <3>. QED BY <1>0, <3>1, <3>2
  <2>6. \A r \in P : call'[r] \in {"delegate", "wait delegate"} => r[2] = "main"
    BY <1>0, <1>1, <1>2, <1>6, <2>1
  <2>7. \A t \in Turn : call'[main(t)] = "wait delegate" => run'[sub(t)] = "idle"
    <3> SUFFICES ASSUME NEW t \in Turn, call'[main(t)] = "wait delegate" PROVE run[sub(t)] = "idle"
      BY <1>6
    <3>1. CASE main(t) = p
      BY <1>0, <1>2, <1>3, <1>6, <2>1, <3>1, AgentsOf
    <3>2. CASE main(t) # p
      BY <1>0, <1>1, <1>6, <3>2, AgentsOf
    <3>. QED BY <3>1, <3>2
  <2>8. held' \in 0 .. width /\ held' = Cardinality(Executing') /\ Range(line') = InLine'
    BY <1>0, <1>6, <2>2, <2>4
  <2>9. run' \in [P -> Runs] /\ \A r \in P : run[r] \notin {"idle", "starting"} => run'[r] = run[r]
    BY <1>0, <1>6
  <2>. QED BY <2>4, <2>5, <2>6, <2>7, <2>8, <2>9 DEF GateMoves
<1>7. \/ UNCHANGED <<run, call, held, line>>
      \/ held < width /\ held' = held + 1 /\ call' = [call EXCEPT ![p] = b] /\ run' = RunWhenGranted(p, b)
         /\ line' = line
      \/ ~(held < width) /\ line' = Append(line, p) /\ call' = [call EXCEPT ![p] = Waiting[b]]
         /\ UNCHANGED <<held, run>>
  BY DEF CallTool
<1>. QED BY <1>4, <1>5, <1>6, <1>7

(* A step of the gate keeps the invariant when what is not the gate's fits.  *)
LEMMA GateStep ==
  ASSUME AgentIInv, GateMoves, width' = width, gauge' = gauge,
         sig' \in [P -> BOOLEAN], calls' \in [P -> 0 .. MaxCalls], BreakersFit'
  PROVE  AgentIInv'
<1>1. AgentShape'
  BY DEF AgentIInv, AgentShape, GateMoves
<1>2. GateAccounted'
  BY DEF GateMoves, GateAccounted, Executing, InLine
<1>3. DelegationsFit'
  BY DEF GateMoves, DelegationsFit
<1>4. GaugesFit'
  <2> SUFFICES ASSUME NEW a \in {"main", "sub"} PROVE gauge[a] <= Cardinality(Begun(a)')
    BY DEF GaugesFit
  <2>1. Begun(a) \in SUBSET Turn /\ Begun(a)' \in SUBSET Turn
    BY DEF Begun
  <2>2. Begun(a) \subseteq Begun(a)'
    <3>1. \A t \in Turn : <<t, a>> \in P
      BY DEF P
    <3>2. \A p \in P : run[p] \notin {"idle", "starting"} => run'[p] = run[p]
      BY DEF GateMoves
    <3>. QED BY <3>1, <3>2 DEF Begun
  <2>3. Cardinality(Begun(a)) <= Cardinality(Begun(a)')
    BY <2>1, <2>2, AgentsCounted
  <2>4. gauge[a] \in Nat /\ gauge[a] <= Cardinality(Begun(a))
    BY DEF AgentIInv, AgentShape, GaugesFit
  <2>5. Cardinality(Begun(a)) \in Nat /\ Cardinality(Begun(a)') \in Nat
    BY <2>1, AgentsCounted
  <2> DEFINE m == Cardinality(Begun(a))
             n == Cardinality(Begun(a)')
             g == gauge[a]
  <2>6. m <= n /\ g \in Nat /\ g <= m /\ m \in Nat /\ n \in Nat
    BY <2>3, <2>4, <2>5
  <2> HIDE DEF m, n, g
  <2>7. g <= n
    BY <2>6
  <2>. QED BY <2>7 DEF n, g
<1>. QED BY <1>1, <1>2, <1>3, <1>4 DEF AgentIInv

(* An agent run begins, or leaves its loop, with the gauge of its agent.     *)
LEMMA RunStep ==
  ASSUME AgentIInv, NEW t \in Turn, NEW a \in {"main", "sub"}, NEW s \in Runs \ {"idle", "starting"},
         UNCHANGED <<call, held, line, width, calls>>, run' = [run EXCEPT ![<<t, a>>] = s],
         a = "sub" => run[<<t, a>>] # "idle",
         \/ gauge' = gauge
         \/ gauge' = [gauge EXCEPT ![a] = IF @ > 0 THEN @ - 1 ELSE 0]
         \/ gauge' = [gauge EXCEPT ![a] = @ + 1] /\ run[<<t, a>>] \in {"idle", "starting"},
         sig' \in [P -> BOOLEAN], BreakersFit'
  PROVE  AgentIInv'
<1>0. /\ run' \in [P -> Runs] /\ GateAccounted' /\ DelegationsFit'
      /\ \A p \in P : run[p] \notin {"idle", "starting"} => run'[p] \notin {"idle", "starting"}
  BY GateKeeps
<1>1. gauge \in [{"main", "sub"} -> Nat] /\ <<t, a>> \in P /\ run \in [P -> Runs]
  BY DEF AgentIInv, AgentShape, P
<1>2. gauge' \in [{"main", "sub"} -> Nat]
  <2>1. CASE gauge' = gauge
    BY <1>1, <2>1
  <2>2. ASSUME NEW n \in Nat, gauge' = [gauge EXCEPT ![a] = n]
        PROVE  gauge' \in [{"main", "sub"} -> Nat]
    BY <1>1, <2>2
  <2>3. gauge[a] + 1 \in Nat /\ (IF gauge[a] > 0 THEN gauge[a] - 1 ELSE 0) \in Nat
    BY <1>1
  <2>. QED BY <2>1, <2>2, <2>3
<1>3. AgentShape'
  BY <1>0, <1>2 DEF AgentIInv, AgentShape
<1>4. GaugesFit'
  <2> SUFFICES ASSUME NEW c \in {"main", "sub"} PROVE gauge'[c] <= Cardinality(Begun(c)')
    BY DEF GaugesFit
  <2> DEFINE m == Cardinality(Begun(c))
             n == Cardinality(Begun(c)')
             g == gauge[c]
             h == gauge'[c]
  <2>1. Begun(c) \in SUBSET Turn /\ Begun(c)' \in SUBSET Turn
    BY DEF Begun
  <2>2. Begun(c) \subseteq Begun(c)'
    <3>1. \A u \in Turn : <<u, c>> \in P
      BY DEF P
    <3>. QED BY <1>0, <3>1 DEF Begun
  <2>3. m <= n /\ m \in Nat /\ n \in Nat
    BY <2>1, <2>2, AgentsCounted
  <2>4. g \in Nat /\ g <= m
    BY DEF AgentIInv, AgentShape, GaugesFit
  <2>5. \/ h = g
        \/ h = IF g > 0 THEN g - 1 ELSE 0
        \/ h = g + 1 /\ c = a /\ run[<<t, a>>] \in {"idle", "starting"}
    BY <1>1
  <2>6. CASE h = g
    <3> HIDE DEF m, n, g, h
    <3>1. h <= n
      BY <2>3, <2>4, <2>6
    <3>. QED BY <3>1 DEF h, n
  <2>7. CASE h = IF g > 0 THEN g - 1 ELSE 0
    <3> HIDE DEF m, n, g, h
    <3>1. h <= n
      BY <2>3, <2>4, <2>7
    <3>. QED BY <3>1 DEF h, n
  <2>8. CASE h = g + 1 /\ c = a /\ run[<<t, a>>] \in {"idle", "starting"}
    <3>1. t \notin Begun(c) /\ t \in Begun(c)'
      BY <1>1, <2>8 DEF Begun
    <3>2. Begun(c) \cup {t} \in SUBSET Turn /\ Begun(c) \cup {t} \subseteq Begun(c)'
      BY <2>1, <2>2, <3>1
    <3>3. IsFiniteSet(Begun(c))
      BY <2>1, AgentsCounted
    <3>4. Cardinality(Begun(c) \cup {t}) = m + 1
      BY <3>1, <3>3, FS_AddElement
    <3>5. Cardinality(Begun(c) \cup {t}) <= n
      BY <2>1, <3>2, AgentsCounted
    <3>6. m + 1 <= n
      BY <3>4, <3>5
    <3> HIDE DEF m, n, g, h
    <3>7. h <= n
      BY <2>3, <2>4, <2>8, <3>6
    <3>. QED BY <3>7 DEF h, n
  <2>. QED BY <2>5, <2>6, <2>7, <2>8
<1>. QED BY <1>0, <1>3, <1>4 DEF AgentIInv

(* A signal fires, and nothing else moves.                                   *)
LEMMA SignalStep ==
  ASSUME AgentIInv, sig' \in [P -> BOOLEAN], BreakersFit',
         UNCHANGED <<run, call, calls, width, held, line, gauge>>
  PROVE  AgentIInv'
<1>1. AgentShape'
  BY DEF AgentIInv, AgentShape
<1>2. GateAccounted'
  BY DEF AgentIInv, GateAccounted
<1>3. DelegationsFit' /\ GaugesFit'
  BY DEF AgentIInv, DelegationsFit, GaugesFit, Begun
<1>. QED BY <1>1, <1>2, <1>3 DEF AgentIInv

(* One step per action.                                                      *)
LEMMA AgentNextIInv == AgentIInv /\ [AgentNext]_agentVars => AgentIInv'
<1> SUFFICES ASSUME AgentIInv, [AgentNext]_agentVars PROVE AgentIInv'
  OBVIOUS
<1>0. /\ AgentShape /\ BreakersFit /\ GateAccounted /\ DelegationsFit /\ GaugesFit
      /\ sig \in [P -> BOOLEAN] /\ calls \in [P -> 0 .. MaxCalls] /\ call \in [P -> Calls]
      /\ run \in [P -> Runs] /\ MaxCalls \in Nat
  BY AgentAssumption DEF AgentIInv, AgentShape
<1>1. \A b \in Tools \cup {"main", "sub"} : b \in Breakers
  BY DEF Breakers
<1>2. breaker' = breaker => BreakersFit'
  BY <1>0 DEF BreakersFit
<1>3. ASSUME NEW b \in Breakers,
             breaker' \in {breaker, Probe(b), Success(b), Failure(b)} \/ Cool(b)
      PROVE  BreakersFit'
  BY <1>0, <1>3, BreakersMove
<1>4. CASE UNCHANGED agentVars
  <2>1. UNCHANGED <<run, sig, call, calls, width, held, line, breaker, gauge>>
    BY <1>4 DEF agentVars
  <2>. QED BY <1>0, <1>2, <2>1, SignalStep
<1>5. ASSUME NEW b \in DOMAIN breaker, Cool(b) PROVE AgentIInv'
  <2>1. b \in Breakers /\ UNCHANGED <<run, sig, call, calls, width, held, line, gauge>>
    BY <1>0, <1>5 DEF BreakersFit, Cool
  <2>2. BreakersFit'
    BY <1>3, <1>5, <2>1
  <2>. QED BY <1>0, <2>1, <2>2, SignalStep
<1>6. ASSUME NEW p \in P, NEW b \in Tools, CallTool(p, b) PROVE AgentIInv'
  <2>1. GateMoves
    BY <1>6, CallMoves
  <2>2. calls' = [calls EXCEPT ![p] = @ + 1] /\ calls[p] < MaxCalls /\ UNCHANGED <<sig, width, gauge>>
        /\ (breaker' = breaker \/ breaker' = Probe(b))
    BY <1>6 DEF CallTool
  <2>3. calls[p] + 1 \in 0 .. MaxCalls
    BY <1>0, <2>2
  <2>4. calls' \in [P -> 0 .. MaxCalls]
    BY <1>0, <2>2, <2>3
  <2>5. BreakersFit'
    BY <1>1, <1>3, <2>2
  <2>. QED BY <1>0, <2>1, <2>2, <2>4, <2>5, GateStep
<1>7. ASSUME NEW p \in P, WaitExpires(p) PROVE AgentIInv'
  <2>1. GateMoves
    BY <1>7, WaitMoves
  <2>2. UNCHANGED <<sig, calls, width, breaker, gauge>>
    BY <1>7 DEF WaitExpires
  <2>. QED BY <1>0, <1>2, <2>1, <2>2, GateStep
<1>8. ASSUME NEW p \in P, ToolReturns(p) PROVE AgentIInv'
  <2>1. call[p] \in Tools /\ Release(p) /\ UNCHANGED <<sig, calls, width, gauge>>
        /\ breaker' \in {Success("tool"), Failure("tool")} /\ "tool" \in Breakers
    BY <1>8 DEF ToolReturns, Tools, Breakers
  <2>2. GateMoves
    BY <2>1, ReleaseMoves
  <2>3. BreakersFit'
    BY <1>3, <2>1
  <2>. QED BY <1>0, <2>1, <2>2, <2>3, GateStep
<1>9. ASSUME NEW t \in Turn, DelegateReturns(t) PROVE AgentIInv'
  <2>1. call[main(t)] \in Tools /\ Release(main(t)) /\ UNCHANGED <<sig, calls, width, gauge>>
        /\ breaker' = Success("delegate") /\ "delegate" \in Breakers /\ main(t) \in P
    BY <1>9, AgentsOf DEF DelegateReturns, Tools, Breakers
  <2>2. GateMoves
    BY <2>1, ReleaseMoves
  <2>3. BreakersFit'
    BY <1>3, <2>1
  <2>. QED BY <1>0, <2>1, <2>2, <2>3, GateStep
<1>10. ASSUME NEW p \in P, Cancelled(p) PROVE AgentIInv'
  <2>1. call[p] \in Tools /\ Release(p) /\ UNCHANGED <<sig, calls, width, breaker, gauge>>
    BY <1>10 DEF Cancelled
  <2>2. GateMoves
    BY <2>1, ReleaseMoves
  <2>. QED BY <1>0, <1>2, <2>1, <2>2, GateStep
<1>11. ASSUME NEW p \in P, BudgetOver(p) PROVE AgentIInv'
  <2>1. call[p] \in Tools /\ Release(p) /\ UNCHANGED <<calls, width, gauge>>
        /\ breaker' = Failure(call[p])
        /\ sig' = IF call[p] = "delegate" THEN [sig EXCEPT ![sub(p[1])] = TRUE] ELSE sig
    BY <1>11 DEF BudgetOver
  <2>2. GateMoves
    BY <2>1, ReleaseMoves
  <2>3. BreakersFit'
    BY <1>1, <1>3, <2>1
  <2>4. sig' \in [P -> BOOLEAN]
    BY <1>0, <2>1, AgentsOf
  <2>. QED BY <1>0, <2>1, <2>2, <2>3, <2>4, GateStep
<1>12. ASSUME NEW p \in P, NEW out \in {"clean", "error"}, Finish(p, out) PROVE AgentIInv'
  <2> DEFINE t == p[1]
             a == p[2]
  <2>1. t \in Turn /\ a \in {"main", "sub"} /\ p = <<t, a>> /\ out \in Runs \ {"idle", "starting"}
        /\ a \in Breakers
    BY DEF P, Runs, Breakers
  <2>2. /\ run[p] = "running" /\ run' = [run EXCEPT ![p] = out]
        /\ breaker' = Success(a) \/ breaker' = Failure(a)
        /\ gauge' = [gauge EXCEPT ![a] = IF @ > 0 THEN @ - 1 ELSE 0]
        /\ UNCHANGED <<sig, call, calls, width, held, line>>
    BY <1>12 DEF Finish
  <2>3. BreakersFit'
    BY <1>3, <2>1, <2>2
  <2> HIDE DEF t, a
  <2>4. sig' \in [P -> BOOLEAN] /\ run' = [run EXCEPT ![<<t, a>>] = out] /\ run[<<t, a>>] # "idle"
    BY <1>0, <2>1, <2>2
  <2>. QED BY <2>1, <2>2, <2>3, <2>4, RunStep
<1>13. ASSUME NEW t \in Turn, StartTurn(t) PROVE AgentIInv'
  <2>1. /\ run[<<t, "main">>] = "idle" /\ UNCHANGED <<sig, call, calls, width, held, line>>
        /\ \/ run' = [run EXCEPT ![<<t, "main">>] = "refused"] /\ breaker' = breaker /\ gauge' = gauge
           \/ /\ run' = [run EXCEPT ![<<t, "main">>] = "running"] /\ breaker' = Probe("main")
              /\ gauge' = [gauge EXCEPT !["main"] = @ + 1]
    BY <1>13 DEF StartTurn, main
  <2>2. BreakersFit' /\ sig' \in [P -> BOOLEAN]
    BY <1>0, <1>1, <1>3, <2>1
  <2>3. "refused" \in Runs \ {"idle", "starting"} /\ "running" \in Runs \ {"idle", "starting"}
    BY DEF Runs
  <2>4. CASE run' = [run EXCEPT ![<<t, "main">>] = "refused"] /\ gauge' = gauge
    BY <2>1, <2>2, <2>3, <2>4, RunStep
  <2>5. CASE run' = [run EXCEPT ![<<t, "main">>] = "running"] /\ gauge' = [gauge EXCEPT !["main"] = @ + 1]
    BY <2>1, <2>2, <2>3, <2>5, RunStep
  <2>. QED BY <2>1, <2>4, <2>5
<1>14. ASSUME NEW t \in Turn, Abort(t) PROVE AgentIInv'
  <2>1. sig' = [sig EXCEPT ![main(t)] = TRUE, ![sub(t)] = @ \/ call[main(t)] = "delegate"]
        /\ UNCHANGED <<run, call, calls, width, held, line, breaker, gauge>>
    BY <1>14 DEF Abort
  <2>2. sig' \in [P -> BOOLEAN]
    BY <1>0, <2>1, AgentsOf, ZenonT(30)
  <2>. QED BY <1>0, <1>2, <2>1, <2>2, SignalStep
<1>15. ASSUME NEW t \in Turn, MainCut(t) PROVE AgentIInv'
  <2>1. /\ run[<<t, "main">>] = "running" /\ run' = [run EXCEPT ![<<t, "main">>] = "aborted"]
        /\ UNCHANGED <<sig, call, calls, width, held, line, breaker, gauge>>
    BY <1>15 DEF MainCut, main
  <2>2. "aborted" \in Runs \ {"idle", "starting"} /\ sig' \in [P -> BOOLEAN]
    BY <1>0, <2>1 DEF Runs
  <2>. QED BY <1>2, <2>1, <2>2, RunStep
<1>16. ASSUME NEW t \in Turn, StartSub(t) PROVE AgentIInv'
  <2>1. /\ run[<<t, "sub">>] = "starting" /\ UNCHANGED <<call, calls, width, held, line>>
        /\ sig' = [sig EXCEPT ![sub(t)] = @ \/ sig[main(t)]]
        /\ \/ run' = [run EXCEPT ![<<t, "sub">>] = "refused"] /\ breaker' = breaker /\ gauge' = gauge
           \/ /\ run' = [run EXCEPT ![<<t, "sub">>] = "running"] /\ breaker' = Probe("sub")
              /\ gauge' = [gauge EXCEPT !["sub"] = @ + 1]
    BY <1>16 DEF StartSub, sub
  <2>2. BreakersFit'
    BY <1>0, <1>1, <1>3, <2>1
  <2>3. "refused" \in Runs \ {"idle", "starting"} /\ "running" \in Runs \ {"idle", "starting"}
    BY DEF Runs
  <2>4. sig' \in [P -> BOOLEAN]
    BY <1>0, <2>1, AgentsOf, ZenonT(30)
  <2>5. CASE run' = [run EXCEPT ![<<t, "sub">>] = "refused"] /\ gauge' = gauge
    BY <2>1, <2>2, <2>3, <2>4, <2>5, RunStep
  <2>6. CASE run' = [run EXCEPT ![<<t, "sub">>] = "running"] /\ gauge' = [gauge EXCEPT !["sub"] = @ + 1]
    BY <2>1, <2>2, <2>3, <2>4, <2>6, RunStep
  <2>. QED BY <2>1, <2>5, <2>6
<1>17. ASSUME NEW t \in Turn, SubCut(t) PROVE AgentIInv'
  <2>1. /\ run[<<t, "sub">>] = "running" /\ run' = [run EXCEPT ![<<t, "sub">>] = "aborted"]
        /\ breaker' = Success("sub") /\ gauge' = [gauge EXCEPT !["sub"] = IF @ > 0 THEN @ - 1 ELSE 0]
        /\ UNCHANGED <<sig, call, calls, width, held, line>>
    BY <1>17 DEF SubCut, sub
  <2>2. BreakersFit' /\ "aborted" \in Runs \ {"idle", "starting"} /\ sig' \in [P -> BOOLEAN]
    BY <1>0, <1>1, <1>3, <2>1 DEF Runs
  <2>. QED BY <2>1, <2>2, RunStep
<1>. QED BY <1>4, <1>5, <1>6, <1>7, <1>8, <1>9, <1>10, <1>11, <1>12, <1>13, <1>14, <1>15, <1>16, <1>17
       DEF AgentNext

(* The invariant gives the types and the gate's books.                       *)
LEMMA AgentIInvHolds == AgentIInv => AgentTypeOK /\ GateAccounted
<1> SUFFICES ASSUME AgentIInv PROVE AgentTypeOK
  BY DEF AgentIInv
<1>1. /\ run \in [P -> Runs] /\ sig \in [P -> BOOLEAN] /\ call \in [P -> Calls]
      /\ calls \in [P -> 0 .. MaxCalls]
      /\ width \in SlotOptions /\ held \in 0 .. width /\ line \in Seq(P)
  BY DEF AgentIInv, AgentShape
<1>2. \A b \in DOMAIN breaker :
          /\ breaker[b].state \in {"closed", "open", "cooled", "half_open"}
          /\ breaker[b].fails \in 0..Threshold
          /\ breaker[b].state = "closed" => breaker[b].fails < Threshold
  BY DEF AgentIInv, BreakersFit
<1>3. gauge \in [{"main", "sub"} -> 0..Cardinality(Turn)]
  <2>1. ASSUME NEW a \in {"main", "sub"} PROVE gauge[a] \in 0 .. Cardinality(Turn)
    <3>1. Begun(a) \in SUBSET Turn /\ Turn \in SUBSET Turn
      BY DEF Begun
    <3>2. /\ Cardinality(Begun(a)) <= Cardinality(Turn)
          /\ Cardinality(Begun(a)) \in Nat /\ Cardinality(Turn) \in Nat
      BY <3>1, AgentsCounted
    <3>3. gauge[a] \in Nat /\ gauge[a] <= Cardinality(Begun(a))
      BY DEF AgentIInv, AgentShape, GaugesFit
    <3> DEFINE m == Cardinality(Begun(a))
               n == Cardinality(Turn)
    <3>4. m <= n /\ m \in Nat /\ n \in Nat /\ gauge[a] <= m
      BY <3>2, <3>3
    <3> HIDE DEF m, n
    <3>5. gauge[a] \in 0 .. n
      BY <3>3, <3>4
    <3>. QED BY <3>5 DEF n
  <2>2. gauge \in [{"main", "sub"} -> Nat]
    BY DEF AgentIInv, AgentShape
  <2> HIDE DEF AgentIInv
  <2>. QED BY <2>1, <2>2
<1>. QED BY <1>1, <1>2, <1>3 DEF AgentTypeOK, Runs, Calls

-----------------------------------------------------------------------------
(* The history of a session.                                                 *)

Roles == {"user", "assistant"}
Messages == Asker \X Roles
JobSteps == {"idle", "count", "look", "list", "save"}

(* Types of what is stored.                                                  *)
HistoryShape ==
  /\ session \in [alive : BOOLEAN, old : BOOLEAN, covered : SUBSET Messages,
                  count : 0 .. 2 * Cardinality(Asker)]
  /\ session.alive \/ session = [NewSession EXCEPT !.alive = FALSE]
  /\ asker \in [Asker -> {"new", "opened", "begun", "end"}]
  /\ job \in [step : JobSteps, total : 0 .. 2 * Cardinality(Asker), already : Nat,
              base : SUBSET Messages, picked : SUBSET Messages]
  /\ job.step \in {"list", "save"} => Target >= 1
  /\ sweep \in {"idle", "empty"} /\ remover \in {"idle", "emptied"}
  /\ cuts \in 0 .. MaxCuts /\ cut \in BOOLEAN

(* A question stands right before its answer, and a turn has one of each.    *)
Paired ==
  /\ msgs \in Seq([turn : Asker, role : Roles, status : {"done", "pending", "failed"}])
  /\ \A i \in DOMAIN msgs : msgs[i].role = "user" =>
        /\ msgs[i].status = "done" /\ i + 1 \in DOMAIN msgs
        /\ msgs[i + 1].turn = msgs[i].turn /\ msgs[i + 1].role = "assistant"
  /\ \A i \in DOMAIN msgs : msgs[i].role = "assistant" =>
        /\ i - 1 \in DOMAIN msgs
        /\ msgs[i - 1].turn = msgs[i].turn /\ msgs[i - 1].role = "user"
  /\ \A i, j \in DOMAIN msgs : msgs[i].turn = msgs[j].turn /\ msgs[i].role = msgs[j].role => i = j

(* A stored turn has begun, and its answer is open until it ends.            *)
AskersFit ==
  \A i \in DOMAIN msgs :
     /\ asker[msgs[i].turn] \in {"begun", "end"}
     /\ msgs[i].role = "assistant" /\ asker[msgs[i].turn] = "begun" => msgs[i].status = "pending"

(* Behind an answer come whole turns; behind an open one only a few.         *)
OpenAreLate ==
  \A i \in DOMAIN msgs :
     /\ msgs[i].role = "assistant" => \E k \in Nat : Len(msgs) - i = 2 * k
     /\ msgs[i].status = "pending" => Len(msgs) - i <= 2 * (AtOnce - 1)

(* No answer that is still open can come up among the first n done messages. *)
Settled(n) ==
  /\ n <= Cardinality(DoneAt)
  /\ \A i \in DOMAIN msgs : msgs[i].status = "pending" => n <= Place(i)

(* As long as nothing was taken away: what the summary covers, and what a    *)
(* compression on its way has read, is the beginning of the history.         *)
SummaryFits ==
  ~cut =>
    /\ session.alive /\ remover = "idle"
    /\ \A n \in Int :
          /\ n = session.count => session.covered = DoneSlice(0, n) /\ Settled(n)
          /\ n = Target =>
                /\ job.step \in {"look", "list", "save"} => Settled(n)
                /\ job.step = "list" => job.already = session.count /\ job.base = session.covered /\ job.already < n
                /\ job.step = "save" => job.base \cup job.picked = DoneSlice(0, n)

HistoryIInv == HistoryShape /\ Paired /\ AskersFit /\ OpenAreLate /\ SummaryFits

-----------------------------------------------------------------------------
Entry == [turn : Asker, role : Roles, status : {"done", "pending", "failed"}]

(* The done messages and their places.                                       *)
DoneFacts ==
  /\ Len(msgs) \in Nat /\ DOMAIN msgs = 1 .. Len(msgs)
  /\ \A i \in 1 .. Len(msgs) : msgs[i] \in Entry
  /\ DoneAt \in SUBSET (1 .. Len(msgs)) /\ DoneAt \in SUBSET Nat /\ IsFiniteSet(DoneAt)
  /\ Cardinality(DoneAt) \in Nat
  /\ \A i : Place(i) = Rank(DoneAt, i)
  /\ \A i \in Int : Place(i) \in Nat

(* With whole pairs, the done messages are a finite set of places.           *)
LEMMA DoneMessages == Paired => DoneFacts
<1> SUFFICES ASSUME Paired PROVE DoneFacts
  OBVIOUS
<1>1. Len(msgs) \in Nat /\ DOMAIN msgs = 1 .. Len(msgs) /\ \A i \in 1 .. Len(msgs) : msgs[i] \in Entry
  <2>1. msgs \in Seq(Entry)
    BY DEF Paired, Entry
  <2>. QED BY <2>1
<1>2. DoneAt \in SUBSET (1 .. Len(msgs)) /\ DoneAt \in SUBSET Nat
  BY <1>1 DEF DoneAt
<1>3. IsFiniteSet(1 .. Len(msgs))
  BY <1>1, FS_Interval
<1>4. IsFiniteSet(DoneAt)
  BY <1>2, <1>3, FS_Subset
<1>5. \A i : Place(i) = Rank(DoneAt, i)
  BY DEF Place, Rank
<1>6. \A i \in Int : Rank(DoneAt, i) \in Nat
  BY <1>2, <1>4, RankIsNatural
<1>7. Cardinality(DoneAt) \in Nat
  BY <1>4, FS_CardinalityType
<1>. QED BY <1>1, <1>2, <1>4, <1>5, <1>6, <1>7 DEF DoneFacts

(* The same after a step.                                                    *)
LEMMA DoneMessagesNext == Paired' => DoneFacts'
BY DoneMessages, PTL

(* There are at most the two messages of each asker.                         *)
LEMMA DoneIsBounded == ASSUME Paired PROVE Cardinality(DoneAt) \in 0 .. 2 * Cardinality(Asker)
<1> DEFINE f == [i \in DoneAt |-> <<msgs[i].turn, msgs[i].role>>]
<1>1. IsFiniteSet(Asker)
  BY HistoryAssumption
<1>2. IsFiniteSet(Roles) /\ Cardinality(Roles) = 2
  <2>1. IsFiniteSet({"user"}) /\ Cardinality({"user"}) = 1
    BY FS_Singleton
  <2>2. IsFiniteSet({"user"} \cup {"assistant"}) /\ Cardinality({"user"} \cup {"assistant"}) = 2
    BY <2>1, FS_AddElement
  <2>3. {"user"} \cup {"assistant"} = Roles
    BY DEF Roles
  <2>. QED BY <2>2, <2>3
<1>3. IsFiniteSet(Messages) /\ Cardinality(Messages) = Cardinality(Asker) * Cardinality(Roles)
  BY <1>1, <1>2, FS_Product DEF Messages
<1>4. \A i \in DoneAt : i \in DOMAIN msgs /\ <<msgs[i].turn, msgs[i].role>> \in Messages
  BY DoneMessages DEF Messages, Entry, DoneFacts
<1>5. \A i, j \in DoneAt : f[i] = f[j] => i = j
  <2> SUFFICES ASSUME NEW i \in DoneAt, NEW j \in DoneAt, f[i] = f[j] PROVE i = j
    OBVIOUS
  <2>1. msgs[i].turn = msgs[j].turn /\ msgs[i].role = msgs[j].role
    OBVIOUS
  <2>. QED BY <1>4, <2>1 DEF Paired
<1>6. f \in Injection(DoneAt, Messages)
  <2>1. f \in [DoneAt -> Messages]
    BY <1>4
  <2> HIDE DEF f
  <2>. QED BY <1>5, <2>1 DEF Injection, IsInjective
<1>7. Cardinality(DoneAt) <= Cardinality(Messages)
  BY <1>3, <1>6, FS_Injection
<1>8. Cardinality(DoneAt) \in Nat /\ Cardinality(Asker) \in Nat
  BY <1>1, DoneMessages, FS_CardinalityType DEF DoneFacts
<1>9. Cardinality(Messages) = Cardinality(Asker) * 2
  BY <1>2, <1>3
<1> DEFINE c == Cardinality(Asker)
           d == Cardinality(DoneAt)
           m == Cardinality(Messages)
<1>10. d <= m /\ m = c * 2 /\ c \in Nat /\ d \in Nat
  BY <1>7, <1>8, <1>9
<1> HIDE DEF c, d, m
<1>11. d \in 0 .. 2 * c
  BY <1>10
<1>. QED BY <1>11 DEF c, d

(* The invariant's pairs are what the property asks for.                     *)
LEMMA PairsHold == Paired => PairsStayTogether
<1> SUFFICES ASSUME Paired, NEW t \in Asker
             PROVE  Cardinality({i \in DOMAIN msgs : msgs[i].turn = t}) \in {0, 2}
  BY DEF PairsStayTogether
<1> DEFINE S == {i \in DOMAIN msgs : msgs[i].turn = t}
<1>0. \A i \in DOMAIN msgs : i \in Nat /\ msgs[i].role \in Roles
  <2>1. DoneFacts
    BY DoneMessages
  <2>2. ASSUME NEW i \in DOMAIN msgs PROVE i \in 1 .. Len(msgs) /\ msgs[i] \in Entry /\ Len(msgs) \in Nat
    BY <2>1 DEF DoneFacts
  <2>3. ASSUME NEW i \in DOMAIN msgs PROVE i \in Nat
    BY <2>2
  <2>4. ASSUME NEW i \in DOMAIN msgs PROVE msgs[i].role \in Roles
    BY <2>2 DEF Entry
  <2>. QED BY <2>3, <2>4
<1>1. CASE S = {}
  BY <1>1, FS_EmptySet
<1>2. CASE S # {}
  <2>1. PICK u \in DOMAIN msgs : msgs[u].turn = t /\ msgs[u].role = "user"
    <3>1. PICK i \in DOMAIN msgs : msgs[i].turn = t
      BY <1>2
    <3>2. CASE msgs[i].role = "user"
      BY <3>1, <3>2
    <3>3. CASE msgs[i].role = "assistant"
      BY <3>1, <3>3 DEF Paired
    <3>. QED BY <1>0, <3>2, <3>3 DEF Roles
  <2>2. u + 1 \in DOMAIN msgs /\ msgs[u + 1].turn = t /\ msgs[u + 1].role = "assistant"
    BY <2>1 DEF Paired
  <2>3. ASSUME NEW i \in S PROVE i = u \/ i = u + 1
    <3>1. CASE msgs[i].role = "user"
      BY <2>1, <3>1 DEF Paired
    <3>2. CASE msgs[i].role = "assistant"
      BY <2>2, <3>2 DEF Paired
    <3>. QED BY <1>0, <3>1, <3>2 DEF Roles
  <2>4. S = {u} \cup {u + 1} /\ u # u + 1
    BY <1>0, <2>1, <2>2, <2>3
  <2>5. IsFiniteSet({u}) /\ Cardinality({u}) = 1
    BY FS_Singleton
  <2>6. Cardinality({u} \cup {u + 1}) = 2
    <3>1. u + 1 \notin {u}
      BY <2>4
    <3>2. Cardinality({u} \cup {u + 1}) = Cardinality({u}) + 1
      BY <2>5, <3>1, FS_AddElement
    <3>. QED BY <2>5, <3>2
  <2>. QED BY <2>4, <2>6
<1>. QED BY <1>1, <1>2

(* The history's invariant holds at first.                                   *)
LEMMA HistoryInitIInv == HistoryInit => HistoryIInv
<1> SUFFICES ASSUME HistoryInit PROVE HistoryIInv
  OBVIOUS
<1>0. Cardinality(Asker) \in Nat /\ MaxCuts \in Nat /\ IsFiniteSet(Asker)
  BY HistoryAssumption, FS_CardinalityType
<1>1. Paired
  BY DEF HistoryInit, Paired
<1>2. AskersFit /\ OpenAreLate
  BY DEF HistoryInit, AskersFit, OpenAreLate
<1>3. HistoryShape
  <2>1. 0 \in 0 .. 2 * Cardinality(Asker) /\ 0 \in 0 .. MaxCuts
    BY <1>0
  <2>. QED BY <2>1 DEF HistoryInit, HistoryShape, NewSession, IdleJob, JobSteps
<1>4. DoneSlice(0, 0) = {}
  <2>1. \A j \in DoneAt : Place(j) \notin (0 + 1) .. (0 + 0)
    OBVIOUS
  <2>. QED BY <2>1 DEF DoneSlice
<1>5. Settled(0)
  BY <1>1, DoneMessages DEF Settled, HistoryInit, DoneFacts
<1>6. SummaryFits
  BY <1>4, <1>5 DEF SummaryFits, HistoryInit, NewSession, IdleJob
<1>. QED BY <1>1, <1>2, <1>3, <1>6 DEF HistoryIInv

-----------------------------------------------------------------------------
(* One done message more, behind n places: the first n are what they were.   *)
LEMMA SettledKept ==
  ASSUME Paired, Paired', Len(msgs) <= Len(msgs'),
         \A i \in DOMAIN msgs : msgs'[i].turn = msgs[i].turn /\ msgs'[i].role = msgs[i].role,
         NEW k \in Nat, k \notin DoneAt, DoneAt' = DoneAt \/ DoneAt' = DoneAt \cup {k},
         NEW n \in Int, Settled(n), n <= Place(k),
         \A i \in DOMAIN msgs' : msgs'[i].status = "pending" =>
             IF i \in DOMAIN msgs THEN msgs[i].status = "pending" ELSE Cardinality(DoneAt) <= Place(i)'
  PROVE  Settled(n)' /\ DoneSlice(0, n)' = DoneSlice(0, n)
<1> DEFINE D == DoneAt
           E == DoneAt'
           First == {j \in D : Place(j) \in (0 + 1) .. (0 + n)}
           Second == {j \in E : Place(j)' \in (0 + 1) .. (0 + n)}
<1>1. /\ D \in SUBSET Nat /\ D \in SUBSET DOMAIN msgs /\ IsFiniteSet(D) /\ Cardinality(D) \in Nat
      /\ \A i : Place(i) = Rank(D, i)
      /\ \A i \in Int : Place(i) \in Nat
  BY DoneMessages DEF DoneFacts
<1>2. /\ E \in SUBSET Nat /\ IsFiniteSet(E) /\ Cardinality(E) \in Nat
      /\ \A i : Place(i)' = Rank(E, i)
      /\ \A i \in Int : Place(i)' \in Nat
      /\ \A i \in DOMAIN msgs' : i \in Int
  BY DoneMessagesNext DEF DoneFacts
<1>3. n <= Rank(D, k) /\ n <= Cardinality(D)
  BY <1>1 DEF Settled
<1>4. E = D \/ E = D \cup {k}
  OBVIOUS
<1> HIDE DEF D, E
<1>5. /\ \A i \in Int : Rank(D, i) <= Rank(E, i)
      /\ Cardinality(D) <= Cardinality(E)
      /\ \A j : j \in E /\ Rank(E, j) \in 1 .. n <=> j \in D /\ Rank(D, j) \in 1 .. n
  <2>1. CASE E = D
    <3>1. \A i \in Int : Rank(D, i) \in Nat
      BY <1>1
    <3>2. \A i \in Int : Rank(D, i) <= Rank(D, i)
      BY <3>1
    <3>. QED BY <1>1, <2>1, <3>2
  <2>2. CASE E = D \cup {k}
    <3>0. D \in SUBSET Nat /\ IsFiniteSet(D) /\ k \notin D
      BY <1>1 DEF D
    <3>a. {j \in D \cup {k} : Rank(D \cup {k}, j) \in 1 .. n} = {j \in D : Rank(D, j) \in 1 .. n}
      BY <1>3, <3>0, FirstMembersStay
    <3>1. \A j : j \in E /\ Rank(E, j) \in 1 .. n <=> j \in D /\ Rank(D, j) \in 1 .. n
      <4>1. {j \in E : Rank(E, j) \in 1 .. n} = {j \in D : Rank(D, j) \in 1 .. n}
        BY <2>2, <3>a
      <4>. QED BY <4>1, Zenon
    <3>2. Cardinality(D \cup {k}) = Cardinality(D) + 1
      BY <1>1, <3>0, FS_AddElement
    <3>3. ASSUME NEW i \in Int PROVE Rank(D, i) <= Rank(E, i)
      <4>a. Rank(D \cup {k}, i) = IF k <= i THEN Rank(D, i) + 1 ELSE Rank(D, i)
        BY <3>0, RankGrows
      <4>1. Rank(E, i) = IF k <= i THEN Rank(D, i) + 1 ELSE Rank(D, i)
        BY <2>2, <4>a
      <4>2. Rank(D, i) \in Nat
        BY <1>1
      <4>. QED BY <4>1, <4>2
    <3>4. Cardinality(D) <= Cardinality(E)
      BY <1>1, <2>2, <3>2
    <3>. QED BY <3>1, <3>3, <3>4
  <2>. QED BY <1>4, <2>1, <2>2
<1>6. Second = First
  <2>0. 0 + 1 = 1 /\ 0 + n = n
    OBVIOUS
  <2>1. First = {j \in D : Rank(D, j) \in 1 .. n}
    <3>1. \A j \in D : Place(j) = Rank(D, j)
      BY <1>1, Zenon
    <3>2. First = {j \in D : Rank(D, j) \in (0 + 1) .. (0 + n)}
      BY <3>1, Zenon
    <3>. QED BY <2>0, <3>2, Zenon
  <2>2. Second = {j \in E : Rank(E, j) \in 1 .. n}
    <3>1. \A j \in E : Place(j)' = Rank(E, j)
      BY <1>2, Zenon
    <3>2. Second = {j \in E : Rank(E, j) \in (0 + 1) .. (0 + n)}
      BY <3>1, Zenon
    <3>. QED BY <2>0, <3>2, Zenon
  <2>. QED BY <1>5, <2>1, <2>2, Zenon
<1>7. First \subseteq DOMAIN msgs
  BY <1>1
<1>8. DoneSlice(0, n) = {<<msgs[i].turn, msgs[i].role>> : i \in First}
  BY DEF DoneSlice, D
<1>9. DoneSlice(0, n)' = {<<msgs'[i].turn, msgs'[i].role>> : i \in Second}
  BY DEF DoneSlice, E
<1> HIDE DEF First, Second
<1>10. DoneSlice(0, n)' = DoneSlice(0, n)
  <2>1. \A i \in First : <<msgs'[i].turn, msgs'[i].role>> = <<msgs[i].turn, msgs[i].role>>
    BY <1>7
  <2>2. {<<msgs'[i].turn, msgs'[i].role>> : i \in First} = {<<msgs[i].turn, msgs[i].role>> : i \in First}
    BY <2>1, Zenon
  <2>. QED BY <1>6, <1>8, <1>9, <2>2, Zenon
<1>11. n <= Cardinality(E)
  BY <1>1, <1>2, <1>3, <1>5
<1>12. ASSUME NEW i \in DOMAIN msgs', msgs'[i].status = "pending" PROVE n <= Place(i)'
  <2>1. i \in Int /\ Place(i) \in Nat /\ Place(i)' \in Nat /\ Place(i) <= Place(i)'
    BY <1>1, <1>2, <1>5
  <2>2. CASE i \in DOMAIN msgs
    <3>1. n <= Place(i)
      BY <1>12, <2>2 DEF Settled
    <3>. QED BY <2>1, <3>1
  <2>3. CASE i \notin DOMAIN msgs
    <3>1. Cardinality(D) <= Place(i)'
      BY <1>12, <2>3 DEF D
    <3>. QED BY <1>1, <1>3, <2>1, <3>1
  <2>. QED BY <2>2, <2>3
<1>. QED BY <1>10, <1>11, <1>12 DEF Settled, E

(* A turn begins.                                                            *)
LEMMA BeginAppends ==
  ASSUME Paired, AskersFit, OpenAreLate, HistoryShape, NEW t \in Asker, BeginTurn(t)
  PROVE  /\ Paired' /\ AskersFit' /\ OpenAreLate'
         /\ \A n \in Int : Settled(n) => Settled(n)' /\ DoneSlice(0, n)' = DoneSlice(0, n)
<1>z. PICK n \in Nat : n = Len(msgs)
  BY DoneMessages DEF DoneFacts
<1> DEFINE u == Msg(t, "user", "done")
           a == Msg(t, "assistant", "pending")
           M == msgs'
<1>0. /\ n \in Nat /\ DOMAIN msgs = 1 .. n /\ msgs \in Seq(Entry)
      /\ \A i \in 1 .. n : msgs[i] \in Entry
  BY <1>z, DoneMessages DEF Paired, Entry, DoneFacts
<1>1. u \in Entry /\ a \in Entry
  BY DEF Msg, Entry, Roles
<1>2. msgs' = msgs \o <<u, a>> /\ asker' = [asker EXCEPT ![t] = "begun"] /\ asker[t] = "opened"
      /\ \A i \in DOMAIN msgs : msgs[i].status = "pending" => n - i < 2 * (AtOnce - 1)
  BY <1>z DEF BeginTurn, Reach
<1>3. /\ M \in Seq(Entry) /\ Len(M) = n + 2 /\ DOMAIN M = 1 .. n + 2
      /\ \A i \in 1 .. n : M[i] = msgs[i]
      /\ M[n + 1] = u /\ M[n + 2] = a
  <2>1. <<u, a>> \in Seq(Entry) /\ Len(<<u, a>>) = 2 /\ <<u, a>>[1] = u /\ <<u, a>>[2] = a
    BY <1>1
  <2> DEFINE b == <<u, a>>
  <2> HIDE DEF b, u, a
  <2>2. /\ msgs \o b \in Seq(Entry) /\ Len(msgs \o b) = n + 2
        /\ \A i \in 1 .. n + 2 : (msgs \o b)[i] = IF i <= n THEN msgs[i] ELSE b[i - n]
    BY <1>0, <2>1, ConcatProperties DEF b
  <2>3. M = msgs \o b
    BY <1>2 DEF b
  <2> HIDE DEF M
  <2>4. \A i \in 1 .. n : i \in 1 .. n + 2 /\ i <= n
    BY <1>0
  <2>5. n + 1 \in 1 .. n + 2 /\ ~(n + 1 <= n) /\ n + 1 - n = 1 /\ n + 2 \in 1 .. n + 2 /\ ~(n + 2 <= n) /\ n + 2 - n = 2
    BY <1>0
  <2>6. M[n + 1] = u /\ M[n + 2] = a
    <3>1. b[1] = u /\ b[2] = a
      BY <2>1 DEF b
    <3>2. M[n + 1] = b[n + 1 - n] /\ M[n + 2] = b[n + 2 - n]
      BY <2>2, <2>3, <2>5
    <3>. QED BY <2>5, <3>1, <3>2
  <2>7. \A i \in 1 .. n : M[i] = msgs[i]
    BY <2>2, <2>3, <2>4
  <2>8. M \in Seq(Entry) /\ Len(M) = n + 2
    BY <2>2, <2>3
  <2>. QED BY <2>6, <2>7, <2>8
<1>4. /\ u.turn = t /\ u.role = "user" /\ u.status = "done"
      /\ a.turn = t /\ a.role = "assistant" /\ a.status = "pending"
  BY DEF Msg
<1>5. \A i \in 1 .. n : msgs[i].turn # t
  BY <1>0, <1>2 DEF AskersFit
<1> HIDE DEF u, a, M
<1>6. \A i \in 1 .. n + 2 : i \in 1 .. n \/ i = n + 1 \/ i = n + 2
  BY <1>0
<1>7. n + 1 \in 1 .. n + 2 /\ n + 2 \in 1 .. n + 2 /\ \A i \in 1 .. n : i \in 1 .. n + 2
  BY <1>0
<1>8. /\ \A i \in 1 .. n : msgs[i].role = "user" =>
            /\ msgs[i].status = "done" /\ i + 1 \in 1 .. n
            /\ msgs[i + 1].turn = msgs[i].turn /\ msgs[i + 1].role = "assistant"
      /\ \A i \in 1 .. n : msgs[i].role = "assistant" =>
            /\ i - 1 \in 1 .. n
            /\ msgs[i - 1].turn = msgs[i].turn /\ msgs[i - 1].role = "user"
      /\ \A i, j \in 1 .. n : msgs[i].turn = msgs[j].turn /\ msgs[i].role = msgs[j].role => i = j
  BY <1>0 DEF Paired
<1>9. Paired'
  <2>1. ASSUME NEW i \in 1 .. n + 2, M[i].role = "user"
        PROVE  /\ M[i].status = "done" /\ i + 1 \in 1 .. n + 2
               /\ M[i + 1].turn = M[i].turn /\ M[i + 1].role = "assistant"
    <3>1. CASE i \in 1 .. n
      BY <1>3, <1>7, <1>8, <2>1, <3>1
    <3>2. CASE i = n + 1
      <4>1. i + 1 = n + 2
        BY <1>0, <3>2
      <4>. QED BY <1>3, <1>4, <1>7, <3>2, <4>1
    <3>3. CASE i = n + 2
      BY <1>3, <1>4, <2>1, <3>3
    <3>. QED BY <1>6, <3>1, <3>2, <3>3
  <2>2. ASSUME NEW i \in 1 .. n + 2, M[i].role = "assistant"
        PROVE  i - 1 \in 1 .. n + 2 /\ M[i - 1].turn = M[i].turn /\ M[i - 1].role = "user"
    <3>1. CASE i \in 1 .. n
      BY <1>3, <1>7, <1>8, <2>2, <3>1
    <3>2. CASE i = n + 1
      BY <1>3, <1>4, <2>2, <3>2
    <3>3. CASE i = n + 2
      <4>1. i - 1 = n + 1
        BY <1>0, <3>3
      <4>. QED BY <1>3, <1>4, <1>7, <3>3, <4>1
    <3>. QED BY <1>6, <3>1, <3>2, <3>3
  <2>3. ASSUME NEW i \in 1 .. n + 2, NEW j \in 1 .. n + 2, M[i].turn = M[j].turn, M[i].role = M[j].role
        PROVE  i = j
    <3>1. CASE i \in 1 .. n
      <4>1. j \in 1 .. n
        BY <1>3, <1>4, <1>5, <1>6, <2>3, <3>1
      <4>. QED BY <1>3, <1>8, <2>3, <3>1, <4>1
    <3>2. CASE i \notin 1 .. n
      <4>1. j \notin 1 .. n
        BY <1>3, <1>4, <1>5, <1>6, <2>3, <3>2
      <4>. QED BY <1>3, <1>4, <1>6, <2>3, <3>2, <4>1
    <3>. QED BY <3>1, <3>2
  <2>4. DOMAIN M = 1 .. n + 2 /\ M \in Seq(Entry)
    BY <1>3
  <2>. QED BY <2>1, <2>2, <2>3, <2>4 DEF Paired, M, Entry
<1>10. AskersFit'
  <2>1. asker \in [Asker -> {"new", "opened", "begun", "end"}]
    BY DEF HistoryShape
  <2>2. asker'[t] = "begun" /\ \A s \in Asker : s # t => asker'[s] = asker[s]
    BY <1>2, <2>1
  <2>3. ASSUME NEW i \in 1 .. n + 2
        PROVE  /\ asker'[M[i].turn] \in {"begun", "end"}
               /\ M[i].role = "assistant" /\ asker'[M[i].turn] = "begun" => M[i].status = "pending"
    <3>1. CASE i \in 1 .. n
      <4>1. M[i] = msgs[i] /\ msgs[i].turn \in Asker /\ msgs[i].turn # t
        BY <1>0, <1>3, <1>5, <3>1 DEF Entry
      <4>. QED BY <1>0, <2>2, <3>1, <4>1 DEF AskersFit
    <3>2. CASE i = n + 1 \/ i = n + 2
      BY <1>3, <1>4, <2>2, <3>2
    <3>. QED BY <1>6, <3>1, <3>2
  <2>. QED BY <1>3, <2>3 DEF AskersFit, M
<1>11. OpenAreLate'
  <2>0. AtOnce \in Nat \ {0} /\ n \in Nat
    BY <1>0, HistoryAssumption
  <2>1. ASSUME NEW i \in 1 .. n + 2
        PROVE  /\ M[i].role = "assistant" => \E k \in Nat : n + 2 - i = 2 * k
               /\ M[i].status = "pending" => n + 2 - i <= 2 * (AtOnce - 1)
    <3>1. CASE i \in 1 .. n
      <4>1. M[i] = msgs[i] /\ i \in Int
        BY <1>0, <1>3, <3>1
      <4>2. /\ msgs[i].role = "assistant" => \E k \in Nat : n - i = 2 * k
            /\ msgs[i].status = "pending" => msgs[i].role = "assistant" /\ n - i < 2 * (AtOnce - 1)
        <5>1. msgs[i].role \in Roles /\ (msgs[i].role = "user" => msgs[i].status = "done")
          BY <1>0, <1>8, <3>1 DEF Entry
        <5>. QED BY <1>z, <1>0, <1>2, <3>1, <5>1 DEF OpenAreLate, Roles
      <4>3. ASSUME NEW k \in Nat, n - i = 2 * k
            PROVE  /\ k + 1 \in Nat /\ n + 2 - i = 2 * (k + 1)
                   /\ n - i < 2 * (AtOnce - 1) => n + 2 - i <= 2 * (AtOnce - 1)
        BY <2>0, <4>1, <4>3
      <4>. QED BY <4>1, <4>2, <4>3
    <3>2. CASE i = n + 1
      BY <1>3, <1>4, <3>2
    <3>3. CASE i = n + 2
      <4>1. n + 2 - i = 2 * 0 /\ 0 \in Nat /\ n + 2 - i <= 2 * (AtOnce - 1)
        BY <2>0, <3>3
      <4>. QED BY <4>1
    <3>. QED BY <1>6, <3>1, <3>2, <3>3
  <2>2. /\ \A i \in DOMAIN M : M[i].role = "assistant" => \E k \in Nat : Len(M) - i = 2 * k
        /\ \A i \in DOMAIN M : M[i].status = "pending" => Len(M) - i <= 2 * (AtOnce - 1)
    <3>1. DOMAIN M = 1 .. n + 2 /\ Len(M) = n + 2
      BY <1>3
    <3>2. ASSUME NEW i \in DOMAIN M
          PROVE  /\ M[i].role = "assistant" => \E k \in Nat : Len(M) - i = 2 * k
                 /\ M[i].status = "pending" => Len(M) - i <= 2 * (AtOnce - 1)
      <4>1. i \in 1 .. n + 2 /\ Len(M) - i = n + 2 - i
        BY <3>1
      <4>2. /\ M[i].role = "assistant" => \E k \in Nat : n + 2 - i = 2 * k
            /\ M[i].status = "pending" => n + 2 - i <= 2 * (AtOnce - 1)
        BY <2>1, <4>1, Zenon
      <4>. QED BY <4>1, <4>2
    <3>. QED BY <3>2
  <2>. QED BY <2>2 DEF OpenAreLate, M
<1>12. ASSUME NEW m \in Int, Settled(m)
       PROVE  Settled(m)' /\ DoneSlice(0, m)' = DoneSlice(0, m)
  <2>1. /\ DoneAt \in SUBSET (1 .. n) /\ Place(n + 1) = Rank(DoneAt, n + 1) /\ IsFiniteSet(DoneAt)
        /\ DoneAt \in SUBSET Nat /\ Cardinality(DoneAt) \in Nat
    BY <1>z, DoneMessages DEF DoneFacts
  <2>2. n + 1 \in Nat /\ n + 1 \notin DoneAt
    BY <1>0, <2>1
  <2>3. DoneAt' = DoneAt \cup {n + 1}
    <3>1. DoneAt = {i \in 1 .. n : msgs[i].status = "done"}
      BY <1>0 DEF DoneAt
    <3>2. DoneAt' = {i \in 1 .. n + 2 : M[i].status = "done"}
      BY <1>3 DEF DoneAt, M
    <3>. QED BY <1>3, <1>4, <1>6, <1>7, <3>1, <3>2
  <2>4. {j \in DoneAt : j <= n + 1} = DoneAt
    <3>1. \A j \in 1 .. n : j <= n + 1
      BY <1>0
    <3>. QED BY <2>1, <3>1
  <2>5. Place(n + 1) = Cardinality(DoneAt)
    BY <2>4 DEF Place
  <2>6. m <= Place(n + 1)
    BY <2>5, <1>12 DEF Settled
  <2>7. \A i \in DOMAIN msgs : msgs'[i].turn = msgs[i].turn /\ msgs'[i].role = msgs[i].role
    BY <1>0, <1>3 DEF M
  <2>8. Cardinality(DoneAt) <= Place(n + 2)'
    <3>1. {j \in DoneAt' : j <= n + 2} = DoneAt'
      <4>1. \A j \in 1 .. n : j <= n + 2
        BY <1>0
      <4>2. n + 1 <= n + 2
        BY <1>0
      <4>. QED BY <2>1, <2>3, <4>1, <4>2
    <3>2. Place(n + 2)' = Cardinality(DoneAt')
      BY <3>1 DEF Place
    <3>3. Cardinality(DoneAt \cup {n + 1}) = Cardinality(DoneAt) + 1
      BY <2>1, <2>2, FS_AddElement
    <3>. QED BY <2>1, <2>3, <3>2, <3>3
  <2>9. ASSUME NEW i \in DOMAIN msgs', msgs'[i].status = "pending"
        PROVE  IF i \in DOMAIN msgs THEN msgs[i].status = "pending" ELSE Cardinality(DoneAt) <= Place(i)'
    <3>1. i \in 1 .. n + 2 /\ M[i].status = "pending"
      BY <1>3, <2>9 DEF M
    <3>2. CASE i \in 1 .. n
      BY <1>0, <1>3, <3>1, <3>2
    <3>3. CASE i = n + 1
      BY <1>3, <1>4, <3>1, <3>3
    <3>4. CASE i = n + 2
      <4>1. i \notin DOMAIN msgs
        BY <1>0, <3>4
      <4>. QED BY <2>8, <3>4, <4>1
    <3>. QED BY <1>6, <3>1, <3>2, <3>3, <3>4
  <2>10. Len(msgs) <= Len(msgs')
    BY <1>z, <1>0, <1>3 DEF M
  <2>. QED BY <1>9, <1>12, <2>2, <2>3, <2>6, <2>7, <2>9, <2>10, SettledKept
<1>. QED BY <1>9, <1>10, <1>11, <1>12

(* A place behind the last message counts all that are done.                 *)
LEMMA PlaceBehind ==
  ASSUME Paired
  PROVE  /\ Len(msgs) + 1 \in Nat /\ Len(msgs) + 1 \notin DoneAt
         /\ Place(Len(msgs) + 1) = Cardinality(DoneAt)
<1>1. Len(msgs) \in Nat /\ DoneAt \in SUBSET (1 .. Len(msgs))
  BY DoneMessages DEF DoneFacts
<1>2. \A j \in 1 .. Len(msgs) : j <= Len(msgs) + 1 /\ j # Len(msgs) + 1
  BY <1>1
<1>3. {j \in DoneAt : j <= Len(msgs) + 1} = DoneAt
  BY <1>1, <1>2
<1>4. Place(Len(msgs) + 1) = Cardinality(DoneAt)
  BY <1>3 DEF Place
<1>5. Len(msgs) + 1 \in Nat /\ Len(msgs) + 1 \notin 1 .. Len(msgs)
  BY <1>1
<1>. QED BY <1>1, <1>4, <1>5

(* A turn ends: its answer, if it is still there, is closed.                 *)
LEMMA FinalizeCloses ==
  ASSUME Paired, AskersFit, OpenAreLate, HistoryShape, NEW t \in Asker, NEW st \in {"done", "failed"},
         FinalizeTurn(t, st)
  PROVE  /\ Paired' /\ AskersFit' /\ OpenAreLate'
         /\ \A n \in Int : Settled(n) => Settled(n)' /\ DoneSlice(0, n)' = DoneSlice(0, n)
<1> DEFINE a == Msg(t, "assistant", st)
           M == msgs'
<1>z. PICK n \in Nat : n = Len(msgs)
  BY DoneMessages DEF DoneFacts
<1>0. /\ DOMAIN msgs = 1 .. n /\ \A i \in 1 .. n : msgs[i] \in Entry
  BY <1>z, DoneMessages DEF DoneFacts
<1>1. a \in Entry /\ a.turn = t /\ a.role = "assistant" /\ a.status = st
  BY DEF Msg, Entry, Roles
<1>2. /\ M = [i \in 1 .. n |-> IF msgs[i].turn = t /\ msgs[i].role = "assistant" THEN a ELSE msgs[i]]
      /\ asker' = [asker EXCEPT ![t] = "end"] /\ asker[t] = "begun"
  BY <1>0 DEF FinalizeTurn, Reach
<1> HIDE DEF a, M
<1>3. /\ M \in Seq(Entry) /\ Len(M) = n /\ DOMAIN M = 1 .. n
      /\ \A i \in 1 .. n : M[i] = IF msgs[i].turn = t /\ msgs[i].role = "assistant" THEN a ELSE msgs[i]
  <2>1. M \in [1 .. n -> Entry]
    BY <1>0, <1>1, <1>2
  <2>2. M \in Seq(Entry) /\ Len(M) = n
    BY <2>1
  <2>. QED BY <1>2, <2>1, <2>2
<1>4. \A i \in 1 .. n : /\ M[i].turn = msgs[i].turn /\ M[i].role = msgs[i].role
                        /\ M[i].role = "user" => M[i] = msgs[i]
  BY <1>0, <1>1, <1>3 DEF Entry
<1>5. ASSUME NEW i \in 1 .. n
      PROVE  /\ M[i].status = IF msgs[i].turn = t /\ msgs[i].role = "assistant" THEN st ELSE msgs[i].status
             /\ msgs[i].turn = t /\ msgs[i].role = "assistant" => msgs[i].status = "pending"
  BY <1>0, <1>1, <1>2, <1>3 DEF AskersFit
<1>6. Paired'
  <2>1. /\ \A i \in 1 .. n : msgs[i].role = "user" =>
              /\ msgs[i].status = "done" /\ i + 1 \in 1 .. n
              /\ msgs[i + 1].turn = msgs[i].turn /\ msgs[i + 1].role = "assistant"
        /\ \A i \in 1 .. n : msgs[i].role = "assistant" =>
              /\ i - 1 \in 1 .. n
              /\ msgs[i - 1].turn = msgs[i].turn /\ msgs[i - 1].role = "user"
        /\ \A i, j \in 1 .. n : msgs[i].turn = msgs[j].turn /\ msgs[i].role = msgs[j].role => i = j
    BY <1>0 DEF Paired
  <2>2. /\ \A i \in 1 .. n : M[i].role = "user" =>
              /\ M[i].status = "done" /\ i + 1 \in 1 .. n
              /\ M[i + 1].turn = M[i].turn /\ M[i + 1].role = "assistant"
        /\ \A i \in 1 .. n : M[i].role = "assistant" =>
              /\ i - 1 \in 1 .. n
              /\ M[i - 1].turn = M[i].turn /\ M[i - 1].role = "user"
        /\ \A i, j \in 1 .. n : M[i].turn = M[j].turn /\ M[i].role = M[j].role => i = j
    BY <1>4, <2>1
  <2>. QED BY <1>3, <2>2 DEF Paired, M, Entry
<1>7. AskersFit'
  <2>1. asker \in [Asker -> {"new", "opened", "begun", "end"}]
    BY DEF HistoryShape
  <2>2. asker'[t] = "end" /\ \A s \in Asker : s # t => asker'[s] = asker[s]
    BY <1>2, <2>1
  <2>3. ASSUME NEW i \in 1 .. n
        PROVE  /\ asker'[M[i].turn] \in {"begun", "end"}
               /\ M[i].role = "assistant" /\ asker'[M[i].turn] = "begun" => M[i].status = "pending"
    <3>1. M[i].turn = msgs[i].turn /\ M[i].role = msgs[i].role /\ msgs[i].turn \in Asker
      BY <1>0, <1>4 DEF Entry
    <3>2. CASE msgs[i].turn = t
      BY <2>2, <3>1, <3>2
    <3>3. CASE msgs[i].turn # t
      <4>1. M[i].status = msgs[i].status
        BY <1>5, <3>3
      <4>. QED BY <1>0, <2>2, <3>1, <3>3, <4>1 DEF AskersFit
    <3>. QED BY <3>2, <3>3
  <2>. QED BY <1>3, <2>3 DEF AskersFit, M
<1>8. OpenAreLate'
  <2>1. ASSUME NEW i \in 1 .. n
        PROVE  /\ M[i].role = "assistant" => \E k \in Nat : Len(msgs) - i = 2 * k
               /\ M[i].status = "pending" => Len(msgs) - i <= 2 * (AtOnce - 1)
    <3>1. M[i].role = msgs[i].role /\ (M[i].status = "pending" => msgs[i].status = "pending")
      BY <1>4, <1>5
    <3>. QED BY <1>0, <3>1 DEF OpenAreLate
  <2>2. Len(msgs') = Len(msgs) /\ DOMAIN msgs' = 1 .. n
    BY <1>z, <1>3 DEF M
  <2>. QED BY <2>1, <2>2 DEF OpenAreLate, M
<1>9. ASSUME NEW m \in Int, Settled(m)
      PROVE  Settled(m)' /\ DoneSlice(0, m)' = DoneSlice(0, m)
  <2>1. \A i \in DOMAIN msgs : msgs'[i].turn = msgs[i].turn /\ msgs'[i].role = msgs[i].role
    BY <1>0, <1>4 DEF M
  <2>2. \A i \in DOMAIN msgs' : i \in DOMAIN msgs /\ (msgs'[i].status = "pending" => msgs[i].status = "pending")
    BY <1>0, <1>3, <1>5 DEF M
  <2>3. Len(msgs) <= Len(msgs')
    BY <1>z, <1>3 DEF M
  <2>4. /\ DoneAt = {i \in 1 .. n : msgs[i].status = "done"}
        /\ DoneAt' = {i \in 1 .. n : M[i].status = "done"}
    BY <1>0, <1>3 DEF DoneAt, M
  <2>5. CASE st = "done" /\ \E k \in 1 .. n : msgs[k].turn = t /\ msgs[k].role = "assistant"
    <3>1. PICK k \in 1 .. n : msgs[k].turn = t /\ msgs[k].role = "assistant"
      BY <2>5
    <3>2. \A i \in 1 .. n : msgs[i].turn = t /\ msgs[i].role = "assistant" <=> i = k
      BY <1>0, <3>1 DEF Paired
    <3>3. msgs[k].status = "pending" /\ k \in Nat /\ k \in DOMAIN msgs
      BY <1>0, <1>5, <3>1
    <3>4. k \notin DoneAt /\ DoneAt' = DoneAt \cup {k}
      BY <1>5, <2>4, <2>5, <3>2, <3>3
    <3>5. m <= Place(k)
      BY <1>9, <3>3 DEF Settled
    <3>. QED BY <1>6, <1>9, <2>1, <2>2, <2>3, <3>3, <3>4, <3>5, SettledKept
  <2>6. CASE ~(st = "done" /\ \E k \in 1 .. n : msgs[k].turn = t /\ msgs[k].role = "assistant")
    <3>1. DoneAt' = DoneAt
      BY <1>5, <2>4, <2>6
    <3>2. PICK k \in Nat : k \notin DoneAt /\ Place(k) = Cardinality(DoneAt)
      BY PlaceBehind
    <3>3. m <= Place(k)
      BY <1>9, <3>2 DEF Settled
    <3>. QED BY <1>6, <1>9, <2>1, <2>2, <2>3, <3>1, <3>2, <3>3, SettledKept
  <2>. QED BY <2>5, <2>6
<1>. QED BY <1>6, <1>7, <1>8, <1>9

(* What is cut off behind a whole turn leaves whole turns.                   *)
LEMMA CutKeepsPairs ==
  ASSUME Paired, AskersFit, OpenAreLate, asker' = asker,
         \/ msgs' = <<>>
         \/ \E f \in DOMAIN msgs : msgs[f].role = "user" /\ msgs' = SubSeq(msgs, 1, f - 1)
  PROVE  Paired' /\ AskersFit' /\ OpenAreLate'
<1>1. CASE msgs' = <<>>
  BY <1>1 DEF Paired, AskersFit, OpenAreLate
<1>2. ASSUME NEW f \in DOMAIN msgs, msgs[f].role = "user", msgs' = SubSeq(msgs, 1, f - 1)
      PROVE  Paired' /\ AskersFit' /\ OpenAreLate'
  <2> DEFINE M == msgs'
  <2>z. PICK n \in Nat : n = Len(msgs)
    BY DoneMessages DEF DoneFacts
  <2>0. /\ DOMAIN msgs = 1 .. n /\ \A i \in 1 .. n : msgs[i] \in Entry /\ i \in Int
        /\ f \in 1 .. n /\ f \in Int /\ f + 1 \in DOMAIN msgs /\ msgs[f + 1].role = "assistant"
    <3>1. DOMAIN msgs = 1 .. n /\ \A i \in 1 .. n : msgs[i] \in Entry
      BY <2>z, DoneMessages DEF DoneFacts
    <3>2. f + 1 \in DOMAIN msgs /\ msgs[f + 1].role = "assistant"
      BY <1>2 DEF Paired
    <3>. QED BY <3>1, <3>2
  <2>1. M \in Seq(Entry) /\ Len(M) = f - 1 /\ DOMAIN M = 1 .. f - 1 /\ \A i \in 1 .. f - 1 : M[i] = msgs[i]
    <3>1. \A i \in 1 .. f - 1 : i \in 1 .. n
      BY <2>0
    <3>2. f - 1 \in Int /\ 1 \in Int /\ \A i \in 1 .. f - 1 : msgs[i] \in Entry
      BY <2>0, <3>1
    <3>3. /\ SubSeq(msgs, 1, f - 1) \in Seq(Entry)
          /\ Len(SubSeq(msgs, 1, f - 1)) = IF 1 <= f - 1 THEN f - 1 - 1 + 1 ELSE 0
          /\ \A i \in 1 .. f - 1 - 1 + 1 : SubSeq(msgs, 1, f - 1)[i] = msgs[1 + i - 1]
      BY <3>2, SubSeqProperties
    <3>4. f - 1 - 1 + 1 = f - 1 /\ \A i \in 1 .. f - 1 : 1 + i - 1 = i
      BY <2>0
    <3>5. M \in Seq(Entry) /\ Len(M) = f - 1
      BY <1>2, <2>0, <3>3
    <3>6. \A i \in 1 .. f - 1 : M[i] = msgs[i]
      BY <1>2, <3>3, <3>4
    <3> HIDE DEF M
    <3>. QED BY <3>5, <3>6
  <2> HIDE DEF M
  <2>2. \A i \in 1 .. f - 1 : i \in 1 .. n /\ i # f /\ i \in Int
    BY <2>0
  <2>3. \A i \in 1 .. f - 1 : i + 1 \in 1 .. n /\ i + 1 # f => i + 1 \in 1 .. f - 1
    BY <2>0
  <2>4. \A i \in 1 .. f - 1 : i - 1 \in 1 .. n => i - 1 \in 1 .. f - 1
    BY <2>0
  <2>5. /\ \A i \in 1 .. n : msgs[i].role = "user" =>
              /\ msgs[i].status = "done" /\ i + 1 \in 1 .. n
              /\ msgs[i + 1].turn = msgs[i].turn /\ msgs[i + 1].role = "assistant"
        /\ \A i \in 1 .. n : msgs[i].role = "assistant" =>
              /\ i - 1 \in 1 .. n
              /\ msgs[i - 1].turn = msgs[i].turn /\ msgs[i - 1].role = "user"
        /\ \A i, j \in 1 .. n : msgs[i].turn = msgs[j].turn /\ msgs[i].role = msgs[j].role => i = j
    BY <2>0 DEF Paired
  <2>6. Paired'
    <3>1. \A i \in 1 .. f - 1 : M[i].role = "user" =>
                /\ M[i].status = "done" /\ i + 1 \in 1 .. f - 1
                /\ M[i + 1].turn = M[i].turn /\ M[i + 1].role = "assistant"
      <4> SUFFICES ASSUME NEW i \in 1 .. f - 1, M[i].role = "user"
                   PROVE  /\ M[i].status = "done" /\ i + 1 \in 1 .. f - 1
                          /\ M[i + 1].turn = M[i].turn /\ M[i + 1].role = "assistant"
        OBVIOUS
      <4>1. msgs[i].status = "done" /\ i + 1 \in 1 .. n /\ M[i] = msgs[i]
            /\ msgs[i + 1].turn = msgs[i].turn /\ msgs[i + 1].role = "assistant"
        BY <2>1, <2>2, <2>5
      <4>2. i + 1 # f
        BY <1>2, <4>1
      <4>. QED BY <2>1, <2>3, <4>1, <4>2
    <3>2. \A i \in 1 .. f - 1 : M[i].role = "assistant" =>
                /\ i - 1 \in 1 .. f - 1
                /\ M[i - 1].turn = M[i].turn /\ M[i - 1].role = "user"
      BY <2>1, <2>2, <2>4, <2>5
    <3>3. \A i, j \in 1 .. f - 1 : M[i].turn = M[j].turn /\ M[i].role = M[j].role => i = j
      BY <2>1, <2>2, <2>5
    <3>. QED BY <2>1, <3>1, <3>2, <3>3 DEF Paired, M, Entry
  <2>7. AskersFit'
    <3>1. \A i \in 1 .. f - 1 :
            /\ asker[M[i].turn] \in {"begun", "end"}
            /\ M[i].role = "assistant" /\ asker[M[i].turn] = "begun" => M[i].status = "pending"
      BY <2>0, <2>1, <2>2 DEF AskersFit
    <3>. QED BY <2>1, <3>1 DEF AskersFit, M
  <2>8. OpenAreLate'
    <3>1. PICK k0 \in Nat : n - (f + 1) = 2 * k0
      BY <2>z, <2>0 DEF OpenAreLate
    <3>2. ASSUME NEW i \in 1 .. f - 1
          PROVE  /\ M[i].role = "assistant" => \E k \in Nat : f - 1 - i = 2 * k
                 /\ M[i].status = "pending" => f - 1 - i <= 2 * (AtOnce - 1)
      <4>1. M[i] = msgs[i] /\ i \in 1 .. n
        BY <2>1, <2>2
      <4>2. ASSUME msgs[i].role = "assistant" PROVE \E k \in Nat : f - 1 - i = 2 * k
        <5>1. PICK k \in Nat : n - i = 2 * k
          BY <2>z, <2>0, <4>1, <4>2 DEF OpenAreLate
        <5>2. f - 1 - i = 2 * (k - k0 - 1) /\ f - 1 - i >= 0
          BY <2>0, <3>1, <4>1, <5>1
        <5>3. k - k0 - 1 \in Nat
          BY <5>2
        <5>. QED BY <5>2, <5>3
      <4>3. ASSUME msgs[i].status = "pending" PROVE f - 1 - i <= 2 * (AtOnce - 1)
        <5>1. n - i <= 2 * (AtOnce - 1)
          BY <2>z, <2>0, <4>1, <4>3 DEF OpenAreLate
        <5>2. AtOnce \in Nat
          BY HistoryAssumption
        <5>. QED BY <2>0, <4>1, <5>1, <5>2
      <4>. QED BY <4>1, <4>2, <4>3
    <3>3. ASSUME NEW i \in DOMAIN msgs'
          PROVE  /\ msgs'[i].role = "assistant" => \E k \in Nat : Len(msgs') - i = 2 * k
                 /\ msgs'[i].status = "pending" => Len(msgs') - i <= 2 * (AtOnce - 1)
      <4>1. i \in 1 .. f - 1 /\ Len(msgs') - i = f - 1 - i
        BY <2>1 DEF M
      <4>2. /\ msgs'[i].role = "assistant" => \E k \in Nat : f - 1 - i = 2 * k
            /\ msgs'[i].status = "pending" => f - 1 - i <= 2 * (AtOnce - 1)
        BY <3>2, <4>1, Zenon DEF M
      <4>. QED BY <4>1, <4>2
    <3>. QED BY <3>3 DEF OpenAreLate
  <2>. QED BY <2>6, <2>7, <2>8
<1>. QED BY <1>1, <1>2

-----------------------------------------------------------------------------
(* The summary's view when messages may have moved, but the first that any   *)
(* compression has counted have not.                                         *)
LEMMA SummaryKept ==
  ASSUME HistoryShape, SummaryFits, UNCHANGED <<session, remover, cut>>,
         \A n \in Int : Settled(n) => Settled(n)' /\ DoneSlice(0, n)' = DoneSlice(0, n),
         job' = job \/ job'.step \in {"idle", "count"}
  PROVE  SummaryFits'
<1> SUFFICES ASSUME ~cut, NEW n \in Int
             PROVE  /\ session.alive /\ remover = "idle"
                    /\ n = session.count => session.covered = DoneSlice(0, n)' /\ Settled(n)'
                    /\ n = Target' =>
                          /\ job'.step \in {"look", "list", "save"} => Settled(n)'
                          /\ job'.step = "list" => job'.already = session.count /\ job'.base = session.covered
                                                   /\ job'.already < n
                          /\ job'.step = "save" => job'.base \cup job'.picked = DoneSlice(0, n)'
  BY DEF SummaryFits
<1>1. /\ session.alive /\ remover = "idle"
      /\ n = session.count => session.covered = DoneSlice(0, n) /\ Settled(n)
      /\ n = Target =>
            /\ job.step \in {"look", "list", "save"} => Settled(n)
            /\ job.step = "list" => job.already = session.count /\ job.base = session.covered
                                    /\ job.already < n
            /\ job.step = "save" => job.base \cup job.picked = DoneSlice(0, n)
  BY DEF SummaryFits
<1>2. Settled(n) => Settled(n)' /\ DoneSlice(0, n)' = DoneSlice(0, n)
  OBVIOUS
<1>3. CASE job' = job
  <2>1. Target' = Target
    BY <1>3 DEF Target
  <2>2. n = Target /\ job.step = "save" => Settled(n)
    BY <1>1
  <2>. QED BY <1>1, <1>2, <1>3, <2>1, <2>2
<1>4. CASE job'.step \in {"idle", "count"}
  BY <1>1, <1>2, <1>4
<1>. QED BY <1>3, <1>4

(* What the store answers about unchanged messages is unchanged.             *)
LEMMA SliceKept ==
  ASSUME msgs' = msgs
  PROVE  /\ Paired => Paired'
         /\ DoneAt' = DoneAt
         /\ \A n \in Int : Settled(n)' <=> Settled(n)
         /\ \A m, n \in Int : DoneSlice(m, n)' = DoneSlice(m, n)
<1>1. DoneAt' = DoneAt
  BY DEF DoneAt
<1>2. \A i : Place(i)' = Place(i)
  BY <1>1 DEF Place
<1>3. \A n \in Int : Settled(n)' <=> Settled(n)
  BY <1>1, <1>2 DEF Settled
<1>4. ASSUME NEW m \in Int, NEW n \in Int PROVE DoneSlice(m, n)' = DoneSlice(m, n)
  <2>1. {j \in DoneAt' : Place(j)' \in (m + 1)..(m + n)} = {j \in DoneAt : Place(j) \in (m + 1)..(m + n)}
    BY <1>1, <1>2
  <2>. QED BY <2>1 DEF DoneSlice
<1>5. Paired => Paired'
  BY DEF Paired
<1>. QED BY <1>1, <1>3, <1>4, <1>5

(* A slice is a set of the session's messages.                               *)
LEMMA SliceTyped == ASSUME Paired, NEW m \in Int, NEW n \in Int PROVE DoneSlice(m, n) \subseteq Messages
<1>1. \A i \in DoneAt : msgs[i].turn \in Asker /\ msgs[i].role \in Roles
  BY DoneMessages DEF DoneFacts, Entry
<1>. QED BY <1>1 DEF DoneSlice, Messages

(* The messages up to one place and those from there on.                     *)
LEMMA SlicesJoin ==
  ASSUME Paired, NEW m \in Nat, NEW n \in Int, m < n
  PROVE  DoneSlice(0, m) \cup DoneSlice(m, n - m) = DoneSlice(0, n)
<1>1. \A i \in DoneAt : i \in Int /\ Place(i) \in Nat
  BY DoneMessages DEF DoneFacts
<1>2. \A i \in DoneAt :
        Place(i) \in (0 + 1) .. (0 + n) <=> Place(i) \in (0 + 1) .. (0 + m) \/ Place(i) \in (m + 1) .. (m + (n - m))
  BY <1>1
<1>3. {j \in DoneAt : Place(j) \in (0 + 1) .. (0 + n)}
        = {j \in DoneAt : Place(j) \in (0 + 1) .. (0 + m)} \cup {j \in DoneAt : Place(j) \in (m + 1) .. (m + (n - m))}
  BY <1>2
<1>. QED BY <1>3 DEF DoneSlice

(* What is counted now minus what is kept: the open answers come later.      *)
LEMMA CountIsSettled ==
  ASSUME Paired, OpenAreLate
  PROVE  Settled(Cardinality(DoneAt) - RecentKeep)
<1> DEFINE d == Cardinality(DoneAt)
<1>0. RecentKeep \in Nat /\ AtOnce \in Nat /\ 2 * (AtOnce - 1) <= RecentKeep /\ d \in Nat
  BY HistoryAssumption, DoneMessages DEF DoneFacts
<1>z. PICK n \in Nat : n = Len(msgs)
  BY DoneMessages DEF DoneFacts
<1>1. /\ DoneAt \in SUBSET (1 .. n) /\ DOMAIN msgs = 1 .. n
      /\ \A i : Place(i) = Rank(DoneAt, i)
      /\ \A i \in Int : Place(i) \in Nat
  BY <1>z, DoneMessages DEF DoneFacts
<1>2. ASSUME NEW i \in DOMAIN msgs, msgs[i].status = "pending"
      PROVE  d - RecentKeep <= Place(i)
  <2>1. i \in 1 .. n /\ i \in Int
    BY <1>1
  <2>2. d <= Rank(DoneAt, i) + (n - i)
    BY <1>1, <2>1, RankLeft
  <2>3. n - i <= 2 * (AtOnce - 1)
    BY <1>z, <1>2 DEF OpenAreLate
  <2> DEFINE p == Place(i)
             e == d
  <2>4. e <= p + (n - i) /\ p \in Nat /\ e \in Nat
    BY <1>0, <1>1, <2>1, <2>2
  <2> HIDE DEF p, e
  <2>5. e - RecentKeep <= p
    BY <1>0, <2>1, <2>3, <2>4
  <2>. QED BY <2>5 DEF e, p
<1>3. d - RecentKeep <= d
  BY <1>0
<1>. QED BY <1>2, <1>3 DEF Settled

(* The job's record after each of its steps.                                 *)
JobOf == [step : JobSteps, total : 0 .. 2 * Cardinality(Asker), already : Nat,
          base : SUBSET Messages, picked : SUBSET Messages]
SessionOf == [alive : BOOLEAN, old : BOOLEAN, covered : SUBSET Messages, count : 0 .. 2 * Cardinality(Asker)]

(* The records a job and a session begin with.                               *)
LEMMA FreshRecords ==
  /\ IdleJob \in JobOf /\ IdleJob.step = "idle" /\ [IdleJob EXCEPT !.step = "count"] \in JobOf
  /\ [IdleJob EXCEPT !.step = "count"].step = "count"
  /\ NewSession \in SessionOf /\ NewSession.alive /\ [NewSession EXCEPT !.alive = FALSE] \in SessionOf
  /\ Cardinality(Asker) \in Nat
<1>1. Cardinality(Asker) \in Nat
  BY HistoryAssumption, FS_CardinalityType
<1>2. 0 \in 0 .. 2 * Cardinality(Asker)
  BY <1>1
<1>. QED BY <1>1, <1>2 DEF IdleJob, NewSession, JobOf, SessionOf, JobSteps

(* A step of the messages: a turn begins or ends.                            *)
LEMMA TurnKeeps ==
  ASSUME HistoryIInv, NEW t \in Asker,
         BeginTurn(t) \/ \E st \in {"done", "failed"} : FinalizeTurn(t, st)
  PROVE  HistoryIInv'
<1>1. HistoryShape /\ Paired /\ AskersFit /\ OpenAreLate /\ SummaryFits
  BY DEF HistoryIInv
<1>2. /\ Paired' /\ AskersFit' /\ OpenAreLate'
      /\ \A n \in Int : Settled(n) => Settled(n)' /\ DoneSlice(0, n)' = DoneSlice(0, n)
  BY <1>1, BeginAppends, FinalizeCloses
<1>3. /\ UNCHANGED <<session, sweep, remover, cuts, cut>>
      /\ job' = job \/ job' = [IdleJob EXCEPT !.step = "count"]
      /\ asker' = [asker EXCEPT ![t] = "begun"] \/ asker' = [asker EXCEPT ![t] = "end"]
  BY DEF BeginTurn, FinalizeTurn, Reach
<1>4. job' = job \/ job'.step \in {"idle", "count"}
  BY <1>3, FreshRecords
<1>5. SummaryFits'
  BY <1>1, <1>2, <1>3, <1>4, SummaryKept
<1>6. HistoryShape'
  <2>1. job' \in JobOf /\ (job'.step \in {"list", "save"} => Target' >= 1)
    BY <1>1, <1>3, FreshRecords DEF HistoryShape, JobOf, Target
  <2>2. asker' \in [Asker -> {"new", "opened", "begun", "end"}]
    BY <1>1, <1>3 DEF HistoryShape
  <2>. QED BY <1>1, <1>3, <2>1, <2>2 DEF HistoryShape, JobOf, NewSession
<1>. QED BY <1>2, <1>5, <1>6 DEF HistoryIInv

(* A step that leaves messages and askers alone keeps what is about them.    *)
LEMMA StillPaired ==
  ASSUME HistoryIInv, UNCHANGED <<msgs, asker>>
  PROVE  Paired' /\ AskersFit' /\ OpenAreLate'
BY DEF HistoryIInv, Paired, AskersFit, OpenAreLate

(* The compression.                                                          *)
LEMMA CompressKeeps == ASSUME HistoryIInv, Compress PROVE HistoryIInv'
<1>1. HistoryShape /\ Paired /\ AskersFit /\ OpenAreLate /\ SummaryFits
  BY DEF HistoryIInv
<1>2. UNCHANGED <<msgs, asker, sweep, remover, cuts, cut>>
  BY DEF Compress, CompressCount, CompressLook, CompressList, CompressSave, CompressFails
<1>3. Paired' /\ AskersFit' /\ OpenAreLate'
  BY <1>2, StillPaired
<1>4. /\ \A n \in Int : Settled(n)' <=> Settled(n)
      /\ \A m, n \in Int : DoneSlice(m, n)' = DoneSlice(m, n)
  BY <1>2, SliceKept
<1>5. /\ job \in JobOf /\ session \in SessionOf
      /\ session.alive \/ session = [NewSession EXCEPT !.alive = FALSE]
      /\ job.step \in {"list", "save"} => Target >= 1
      /\ asker \in [Asker -> {"new", "opened", "begun", "end"}]
      /\ sweep \in {"idle", "empty"} /\ remover \in {"idle", "emptied"}
      /\ cuts \in 0 .. MaxCuts /\ cut \in BOOLEAN
  BY <1>1 DEF HistoryShape, JobOf, SessionOf
<1>6. RecentKeep \in Nat /\ CompressMin \in Nat \ {0} /\ Cardinality(Asker) \in Nat /\ job.total \in Nat
      /\ job.total \in 0 .. 2 * Cardinality(Asker)
      /\ session.count \in Nat /\ Target \in Int /\ Target <= job.total /\ Target = job.total - RecentKeep
  BY <1>5, HistoryAssumption, FreshRecords DEF JobOf, SessionOf, Target
<1>7. ASSUME job' \in JobOf, session' \in SessionOf,
             session'.alive \/ session' = [NewSession EXCEPT !.alive = FALSE],
             job'.step \in {"list", "save"} => Target' >= 1
      PROVE  HistoryShape'
  BY <1>2, <1>5, <1>7 DEF HistoryShape, JobOf, SessionOf, NewSession
<1>8. ASSUME ~cut
      PROVE  /\ session.alive /\ remover = "idle"
             /\ session.covered = DoneSlice(0, session.count) /\ Settled(session.count)
             /\ job.step \in {"look", "list", "save"} => Settled(Target)
             /\ job.step = "list" => job.already = session.count /\ job.base = session.covered /\ job.already < Target
             /\ job.step = "save" => job.base \cup job.picked = DoneSlice(0, Target)
  BY <1>1, <1>6, <1>8 DEF SummaryFits
<1>9. CASE CompressCount
  <2> DEFINE d == Cardinality(DoneAt)
  <2>1. job.step = "count" /\ job' = [job EXCEPT !.step = "look", !.total = d] /\ session' = session
    BY <1>9 DEF CompressCount
  <2>2. d \in 0 .. 2 * Cardinality(Asker)
    BY <1>1, DoneIsBounded
  <2> HIDE DEF d
  <2>3. job' \in JobOf /\ job'.step = "look" /\ job'.total = d
    BY <1>5, <2>1, <2>2 DEF JobOf, JobSteps
  <2>4. Target' = d - RecentKeep
    BY <2>3 DEF Target
  <2>5. Settled(d - RecentKeep)
    BY <1>1, CountIsSettled DEF d
  <2>6. SummaryFits'
    <3> SUFFICES ASSUME ~cut, NEW n \in Int
                 PROVE  /\ session.alive /\ remover = "idle"
                        /\ n = session.count => session.covered = DoneSlice(0, n)' /\ Settled(n)'
                        /\ n = Target' => Settled(n)'
      BY <1>2, <2>1, <2>3 DEF SummaryFits
    <3>. QED BY <1>4, <1>8, <2>4, <2>5
  <2>7. HistoryShape'
    BY <1>5, <1>7, <2>1, <2>3
  <2>. QED BY <1>3, <2>6, <2>7 DEF HistoryIInv
<1>10. CASE session' = session /\ job' = IdleJob
  <2>1. SummaryFits'
    <3> SUFFICES ASSUME ~cut, NEW n \in Int
                 PROVE  /\ session.alive /\ remover = "idle"
                        /\ n = session.count => session.covered = DoneSlice(0, n)' /\ Settled(n)'
      BY <1>2, <1>10, FreshRecords DEF SummaryFits
    <3>. QED BY <1>4, <1>8
  <2>2. HistoryShape'
    BY <1>5, <1>7, <1>10, FreshRecords
  <2>. QED BY <1>3, <2>1, <2>2 DEF HistoryIInv
<1>11. CASE CompressLook /\ job' # IdleJob
  <2>1. /\ job.step = "look" /\ ~(Target - session.count < CompressMin) /\ session' = session
        /\ job' = [job EXCEPT !.step = "list", !.already = session.count, !.base = session.covered]
    BY <1>11 DEF CompressLook
  <2>2. /\ job' \in JobOf /\ job'.step = "list" /\ job'.already = session.count /\ job'.base = session.covered
        /\ job'.total = job.total
    BY <1>5, <1>6, <2>1 DEF JobOf, JobSteps, SessionOf
  <2>3. Target' = Target /\ session.count < Target /\ Target >= 1
    <3>1. session.count < Target /\ Target >= 1
      BY <1>6, <2>1
    <3>. QED BY <2>2, <3>1 DEF Target
  <2>4. SummaryFits'
    <3> SUFFICES ASSUME ~cut, NEW n \in Int
                 PROVE  /\ session.alive /\ remover = "idle"
                        /\ n = session.count => session.covered = DoneSlice(0, n)' /\ Settled(n)'
                        /\ n = Target => Settled(n)' /\ session.count < n
      BY <1>2, <2>1, <2>2, <2>3 DEF SummaryFits
    <3>. QED BY <1>4, <1>8, <2>1, <2>3
  <2>5. HistoryShape'
    BY <1>5, <1>7, <2>1, <2>2, <2>3
  <2>. QED BY <1>3, <2>4, <2>5 DEF HistoryIInv
<1>12. CASE CompressList /\ job' # IdleJob
  <2> DEFINE new == DoneSlice(job.already, Target - job.already)
  <2>1. job.step = "list" /\ session' = session /\ job' = [job EXCEPT !.step = "save", !.picked = new]
    BY <1>12 DEF CompressList
  <2>2. job.already \in Nat /\ new \subseteq Messages
    <3>1. job.already \in Nat /\ Target - job.already \in Int
      BY <1>5, <1>6 DEF JobOf
    <3>. QED BY <1>1, <3>1, SliceTyped
  <2> HIDE DEF new
  <2>3. /\ job' \in JobOf /\ job'.step = "save" /\ job'.base = job.base /\ job'.picked = new
        /\ job'.total = job.total
    BY <1>5, <2>1, <2>2 DEF JobOf, JobSteps
  <2>4. Target' = Target /\ Target >= 1
    BY <1>5, <2>1, <2>3 DEF Target
  <2>5. ASSUME ~cut PROVE job.base \cup new = DoneSlice(0, Target)
    <3>1. /\ job.base = DoneSlice(0, job.already) /\ job.already < Target
      BY <1>8, <2>1, <2>5
    <3>. QED BY <1>1, <1>6, <2>2, <3>1, SlicesJoin DEF new
  <2>6. SummaryFits'
    <3> SUFFICES ASSUME ~cut, NEW n \in Int
                 PROVE  /\ session.alive /\ remover = "idle"
                        /\ n = session.count => session.covered = DoneSlice(0, n)' /\ Settled(n)'
                        /\ n = Target => Settled(n)' /\ job.base \cup new = DoneSlice(0, n)'
      BY <1>2, <2>1, <2>3, <2>4 DEF SummaryFits
    <3>. QED BY <1>4, <1>8, <2>1, <2>5
  <2>7. HistoryShape'
    BY <1>5, <1>7, <2>1, <2>3, <2>4
  <2>. QED BY <1>3, <2>6, <2>7 DEF HistoryIInv
<1>13. CASE CompressSave /\ session.alive
  <2>1. /\ job.step = "save" /\ job' = IdleJob
        /\ session' = [session EXCEPT !.covered = job.base \cup job.picked, !.count = Target]
    BY <1>13 DEF CompressSave
  <2>2. Target \in 0 .. 2 * Cardinality(Asker)
    <3>1. Target >= 1
      BY <1>5, <2>1
    <3>. QED BY <1>6, <3>1
  <2>3. /\ session' \in SessionOf /\ session'.alive
        /\ session'.covered = job.base \cup job.picked /\ session'.count = Target
    BY <1>5, <1>13, <2>1, <2>2 DEF SessionOf, JobOf
  <2>4. SummaryFits'
    <3> SUFFICES ASSUME ~cut, NEW n \in Int
                 PROVE  /\ remover = "idle"
                        /\ n = Target => job.base \cup job.picked = DoneSlice(0, n)' /\ Settled(n)'
      BY <1>2, <2>1, <2>3, FreshRecords DEF SummaryFits
    <3>1. /\ remover = "idle" /\ Settled(Target)
          /\ job.base \cup job.picked = DoneSlice(0, Target)
      BY <1>8, <2>1
    <3>2. /\ n = Target => job.base \cup job.picked = DoneSlice(0, n) /\ Settled(n)
          /\ DoneSlice(0, n)' = DoneSlice(0, n) /\ (Settled(n)' <=> Settled(n))
      BY <1>4, <3>1
    <3>. QED BY <3>1, <3>2
  <2>5. HistoryShape'
    BY <1>7, <2>1, <2>3, FreshRecords
  <2>. QED BY <1>3, <2>4, <2>5 DEF HistoryIInv
<1>14. \/ CompressCount
       \/ session' = session /\ job' = IdleJob
       \/ CompressLook /\ job' # IdleJob
       \/ CompressList /\ job' # IdleJob
       \/ CompressSave /\ session.alive
  <2>1. CASE CompressCount
    BY <2>1
  <2>2. CASE CompressLook
    BY <2>2 DEF CompressLook
  <2>3. CASE CompressList
    BY <2>3 DEF CompressList
  <2>4. CASE CompressSave
    BY <2>4 DEF CompressSave
  <2>5. CASE CompressFails
    BY <2>5 DEF CompressFails
  <2>. QED BY <2>1, <2>2, <2>3, <2>4, <2>5 DEF Compress
<1>. QED BY <1>9, <1>10, <1>11, <1>12, <1>13, <1>14

(* The user's hand and the sweep.                                            *)
LEMMA HandKeeps ==
  ASSUME HistoryIInv,
         \/ \E i \in DOMAIN msgs : TruncateFrom(i)
         \/ ClearHistory \/ DeleteMessages \/ DeleteSession \/ SweepDelete
  PROVE  HistoryIInv'
<1>1. HistoryShape /\ Paired /\ AskersFit /\ OpenAreLate /\ SummaryFits
  BY DEF HistoryIInv
<1>2. /\ job' = job /\ asker' = asker
      /\ session' = session \/ session' = [NewSession EXCEPT !.alive = FALSE]
      /\ sweep' = sweep \/ sweep' = "idle"
      /\ remover' = remover \/ remover' = "emptied" \/ remover' = "idle"
      /\ cuts' = cuts \/ (cuts < MaxCuts /\ cuts' = cuts + 1)
      /\ cut' = TRUE \/ (cut' = cut /\ remover = "emptied")
  BY DEF TruncateFrom, ClearHistory, DeleteMessages, DeleteSession, SweepDelete, Intervene
<1>3. \/ msgs' = <<>> \/ msgs' = msgs
      \/ \E f \in DOMAIN msgs : msgs[f].role = "user" /\ msgs' = SubSeq(msgs, 1, f - 1)
  <2>1. ASSUME NEW i \in DOMAIN msgs, TruncateFrom(i)
        PROVE  \E f \in DOMAIN msgs : msgs[f].role = "user" /\ msgs' = SubSeq(msgs, 1, f - 1)
    <3> DEFINE first == CHOOSE j \in DOMAIN msgs : msgs[j].turn = msgs[i].turn /\ msgs[j].role = "user"
    <3>1. msgs' = SubSeq(msgs, 1, first - 1)
      BY <2>1 DEF TruncateFrom
    <3>2. \E j \in DOMAIN msgs : msgs[j].turn = msgs[i].turn /\ msgs[j].role = "user"
      <4>1. msgs[i].role \in Roles
        BY <1>1, DoneMessages DEF DoneFacts, Entry
      <4>2. CASE msgs[i].role = "user"
        BY <4>2
      <4>3. CASE msgs[i].role = "assistant"
        BY <1>1, <4>3 DEF Paired
      <4>. QED BY <4>1, <4>2, <4>3 DEF Roles
    <3>3. first \in DOMAIN msgs /\ msgs[first].role = "user"
      BY <3>2
    <3>. QED BY <3>1, <3>3
  <2>2. CASE ClearHistory \/ DeleteMessages
    BY <2>2 DEF ClearHistory, DeleteMessages
  <2>3. CASE DeleteSession \/ SweepDelete
    BY <2>3 DEF DeleteSession, SweepDelete
  <2>. QED BY <2>1, <2>2, <2>3
<1>4. Paired' /\ AskersFit' /\ OpenAreLate'
  <2>1. CASE msgs' = msgs
    BY <1>2, <2>1, StillPaired
  <2>2. CASE msgs' # msgs
    BY <1>1, <1>2, <1>3, <2>2, CutKeepsPairs
  <2>. QED BY <2>1, <2>2
<1>5. cut' = TRUE
  <2>1. remover = "emptied" => cut = TRUE
    BY <1>1 DEF SummaryFits, HistoryShape
  <2>. QED BY <1>2, <2>1
<1>6. SummaryFits'
  BY <1>5 DEF SummaryFits
<1>7. HistoryShape'
  <2>1. /\ job \in JobOf /\ session \in SessionOf
        /\ session.alive \/ session = [NewSession EXCEPT !.alive = FALSE]
        /\ job.step \in {"list", "save"} => Target >= 1
        /\ asker \in [Asker -> {"new", "opened", "begun", "end"}]
        /\ sweep \in {"idle", "empty"} /\ remover \in {"idle", "emptied"}
        /\ cuts \in 0 .. MaxCuts /\ MaxCuts \in Nat
    BY <1>1, HistoryAssumption DEF HistoryShape, JobOf, SessionOf
  <2>2. session' \in SessionOf /\ (session'.alive \/ session' = [NewSession EXCEPT !.alive = FALSE])
    BY <1>2, <2>1, FreshRecords
  <2>3. Target' = Target
    BY <1>2 DEF Target
  <2>4. cuts' \in 0 .. MaxCuts
    BY <1>2, <2>1
  <2>. QED BY <1>2, <1>5, <2>1, <2>2, <2>3, <2>4 DEF HistoryShape, JobOf, SessionOf, NewSession
<1>. QED BY <1>4, <1>6, <1>7 DEF HistoryIInv

(* What opens a session or lets it age.                                      *)
LEMMA SessionKeeps ==
  ASSUME HistoryIInv, (\E t \in Asker : Open(t)) \/ GraceOver \/ SweepCount \/ UNCHANGED historyVars
  PROVE  HistoryIInv'
<1>1. HistoryShape /\ Paired /\ AskersFit /\ OpenAreLate /\ SummaryFits
  BY DEF HistoryIInv
<1>2. /\ UNCHANGED <<msgs, job, remover, cuts, cut>>
      /\ asker' = asker \/ \E t \in Asker : asker[t] = "new" /\ asker' = [asker EXCEPT ![t] = "opened"]
      /\ \/ session' = session
         \/ ~session.alive /\ session' = NewSession
         \/ session.alive /\ session' = [session EXCEPT !.old = TRUE]
      /\ sweep' = sweep \/ sweep' = "empty"
  BY DEF Open, GetOrCreate, Reach, GraceOver, SweepCount, historyVars
<1>3. /\ job \in JobOf /\ session \in SessionOf
      /\ session.alive \/ session = [NewSession EXCEPT !.alive = FALSE]
      /\ job.step \in {"list", "save"} => Target >= 1
      /\ asker \in [Asker -> {"new", "opened", "begun", "end"}]
      /\ sweep \in {"idle", "empty"} /\ remover \in {"idle", "emptied"}
      /\ cuts \in 0 .. MaxCuts /\ cut \in BOOLEAN
  BY <1>1 DEF HistoryShape, JobOf, SessionOf
<1>4. /\ session' \in SessionOf /\ (session'.alive \/ session' = [NewSession EXCEPT !.alive = FALSE])
      /\ session.alive => /\ session'.alive /\ session'.covered = session.covered
                          /\ session'.count = session.count
  BY <1>2, <1>3, FreshRecords DEF SessionOf
<1>5. HistoryShape'
  <2>1. asker' \in [Asker -> {"new", "opened", "begun", "end"}]
    BY <1>2, <1>3
  <2>2. Target' = Target
    BY <1>2 DEF Target
  <2>. QED BY <1>2, <1>3, <1>4, <2>1, <2>2 DEF HistoryShape, JobOf, SessionOf, NewSession
<1>6. Paired' /\ OpenAreLate'
  BY <1>1, <1>2 DEF Paired, OpenAreLate
<1>7. AskersFit'
  <2>1. \A i \in DOMAIN msgs : msgs[i].turn \in Asker
    BY <1>1, DoneMessages DEF DoneFacts, Entry
  <2>2. \A s \in Asker : asker[s] \in {"begun", "end"} => asker'[s] = asker[s]
    BY <1>2, <1>3
  <2>. QED BY <1>1, <1>2, <2>1, <2>2 DEF AskersFit
<1>8. SummaryFits'
  <2>1. /\ \A n \in Int : Settled(n)' <=> Settled(n)
        /\ \A m, n \in Int : DoneSlice(m, n)' = DoneSlice(m, n)
        /\ Target' = Target
    BY <1>2, SliceKept DEF Target
  <2> SUFFICES ASSUME ~cut, NEW n \in Int
               PROVE  /\ session'.alive /\ remover = "idle"
                      /\ n = session'.count => session'.covered = DoneSlice(0, n)' /\ Settled(n)'
                      /\ n = Target' =>
                            /\ job.step \in {"look", "list", "save"} => Settled(n)'
                            /\ job.step = "list" => /\ job.already = session'.count /\ job.base = session'.covered
                                                    /\ job.already < n
                            /\ job.step = "save" => job.base \cup job.picked = DoneSlice(0, n)'
    BY <1>2 DEF SummaryFits
  <2>2. /\ session.alive /\ remover = "idle"
        /\ n = session.count => session.covered = DoneSlice(0, n) /\ Settled(n)
        /\ n = Target =>
              /\ job.step \in {"look", "list", "save"} => Settled(n)
              /\ job.step = "list" => job.already = session.count /\ job.base = session.covered
                                      /\ job.already < n
              /\ job.step = "save" => job.base \cup job.picked = DoneSlice(0, n)
    BY <1>1 DEF SummaryFits
  <2>. QED BY <1>4, <2>1, <2>2
<1>. QED BY <1>5, <1>6, <1>7, <1>8 DEF HistoryIInv

(* The history's invariant is inductive.                                     *)
LEMMA HistoryNextIInv == HistoryIInv /\ [HistoryNext]_historyVars => HistoryIInv'
<1> SUFFICES ASSUME HistoryIInv, [HistoryNext]_historyVars PROVE HistoryIInv'
  OBVIOUS
<1>. QED BY TurnKeeps, CompressKeeps, HandKeeps, SessionKeeps DEF HistoryNext

(* The invariant gives the types and the two properties.                     *)
LEMMA HistoryIInvHolds == HistoryIInv => HistoryTypeOK /\ PairsStayTogether /\ SummaryIsPrefix
<1> SUFFICES ASSUME HistoryIInv PROVE HistoryTypeOK /\ PairsStayTogether /\ SummaryIsPrefix
  OBVIOUS
<1>1. HistoryShape /\ Paired /\ SummaryFits
  BY DEF HistoryIInv
<1>2. HistoryTypeOK
  BY <1>1 DEF HistoryShape, HistoryTypeOK, JobSteps, Messages, Roles
<1>3. PairsStayTogether
  BY <1>1, PairsHold
<1>4. SummaryIsPrefix
  <2>1. session.count \in Int
    BY <1>1 DEF HistoryShape
  <2>. QED BY <1>1, <2>1 DEF SummaryFits, SummaryIsPrefix
<1>. QED BY <1>2, <1>3, <1>4

-----------------------------------------------------------------------------
(* The four side by side: every step is a step of one of them and a stutter  *)
(* of the others.                                                            *)
PathIInv == QuotaIInv /\ AgentIInv /\ HistoryIInv /\ ContextIInv

(* A step of the whole is a step or a stutter of each part.                  *)
LEMMA PathPartsStep ==
  ASSUME [PathNext]_pathVars
  PROVE  /\ [QuotaNext]_quotaVars /\ [AgentNext]_agentVars
         /\ [HistoryNext]_historyVars /\ [ContextNext]_contextVars
  BY DEF PathNext, pathVars

(* The four invariants hold together.                                        *)
LEMMA PathInvariance == PathSpec => []PathIInv
<1>1. PathInit => PathIInv
  BY QuotaInitIInv, AgentInitIInv, HistoryInitIInv, ContextInitIInv DEF PathInit, PathIInv
<1>2. PathIInv /\ [PathNext]_pathVars => PathIInv'
  BY PathPartsStep, QuotaNextIInv, AgentNextIInv, HistoryNextIInv, ContextNextIInv DEF PathIInv
<1>. QED BY <1>1, <1>2, PTL DEF PathSpec

(* Every variable of the four keeps its type.                                *)
THEOREM PathTypeCorrect == PathSpec => []PathTypeOK
<1>1. PathIInv => PathTypeOK
  BY QuotaIInvHolds, AgentIInvHolds, HistoryIInvHolds, ContextTypes DEF PathIInv, PathTypeOK
<1>. QED BY <1>1, PathInvariance, PTL

(* However many requests, days, commands given up and turns there are: no    *)
(* counter of the quota exceeds its limit by more than what was in progress  *)
(* beside it, scripted ones never, and every slot of the tool gate is held   *)
(* by one executing call, with nobody waiting beside a free one              *)
(* (services/quota.ts, tools/concurrency.ts).                                *)
THEOREM LimitsAreKept == PathSpec => []NothingOverdrawn
<1>1. PathIInv => NothingOverdrawn
  BY QuotaIInvHolds, AgentIInvHolds DEF PathIInv, NothingOverdrawn
<1>. QED BY <1>1, PathInvariance, PTL

(* A turn that succeeds is charged once, one whose command was given up at   *)
(* most once, and nothing else is, over all days together (quota.ts charge). *)
THEOREM TurnsAreChargedOnce == PathSpec => []ChargedOncePerSuccess
<1>1. PathIInv => ChargedOncePerSuccess
  BY QuotaIInvHolds DEF PathIInv
<1>. QED BY <1>1, PathInvariance, PTL

(* Questions stay with their answers whatever is cut, the summary covers     *)
(* exactly the messages it counts as long as nothing is, and an agent's raw  *)
(* context is its latest entries, wherever the compressions in the           *)
(* background have got to (chat-store.ts, context-compression.ts,            *)
(* agent-context.ts).                                                        *)
THEOREM MemoryStaysCoherent == PathSpec => []MemoryIsCoherent
<1>1. PathIInv => MemoryIsCoherent
  BY HistoryIInvHolds DEF PathIInv, ContextIInv, MemoryIsCoherent
<1>. QED BY <1>1, PathInvariance, PTL
=============================================================================
