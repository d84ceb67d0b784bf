----------------------------- MODULE UsageQuota -----------------------------
(***************************************************************************)
(* The daily usage quota of one user in app-ts (services/quota.ts) and the *)
(* flows that spend it: chat turns (gate, images, charge on success), the  *)
(* peek / work / consume flow of image parsing (a batch; the flows of      *)
(* boards, graphs, videos and quizzes are the same with a batch of one),   *)
(* and grading, which consumes first.  Behind it is one of the two         *)
(* counters the container wires: the one in memory, or the one in Redis,   *)
(* whose every command is given up after two seconds (the caller goes on,  *)
(* the command may still be executed later) and which answers for a        *)
(* missing key the way it answers when Redis is silent.                    *)
(***************************************************************************)
EXTENDS Integers, FiniteSets, Functions

CONSTANTS
    QLane,       \* requests of the user that can be in progress at once
    Limit,       \* [kind -> Nat]: the tier's daily limits
    CostGuard,   \* costGuardMicroYuan of the tier
    TurnCost,    \* cost of a turn
    Batch,       \* images of one turn, units of one peek / work / consume flow
    MaxDay,      \* bound: days
    MaxRequests, \* bound: requests
    MaxGiveUps   \* bound: commands given up

Kinds == {"chat", "chat_images", "ocr", "grade"}
Counters == Kinds \cup {"cost"}
Days == 1..MaxDay

ASSUME QuotaAssumption ==
    /\ QLane # {} /\ IsFiniteSet(QLane)
    /\ Limit \in [Kinds -> Nat \ {0}]
    /\ CostGuard \in Nat /\ TurnCost \in Nat /\ Batch \in Nat \ {0}
    /\ MaxDay \in Nat \ {0} /\ MaxRequests \in Nat /\ MaxGiveUps \in Nat

VARIABLES
    store,    \* the counter that is wired: "memory" or "redis"
    today,    \* the calendar day
    spent,    \* the counters: [Counters -> [Days -> Nat]]; zero: no such key
    qstep,    \* where the request of a lane is
    qjob,     \* the kind of the request
    images,   \* the turn carries images that are still to be metered
    qday,     \* the day of the `now` its current call has taken
    left,     \* units the current consumeKind still has to consume
    requests, \* requests made so far
    limbo,    \* commands given up that Redis may still execute
    giveUps,  \* history: commands given up
    wins,     \* history: chat turns that succeeded
    shown,    \* history: images let through, by day
    dropped   \* history: given-up turn charges that never reached Redis

quotaVars == <<store, today, spent, qstep, qjob, images, qday, left, requests,
               limbo, giveUps, wins, shown, dropped>>

QSteps == {"idle", "gate", "images", "addImages", "peek", "work",
           "charge", "chargeCost", "consume"}

QuotaInit ==
    /\ store \in {"memory", "redis"}
    /\ today = 1
    /\ spent = [c \in Counters |-> [d \in Days |-> 0]]
    /\ qstep = [l \in QLane |-> "idle"]
    /\ qjob = [l \in QLane |-> "none"]
    /\ images = [l \in QLane |-> FALSE]
    /\ qday = [l \in QLane |-> 1]
    /\ left = [l \in QLane |-> 0]
    /\ requests = 0
    /\ limbo = {}
    /\ giveUps = 0 /\ wins = 0 /\ dropped = 0
    /\ shown = [d \in Days |-> 0]

Units(job) == IF job = "ocr" THEN Batch ELSE 1
QGoto(l, s) ==
    /\ qstep' = [qstep EXCEPT ![l] = s]
    /\ qjob' = [qjob EXCEPT ![l] = IF s = "idle" THEN "none" ELSE @]
Spend(c, d, n) == spent' = [spent EXCEPT ![c][d] = @ + n]
TakeNow(l) == qday' = [qday EXCEPT ![l] = today]

(***************************************************************************)
(* A command the caller stops waiting for.                                 *)
(***************************************************************************)
Command(l) ==
    [counter |-> CASE qstep[l] = "addImages" -> "chat_images"
                   [] qstep[l] = "charge" -> "chat"
                   [] qstep[l] = "chargeCost" -> "cost"
                   [] OTHER -> qjob[l],
     day |-> qday[l],
     delta |-> CASE qstep[l] = "addImages" -> Batch
                 [] qstep[l] = "chargeCost" -> TurnCost
                 [] OTHER -> 1,
     capped |-> qstep[l] = "consume",
     id |-> giveUps]

CanGiveUp == store = "redis" /\ giveUps < MaxGiveUps
GaveUp == giveUps' = giveUps + 1

\* count() of the Redis counter answers null for a key that is not there: the
\* service takes it for a store that is unavailable.  In memory it is zero.
Missing(c, d) == store = "redis" /\ spent[c][d] = 0

\* Redis executes a given-up command after all: INCRBY, or the script of
\* consume(), which checks the limit itself.
LandsLate ==
    \E c \in limbo :
        /\ limbo' = limbo \ {c}
        /\ IF c.capped /\ spent[c.counter][c.day] >= Limit[c.counter]
           THEN UNCHANGED spent
           ELSE Spend(c.counter, c.day, c.delta)
        /\ UNCHANGED <<store, shown, today, qstep, qjob, images, qday, left, requests,
                       giveUps, wins, dropped>>

\* ... or never: it did not reach Redis.
Lost ==
    \E c \in limbo :
        /\ limbo' = limbo \ {c}
        /\ dropped' = IF c.counter = "chat" THEN dropped + 1 ELSE dropped
        /\ UNCHANGED <<store, shown, today, spent, qstep, qjob, images, qday, left, requests,
                       giveUps, wins>>

(***************************************************************************)
(* A request.                                                              *)
(***************************************************************************)
\* Every entry point takes its `now` before it awaits the member's tier.
BeginRequest(l) ==
    /\ qstep[l] = "idle" /\ requests < MaxRequests
    /\ requests' = requests + 1
    /\ \E job \in Kinds \ {"chat_images"}, img \in BOOLEAN :
          /\ img => job = "chat"
          /\ qjob' = [qjob EXCEPT ![l] = job]
          /\ images' = [images EXCEPT ![l] = img]
          /\ qstep' = [qstep EXCEPT ![l] = CASE job = "chat" -> "gate"
                                             [] job = "grade" -> "consume"
                                             [] OTHER -> "peek"]
          /\ left' = [left EXCEPT ![l] = IF job = "grade" THEN 1 ELSE 0]
    /\ TakeNow(l)
    /\ UNCHANGED <<store, shown, today, spent, limbo, giveUps, wins, dropped>>

\* Mutant: the gate compares with > instead of >=.
GateLoose(l) ==
    /\ qstep[l] = "gate"
    /\ QGoto(l, IF spent.chat[qday[l]] > Limit["chat"] THEN "idle"
                ELSE IF images[l] THEN "images" ELSE "work")
    /\ TakeNow(l)
    /\ images' = [images EXCEPT ![l] = FALSE]
    /\ UNCHANGED <<store, shown, today, spent, left, requests, limbo, giveUps,
                   wins, dropped>>

\* beginChatTurn: both counters are read at once; one that is not answered
\* reads as zero (the turn count: as permission, before the cost is looked at),
\* and so does the turn count of a day on which no turn was charged yet.
Gate(l) ==
    /\ qstep[l] = "gate"
    /\ \E countKnown, costKnown \in BOOLEAN :
          LET silent == (IF countKnown THEN 0 ELSE 1) + (IF costKnown THEN 0 ELSE 1)
              refused == /\ countKnown /\ ~Missing("chat", qday[l])
                         /\ \/ costKnown /\ CostGuard > 0
                               /\ spent.cost[qday[l]] >= CostGuard
                            \/ spent.chat[qday[l]] >= Limit["chat"]
          IN /\ silent > 0 => store = "redis" /\ giveUps + silent <= MaxGiveUps
             /\ giveUps' = giveUps + silent
             /\ QGoto(l, IF refused THEN "idle"
                         ELSE IF images[l] THEN "images" ELSE "work")
    /\ TakeNow(l)
    /\ images' = [images EXCEPT ![l] = FALSE]
    /\ UNCHANGED <<store, shown, today, spent, left, requests, limbo, wins, dropped>>

Show(l) == shown' = [shown EXCEPT ![qday[l]] = @ + Batch]

\* consumeImages, its read: over budget refuses; no answer, and the missing key
\* of a day without images, lets pass and counts nothing.
CheckImages(l) ==
    /\ qstep[l] = "images"
    /\ \/ /\ ~Missing("chat_images", qday[l])
          /\ QGoto(l, IF spent.chat_images[qday[l]] + Batch > Limit["chat_images"]
                      THEN "idle" ELSE "addImages")
          /\ UNCHANGED <<giveUps, shown>>
       \/ /\ Missing("chat_images", qday[l])
          /\ QGoto(l, "work") /\ Show(l)
          /\ UNCHANGED giveUps
       \/ /\ CanGiveUp /\ GaveUp
          /\ QGoto(l, "work") /\ Show(l)
    /\ UNCHANGED <<store, today, spent, images, qday, left, requests, limbo, wins,
                   dropped>>

\* add(): executed, or given up and in limbo.
Add(l) ==
    \/ LET c == Command(l) IN
         /\ Spend(c.counter, c.day, c.delta)
         /\ UNCHANGED <<limbo, giveUps>>
    \/ /\ CanGiveUp /\ GaveUp
       /\ limbo' = limbo \cup {Command(l)}
       /\ UNCHANGED spent

AddImages(l) ==
    /\ qstep[l] = "addImages"
    /\ Add(l)
    /\ QGoto(l, "work") /\ Show(l)
    /\ UNCHANGED <<store, today, images, qday, left, requests, wins, dropped>>

\* peekKind: reads, never writes; no answer, or no such key, is permission.
Peek(l) ==
    /\ qstep[l] = "peek"
    /\ \/ /\ QGoto(l, IF /\ ~Missing(qjob[l], qday[l])
                         /\ spent[qjob[l]][qday[l]] + Units(qjob[l]) > Limit[qjob[l]]
                      THEN "idle" ELSE "work")
          /\ UNCHANGED giveUps
       \/ /\ CanGiveUp /\ GaveUp
          /\ QGoto(l, "work")
    /\ UNCHANGED <<store, shown, today, spent, images, qday, left, requests, limbo,
                   wins, dropped>>

\* Mutant: a turn that failed is charged like one that succeeded.
WorkChargesFailure(l) ==
    /\ qstep[l] = "work"
    /\ \E ok \in BOOLEAN :
          /\ QGoto(l, IF qjob[l] = "chat" THEN "charge"
                      ELSE IF ok /\ qjob[l] # "grade" THEN "consume" ELSE "idle")
          /\ wins' = IF ok /\ qjob[l] = "chat" THEN wins + 1 ELSE wins
          /\ left' = [left EXCEPT ![l] = IF ok /\ qjob[l] = "ocr" THEN Batch ELSE 0]
    /\ TakeNow(l)
    /\ UNCHANGED <<store, shown, today, spent, images, requests, limbo, giveUps, dropped>>

\* The turn, the completion or the parsing succeeds or not.  A grading is
\* already paid for.  The charge takes a new `now`.
Work(l) ==
    /\ qstep[l] = "work"
    /\ \E ok \in BOOLEAN :
          /\ QGoto(l, IF ~ok \/ qjob[l] = "grade" THEN "idle"
                      ELSE IF qjob[l] = "chat" THEN "charge" ELSE "consume")
          /\ wins' = IF ok /\ qjob[l] = "chat" THEN wins + 1 ELSE wins
          /\ left' = [left EXCEPT ![l] = IF ok /\ qjob[l] = "ocr" THEN Batch ELSE 0]
    /\ TakeNow(l)
    /\ UNCHANGED <<store, shown, today, spent, images, requests, limbo, giveUps, dropped>>

\* completeChatTurn: the turn first, then its cost.
ChargeTurn(l) ==
    /\ qstep[l] = "charge"
    /\ Add(l)
    /\ QGoto(l, IF TurnCost > 0 THEN "chargeCost" ELSE "idle")
    /\ UNCHANGED <<store, shown, today, images, qday, left, requests, wins, dropped>>

ChargeCost(l) ==
    /\ qstep[l] = "chargeCost"
    /\ Add(l)
    /\ QGoto(l, "idle")
    /\ UNCHANGED <<store, shown, today, images, qday, left, requests, wins, dropped>>

\* What follows a consumeKind that let the request pass.
AfterConsume(l) == IF qjob[l] = "grade" THEN "work" ELSE "idle"

\* One round of consumeKind: the script checks and increments in one step; a
\* refusal ends the call, whatever it has consumed before, and so does silence.
ConsumeUnit(l) ==
    /\ qstep[l] = "consume"
    /\ \/ /\ spent[qjob[l]][qday[l]] < Limit[qjob[l]]
          /\ Spend(qjob[l], qday[l], 1)
          /\ left' = [left EXCEPT ![l] = @ - 1]
          /\ QGoto(l, IF left[l] > 1 THEN "consume" ELSE AfterConsume(l))
          /\ UNCHANGED <<limbo, giveUps>>
       \/ /\ spent[qjob[l]][qday[l]] >= Limit[qjob[l]]
          /\ left' = [left EXCEPT ![l] = 0]
          /\ QGoto(l, "idle")
          /\ UNCHANGED <<spent, limbo, giveUps>>
       \/ /\ CanGiveUp /\ GaveUp
          /\ limbo' = limbo \cup {Command(l)}
          /\ left' = [left EXCEPT ![l] = 0]
          /\ QGoto(l, AfterConsume(l))
          /\ UNCHANGED spent
    /\ UNCHANGED <<store, shown, today, images, qday, requests, wins, dropped>>

\* Midnight: the keys carry the day, nothing is reset.
Midnight ==
    /\ today < MaxDay
    /\ today' = today + 1
    /\ UNCHANGED <<store, shown, spent, qstep, qjob, images, qday, left, requests,
                   limbo, giveUps, wins, dropped>>

QuotaStep(l) ==
    \/ Gate(l) \/ CheckImages(l) \/ AddImages(l) \/ Peek(l) \/ Work(l)
    \/ ChargeTurn(l) \/ ChargeCost(l) \/ ConsumeUnit(l)

QuotaNext ==
    \/ LandsLate \/ Lost \/ Midnight
    \/ \E l \in QLane : BeginRequest(l) \/ QuotaStep(l)

\* Every command is answered or given up, every turn ends (module ChatTurn).
QuotaFairness == \A l \in QLane : WF_quotaVars(QuotaStep(l))
QuotaSpec == QuotaInit /\ [][QuotaNext]_quotaVars /\ QuotaFairness

(***************************************************************************)
(* Properties.                                                             *)
(***************************************************************************)
QuotaTypeOK ==
    /\ store \in {"memory", "redis"} /\ today \in Days /\ shown \in [Days -> Nat]
    /\ spent \in [Counters -> [Days -> Nat]]
    /\ qstep \in [QLane -> QSteps] /\ qjob \in [QLane -> Kinds \cup {"none"}]
    /\ images \in [QLane -> BOOLEAN] /\ qday \in [QLane -> Days]
    /\ left \in [QLane -> 0..Batch] /\ requests \in 0..MaxRequests
    /\ giveUps \in 0..MaxGiveUps /\ wins \in Nat /\ dropped \in Nat

Others == Cardinality(QLane) - 1
ImagesBounded ==
    \A d \in Days : shown[d] <= Limit["chat_images"] + Batch * (Others + giveUps)

\* The kinds that are consumed by the script never exceed their limit, not even
\* when a command given up lands late. A turn's gate is a check that the charge
\* follows much later, on a day that may be the next: a day's turns, cost and
\* (in memory) images still exceed the limit by no more than what the other
\* lanes had in progress and the commands given up.
LimitsHold ==
    /\ \A k \in {"ocr", "grade"}, d \in Days : spent[k][d] <= Limit[k]
    /\ \A d \in Days :
          /\ spent.chat[d] <= Limit["chat"] + Others + giveUps
          /\ CostGuard > 0 =>
                spent.cost[d] <= CostGuard + TurnCost * (Others + giveUps + 1)
    /\ store = "memory" => ImagesBounded

\* "Over budget: false, nothing written": the images a day lets through stay
\* within the batch the comment tolerates, whichever counter is wired, as long
\* as it answers.
ImagesAreMetered == giveUps = 0 => ImagesBounded

\* Consume on success: every successful turn is charged once, is about to be,
\* or was given up; a failed one is not charged.
ChargedOncePerSuccess ==
    SumFunction(spent.chat) + dropped
      + Cardinality({c \in limbo : c.counter = "chat"})
      + Cardinality({l \in QLane : qstep[l] = "charge"}) = wins

\* Redis may hang: every request still ends.
EveryRequestEnds == \A l \in QLane : []<>(qstep[l] = "idle")
=============================================================================
