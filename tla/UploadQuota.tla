----------------------------- MODULE UploadQuota -----------------------------
(* The storage quota of one user of app-cloud while files are uploaded: the  *)
(* rows of cloud_files and the counter in cloud_quota (repo/file.go), the    *)
(* ledger of uploads in flight and their sessions in Redis                   *)
(* (service/pending.go, service/upload.go), the reservation                  *)
(* (service/quota.go) and the reconciler (service/reconcile.go). Every file  *)
(* has the size 1. Requests of any number of replicas run side by side.      *)
EXTENDS Integers, FiniteSets

CONSTANTS Upload,
          Old,         \* those that may have rows older than the counter's table
          Quota,
          MaxTroubles  \* bound on failing calls, requests that die, files put in the
                       \* trash or restored, and runs of the reconciler

ASSUME UploadAssumption ==
  /\ IsFiniteSet(Upload) /\ Old \subseteq Upload
  /\ Quota \in Nat /\ MaxTroubles \in Nat
  /\ Cardinality(Old) =< Quota

VARIABLES
  upload,   \* the step of each upload: [at, round, used, saw]
  stored,   \* its row in cloud_files: none, active or in the trash
  counter,  \* the row of cloud_quota: [there, bytes]
  ledger,   \* its entry in the hash of pending uploads
  session,  \* the uploads whose meta is in Redis
  heart,    \* the uploads whose heartbeat key is in Redis
  beating,  \* the uploads with a Touch between its HGet and its HSet
  healer,   \* the reconciler's run for the user: [at, sum]
  unseen,   \* history: the uploads a check did not, or did no longer, count
  drifted,  \* history: the counter has been below the active rows
  troubles

filesVars == <<stored, counter>>
redisVars == <<ledger, session, heart, beating>>
uploadVars == <<upload, filesVars, redisVars, healer, unseen, drifted, troubles>>

(* round: the first UsedBytes of ReserveUpload or the recheck. used: what it *)
(* returned. saw: history, the rows that were active when it did.            *)
NewUpload == [at |-> "new", round |-> 1, used |-> 0, saw |-> {}]
Resting == [at |-> "idle", sum |-> 0]
Active == {u \in Upload : stored[u] = "active"}
Pending == {u \in Upload : ledger[u] = "fresh"}
Enters(u, place) == upload' = [upload EXCEPT ![u].at = place]
Leaves(u, place) == upload' = [upload EXCEPT ![u] = [NewUpload EXCEPT !.at = place]]
Trouble == troubles < MaxTroubles /\ troubles' = troubles + 1

(* Bound: as many new uploads as Upload has without trouble, or fewer, beside*)
(* old files, with it.                                                       *)
UploadInit ==
  /\ \E old \in SUBSET Old :
       /\ upload = [u \in Upload |-> [NewUpload EXCEPT !.at = IF u \in old THEN "ended" ELSE "new"]]
       /\ stored \in [Upload -> {"none", "active", "trash"}]
       /\ \A u \in Upload : u \in old <=> stored[u] # "none"
       /\ troubles = IF old = {} THEN MaxTroubles ELSE 0
  /\ counter = [there |-> FALSE, bytes |-> 0]
  /\ ledger = [u \in Upload |-> "none"]
  /\ session = {} /\ heart = {} /\ beating = {}
  /\ healer = Resting
  /\ unseen = {} /\ drifted = FALSE

-----------------------------------------------------------------------------
(* applyUsageDelta, unless the delta is 0: the row is inserted with it or    *)
(* moved by it.                                                              *)
applyUsageDelta(d) == counter' = [there |-> TRUE, bytes |-> counter.bytes + d]

(* UsedBytes: the counter unless it is 0; else the sum of the rows, with     *)
(* which a missing row is filled. Each query is a step.                      *)
Answered(u) == IF upload[u].round = 1 THEN "reserve" ELSE "pending"
Reads(u, n, place) ==
  upload' = [upload EXCEPT ![u].at = place, ![u].used = n,
                           ![u].saw = IF upload[u].round = 2 THEN Active ELSE {}]
ReadCounter(u) ==
  /\ upload[u].at \in {"new", "recheck"}
  /\ IF counter.bytes # 0 THEN Reads(u, counter.bytes, Answered(u)) ELSE Enters(u, "sum")
  /\ UNCHANGED <<filesVars, redisVars, healer, unseen, troubles>>
SumActiveBytes(u) ==
  /\ upload[u].at = "sum"
  /\ Reads(u, Cardinality(Active), "exists")
  /\ UNCHANGED <<filesVars, redisVars, healer, unseen, troubles>>
CountRows(u) ==
  /\ upload[u].at = "exists"
  /\ Enters(u, IF counter.there \/ upload[u].used = 0 THEN Answered(u) ELSE "seed")
  /\ UNCHANGED <<filesVars, redisVars, healer, unseen, troubles>>
Seed(u) ==
  /\ upload[u].at = "seed"
  /\ applyUsageDelta(upload[u].used)
  /\ Enters(u, Answered(u))
  /\ UNCHANGED <<stored, redisVars, healer, unseen, troubles>>

(* A query fails: the upload is refused, or the recheck is skipped.          *)
UsageFails(u) ==
  /\ upload[u].at \in {"new", "recheck", "sum", "exists", "seed"}
  /\ Trouble
  /\ IF upload[u].round = 1
     THEN Leaves(u, "ended") /\ UNCHANGED unseen
     ELSE Leaves(u, "opening") /\ unseen' = unseen \union {u}
  /\ UNCHANGED <<filesVars, redisVars, healer>>

-----------------------------------------------------------------------------
(* ReserveUpload, after it knows what is used.                               *)

Pruned == [u \in Upload |-> IF ledger[u] = "stale" THEN "none" ELSE ledger[u]]
Registered(u) == [Pruned EXCEPT ![u] = "fresh"]
Removed(u) == [ledger EXCEPT ![u] = "none"]

(* reserveScript: prunes, checks and registers in one step.                  *)
Reserve(u) ==
  /\ upload[u].at = "reserve"
  /\ IF upload[u].used + Cardinality(Pending) + 1 > Quota
     THEN ledger' = Pruned /\ Leaves(u, "ended")
     ELSE /\ ledger' = Registered(u)
          /\ upload' = [upload EXCEPT ![u].at = "recheck", ![u].round = 2]
  /\ UNCHANGED <<filesVars, session, heart, beating, healer, unseen, troubles>>

(* The call fails, its effect may be there: the check without the ledger.    *)
ReserveFails(u) ==
  /\ upload[u].at = "reserve"
  /\ Trouble
  /\ \/ UNCHANGED ledger
     \/ upload[u].used + Cardinality(Pending) < Quota /\ ledger' = Registered(u)
  /\ IF upload[u].used + 1 > Quota
     THEN Leaves(u, "ended") /\ UNCHANGED unseen
     ELSE Leaves(u, "opening") /\ unseen' = unseen \union {u}
  /\ UNCHANGED <<filesVars, session, heart, beating, healer>>

(* The recheck: Sum, and the reservation is kept or released. Torn: what has *)
(* left the ledger for cloud_files since the recheck's UsedBytes.            *)
Torn(u) == {v \in Active \ upload[u].saw : ledger[v] # "fresh"}
RecheckNone(u) ==
  /\ upload[u].at = "pending"
  /\ ledger' = Pruned /\ Leaves(u, "opening") /\ unseen' = unseen \union Torn(u)
  /\ UNCHANGED <<filesVars, session, heart, beating, healer, troubles>>
Recheck(u) ==
  /\ upload[u].at = "pending"
  /\ IF upload[u].used + Cardinality(Pending) > Quota
     THEN ledger' = [Pruned EXCEPT ![u] = "none"] /\ Leaves(u, "ended") /\ UNCHANGED unseen
     ELSE ledger' = Pruned /\ Leaves(u, "opening") /\ unseen' = unseen \union Torn(u)
  /\ UNCHANGED <<filesVars, session, heart, beating, healer, troubles>>

(* Sum answers 0 when Redis does not.                                        *)
SumFails(u) ==
  /\ upload[u].at = "pending"
  /\ Trouble
  /\ IF upload[u].used > Quota
     THEN ledger' \in {ledger, Removed(u)} /\ Leaves(u, "ended") /\ UNCHANGED unseen
     ELSE UNCHANGED ledger /\ Leaves(u, "opening") /\ unseen' = unseen \union {u}
  /\ UNCHANGED <<filesVars, session, heart, beating, healer>>

-----------------------------------------------------------------------------
(* InitUpload after the reservation: the multipart upload, the meta, the     *)
(* heartbeat key, without which it goes on.                                  *)
OpenSession(u) ==
  /\ upload[u].at = "opening"
  /\ session' = session \union {u}
  /\ \/ heart' = heart \union {u} /\ UNCHANGED troubles
     \/ Trouble /\ UNCHANGED heart
  /\ Enters(u, "open")
  /\ UNCHANGED <<filesVars, ledger, beating, healer, unseen>>
OpenFails(u) ==
  /\ upload[u].at = "opening"
  /\ Trouble
  /\ ledger' = Removed(u)
  /\ Leaves(u, "ended")
  /\ UNCHANGED <<filesVars, session, heart, beating, healer, unseen>>

(* Heartbeat, sent while chunks are uploaded and perhaps still under way     *)
(* during complete: it renews the keys, and Touch reads the entry; without   *)
(* the heartbeat key, or without an entry, nothing changes.                  *)
Beat(u) ==
  /\ upload[u].at \in {"open", "verified", "created"}
  /\ u \in heart \ beating /\ ledger[u] # "none"
  /\ beating' = beating \union {u}
  /\ UNCHANGED <<upload, filesVars, ledger, session, heart, healer, unseen, troubles>>
TouchedEntry == "fresh"
TouchStores(u) ==
  /\ u \in beating
  /\ ledger' = [ledger EXCEPT ![u] = TouchedEntry]
  /\ beating' = beating \ {u}
  /\ UNCHANGED <<upload, filesVars, session, heart, healer, unseen, troubles>>

(* A chunk fails or the tab is closed: there is no abort endpoint.           *)
GivesUp(u) ==
  /\ upload[u].at = "open"
  /\ Leaves(u, "ended")
  /\ UNCHANGED <<filesVars, redisVars, healer, unseen, troubles>>

(* CompleteUpload: the meta, MinIO, the size; then the row; then the keys.   *)
Complete(u) ==
  /\ upload[u].at = "open"
  /\ Enters(u, IF u \in session THEN "verified" ELSE "ended")
  /\ UNCHANGED <<filesVars, redisVars, healer, unseen, troubles>>
CompleteFails(u) ==
  /\ upload[u].at = "open" /\ u \in session
  /\ Trouble
  /\ \/ UNCHANGED <<ledger, session>>                         \* MinIO refuses
     \/ ledger' = Removed(u) /\ session' \in {session, session \ {u}} \* no stat; another size
  /\ Leaves(u, "ended")
  /\ UNCHANGED <<filesVars, heart, beating, healer, unseen>>
CreateRow(u) ==
  /\ upload[u].at = "verified"
  /\ stored' = [stored EXCEPT ![u] = "active"]
  /\ applyUsageDelta(1)
  /\ Enters(u, "created")
  /\ UNCHANGED <<redisVars, healer, unseen, troubles>>
CreateFails(u) ==
  /\ upload[u].at = "verified"
  /\ Trouble
  /\ Leaves(u, "ended")
  /\ UNCHANGED <<filesVars, redisVars, healer, unseen>>
Settle(u) ==
  /\ upload[u].at = "created"
  /\ session' = session \ {u}
  /\ ledger' = Removed(u)
  /\ Leaves(u, "ended")
  /\ UNCHANGED <<filesVars, heart, beating, healer, unseen, troubles>>

(* The replica dies, or the client goes and its context is cancelled.        *)
RequestDies(u) ==
  /\ upload[u].at \notin {"new", "open", "ended"}
  /\ Trouble
  /\ Leaves(u, "ended")
  /\ UNCHANGED <<filesVars, redisVars, healer, unseen>>

-----------------------------------------------------------------------------
(* Time. A heartbeat renews all three clocks, so the short one of the        *)
(* heartbeat key (heartbeatTTL) runs out first and nothing renews any more;  *)
(* the hour of the meta and of the entry (uploadMetaTTL) ends for both.      *)
Opened(u) == upload[u].at \in {"open", "verified", "created", "ended"}
HeartLapses(u) ==
  /\ u \in heart \ beating /\ Opened(u)
  /\ heart' = heart \ {u}
  /\ UNCHANGED <<upload, filesVars, ledger, session, beating, healer, unseen, troubles>>
HourEndsForMeta(u) ==
  /\ u \notin heart \union beating /\ Opened(u)
  /\ u \in session
  /\ session' = session \ {u}
  /\ UNCHANGED <<upload, filesVars, ledger, heart, beating, healer, unseen, troubles>>
HourEnds(u) ==
  /\ u \notin heart \union beating /\ Opened(u)
  /\ u \in session \/ ledger[u] = "fresh"
  /\ session' = session \ {u}
  /\ ledger' = [ledger EXCEPT ![u] = IF @ = "fresh" THEN "stale" ELSE @]
  /\ unseen' = unseen \union {v \in {u} : upload[v].at = "verified"}
  /\ UNCHANGED <<upload, filesVars, heart, beating, healer, troubles>>

(* SoftDelete, and Restore, which asks for no quota.                         *)
SoftDelete(u) ==
  /\ stored[u] = "active" /\ Trouble
  /\ stored' = [stored EXCEPT ![u] = "trash"]
  /\ applyUsageDelta(-1)
  /\ UNCHANGED <<upload, redisVars, healer, unseen>>
Restore(u) ==
  /\ stored[u] = "trash" /\ Trouble
  /\ stored' = [stored EXCEPT ![u] = "active"]
  /\ applyUsageDelta(1)
  /\ unseen' = unseen \union {u}
  /\ UNCHANGED <<upload, redisVars, healer>>

(* ReconcileUser: the rows, a listing of the object store, the counter, and  *)
(* the sum of the rows read at first where they differ.                      *)
HealerLists ==
  /\ healer.at = "idle" /\ Trouble
  /\ healer' = [at |-> "listed", sum |-> Cardinality(Active)]
  /\ UNCHANGED <<upload, filesVars, redisVars, unseen>>
HealerCompares ==
  /\ healer.at = "listed"
  /\ healer' = IF counter.bytes # healer.sum THEN [healer EXCEPT !.at = "differs"] ELSE Resting
  /\ UNCHANGED <<upload, filesVars, redisVars, unseen, troubles>>
HealerWrites ==
  /\ healer.at = "differs"
  /\ counter' = [there |-> TRUE, bytes |-> healer.sum]
  /\ healer' = Resting
  /\ UNCHANGED <<upload, stored, redisVars, unseen, troubles>>

-----------------------------------------------------------------------------
UsageStep(u) == ReadCounter(u) \/ SumActiveBytes(u) \/ CountRows(u) \/ Seed(u)
InitStep(u) == UsageStep(u) \/ Reserve(u) \/ Recheck(u) \/ OpenSession(u)
CompleteStep(u) == CreateRow(u) \/ Settle(u)
ServerFails(u) ==
  \/ UsageFails(u) \/ ReserveFails(u) \/ SumFails(u) \/ OpenFails(u)
  \/ CompleteFails(u) \/ CreateFails(u) \/ RequestDies(u)
ClientStep(u) == Beat(u) \/ GivesUp(u) \/ Complete(u)
TimeStep(u) == HeartLapses(u) \/ HourEnds(u)
FileStep(u) == SoftDelete(u) \/ Restore(u)
HealerStep == HealerLists \/ HealerCompares \/ HealerWrites

Behind == counter.there /\ counter.bytes < Cardinality(Active)
Watch == drifted' = (drifted \/ Behind')
UploadNext ==
  /\ \/ \E u \in Upload :
          \/ InitStep(u) \/ CompleteStep(u) \/ ServerFails(u)
          \/ ClientStep(u) \/ TouchStores(u) \/ TimeStep(u) \/ FileStep(u)
     \/ HealerStep
  /\ Watch

(* Handlers run to their end, and for an upload that is over time passes; an *)
(* open one may be beating for as long as the user likes.                    *)
Handled(u) ==
  \/ upload[u].at # "new" /\ InitStep(u)
  \/ CompleteStep(u) \/ TouchStores(u)
  \/ upload[u].at = "ended" /\ TimeStep(u)
UploadSpec ==
  /\ UploadInit /\ [][UploadNext]_uploadVars
  /\ \A u \in Upload : WF_uploadVars(Handled(u) /\ Watch)

-----------------------------------------------------------------------------
(* The bytes of the user's files and of the uploads that were let in stay    *)
(* within the quota (quota.go, ReserveUpload), but for the uploads no check  *)
(* accounts for: those let in while MySQL or Redis failed, completed in the  *)
(* hour's last moment, moved from the ledger to cloud_files within another   *)
(* one's recheck, or restored from the trash; as long as the counter has not *)
(* drifted below the rows.                                                   *)
Granted == {u \in Upload : \/ upload[u].at \in {"opening", "verified"}
                           \/ upload[u].at = "open" /\ u \in session}
BytesFit == ~drifted => Cardinality((Active \union Granted) \ unseen) =< Quota

(* pending.go 22-25: "abandoned uploads never leak into the quota            *)
(* permanently": whatever dies, and whatever a late heartbeat writes back,   *)
(* the reservation of an upload that is over ends.                           *)
ReservationEnds == \A u \in Upload : upload[u].at = "ended" ~> ledger[u] # "fresh"

(* reconcile.go 104-106: the counter's "drift can only come from a missed    *)
(* maintenance path"; file.go 278-279: it "can never drift from cloud_files".*)
(* The reconciler itself writes the sum of rows it read before a listing.    *)
CounterMatchesFiles == counter.there => counter.bytes = Cardinality(Active)

(* quota.go 193-194: "a fresh re-read plus the live ledger sum is a safe     *)
(* upper bound". Not for an upload that completes between the two.           *)
UpperBoundIsSafe ==
  \A u \in Upload : upload[u].at = "pending" =>
    Cardinality(Active \union Pending) =< upload[u].used + Cardinality(Pending)

(* pending.go 120-122: an entry without a reservation is a no-op for Touch,  *)
(* and it "can never over-count". One that read before Remove and writes     *)
(* after it brings the entry of a stored file back.                          *)
NothingCountsTwice ==
  \A u \in Upload : upload[u].at = "ended" /\ stored[u] = "active" => ledger[u] # "fresh"
=============================================================================
