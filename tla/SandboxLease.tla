---------------------------- MODULE SandboxLease ----------------------------
(* The leases and executions of one user in app-sandbox: LeaseManager         *)
(* (service/lease.go), the worker of ExecutionService (service/execution.go)  *)
(* and the Sweeper (service/sweeper.go) over the two MySQL tables. Every      *)
(* statement on a table is a step; the runtime and the clock are external. A  *)
(* process may die between two steps; the rows and the sandboxes stay.        *)
EXTENDS Integers, FiniteSets

CONSTANTS Exec,           \* executions of one (uid, project, purpose, spec)
          Sweeper, Admin, \* the two other callers of LeaseManager.release
          NoLease,
          MaxLeases,      \* bound: lease rows 1 .. MaxLeases
          LeaseLimit,     \* QuotaService.ConcurrentLimit
          OrphanDryRun,   \* sweeper.orphanDryRun
          MaxFaults       \* bound on failing runtime calls, panics and process faults

ASSUME SandboxAssumption ==
  /\ {Sweeper, Admin} \cap Exec = {} /\ Sweeper # Admin
  /\ MaxLeases \in Nat /\ LeaseLimit \in Nat \ {0} /\ MaxFaults \in Nat
  /\ NoLease \notin 1 .. MaxLeases
  /\ OrphanDryRun \in BOOLEAN

LeaseId == 1 .. MaxLeases
Releaser == Exec \cup {Sweeper, Admin}

VARIABLES
  exec,    \* sandbox_execution: [Exec -> [status, lease]]
  worker,  \* the goroutine of each execution: [Exec -> [at, lease, stopped]]
  lease,   \* sandbox_lease: [LeaseId -> [state, known, late]]
  box,     \* the sandbox of each lease at the runtime
  release, \* the release calls under way: [Releaser -> [at, lease, known]]
  sweep,   \* the pass of the sweeper: [phase, list]
  faults

sandboxVars == <<exec, worker, lease, box, release, sweep, faults>>

ExecActive == {"queued", "running"}
ExecTerminal == {"succeeded", "failed", "canceled"}   \* a timeout ends like a failure
LeaseReusable == {"ready", "idle"}
LeaseActive == {"creating", "ready", "busy", "idle"}
LeaseFinished == {"terminated", "failed"}

(* known: the row has a RuntimeID. late: a creating lease is older than the   *)
(* sweeper's create timeout, any other is past expires_at. What nobody reads  *)
(* again (of a finished lease, a terminal execution) is reset.                *)
NoRow == [state |-> "none", known |-> FALSE, late |-> FALSE]
NoWorker == [at |-> "none", lease |-> NoLease, stopped |-> FALSE]
NoList == [phase |-> "expired", list |-> {}]
NoRelease == [at |-> "none", lease |-> NoLease, known |-> FALSE]

SandboxInit ==
  /\ exec = [e \in Exec |-> [status |-> "none", lease |-> NoLease]]
  /\ worker = [e \in Exec |-> NoWorker]
  /\ lease = [l \in LeaseId |-> NoRow]
  /\ box = [l \in LeaseId |-> "none"]
  /\ release = [a \in Releaser |-> NoRelease]
  /\ sweep = NoList
  /\ faults = 0

-----------------------------------------------------------------------------
(* Helpers.                                                                  *)

Fault == faults < MaxFaults /\ faults' = faults + 1

Moves(e, place) == worker' = [worker EXCEPT ![e].at = place]
Ends(e) == worker' = [worker EXCEPT ![e] = [NoWorker EXCEPT !.at = "done"]]
Picks(e, l, place) == worker' = [worker EXCEPT ![e].at = place, ![e].lease = l]

(* ExecutionRepo.Finish and Cancel: only a queued or running row changes.    *)
Ended(status) == [status |-> status, lease |-> NoLease]
Finish(e, status) ==
  exec' = [exec EXCEPT ![e] = IF @.status \in ExecActive THEN Ended(status) ELSE @]

(* SetState: a conditional update of the lease row.                          *)
SetState(l, from, to) ==
  lease' = [lease EXCEPT ![l] =
              IF @.state \notin from THEN @
              ELSE IF to \in LeaseFinished THEN [NoRow EXCEPT !.state = to]
              ELSE [@ EXCEPT !.state = to]]

(* CancelByLease and CancelExecution: the context of every active execution  *)
(* whose row names the lease is cancelled, and its row with it.              *)
OnLease(l) == {e \in Exec : exec[e].lease = l /\ exec[e].status \in ExecActive}
Stops(S) ==
  /\ exec' = [e \in Exec |-> IF e \in S THEN Ended("canceled") ELSE exec[e]]
  /\ worker' = [e \in Exec |-> IF e \in S /\ worker[e].at # "done"
                              THEN [worker[e] EXCEPT !.stopped = TRUE] ELSE worker[e]]

Reusable(l) == lease[l].state \in LeaseReusable /\ ~lease[l].late
Live == {l \in LeaseId : \/ lease[l].state = "creating"
                         \/ lease[l].state \in LeaseActive /\ ~lease[l].late}
Gone(l) == box[l] \in {"none", "deleted", "vanished"}

-----------------------------------------------------------------------------
(* The worker.                                                               *)

(* Create: the row is written and the goroutine started.                     *)
Create(e) ==
  /\ exec[e].status = "none" /\ worker[e].at = "none"
  /\ exec' = [exec EXCEPT ![e].status = "queued"]
  /\ Moves(e, "start")
  /\ UNCHANGED <<lease, box, release, sweep, faults>>

(* MarkRunning; a row cancelled before the start ends the worker.            *)
MarkRunning(e) ==
  /\ worker[e].at = "start"
  /\ IF exec[e].status = "queued" /\ ~worker[e].stopped
     THEN exec' = [exec EXCEPT ![e].status = "running"] /\ Moves(e, "find")
     ELSE UNCHANGED exec /\ Ends(e)
  /\ UNCHANGED <<lease, box, release, sweep, faults>>

(* A database call under a cancelled context fails: finishFailure.           *)
Stopped(e) ==
  /\ worker[e].at \in {"find", "renew", "count", "insert"} /\ worker[e].stopped
  /\ Finish(e, "failed")
  /\ Ends(e)
  /\ UNCHANGED <<lease, box, release, sweep, faults>>

FindReusable(e) ==
  /\ worker[e].at = "find" /\ ~worker[e].stopped
  /\ IF \A l \in LeaseId : ~Reusable(l)
     THEN Moves(e, "count")
     ELSE \E l \in LeaseId : Reusable(l) /\ Picks(e, l, "renew")
  /\ UNCHANGED <<exec, lease, box, release, sweep, faults>>

(* Renew: the lease found may have been claimed or reclaimed since.          *)
RenewFound(e) ==
  /\ worker[e].at = "renew" /\ ~worker[e].stopped
  /\ Moves(e, IF Reusable(worker[e].lease) THEN "set" ELSE "count")
  /\ UNCHANGED <<exec, lease, box, release, sweep, faults>>

(* CountActiveByUID against the limit.                                       *)
CountActive(e) ==
  /\ worker[e].at = "count" /\ ~worker[e].stopped
  /\ IF Cardinality(Live) >= LeaseLimit
     THEN Finish(e, "failed") /\ Ends(e)
     ELSE UNCHANGED exec /\ Moves(e, "insert")
  /\ UNCHANGED <<lease, box, release, sweep, faults>>

CreateLease(e) ==
  /\ worker[e].at = "insert" /\ ~worker[e].stopped
  /\ \E l \in LeaseId :
       /\ lease[l].state = "none"
       /\ \A k \in 1 .. l - 1 : lease[k].state # "none"
       /\ lease' = [lease EXCEPT ![l].state = "creating"]
       /\ Picks(e, l, "create")
  /\ UNCHANGED <<exec, box, release, sweep, faults>>

(* runtime.Create answers, or fails (a cancelled context, a timeout, an      *)
(* error); a failed call may have made the sandbox all the same.             *)
RuntimeCreates(e) ==
  /\ worker[e].at = "create" /\ ~worker[e].stopped
  /\ box' = [box EXCEPT ![worker[e].lease] = "up"]
  /\ Moves(e, "confirm")
  /\ UNCHANGED <<exec, lease, release, sweep, faults>>
RuntimeCreateFails(e) ==
  /\ worker[e].at = "create"
  /\ \/ worker[e].stopped /\ UNCHANGED <<box, faults>>
     \/ Fault /\ UNCHANGED box
     \/ Fault /\ box' = [box EXCEPT ![worker[e].lease] = "up"]
  /\ SetState(worker[e].lease, {"creating"}, "failed")
  /\ Finish(e, "failed")
  /\ Ends(e)
  /\ UNCHANGED <<release, sweep>>

(* MarkReady; a row the sweeper failed or a release took meanwhile loses its *)
(* sandbox again, unless that delete fails, which is not looked at.          *)
MarkLeaseReady(e) ==
  LET l == worker[e].lease IN
  /\ worker[e].at = "confirm"
  /\ IF lease[l].state = "creating"
     THEN /\ lease' = [lease EXCEPT ![l].state = "ready", ![l].known = TRUE, ![l].late = FALSE]
          /\ Moves(e, "set")
          /\ UNCHANGED <<exec, box, faults>>
     ELSE /\ \/ box' = [box EXCEPT ![l] = "deleted"] /\ UNCHANGED faults
             \/ Fault /\ UNCHANGED box
          /\ Finish(e, "failed") /\ Ends(e)
          /\ UNCHANGED lease
  /\ UNCHANGED <<release, sweep>>

(* SetLease runs under the worker's context: a cancelled one fails it, which *)
(* is only logged, and the claim that follows fails for the same reason.     *)
SetLease(e) ==
  /\ worker[e].at = "set"
  /\ exec' = [exec EXCEPT ![e].lease = IF worker[e].stopped THEN @ ELSE worker[e].lease]
  /\ Moves(e, "claim")
  /\ UNCHANGED <<lease, box, release, sweep, faults>>

(* MarkBusy -> ClaimForExec: a ready or idle lease goes to one execution. A  *)
(* claim that fails ends the execution as lease_busy and releases the lease. *)
ClaimForAny(e) ==
  /\ lease[worker[e].lease].state \in LeaseActive
  /\ ~worker[e].stopped
ClaimForExec(e) ==
  /\ lease[worker[e].lease].state \in LeaseReusable
  /\ ~worker[e].stopped
Claim(e) ==
  /\ worker[e].at = "claim"
  /\ IF ClaimForExec(e)
     THEN /\ lease' = [lease EXCEPT ![worker[e].lease].state = "busy"]
          /\ Moves(e, "executing")
          /\ UNCHANGED exec
     ELSE Finish(e, "failed") /\ Moves(e, "release") /\ UNCHANGED lease
  /\ UNCHANGED <<box, release, sweep, faults>>

(* runtime.Exec: it ends within its timeout, or with its context, or finds   *)
(* no sandbox; then the result is persisted.                                 *)
Outcomes(e) ==
  IF worker[e].stopped THEN {"canceled"}
  ELSE IF Gone(worker[e].lease) THEN {"missing"}
  ELSE {"succeeded", "failed"}
Execute(e) ==
  /\ worker[e].at = "executing"
  /\ \E outcome \in Outcomes(e) :
       /\ Finish(e, IF outcome = "missing" THEN "failed" ELSE outcome)
       /\ Moves(e, IF outcome = "missing" THEN "release" ELSE "giveback")
  /\ UNCHANGED <<lease, box, release, sweep, faults>>

(* A panic of the worker while it executes: the row fails and the lease goes.*)
Panic(e) ==
  /\ worker[e].at = "executing" /\ Fault
  /\ Finish(e, "failed")
  /\ Moves(e, "release")
  /\ UNCHANGED <<lease, box, release, sweep>>

(* LeaseManager.Renew -> MarkIdle: busy -> idle with a new expiry.           *)
MarkIdle(e) ==
  LET l == worker[e].lease IN
  /\ worker[e].at = "giveback"
  /\ lease' = IF lease[l].state = "busy"
              THEN [lease EXCEPT ![l].state = "idle", ![l].late = FALSE]
              ELSE lease
  /\ Ends(e)
  /\ UNCHANGED <<exec, box, release, sweep, faults>>

-----------------------------------------------------------------------------
(* LeaseManager.release, called by a worker, the sweeper or an administrator.*)

Releases(a, place, l, known) ==
  release' = [release EXCEPT ![a] = [at |-> place, lease |-> l, known |-> known]]
Returns(a) == release' = [release EXCEPT ![a] = NoRelease]

(* GetLease: a finished lease is left alone; the copy read here is the one   *)
(* whose RuntimeID decides the delete.                                       *)
GetLease(a, l) ==
  /\ release[a].at = "none"
  /\ IF lease[l].state \in LeaseFinished
     THEN UNCHANGED release
     ELSE Releases(a, "take", l, lease[l].known)

WorkerReleases(e) ==
  /\ worker[e].at = "release"
  /\ GetLease(e, worker[e].lease)
  /\ Ends(e)
  /\ UNCHANGED <<exec, lease, box, sweep, faults>>

AdminReleases(l) ==
  /\ lease[l].state \notin {"none"} \cup LeaseFinished
  /\ GetLease(Admin, l)
  /\ UNCHANGED <<exec, worker, lease, box, sweep, faults>>

(* SetState(active -> releasing); another caller may have been faster.       *)
TakeReleasing(a) ==
  LET l == release[a].lease IN
  /\ release[a].at = "take"
  /\ SetState(l, LeaseActive, "releasing")
  /\ IF lease[l].state \in LeaseActive
     THEN Releases(a, "cancel", l, release[a].known)
     ELSE Returns(a)
  /\ UNCHANGED <<exec, worker, box, sweep, faults>>

CancelByLease(a) ==
  /\ release[a].at = "cancel"
  /\ Stops(OnLease(release[a].lease))
  /\ Releases(a, "delete", release[a].lease, release[a].known)
  /\ UNCHANGED <<lease, box, sweep, faults>>

(* runtime.Delete, if the copy had a RuntimeID, and releasing -> terminated. *)
DeleteAndTerminate(l, known) ==
  /\ box' = IF known /\ box[l] = "up" THEN [box EXCEPT ![l] = "deleted"] ELSE box
  /\ SetState(l, {"releasing"}, "terminated")
Terminate(a) ==
  /\ release[a].at = "delete"
  /\ DeleteAndTerminate(release[a].lease, release[a].known)
  /\ Returns(a)
  /\ UNCHANGED <<exec, worker, sweep, faults>>

(* The delete fails, or its answer is lost: the lease stays releasing.       *)
DeleteFails(a) ==
  LET l == release[a].lease IN
  /\ release[a].at = "delete" /\ release[a].known /\ Fault
  /\ \/ UNCHANGED box
     \/ box[l] = "up" /\ box' = [box EXCEPT ![l] = "deleted"]
  /\ Returns(a)
  /\ UNCHANGED <<exec, worker, lease, sweep>>

-----------------------------------------------------------------------------
(* Cancel by the user, and the sweeper.                                      *)

Cancel(e) ==
  /\ exec[e].status \in ExecActive
  /\ Stops({e})
  /\ UNCHANGED <<lease, box, release, sweep, faults>>

SweeperIdle == sweep.list = {} /\ release[Sweeper].at = "none"

(* SweepOnce 1: an execution past its deadline, which passes at any moment   *)
(* after the start.                                                          *)
SweepTimedOut(e) ==
  /\ exec[e].status = "running" /\ SweeperIdle
  /\ Stops({e})
  /\ UNCHANGED <<lease, box, release, sweep, faults>>

(* SweepOnce 2 to 5: each list is read once and worked off; a lease may have *)
(* changed since.                                                            *)
Listed(phase) ==
  CASE phase = "expired"   -> {l \in LeaseId : lease[l].state \in LeaseActive \ {"creating"} /\ lease[l].late}
    [] phase = "stuck"     -> {l \in LeaseId : lease[l].state = "creating" /\ lease[l].late}
    [] phase = "releasing" -> {l \in LeaseId : lease[l].state = "releasing"}
    [] phase = "missing"   -> {l \in LeaseId : lease[l].state \in LeaseActive /\ lease[l].known
                                                /\ Gone(l) /\ ~OrphanDryRun}
SweepList ==
  /\ SweeperIdle
  /\ \E phase \in {"expired", "stuck", "releasing", "missing"} :
       /\ Listed(phase) # {}
       /\ sweep' = [phase |-> phase, list |-> Listed(phase)]
  /\ UNCHANGED <<exec, worker, lease, box, release, faults>>

Swept(l) ==
  sweep' = IF sweep.list = {l} THEN NoList ELSE [sweep EXCEPT !.list = @ \ {l}]

SweepExpired(l) ==
  /\ sweep.phase = "expired" /\ l \in sweep.list
  /\ GetLease(Sweeper, l)
  /\ Swept(l)
  /\ UNCHANGED <<exec, worker, lease, box, faults>>

(* MarkFailed re-reads the lease and moves it from any active state.         *)
SweepStuck(l) ==
  /\ sweep.phase = "stuck" /\ l \in sweep.list
  /\ SetState(l, LeaseActive, "failed")
  /\ Swept(l)
  /\ UNCHANGED <<exec, worker, box, release, faults>>

(* RetryRelease, with a fresh copy of the row; its delete may fail again.    *)
SweepReleasing(l) ==
  /\ sweep.phase = "releasing" /\ l \in sweep.list
  /\ DeleteAndTerminate(l, lease[l].known /\ lease[l].state = "releasing")
  /\ Swept(l)
  /\ UNCHANGED <<exec, worker, release, faults>>
SweepReleasingFails(l) ==
  /\ sweep.phase = "releasing" /\ l \in sweep.list /\ lease[l].known /\ Fault
  /\ Swept(l)
  /\ UNCHANGED <<exec, worker, lease, box, release>>

SweepMissing(l) ==
  /\ sweep.phase = "missing" /\ l \in sweep.list
  /\ Stops(OnLease(l))
  /\ SetState(l, LeaseActive, "failed")
  /\ Swept(l)
  /\ UNCHANGED <<box, release, faults>>

-----------------------------------------------------------------------------
(* The clock, the runtime and the process.                                   *)

TimePasses(l) ==
  /\ lease[l].state \in LeaseActive /\ ~lease[l].late
  /\ lease' = [lease EXCEPT ![l].late = TRUE]
  /\ UNCHANGED <<exec, worker, box, release, sweep, faults>>
Vanish(l) ==
  /\ box[l] = "up" /\ Fault
  /\ box' = [box EXCEPT ![l] = "vanished"]
  /\ UNCHANGED <<exec, worker, lease, release, sweep>>
Die ==
  /\ Fault
  /\ \E e \in Exec : worker[e].at \notin {"none", "done"}
  /\ worker' = [e \in Exec |-> IF worker[e].at = "none" THEN worker[e]
                               ELSE [NoWorker EXCEPT !.at = "done"]]
  /\ release' = [a \in Releaser |-> NoRelease]
  /\ sweep' = NoList
  /\ UNCHANGED <<exec, lease, box>>

-----------------------------------------------------------------------------
Acquires(e) ==
  \/ Stopped(e) \/ FindReusable(e) \/ RenewFound(e) \/ CountActive(e)
  \/ CreateLease(e) \/ RuntimeCreates(e) \/ RuntimeCreateFails(e) \/ MarkLeaseReady(e)
Works(e) ==
  \/ MarkRunning(e) \/ Acquires(e) \/ SetLease(e) \/ Claim(e)
  \/ Execute(e) \/ MarkIdle(e) \/ WorkerReleases(e)
ReleaseStep(a) ==
  TakeReleasing(a) \/ CancelByLease(a) \/ Terminate(a) \/ DeleteFails(a)
SweepLease(l) ==
  \/ SweepExpired(l) \/ SweepStuck(l) \/ SweepMissing(l)
  \/ SweepReleasing(l) \/ SweepReleasingFails(l)

SandboxNext ==
  \/ \E e \in Exec : \/ Create(e) \/ Works(e) \/ Panic(e)
                     \/ Cancel(e) \/ SweepTimedOut(e)
  \/ \E a \in Releaser : ReleaseStep(a)
  \/ SweepList
  \/ \E l \in LeaseId : \/ AdminReleases(l) \/ SweepLease(l)
                        \/ TimePasses(l) \/ Vanish(l)
  \/ Die

SandboxSpec == SandboxInit /\ [][SandboxNext]_sandboxVars

SweeperStep ==
  \/ \E e \in Exec : SweepTimedOut(e)
  \/ SweepList \/ ReleaseStep(Sweeper) \/ \E l \in LeaseId : SweepLease(l)

(* Goroutines and the sweeper run and time passes. That a delete tried again *)
(* and again succeeds at last follows from the bound on faults.              *)
SandboxFairness ==
  /\ \A e \in Exec : WF_sandboxVars(Works(e) \/ ReleaseStep(e))
  /\ WF_sandboxVars(SweeperStep) /\ WF_sandboxVars(ReleaseStep(Admin))
  /\ \A l \in LeaseId : WF_sandboxVars(TimePasses(l))
SandboxFairSpec == SandboxSpec /\ SandboxFairness

-----------------------------------------------------------------------------
Released(l) == \E a \in Releaser : release[a].lease = l
Attended(l) == Released(l) \/ \E e \in Exec : worker[e].lease = l /\ worker[e].at # "done"

(* Types of the rows, workers and calls; a busy lease has its sandbox's id.  *)
SandboxTypeOK ==
  /\ exec \in [Exec -> [status : {"none"} \cup ExecActive \cup ExecTerminal,
                       lease : LeaseId \cup {NoLease}]]
  /\ worker \in [Exec -> [at : {"none", "start", "find", "renew", "count", "insert", "create",
                                "confirm", "set", "claim", "executing", "giveback", "release", "done"},
                          lease : LeaseId \cup {NoLease}, stopped : BOOLEAN]]
  /\ lease \in [LeaseId -> [state : {"none", "releasing"} \cup LeaseActive \cup LeaseFinished,
                            known : BOOLEAN, late : BOOLEAN]]
  /\ box \in [LeaseId -> {"none", "up", "deleted", "vanished"}]
  /\ release \in [Releaser -> [at : {"none", "take", "cancel", "delete"},
                               lease : LeaseId \cup {NoLease}, known : BOOLEAN]]
  /\ sweep \in [phase : {"expired", "stuck", "releasing", "missing"}, list : SUBSET LeaseId]
  /\ faults \in 0 .. MaxFaults
  /\ \A l \in LeaseId : lease[l].state \in {"ready", "busy", "idle"} => lease[l].known

(* One execution at a time runs in a sandbox, whoever found it reusable      *)
(* (ClaimForExec, MarkIdle, release).                                        *)
OneRunsPerLease ==
  \A e, f \in Exec :
    worker[e].at = "executing" /\ worker[f].at = "executing" /\ worker[e].lease = worker[f].lease
      => e = f

(* The service never deletes the sandbox of a lease it still hands out: a    *)
(* delete comes after the lease has left the active states for good.         *)
ServedIsNotDeleted ==
  \A l \in LeaseId : lease[l].state \in {"ready", "busy", "idle"} => box[l] # "deleted"

(* When a lease is terminated and its release is over, nothing runs on it    *)
(* any more that was not told to stop (release, CancelByLease).              *)
TerminatedIsQuiet ==
  \A l \in LeaseId : lease[l].state = "terminated" /\ ~Released(l) =>
    \A e \in Exec : worker[e].at = "executing" /\ worker[e].lease = l => worker[e].stopped

(* A terminal row never changes (model.go: "the states in which an execution *)
(* can no longer change"), whoever is late: worker, user, sweeper, release.  *)
ExecTerminalIsFinal ==
  [][\A e \in Exec : exec[e].status \in ExecTerminal => exec'[e].status = exec[e].status]_sandboxVars

(* A running execution ends, also when its process died: the worker, or the  *)
(* sweeper past the deadline, ends its row.                                  *)
RunningEnds == \A e \in Exec : []<>(exec[e].status # "running")

(* A lease that is expired or being released is finished or renewed, through *)
(* failing deletes and the death of the releaser.                            *)
LeaseIsReclaimed ==
  \A l \in LeaseId :
    []<>(\/ lease[l].state \in {"none"} \cup LeaseFinished
         \/ lease[l].state \in LeaseReusable /\ ~lease[l].late)

(* "Terminal and no longer hold runtime capacity" (model.go, of the finished *)
(* states): a finished lease nobody works on has no sandbox.                 *)
FinishedHoldsNothing ==
  \A l \in LeaseId : lease[l].state \in LeaseFinished /\ ~Attended(l) => box[l] # "up"
=============================================================================
