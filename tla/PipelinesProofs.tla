---------------------------- MODULE PipelinesProofs ----------------------------
(* The work that outlives its request, for any number of executions, leases,  *)
(* workers, requests, builds and calls: each of the five modules has its      *)
(* inductive invariant, and MCPipelines runs the five side by side.           *)
EXTENDS MCPipelines, FiniteSetTheorems, SequenceTheorems, TLAPS

-----------------------------------------------------------------------------
(* SandboxLease                                                              *)

(* What the place of a worker says of its lease and of its execution, however*)
(* long ago they were read.                                                  *)
Creating(e) == worker[e].at \in {"create", "confirm"}
Holding(e) == worker[e].at \in {"executing", "giveback"}
WorkerKnows(e) ==
  LET l == worker[e].lease IN
  /\ worker[e].at \in {"renew", "set", "claim", "release"} \/ Creating(e) \/ Holding(e)
       => l \in LeaseId
  /\ Creating(e) => lease[l].state \in {"creating", "releasing"} \cup LeaseFinished
  /\ Holding(e) => lease[l].state \in {"busy", "releasing"} \cup LeaseFinished
  /\ worker[e].at \in {"find", "renew", "count", "insert", "create", "confirm", "set",
                       "claim", "executing"} /\ ~worker[e].stopped
       => exec[e].status = "running"
  /\ worker[e].at \in {"claim", "executing"} /\ ~worker[e].stopped => exec[e].lease = l
WorkersKnow == \A e \in Exec : WorkerKnows(e)

(* One worker makes a sandbox, one has it.                                   *)
OneEach ==
  \A e, f \in Exec : worker[e].lease = worker[f].lease =>
    /\ Creating(e) /\ Creating(f) => e = f
    /\ Holding(e) /\ Holding(f) => e = f

(* Who is to cancel or delete has taken the lease out of the active states.  *)
ReleasersKnow ==
  \A a \in Releaser :
    /\ release[a].at # "none" => release[a].lease \in LeaseId
    /\ release[a].at \in {"cancel", "delete"} =>
         lease[release[a].lease].state \in {"releasing", "terminated"}

(* A sandbox goes only with its lease.                                       *)
NoneTooEarly ==
  \A l \in LeaseId : lease[l].state \in {"none", "creating", "ready", "busy", "idle"}
                       => box[l] # "deleted"

(* On a lease that is given up everything is told to stop, or will be.       *)
Cancelling(l) == \E a \in Releaser : release[a].at = "cancel" /\ release[a].lease = l
AllStopped(l) ==
  \A e \in Exec : worker[e].at = "executing" /\ worker[e].lease = l => worker[e].stopped
GivenUpIsQuiet ==
  \A l \in LeaseId : lease[l].state \in {"releasing", "terminated"} => Cancelling(l) \/ AllStopped(l)

SandboxIInv ==
  /\ SandboxTypeOK /\ WorkersKnow /\ OneEach /\ ReleasersKnow
  /\ NoneTooEarly /\ GivenUpIsQuiet

-----------------------------------------------------------------------------
(* What the helpers make of the rows, workers and calls.                     *)
Places == {"none", "start", "find", "renew", "count", "insert", "create", "confirm", "set",
           "claim", "executing", "giveback", "release", "done"}
LeaseStates == {"none", "releasing"} \cup LeaseActive \cup LeaseFinished
ExecRecs == [status : {"none"} \cup ExecActive \cup ExecTerminal, lease : LeaseId \cup {NoLease}]
WorkerRecs == [at : Places, lease : LeaseId \cup {NoLease}, stopped : BOOLEAN]
LeaseRecs == [state : LeaseStates, known : BOOLEAN, late : BOOLEAN]
ReleaseRecs == [at : {"none", "take", "cancel", "delete"}, lease : LeaseId \cup {NoLease},
                known : BOOLEAN]

LEMMA RowsTyped ==
  ASSUME SandboxTypeOK
  PROVE  /\ exec \in [Exec -> ExecRecs] /\ worker \in [Exec -> WorkerRecs]
         /\ lease \in [LeaseId -> LeaseRecs] /\ release \in [Releaser -> ReleaseRecs]
  BY DEF SandboxTypeOK, ExecRecs, WorkerRecs, LeaseRecs, ReleaseRecs, Places, LeaseStates

LEMMA TypedRows ==
  ASSUME exec' \in [Exec -> ExecRecs], worker' \in [Exec -> WorkerRecs],
         lease' \in [LeaseId -> LeaseRecs], release' \in [Releaser -> ReleaseRecs],
         box' \in [LeaseId -> {"none", "up", "deleted", "vanished"}],
         sweep' \in [phase : {"expired", "stuck", "releasing", "missing"}, list : SUBSET LeaseId],
         faults' \in 0 .. MaxFaults,
         \A l \in LeaseId : lease'[l].state \in {"ready", "busy", "idle"} => lease'[l].known
  PROVE  SandboxTypeOK'
  BY DEF SandboxTypeOK, ExecRecs, WorkerRecs, LeaseRecs, ReleaseRecs, Places, LeaseStates

LEMMA MovesTyped ==
  ASSUME SandboxTypeOK, NEW e \in Exec, NEW place \in Places, Moves(e, place)
  PROVE  /\ worker' \in [Exec -> WorkerRecs]
         /\ worker'[e].at = place /\ worker'[e].lease = worker[e].lease
         /\ worker'[e].stopped = worker[e].stopped
         /\ \A f \in Exec \ {e} : worker'[f] = worker[f]
<1>1. worker \in [Exec -> WorkerRecs]
  BY RowsTyped
<1>2. worker[e] \in WorkerRecs
  BY <1>1
<1>3. [worker[e] EXCEPT !.at = place]
        = [at |-> place, lease |-> worker[e].lease, stopped |-> worker[e].stopped]
  BY <1>2 DEF WorkerRecs
<1>4. [at |-> place, lease |-> worker[e].lease, stopped |-> worker[e].stopped] \in WorkerRecs
  BY <1>2 DEF WorkerRecs
<1>5. worker' = [worker EXCEPT ![e] =
                   [at |-> place, lease |-> worker[e].lease, stopped |-> worker[e].stopped]]
  BY <1>1, <1>3 DEF Moves
<1> HIDE DEF WorkerRecs
<1>. QED BY <1>1, <1>4, <1>5

LEMMA PicksTyped ==
  ASSUME SandboxTypeOK, NEW e \in Exec, NEW l \in LeaseId, NEW place \in Places, Picks(e, l, place)
  PROVE  /\ worker' \in [Exec -> WorkerRecs]
         /\ worker'[e].at = place /\ worker'[e].lease = l /\ worker'[e].stopped = worker[e].stopped
         /\ \A f \in Exec \ {e} : worker'[f] = worker[f]
<1>1. worker \in [Exec -> WorkerRecs]
  BY RowsTyped
<1>2. worker[e] \in WorkerRecs
  BY <1>1
<1>3. [at |-> place, lease |-> l, stopped |-> worker[e].stopped] \in WorkerRecs
  BY <1>2 DEF WorkerRecs
<1>4. [[worker[e] EXCEPT !.at = place] EXCEPT !.lease = l]
         = [at |-> place, lease |-> l, stopped |-> worker[e].stopped]
  <2>1. [worker[e] EXCEPT !.at = place]
          = [at |-> place, lease |-> worker[e].lease, stopped |-> worker[e].stopped]
    BY <1>2 DEF WorkerRecs
  <2>2. [[at |-> place, lease |-> worker[e].lease, stopped |-> worker[e].stopped] EXCEPT !.lease = l]
          = [at |-> place, lease |-> l, stopped |-> worker[e].stopped]
    OBVIOUS
  <2>. QED BY <2>1, <2>2
<1>5. worker' = [worker EXCEPT ![e] = [[worker[e] EXCEPT !.at = place] EXCEPT !.lease = l]]
  BY <1>1 DEF Picks
<1> HIDE DEF WorkerRecs
<1>. QED BY <1>1, <1>3, <1>4, <1>5

LEMMA EndsTyped ==
  ASSUME SandboxTypeOK, NEW e \in Exec, Ends(e)
  PROVE  /\ worker' \in [Exec -> WorkerRecs]
         /\ worker'[e].at = "done" /\ worker'[e].lease = NoLease /\ worker'[e].stopped = FALSE
         /\ \A f \in Exec \ {e} : worker'[f] = worker[f]
<1>1. worker \in [Exec -> WorkerRecs]
  BY RowsTyped
<1>2. worker' = [worker EXCEPT ![e] = [at |-> "done", lease |-> NoLease, stopped |-> FALSE]]
  <2>1. [NoWorker EXCEPT !.at = "done"] = [at |-> "done", lease |-> NoLease, stopped |-> FALSE]
    <3>1. ASSUME NEW w \in WorkerRecs
          PROVE  [w EXCEPT !.at = "done"] = [at |-> "done", lease |-> w.lease, stopped |-> w.stopped]
      BY <3>1 DEF WorkerRecs
    <3>2. NoWorker \in WorkerRecs /\ NoWorker.lease = NoLease /\ NoWorker.stopped = FALSE
      BY DEF NoWorker, WorkerRecs, Places
    <3>. QED BY <3>1, <3>2
  <2>. QED BY <2>1 DEF Ends
<1>3. [at |-> "done", lease |-> NoLease, stopped |-> FALSE] \in WorkerRecs
  BY DEF WorkerRecs, Places
<1> HIDE DEF WorkerRecs
<1>. QED BY <1>1, <1>2, <1>3

LEMMA FinishTyped ==
  ASSUME SandboxTypeOK, NEW e \in Exec, NEW status \in ExecTerminal, Finish(e, status)
  PROVE  exec' \in [Exec -> ExecRecs] /\ \A f \in Exec \ {e} : exec'[f] = exec[f]
<1>1. exec \in [Exec -> ExecRecs]
  BY RowsTyped
<1>2. Ended(status) \in ExecRecs
  BY DEF Ended, ExecRecs
<1>3. exec' = [exec EXCEPT ![e] = Ended(status)] \/ exec' = exec
  BY <1>1 DEF Finish
<1> HIDE DEF ExecRecs
<1>. QED BY <1>1, <1>2, <1>3

(* Who is stopped keeps its place and its lease.                             *)
LEMMA StopsTyped ==
  ASSUME SandboxTypeOK, NEW S, Stops(S)
  PROVE  /\ exec' \in [Exec -> ExecRecs] /\ worker' \in [Exec -> WorkerRecs]
         /\ \A f \in Exec : /\ worker'[f].at = worker[f].at
                            /\ worker'[f].lease = worker[f].lease
                            /\ worker'[f].stopped = (worker[f].stopped \/ (f \in S /\ worker[f].at # "done"))
         /\ \A f \in Exec \ S : exec'[f] = exec[f]
         /\ \A f \in Exec \cap S : exec'[f] = Ended("canceled")
<1>1. exec \in [Exec -> ExecRecs] /\ worker \in [Exec -> WorkerRecs]
  BY RowsTyped
<1>2. Ended("canceled") \in ExecRecs
  BY DEF Ended, ExecRecs, ExecTerminal
<1>3. exec' \in [Exec -> ExecRecs]
  <2> HIDE DEF ExecRecs
  <2>. QED BY <1>1, <1>2 DEF Stops
<1>4. ASSUME NEW f \in Exec
      PROVE  /\ worker'[f] \in WorkerRecs
             /\ worker'[f].at = worker[f].at /\ worker'[f].lease = worker[f].lease
             /\ worker'[f].stopped = (worker[f].stopped \/ (f \in S /\ worker[f].at # "done"))
  <2>1. worker[f] \in WorkerRecs
    BY <1>1
  <2>2. worker'[f] = IF f \in S /\ worker[f].at # "done"
                     THEN [worker[f] EXCEPT !.stopped = TRUE] ELSE worker[f]
    BY DEF Stops
  <2>. QED BY <2>1, <2>2 DEF WorkerRecs
<1>5. worker' \in [Exec -> WorkerRecs]
  <2> HIDE DEF WorkerRecs
  <2>. QED BY <1>4 DEF Stops
<1>. QED BY <1>3, <1>4, <1>5 DEF Stops

LEMMA SetStateTyped ==
  ASSUME SandboxTypeOK, NEW l \in LeaseId, NEW from, NEW to \in {"releasing"} \cup LeaseFinished,
         SetState(l, from, to)
  PROVE  /\ lease' \in [LeaseId -> LeaseRecs]
         /\ \A k \in LeaseId \ {l} : lease'[k] = lease[k]
         /\ lease[l].state \notin from => lease'[l] = lease[l]
         /\ lease[l].state \in from => lease'[l].state = to
         /\ \A k \in LeaseId : lease'[k].state \in {"ready", "busy", "idle"} => lease'[k].known
<1> DEFINE new == IF lease[l].state \notin from THEN lease[l]
                  ELSE IF to \in LeaseFinished THEN [NoRow EXCEPT !.state = to]
                  ELSE [lease[l] EXCEPT !.state = to]
<1>1. lease \in [LeaseId -> LeaseRecs]
  BY RowsTyped
<1>2. lease[l] \in LeaseRecs
  BY <1>1
<1>3. /\ new \in LeaseRecs
      /\ lease[l].state \notin from => new = lease[l]
      /\ lease[l].state \in from => new.state = to
  BY <1>2 DEF LeaseRecs, LeaseStates, NoRow, LeaseFinished
<1>4. lease' = [lease EXCEPT ![l] = new]
  BY <1>1 DEF SetState
<1> HIDE DEF new
<1>5. /\ lease' \in [LeaseId -> LeaseRecs] /\ lease'[l] = new
      /\ \A k \in LeaseId \ {l} : lease'[k] = lease[k]
  BY <1>1, <1>3, <1>4
<1>6. to \notin {"ready", "busy", "idle"}
  BY DEF LeaseFinished
<1>. QED BY <1>3, <1>5, <1>6 DEF SandboxTypeOK

LEMMA ReleasesTyped ==
  ASSUME SandboxTypeOK, NEW a \in Releaser, NEW rec \in ReleaseRecs,
         release' = [release EXCEPT ![a] = rec]
  PROVE  /\ release' \in [Releaser -> ReleaseRecs] /\ release'[a] = rec
         /\ \A b \in Releaser \ {a} : release'[b] = release[b]
<1>1. release \in [Releaser -> ReleaseRecs]
  BY RowsTyped
<1> HIDE DEF ReleaseRecs
<1>. QED BY <1>1

(* GetLease starts a call, or finds the lease finished.                      *)
LEMMA GetLeaseTyped ==
  ASSUME SandboxTypeOK, NEW a \in Releaser, NEW l \in LeaseId, GetLease(a, l)
  PROVE  /\ release' \in [Releaser -> ReleaseRecs] /\ release[a].at = "none"
         /\ release'[a] = release[a] \/ (release'[a].at = "take" /\ release'[a].lease = l)
         /\ \A b \in Releaser \ {a} : release'[b] = release[b]
<1>1. release \in [Releaser -> ReleaseRecs] /\ lease[l] \in LeaseRecs /\ release[a].at = "none"
  BY RowsTyped DEF GetLease
<1>2. [at |-> "take", lease |-> l, known |-> lease[l].known] \in ReleaseRecs
  BY <1>1 DEF ReleaseRecs, LeaseRecs
<1>3. \/ release' = [release EXCEPT ![a] = [at |-> "take", lease |-> l, known |-> lease[l].known]]
      \/ release' = release
  BY DEF GetLease, Releases
<1> HIDE DEF ReleaseRecs
<1>4. CASE release' = release
  BY <1>1, <1>4
<1>5. CASE release' = [release EXCEPT ![a] = [at |-> "take", lease |-> l, known |-> lease[l].known]]
  BY <1>1, <1>2, <1>5, ReleasesTyped
<1>. QED BY <1>3, <1>4, <1>5


LEMMA StatusTyped ==
  ASSUME SandboxTypeOK, NEW e \in Exec, NEW status \in ExecActive,
         exec' = [exec EXCEPT ![e].status = status]
  PROVE  /\ exec' \in [Exec -> ExecRecs] /\ exec'[e].status = status /\ exec'[e].lease = exec[e].lease
         /\ \A f \in Exec \ {e} : exec'[f] = exec[f]
<1>1. exec \in [Exec -> ExecRecs] /\ exec[e] \in ExecRecs
  BY RowsTyped
<1>2. [exec[e] EXCEPT !.status = status] = [status |-> status, lease |-> exec[e].lease]
  BY <1>1 DEF ExecRecs
<1>3. [status |-> status, lease |-> exec[e].lease] \in ExecRecs
  BY <1>1 DEF ExecRecs
<1>4. exec' = [exec EXCEPT ![e] = [status |-> status, lease |-> exec[e].lease]]
  BY <1>1, <1>2
<1> HIDE DEF ExecRecs
<1>. QED BY <1>1, <1>3, <1>4

LEMMA CreateSandboxIInv ==
  ASSUME SandboxIInv, NEW e \in Exec, Create(e)
  PROVE  SandboxIInv'
<1>. USE SandboxAssumption DEF SandboxIInv
<1>0. Moves(e, "start") /\ exec' = [exec EXCEPT ![e].status = "queued"] /\ "queued" \in ExecActive
  BY DEF Create, ExecActive
<1>a. /\ worker' \in [Exec -> WorkerRecs] /\ exec' \in [Exec -> ExecRecs]
  BY <1>0, MovesTyped, StatusTyped DEF Places
<1>1. SandboxTypeOK'
  BY <1>a, RowsTyped, TypedRows DEF Create, SandboxTypeOK
<1>2. WorkersKnow'
  BY DEF Create, WorkersKnow, WorkerKnows, Creating, Holding, Moves
<1>3. OneEach'
  BY DEF Create, OneEach, WorkersKnow, WorkerKnows, Creating, Holding, Moves
<1>4. ReleasersKnow'
  BY DEF Create, ReleasersKnow
<1>5. NoneTooEarly'
  BY DEF Create, NoneTooEarly, WorkersKnow, WorkerKnows, Creating, ReleasersKnow
<1>6. GivenUpIsQuiet'
  BY DEF Create, GivenUpIsQuiet, Cancelling, AllStopped, WorkersKnow, WorkerKnows, Creating,
       Holding, Moves
<1>. QED BY <1>1, <1>2, <1>3, <1>4, <1>5, <1>6

LEMMA MarkRunningSandboxIInv ==
  ASSUME SandboxIInv, NEW e \in Exec, MarkRunning(e)
  PROVE  SandboxIInv'
<1>. USE SandboxAssumption DEF SandboxIInv
<1>0. /\ worker' \in [Exec -> WorkerRecs] /\ exec' \in [Exec -> ExecRecs]
      /\ \A f \in Exec \ {e} : worker'[f] = worker[f] /\ exec'[f] = exec[f]
      /\ worker'[e].at \in {"find", "done"}
      /\ worker'[e].at = "find" => exec'[e].status = "running"
  <2>1. CASE exec' = [exec EXCEPT ![e].status = "running"] /\ Moves(e, "find")
    <3>1. "running" \in ExecActive /\ "find" \in Places
      BY DEF ExecActive, Places
    <3>. QED BY <2>1, <3>1, StatusTyped, MovesTyped
  <2>2. CASE UNCHANGED exec /\ Ends(e)
    BY <2>2, EndsTyped, RowsTyped
  <2>. QED BY <2>1, <2>2 DEF MarkRunning
<1>1. SandboxTypeOK'
  BY <1>0, RowsTyped, TypedRows DEF MarkRunning, SandboxTypeOK
<1>2. WorkersKnow'
  BY <1>0 DEF MarkRunning, SandboxTypeOK, WorkersKnow, WorkerKnows, Creating, Holding
<1>3. OneEach'
  BY <1>0 DEF MarkRunning, SandboxTypeOK, OneEach, WorkersKnow, WorkerKnows, Creating, Holding
<1>4. ReleasersKnow'
  BY DEF MarkRunning, ReleasersKnow
<1>5. NoneTooEarly'
  BY DEF MarkRunning, NoneTooEarly, WorkersKnow, WorkerKnows, Creating, ReleasersKnow
<1>6. GivenUpIsQuiet'
  BY DEF MarkRunning, SandboxTypeOK, GivenUpIsQuiet, Cancelling, AllStopped, WorkersKnow,
       WorkerKnows, Creating, Holding, Moves, Ends, NoWorker, ExecActive, ExecTerminal,
       LeaseActive, LeaseFinished
<1>. QED BY <1>1, <1>2, <1>3, <1>4, <1>5, <1>6

LEMMA StoppedSandboxIInv ==
  ASSUME SandboxIInv, NEW e \in Exec, Stopped(e)
  PROVE  SandboxIInv'
<1>. USE SandboxAssumption DEF SandboxIInv
<1>1. SandboxTypeOK'
  BY DEF Stopped, SandboxTypeOK, Ends, Ended, Finish, NoWorker, ExecActive, ExecTerminal,
       LeaseActive, LeaseFinished
<1>2. WorkersKnow'
  BY DEF Stopped, WorkersKnow, WorkerKnows, Creating, Holding, Ends, Finish
<1>3. OneEach'
  BY DEF Stopped, OneEach, WorkersKnow, WorkerKnows, Creating, Holding, Ends, Finish
<1>4. ReleasersKnow'
  BY DEF Stopped, ReleasersKnow
<1>5. NoneTooEarly'
  BY DEF Stopped, NoneTooEarly, WorkersKnow, WorkerKnows, Creating, ReleasersKnow
<1>6. GivenUpIsQuiet'
  BY DEF Stopped, GivenUpIsQuiet, Cancelling, AllStopped, WorkersKnow, WorkerKnows, Creating,
       Holding, Ends, Finish
<1>. QED BY <1>1, <1>2, <1>3, <1>4, <1>5, <1>6

LEMMA FindReusableSandboxIInv ==
  ASSUME SandboxIInv, NEW e \in Exec, FindReusable(e)
  PROVE  SandboxIInv'
<1>. USE SandboxAssumption DEF SandboxIInv
<1>0. /\ worker' \in [Exec -> WorkerRecs]
      /\ \A f \in Exec \ {e} : worker'[f] = worker[f]
      /\ worker'[e].stopped = worker[e].stopped
      /\ worker'[e].at = "count" \/ (worker'[e].at = "renew" /\ worker'[e].lease \in LeaseId)
  <2>1. CASE Moves(e, "count")
    BY <2>1, MovesTyped DEF Places
  <2>2. CASE \E l \in LeaseId : Picks(e, l, "renew")
    BY <2>2, PicksTyped DEF Places
  <2>. QED BY <2>1, <2>2 DEF FindReusable
<1>1. SandboxTypeOK'
  BY <1>0, RowsTyped, TypedRows DEF FindReusable, SandboxTypeOK
<1>2. WorkersKnow'
  BY <1>0 DEF FindReusable, SandboxTypeOK, WorkersKnow, WorkerKnows, Creating, Holding
<1>3. OneEach'
  BY <1>0 DEF FindReusable, SandboxTypeOK, OneEach, WorkersKnow, WorkerKnows, Creating, Holding
<1>4. ReleasersKnow'
  BY DEF FindReusable, ReleasersKnow
<1>5. NoneTooEarly'
  BY DEF FindReusable, NoneTooEarly, WorkersKnow, WorkerKnows, Creating, ReleasersKnow
<1>6. GivenUpIsQuiet'
  BY DEF FindReusable, SandboxTypeOK, GivenUpIsQuiet, Cancelling, AllStopped, WorkersKnow,
       WorkerKnows, Creating, Holding, Moves, Picks, Reusable, ExecActive, ExecTerminal,
       LeaseReusable, LeaseActive, LeaseFinished
<1>. QED BY <1>1, <1>2, <1>3, <1>4, <1>5, <1>6

LEMMA RenewFoundSandboxIInv ==
  ASSUME SandboxIInv, NEW e \in Exec, RenewFound(e)
  PROVE  SandboxIInv'
<1>. USE SandboxAssumption DEF SandboxIInv
<1>1. SandboxTypeOK'
  BY DEF RenewFound, SandboxTypeOK, Moves, Reusable
<1>2. WorkersKnow'
  BY DEF RenewFound, WorkersKnow, WorkerKnows, Creating, Holding, Moves, Reusable
<1>3. OneEach'
  BY DEF RenewFound, OneEach, WorkersKnow, WorkerKnows, Creating, Holding, Moves, Reusable
<1>4. ReleasersKnow'
  BY DEF RenewFound, ReleasersKnow
<1>5. NoneTooEarly'
  BY DEF RenewFound, NoneTooEarly, WorkersKnow, WorkerKnows, Creating, ReleasersKnow
<1>6. GivenUpIsQuiet'
  BY DEF RenewFound, GivenUpIsQuiet, Cancelling, AllStopped, WorkersKnow, WorkerKnows, Creating,
       Holding, Moves, Reusable
<1>. QED BY <1>1, <1>2, <1>3, <1>4, <1>5, <1>6

LEMMA CountActiveSandboxIInv ==
  ASSUME SandboxIInv, NEW e \in Exec, CountActive(e)
  PROVE  SandboxIInv'
<1>. USE SandboxAssumption DEF SandboxIInv
<1>0. /\ worker' \in [Exec -> WorkerRecs] /\ exec' \in [Exec -> ExecRecs]
      /\ \A f \in Exec \ {e} : worker'[f] = worker[f] /\ exec'[f] = exec[f]
      /\ \/ worker'[e].at = "done"
         \/ /\ worker'[e].at = "insert" /\ worker'[e].stopped = worker[e].stopped
            /\ exec'[e] = exec[e]
  <2>1. CASE Finish(e, "failed") /\ Ends(e)
    BY <2>1, EndsTyped, FinishTyped DEF ExecTerminal
  <2>2. CASE UNCHANGED exec /\ Moves(e, "insert")
    BY <2>2, MovesTyped, RowsTyped DEF Places
  <2>. QED BY <2>1, <2>2 DEF CountActive
<1>1. SandboxTypeOK'
  BY <1>0, RowsTyped, TypedRows DEF CountActive, SandboxTypeOK
<1>2. WorkersKnow'
  BY <1>0 DEF CountActive, SandboxTypeOK, WorkersKnow, WorkerKnows, Creating, Holding
<1>3. OneEach'
  BY <1>0 DEF CountActive, SandboxTypeOK, OneEach, WorkersKnow, WorkerKnows, Creating, Holding
<1>4. ReleasersKnow'
  BY DEF CountActive, ReleasersKnow
<1>5. NoneTooEarly'
  BY DEF CountActive, NoneTooEarly, WorkersKnow, WorkerKnows, Creating, ReleasersKnow
<1>6. GivenUpIsQuiet'
  BY <1>0 DEF CountActive, SandboxTypeOK, GivenUpIsQuiet, Cancelling, AllStopped, WorkersKnow,
       WorkerKnows, Creating, Holding
<1>. QED BY <1>1, <1>2, <1>3, <1>4, <1>5, <1>6

LEMMA CreateLeaseSandboxIInv ==
  ASSUME SandboxIInv, NEW e \in Exec, CreateLease(e)
  PROVE  SandboxIInv'
<1>. USE SandboxAssumption DEF SandboxIInv
<1>0. PICK l \in LeaseId : /\ lease[l].state = "none"
                           /\ lease' = [lease EXCEPT ![l].state = "creating"]
                           /\ Picks(e, l, "create")
  BY DEF CreateLease
<1>a. /\ worker' \in [Exec -> WorkerRecs]
      /\ \A f \in Exec \ {e} : worker'[f] = worker[f]
      /\ worker'[e].stopped = worker[e].stopped /\ worker'[e].at = "create" /\ worker'[e].lease = l
  BY <1>0, PicksTyped DEF Places
<1>b. /\ lease' \in [LeaseId -> LeaseRecs] /\ lease'[l].state = "creating"
      /\ \A k \in LeaseId \ {l} : lease'[k] = lease[k]
  <2>1. lease \in [LeaseId -> LeaseRecs] /\ lease[l] \in LeaseRecs
    BY RowsTyped
  <2>2. /\ [lease[l] EXCEPT !.state = "creating"] \in LeaseRecs
        /\ [lease[l] EXCEPT !.state = "creating"].state = "creating"
    BY <2>1 DEF LeaseRecs, LeaseStates, LeaseActive
  <2>3. lease' = [lease EXCEPT ![l] = [lease[l] EXCEPT !.state = "creating"]]
    BY <1>0, <2>1
  <2> HIDE DEF LeaseRecs
  <2>. QED BY <2>1, <2>2, <2>3
<1>1. SandboxTypeOK'
  BY <1>0, <1>a, <1>b, RowsTyped, TypedRows DEF CreateLease, SandboxTypeOK
<1>2. WorkersKnow'
  BY <1>0, <1>a, <1>b DEF CreateLease, WorkersKnow, WorkerKnows, Creating, Holding, LeaseFinished
<1>3. OneEach'
  BY <1>0, <1>a, <1>b DEF OneEach, WorkersKnow, WorkerKnows, Creating, Holding, LeaseFinished
<1>4. ReleasersKnow'
  BY DEF CreateLease, ReleasersKnow
<1>5. NoneTooEarly'
  BY DEF CreateLease, NoneTooEarly, WorkersKnow, WorkerKnows, Creating, ReleasersKnow
<1>6. GivenUpIsQuiet'
  BY <1>0, <1>a, <1>b DEF CreateLease, GivenUpIsQuiet, Cancelling, AllStopped
<1>. QED BY <1>1, <1>2, <1>3, <1>4, <1>5, <1>6

LEMMA RuntimeCreatesSandboxIInv ==
  ASSUME SandboxIInv, NEW e \in Exec, RuntimeCreates(e)
  PROVE  SandboxIInv'
<1>. USE SandboxAssumption DEF SandboxIInv
<1>0. /\ worker' \in [Exec -> WorkerRecs] /\ worker[e].lease \in LeaseId
  BY MovesTyped DEF RuntimeCreates, Places, WorkersKnow, WorkerKnows, Creating
<1>1. SandboxTypeOK'
  BY <1>0, RowsTyped, TypedRows DEF RuntimeCreates, SandboxTypeOK
<1>2. WorkersKnow'
  BY DEF RuntimeCreates, WorkersKnow, WorkerKnows, Creating, Holding, Moves
<1>3. OneEach'
  BY DEF RuntimeCreates, OneEach, WorkersKnow, WorkerKnows, Creating, Holding, Moves
<1>4. ReleasersKnow'
  BY DEF RuntimeCreates, ReleasersKnow
<1>5. NoneTooEarly'
  BY DEF RuntimeCreates, NoneTooEarly, WorkersKnow, WorkerKnows, Creating, ReleasersKnow
<1>6. GivenUpIsQuiet'
  BY DEF RuntimeCreates, GivenUpIsQuiet, Cancelling, AllStopped, WorkersKnow, WorkerKnows,
       Creating, Holding, Moves
<1>. QED BY <1>1, <1>2, <1>3, <1>4, <1>5, <1>6

LEMMA RuntimeCreateFailsSandboxIInv ==
  ASSUME SandboxIInv, NEW e \in Exec, RuntimeCreateFails(e)
  PROVE  SandboxIInv'
<1>. USE SandboxAssumption DEF SandboxIInv
<1>0. /\ worker' \in [Exec -> WorkerRecs] /\ exec' \in [Exec -> ExecRecs]
      /\ worker[e].lease \in LeaseId
  BY EndsTyped, FinishTyped DEF RuntimeCreateFails, ExecTerminal, WorkersKnow, WorkerKnows,
       Creating
<1>a. /\ lease' \in [LeaseId -> LeaseRecs]
      /\ \A k \in LeaseId : lease'[k].state \in {"ready", "busy", "idle"} => lease'[k].known
  BY <1>0, SetStateTyped DEF RuntimeCreateFails, LeaseFinished
<1>b. box' \in [LeaseId -> {"none", "up", "deleted", "vanished"}]
  <2>1. box' = box \/ box' = [box EXCEPT ![worker[e].lease] = "up"]
    BY DEF RuntimeCreateFails
  <2>. QED BY <2>1 DEF SandboxTypeOK
<1>c. faults' \in 0 .. MaxFaults
  BY DEF RuntimeCreateFails, SandboxTypeOK, Fault
<1>d. UNCHANGED <<release, sweep>>
  BY DEF RuntimeCreateFails
<1>1. SandboxTypeOK'
  BY <1>0, <1>a, <1>b, <1>c, <1>d, RowsTyped, TypedRows DEF SandboxTypeOK
<1>2. WorkersKnow'
  BY DEF RuntimeCreateFails, WorkersKnow, WorkerKnows, Creating, Holding, Fault, Ends, Finish,
       SetState, SandboxTypeOK, LeaseActive, LeaseFinished, ExecActive, ExecTerminal
<1>3. OneEach'
  BY DEF RuntimeCreateFails, OneEach, WorkersKnow, WorkerKnows, Creating, Holding, Fault, Ends,
       Finish, SetState
<1>4. ReleasersKnow'
  BY DEF RuntimeCreateFails, ReleasersKnow, Fault, Ends, Finish, SetState
<1>5. NoneTooEarly'
  BY DEF RuntimeCreateFails, NoneTooEarly, WorkersKnow, WorkerKnows, Creating, ReleasersKnow,
       Fault, Ends, Finish, SetState, SandboxTypeOK, LeaseActive, LeaseFinished, ExecActive,
       ExecTerminal
<1>6. GivenUpIsQuiet'
  BY DEF RuntimeCreateFails, GivenUpIsQuiet, Cancelling, AllStopped, WorkersKnow, WorkerKnows,
       Creating, Holding, Fault, Ends, Finish, SetState
<1>. QED BY <1>1, <1>2, <1>3, <1>4, <1>5, <1>6

LEMMA ReadyTyped ==
  ASSUME SandboxTypeOK, NEW l \in LeaseId,
         lease' = [lease EXCEPT ![l].state = "ready", ![l].known = TRUE, ![l].late = FALSE]
  PROVE  /\ lease' \in [LeaseId -> LeaseRecs] /\ lease'[l].state = "ready" /\ lease'[l].known
         /\ \A k \in LeaseId \ {l} : lease'[k] = lease[k]
<1>1. lease \in [LeaseId -> LeaseRecs] /\ lease[l] \in LeaseRecs
  BY RowsTyped
<1> DEFINE new == [[[lease[l] EXCEPT !.state = "ready"] EXCEPT !.known = TRUE] EXCEPT !.late = FALSE]
<1>2. /\ [lease[l] EXCEPT !.state = "ready"] \in LeaseRecs
      /\ [lease[l] EXCEPT !.state = "ready"].state = "ready"
  BY <1>1 DEF LeaseRecs, LeaseStates, LeaseActive
<1>3. ASSUME NEW r \in LeaseRecs
      PROVE  /\ [r EXCEPT !.known = TRUE] \in LeaseRecs
             /\ [r EXCEPT !.known = TRUE].known
             /\ [r EXCEPT !.known = TRUE].state = r.state
  BY <1>3 DEF LeaseRecs
<1>4. ASSUME NEW r \in LeaseRecs
      PROVE  /\ [r EXCEPT !.late = FALSE] \in LeaseRecs
             /\ [r EXCEPT !.late = FALSE].known = r.known
             /\ [r EXCEPT !.late = FALSE].state = r.state
  BY <1>4 DEF LeaseRecs
<1>5. new \in LeaseRecs /\ new.state = "ready" /\ new.known
  BY <1>2, <1>3, <1>4
<1>6. lease' = [lease EXCEPT ![l] = new]
  BY <1>1
<1> HIDE DEF LeaseRecs, new
<1>. QED BY <1>1, <1>5, <1>6

LEMMA StateTyped ==
  ASSUME SandboxTypeOK, NEW l \in LeaseId, NEW state \in LeaseStates,
         lease' = [lease EXCEPT ![l].state = state]
  PROVE  /\ lease' \in [LeaseId -> LeaseRecs] /\ lease'[l].state = state
         /\ lease'[l].known = lease[l].known
         /\ \A k \in LeaseId \ {l} : lease'[k] = lease[k]
<1>1. lease \in [LeaseId -> LeaseRecs] /\ lease[l] \in LeaseRecs
  BY RowsTyped
<1>2. /\ [lease[l] EXCEPT !.state = state] \in LeaseRecs
      /\ [lease[l] EXCEPT !.state = state].state = state
      /\ [lease[l] EXCEPT !.state = state].known = lease[l].known
  BY <1>1 DEF LeaseRecs
<1>3. lease' = [lease EXCEPT ![l] = [lease[l] EXCEPT !.state = state]]
  BY <1>1
<1> HIDE DEF LeaseRecs
<1>. QED BY <1>1, <1>2, <1>3

LEMMA MarkLeaseReadySandboxIInv ==
  ASSUME SandboxIInv, NEW e \in Exec, MarkLeaseReady(e)
  PROVE  SandboxIInv'
<1>. USE SandboxAssumption DEF SandboxIInv
<1> DEFINE l == worker[e].lease
<1>0. /\ l \in LeaseId /\ worker[e].at = "confirm"
      /\ ~worker[e].stopped => exec[e].status = "running"
  BY DEF MarkLeaseReady, WorkersKnow, WorkerKnows, Creating
<1>a. /\ worker' \in [Exec -> WorkerRecs] /\ exec' \in [Exec -> ExecRecs]
      /\ lease' \in [LeaseId -> LeaseRecs]
      /\ \A f \in Exec \ {e} : worker'[f] = worker[f] /\ exec'[f] = exec[f]
      /\ \A k \in LeaseId \ {l} : lease'[k] = lease[k]
      /\ \/ /\ worker'[e].at = "set" /\ worker'[e].lease = l
            /\ worker'[e].stopped = worker[e].stopped /\ exec'[e] = exec[e]
            /\ lease[l].state = "creating" /\ lease'[l].state = "ready" /\ lease'[l].known
            /\ box' = box
         \/ /\ worker'[e].at = "done" /\ lease' = lease
            /\ box' = box \/ (box' = [box EXCEPT ![l] = "deleted"] /\ lease[l].state # "creating")
  <2>1. CASE /\ lease[l].state = "creating" /\ Moves(e, "set") /\ UNCHANGED <<exec, box>>
             /\ lease' = [lease EXCEPT ![l].state = "ready", ![l].known = TRUE, ![l].late = FALSE]
    <3>1. "set" \in Places
      BY DEF Places
    <3>2. /\ worker' \in [Exec -> WorkerRecs]
          /\ worker'[e].at = "set" /\ worker'[e].lease = l /\ worker'[e].stopped = worker[e].stopped
          /\ \A f \in Exec \ {e} : worker'[f] = worker[f]
      BY <2>1, <3>1, MovesTyped
    <3>3. /\ lease' \in [LeaseId -> LeaseRecs] /\ lease'[l].state = "ready" /\ lease'[l].known
          /\ \A k \in LeaseId \ {l} : lease'[k] = lease[k]
      BY <1>0, <2>1, ReadyTyped
    <3>4. exec' = exec /\ box' = box /\ exec \in [Exec -> ExecRecs]
      BY <2>1, RowsTyped
    <3> HIDE DEF l
    <3>. QED BY <2>1, <3>2, <3>3, <3>4
  <2>2. CASE /\ lease[l].state # "creating" /\ Finish(e, "failed") /\ Ends(e) /\ UNCHANGED lease
             /\ box' = box \/ box' = [box EXCEPT ![l] = "deleted"]
    BY <2>2, EndsTyped, FinishTyped, RowsTyped DEF ExecTerminal
  <2>. QED BY <2>1, <2>2 DEF MarkLeaseReady
<1>b. /\ box' \in [LeaseId -> {"none", "up", "deleted", "vanished"}]
      /\ faults' \in 0 .. MaxFaults
      /\ UNCHANGED <<release, sweep>>
  BY DEF MarkLeaseReady, SandboxTypeOK, Fault
<1>c. \A k \in LeaseId : lease'[k].state \in {"ready", "busy", "idle"} => lease'[k].known
  BY <1>a DEF SandboxTypeOK
<1> HIDE DEF l
<1>1. SandboxTypeOK'
  BY <1>a, <1>b, <1>c, RowsTyped, TypedRows DEF SandboxTypeOK
<1>2. WorkersKnow'
  <2>1. CASE worker'[e].at = "done" /\ lease' = lease
    BY <1>a, <2>1 DEF WorkersKnow, WorkerKnows, Creating, Holding
  <2>2. CASE worker'[e].at = "set" /\ lease[l].state = "creating"
    <3>1. WorkerKnows(e)'
      BY <1>0, <1>a, <2>2 DEF WorkersKnow, WorkerKnows, Creating, Holding
    <3>2. ASSUME NEW f \in Exec \ {e} PROVE WorkerKnows(f)'
      <4>1. worker[f].at \in {"create", "confirm", "executing", "giveback"} => worker[f].lease # l
        BY <1>0, <2>2 DEF l, WorkersKnow, WorkerKnows, OneEach, Creating, Holding, LeaseFinished
      <4>. QED BY <1>a, <4>1 DEF WorkersKnow, WorkerKnows, Creating, Holding
    <3>. QED BY <3>1, <3>2 DEF WorkersKnow
  <2>. QED BY <1>a, <2>1, <2>2
<1>3. OneEach'
  BY <1>a DEF OneEach, Creating, Holding
<1>4. ReleasersKnow'
  BY <1>0, <1>a, <1>b DEF ReleasersKnow
<1>5. NoneTooEarly'
  <2>1. lease[l].state \in {"creating", "releasing"} \cup LeaseFinished
    BY <1>0 DEF WorkersKnow, WorkerKnows, Creating, l
  <2>2. box' = box \/ (box' = [box EXCEPT ![l] = "deleted"] /\ lease' = lease
                      /\ lease[l].state \in {"releasing"} \cup LeaseFinished)
    BY <1>a, <2>1
  <2>3. CASE box' = box
    BY <1>a, <2>3 DEF NoneTooEarly
  <2>4. CASE /\ box' = [box EXCEPT ![l] = "deleted"] /\ lease' = lease
             /\ lease[l].state \in {"releasing"} \cup LeaseFinished
    BY <2>4 DEF NoneTooEarly, SandboxTypeOK, LeaseFinished
  <2>. QED BY <2>2, <2>3, <2>4
<1>6. GivenUpIsQuiet'
  BY <1>0, <1>a, <1>b DEF GivenUpIsQuiet, Cancelling, AllStopped
<1>. QED BY <1>1, <1>2, <1>3, <1>4, <1>5, <1>6

LEMMA CancellingStays ==
  ASSUME \A b \in Releaser : release[b].at = "cancel" => release'[b] = release[b], NEW l \in LeaseId
  PROVE  Cancelling(l) => Cancelling(l)'
  BY DEF Cancelling

LEMMA SetLeaseSandboxIInv ==
  ASSUME SandboxIInv, NEW e \in Exec, SetLease(e)
  PROVE  SandboxIInv'
<1>. USE SandboxAssumption DEF SandboxIInv
<1>1. SandboxTypeOK'
  BY DEF SetLease, SandboxTypeOK, Moves
<1>2. WorkersKnow'
  BY DEF SetLease, WorkersKnow, WorkerKnows, Creating, Holding, Moves, SandboxTypeOK,
       LeaseActive, LeaseFinished, ExecActive, ExecTerminal
<1>3. OneEach'
  BY DEF SetLease, OneEach, WorkersKnow, WorkerKnows, Creating, Holding, Moves
<1>4. ReleasersKnow'
  BY DEF SetLease, ReleasersKnow
<1>5. NoneTooEarly'
  BY DEF SetLease, NoneTooEarly, WorkersKnow, WorkerKnows, Creating, ReleasersKnow
<1>6. GivenUpIsQuiet'
  BY DEF SetLease, GivenUpIsQuiet, Cancelling, AllStopped, WorkersKnow, WorkerKnows, Creating,
       Holding, Moves
<1>. QED BY <1>1, <1>2, <1>3, <1>4, <1>5, <1>6

LEMMA ClaimSandboxIInv ==
  ASSUME SandboxIInv, NEW e \in Exec, Claim(e)
  PROVE  SandboxIInv'
<1>. USE SandboxAssumption DEF SandboxIInv
<1> DEFINE l == worker[e].lease
<1>0. /\ l \in LeaseId /\ worker[e].at = "claim"
      /\ ~worker[e].stopped => exec[e].status = "running" /\ exec[e].lease = l
  BY DEF Claim, WorkersKnow, WorkerKnows
<1>a. /\ worker' \in [Exec -> WorkerRecs] /\ exec' \in [Exec -> ExecRecs]
      /\ lease' \in [LeaseId -> LeaseRecs]
      /\ \A f \in Exec \ {e} : worker'[f] = worker[f] /\ exec'[f] = exec[f]
      /\ \A k \in LeaseId \ {l} : lease'[k] = lease[k]
      /\ worker'[e].lease = l /\ worker'[e].stopped = worker[e].stopped
      /\ \/ /\ worker'[e].at = "executing" /\ exec'[e] = exec[e]
            /\ lease[l].state \in {"ready", "idle"} /\ lease'[l].state = "busy"
            /\ lease'[l].known = lease[l].known
         \/ worker'[e].at = "release" /\ lease' = lease
  <2>1. CASE /\ ClaimForExec(e) /\ UNCHANGED exec /\ Moves(e, "executing")
             /\ lease' = [lease EXCEPT ![l].state = "busy"]
    <3>1. "executing" \in Places /\ "busy" \in LeaseStates
      BY DEF Places, LeaseStates, LeaseActive
    <3>2. /\ worker' \in [Exec -> WorkerRecs]
          /\ worker'[e].at = "executing" /\ worker'[e].lease = l
          /\ worker'[e].stopped = worker[e].stopped
          /\ \A f \in Exec \ {e} : worker'[f] = worker[f]
      BY <2>1, <3>1, MovesTyped
    <3>3. /\ lease' \in [LeaseId -> LeaseRecs] /\ lease'[l].state = "busy"
          /\ lease'[l].known = lease[l].known
          /\ \A k \in LeaseId \ {l} : lease'[k] = lease[k]
      BY <1>0, <2>1, <3>1, StateTyped
    <3>4. exec' = exec /\ exec \in [Exec -> ExecRecs] /\ lease[l].state \in {"ready", "idle"}
      BY <2>1, RowsTyped DEF ClaimForExec, LeaseReusable
    <3> HIDE DEF l
    <3>. QED BY <3>2, <3>3, <3>4
  <2>2. CASE Finish(e, "failed") /\ Moves(e, "release") /\ UNCHANGED lease
    <3>1. "release" \in Places /\ "failed" \in ExecTerminal
      BY DEF Places, ExecTerminal
    <3>. QED BY <2>2, <3>1, MovesTyped, FinishTyped, RowsTyped
  <2>. QED BY <2>1, <2>2 DEF Claim
<1>b. /\ UNCHANGED <<box, release, sweep, faults>>
      /\ worker'[e].at = "executing" => ~worker[e].stopped
  <2>1. CASE ClaimForExec(e)
    BY <2>1 DEF Claim, ClaimForExec
  <2>2. CASE ~ClaimForExec(e)
    <3>1. Moves(e, "release") /\ "release" \in Places
      BY <2>2 DEF Claim, Places
    <3>2. worker'[e].at = "release"
      BY <3>1, MovesTyped
    <3>. QED BY <3>2 DEF Claim
  <2>. QED BY <2>1, <2>2
<1>c. \A k \in LeaseId : lease'[k].state \in {"ready", "busy", "idle"} => lease'[k].known
  BY <1>0, <1>a DEF SandboxTypeOK
<1> HIDE DEF l
<1>1. SandboxTypeOK'
  BY <1>a, <1>b, <1>c, RowsTyped, TypedRows DEF SandboxTypeOK
<1>2. WorkersKnow'
  <2>1. CASE worker'[e].at = "release" /\ lease' = lease
    BY <1>0, <1>a, <2>1 DEF WorkersKnow, WorkerKnows, Creating, Holding
  <2>2. CASE worker'[e].at = "executing" /\ lease[l].state \in {"ready", "idle"}
    <3>1. WorkerKnows(e)'
      BY <1>0, <1>a, <1>b, <2>2 DEF WorkersKnow, WorkerKnows, Creating, Holding
    <3>2. ASSUME NEW f \in Exec \ {e} PROVE WorkerKnows(f)'
      <4>1. worker[f].at \in {"create", "confirm", "executing", "giveback"} => worker[f].lease # l
        BY <1>0, <2>2 DEF l, WorkersKnow, WorkerKnows, Creating, Holding, LeaseFinished
      <4>. QED BY <1>a, <4>1 DEF WorkersKnow, WorkerKnows, Creating, Holding
    <3>. QED BY <3>1, <3>2 DEF WorkersKnow
  <2>. QED BY <1>a, <2>1, <2>2
<1>3. OneEach'
  <2>1. ASSUME worker'[e].at = "executing", NEW f \in Exec \ {e}
        PROVE  worker[f].at \in {"executing", "giveback"} => worker[f].lease # l
    <3>1. lease[l].state \in {"ready", "idle"}
      BY <1>a, <2>1
    <3>. QED BY <1>0, <3>1 DEF l, WorkersKnow, WorkerKnows, Creating, Holding, LeaseFinished
  <2>. QED BY <1>a, <2>1 DEF OneEach, Creating, Holding
<1>4. ReleasersKnow'
  BY <1>0, <1>a, <1>b DEF ReleasersKnow
<1>5. NoneTooEarly'
  BY <1>0, <1>a, <1>b DEF NoneTooEarly, SandboxTypeOK
<1>6. GivenUpIsQuiet'
  BY <1>0, <1>a, <1>b DEF GivenUpIsQuiet, Cancelling, AllStopped
<1>. QED BY <1>1, <1>2, <1>3, <1>4, <1>5, <1>6

LEMMA ExecuteSandboxIInv ==
  ASSUME SandboxIInv, NEW e \in Exec, Execute(e)
  PROVE  SandboxIInv'
<1>. USE SandboxAssumption DEF SandboxIInv
<1>0. /\ worker' \in [Exec -> WorkerRecs] /\ exec' \in [Exec -> ExecRecs]
  <2>1. PICK outcome \in Outcomes(e) :
          /\ Finish(e, IF outcome = "missing" THEN "failed" ELSE outcome)
          /\ Moves(e, IF outcome = "missing" THEN "release" ELSE "giveback")
    BY DEF Execute
  <2>2. /\ (IF outcome = "missing" THEN "failed" ELSE outcome) \in ExecTerminal
        /\ (IF outcome = "missing" THEN "release" ELSE "giveback") \in Places
    BY DEF Outcomes, ExecTerminal, Places
  <2>. QED BY <2>1, <2>2, MovesTyped, FinishTyped
<1>1. SandboxTypeOK'
  BY <1>0, RowsTyped, TypedRows DEF Execute, SandboxTypeOK
<1>2. WorkersKnow'
  BY DEF Execute, WorkersKnow, WorkerKnows, Creating, Holding, Moves, Finish, SandboxTypeOK,
       LeaseActive, LeaseFinished, ExecActive, ExecTerminal
<1>3. OneEach'
  BY DEF Execute, OneEach, WorkersKnow, WorkerKnows, Creating, Holding, Moves, Finish
<1>4. ReleasersKnow'
  BY DEF Execute, ReleasersKnow
<1>5. NoneTooEarly'
  BY DEF Execute, NoneTooEarly, WorkersKnow, WorkerKnows, Creating, ReleasersKnow
<1>6. GivenUpIsQuiet'
  BY DEF Execute, GivenUpIsQuiet, Cancelling, AllStopped, WorkersKnow, WorkerKnows, Creating,
       Holding, Moves, Finish
<1>. QED BY <1>1, <1>2, <1>3, <1>4, <1>5, <1>6

LEMMA PanicSandboxIInv ==
  ASSUME SandboxIInv, NEW e \in Exec, Panic(e)
  PROVE  SandboxIInv'
<1>. USE SandboxAssumption DEF SandboxIInv
<1>0. /\ worker' \in [Exec -> WorkerRecs] /\ exec' \in [Exec -> ExecRecs]
      /\ worker'[e].at = "release"
      /\ \A f \in Exec \ {e} : worker'[f] = worker[f]
  <2>1. "release" \in Places /\ "failed" \in ExecTerminal
    BY DEF Places, ExecTerminal
  <2>. QED BY <2>1, MovesTyped, FinishTyped DEF Panic
<1>1. SandboxTypeOK'
  BY <1>0, RowsTyped, TypedRows DEF Panic, SandboxTypeOK, Fault
<1>2. WorkersKnow'
  BY DEF Panic, WorkersKnow, WorkerKnows, Creating, Holding, Fault, Moves, Finish, SandboxTypeOK,
       LeaseActive, LeaseFinished, ExecActive, ExecTerminal
<1>3. OneEach'
  BY DEF Panic, OneEach, WorkersKnow, WorkerKnows, Creating, Holding, Fault, Moves, Finish
<1>4. ReleasersKnow'
  BY DEF Panic, ReleasersKnow
<1>5. NoneTooEarly'
  BY DEF Panic, NoneTooEarly, WorkersKnow, WorkerKnows, Creating, ReleasersKnow
<1>6. GivenUpIsQuiet'
  BY <1>0 DEF Panic, GivenUpIsQuiet, Cancelling, AllStopped
<1>. QED BY <1>1, <1>2, <1>3, <1>4, <1>5, <1>6

LEMMA MarkIdleSandboxIInv ==
  ASSUME SandboxIInv, NEW e \in Exec, MarkIdle(e)
  PROVE  SandboxIInv'
<1>. USE SandboxAssumption DEF SandboxIInv
<1> DEFINE l == worker[e].lease
<1>0. l \in LeaseId /\ worker[e].at = "giveback"
  BY DEF MarkIdle, WorkersKnow, WorkerKnows, Holding
<1>a. /\ worker' \in [Exec -> WorkerRecs] /\ worker'[e].at = "done"
      /\ \A f \in Exec \ {e} : worker'[f] = worker[f]
      /\ UNCHANGED <<exec, box, release, sweep, faults>>
  BY EndsTyped DEF MarkIdle
<1>b. \/ lease' = lease
      \/ /\ lease' \in [LeaseId -> LeaseRecs] /\ lease[l].state = "busy"
         /\ lease'[l].state = "idle" /\ lease'[l].known
         /\ \A k \in LeaseId \ {l} : lease'[k] = lease[k]
  <2>1. CASE lease[l].state # "busy"
    BY <2>1 DEF MarkIdle
  <2>2. CASE lease[l].state = "busy"
    <3>1. lease \in [LeaseId -> LeaseRecs] /\ lease[l] \in LeaseRecs /\ lease[l].known
      BY <1>0, <2>2, RowsTyped DEF SandboxTypeOK
    <3> DEFINE new == [[lease[l] EXCEPT !.state = "idle"] EXCEPT !.late = FALSE]
    <3>2. /\ [lease[l] EXCEPT !.state = "idle"] \in LeaseRecs
          /\ [lease[l] EXCEPT !.state = "idle"].state = "idle"
          /\ [lease[l] EXCEPT !.state = "idle"].known = lease[l].known
      BY <3>1 DEF LeaseRecs, LeaseStates, LeaseActive
    <3>3. ASSUME NEW r \in LeaseRecs
          PROVE  /\ [r EXCEPT !.late = FALSE] \in LeaseRecs
                 /\ [r EXCEPT !.late = FALSE].known = r.known
                 /\ [r EXCEPT !.late = FALSE].state = r.state
      BY <3>3 DEF LeaseRecs
    <3>4. new \in LeaseRecs /\ new.state = "idle" /\ new.known
      BY <3>1, <3>2, <3>3
    <3>5. lease' = [lease EXCEPT ![l] = new]
      BY <2>2, <3>1 DEF MarkIdle
    <3> HIDE DEF LeaseRecs, new
    <3>. QED BY <1>0, <2>2, <3>1, <3>4, <3>5
  <2>. QED BY <2>1, <2>2
<1>c. /\ lease' \in [LeaseId -> LeaseRecs]
      /\ \A k \in LeaseId : lease'[k].state \in {"ready", "busy", "idle"} => lease'[k].known
  BY <1>b, RowsTyped DEF SandboxTypeOK
<1> HIDE DEF l
<1>1. SandboxTypeOK'
  BY <1>a, <1>c, RowsTyped, TypedRows DEF SandboxTypeOK
<1>2. WorkersKnow'
  <2>1. WorkerKnows(e)'
    BY <1>a DEF WorkerKnows, Creating, Holding
  <2>2. ASSUME NEW f \in Exec \ {e} PROVE WorkerKnows(f)'
    <3>1. \/ lease' = lease
          \/ worker[f].at \in {"create", "confirm", "executing", "giveback"} => worker[f].lease # l
      BY <1>0, <1>b DEF l, WorkersKnow, WorkerKnows, OneEach, Creating, Holding, LeaseFinished
    <3>. QED BY <1>a, <1>b, <3>1 DEF WorkersKnow, WorkerKnows, Creating, Holding
  <2>. QED BY <2>1, <2>2 DEF WorkersKnow
<1>3. OneEach'
  BY <1>a DEF OneEach, Creating, Holding
<1>4. ReleasersKnow'
  BY <1>0, <1>a, <1>b DEF ReleasersKnow
<1>5. NoneTooEarly'
  BY <1>0, <1>a, <1>b DEF NoneTooEarly, SandboxTypeOK
<1>6. GivenUpIsQuiet'
  BY <1>0, <1>a, <1>b DEF GivenUpIsQuiet, Cancelling, AllStopped
<1>. QED BY <1>1, <1>2, <1>3, <1>4, <1>5, <1>6

LEMMA WorkerReleasesSandboxIInv ==
  ASSUME SandboxIInv, NEW e \in Exec, WorkerReleases(e)
  PROVE  SandboxIInv'
<1>. USE SandboxAssumption DEF SandboxIInv
<1>0. worker[e].lease \in LeaseId /\ e \in Releaser
  BY DEF WorkerReleases, WorkersKnow, WorkerKnows, Releaser
<1>a. /\ worker' \in [Exec -> WorkerRecs] /\ worker'[e].at = "done"
      /\ \A f \in Exec \ {e} : worker'[f] = worker[f]
  BY EndsTyped DEF WorkerReleases
<1>b. /\ release' \in [Releaser -> ReleaseRecs] /\ release[e].at = "none"
      /\ \/ release'[e] = release[e]
         \/ release'[e].at = "take" /\ release'[e].lease = worker[e].lease
      /\ \A b \in Releaser \ {e} : release'[b] = release[b]
  BY <1>0, GetLeaseTyped DEF WorkerReleases
<1>1. SandboxTypeOK'
  BY <1>a, <1>b, RowsTyped, TypedRows DEF WorkerReleases, SandboxTypeOK
<1>2. WorkersKnow'
  BY DEF WorkerReleases, WorkersKnow, WorkerKnows, Creating, Holding, Ends, GetLease
<1>3. OneEach'
  BY DEF WorkerReleases, OneEach, WorkersKnow, WorkerKnows, Creating, Holding, Ends, GetLease
<1>4. ReleasersKnow'
  BY <1>0, <1>b DEF WorkerReleases, ReleasersKnow
<1>5. NoneTooEarly'
  BY DEF WorkerReleases, NoneTooEarly, WorkersKnow, WorkerKnows, Creating, ReleasersKnow
<1>6. GivenUpIsQuiet'
  BY <1>a, <1>b, CancellingStays DEF WorkerReleases, GivenUpIsQuiet, AllStopped
<1>. QED BY <1>1, <1>2, <1>3, <1>4, <1>5, <1>6

LEMMA CancelSandboxIInv ==
  ASSUME SandboxIInv, NEW e \in Exec, Cancel(e)
  PROVE  SandboxIInv'
<1>. USE SandboxAssumption DEF SandboxIInv
<1>0. Stops({e}) /\ UNCHANGED <<lease, box, release, sweep, faults>>
  BY DEF Cancel
<1>a. /\ worker' \in [Exec -> WorkerRecs] /\ exec' \in [Exec -> ExecRecs]
      /\ \A f \in Exec : /\ worker'[f].at = worker[f].at /\ worker'[f].lease = worker[f].lease
                         /\ worker[f].stopped => worker'[f].stopped
  BY <1>0, StopsTyped
<1>1. SandboxTypeOK'
  BY <1>0, <1>a, RowsTyped, TypedRows DEF SandboxTypeOK
<1>2. WorkersKnow'
  BY DEF Cancel, WorkersKnow, WorkerKnows, Creating, Holding, Stops, ExecActive
<1>3. OneEach'
  BY DEF Cancel, OneEach, WorkersKnow, WorkerKnows, Creating, Holding, Stops, ExecActive
<1>4. ReleasersKnow'
  BY DEF Cancel, ReleasersKnow
<1>5. NoneTooEarly'
  BY DEF Cancel, NoneTooEarly, WorkersKnow, WorkerKnows, Creating, ReleasersKnow
<1>6. GivenUpIsQuiet'
  BY <1>0, <1>a DEF GivenUpIsQuiet, Cancelling, AllStopped
<1>. QED BY <1>1, <1>2, <1>3, <1>4, <1>5, <1>6

LEMMA SweepTimedOutSandboxIInv ==
  ASSUME SandboxIInv, NEW e \in Exec, SweepTimedOut(e)
  PROVE  SandboxIInv'
<1>. USE SandboxAssumption DEF SandboxIInv
<1>0. Stops({e}) /\ UNCHANGED <<lease, box, release, sweep, faults>>
  BY DEF SweepTimedOut
<1>a. /\ worker' \in [Exec -> WorkerRecs] /\ exec' \in [Exec -> ExecRecs]
      /\ \A f \in Exec : /\ worker'[f].at = worker[f].at /\ worker'[f].lease = worker[f].lease
                         /\ worker[f].stopped => worker'[f].stopped
  BY <1>0, StopsTyped
<1>1. SandboxTypeOK'
  BY <1>0, <1>a, RowsTyped, TypedRows DEF SandboxTypeOK
<1>2. WorkersKnow'
  BY DEF SweepTimedOut, WorkersKnow, WorkerKnows, Creating, Holding, Stops
<1>3. OneEach'
  BY DEF SweepTimedOut, OneEach, WorkersKnow, WorkerKnows, Creating, Holding, Stops
<1>4. ReleasersKnow'
  BY DEF SweepTimedOut, ReleasersKnow
<1>5. NoneTooEarly'
  BY DEF SweepTimedOut, NoneTooEarly, WorkersKnow, WorkerKnows, Creating, ReleasersKnow
<1>6. GivenUpIsQuiet'
  BY <1>0, <1>a DEF GivenUpIsQuiet, Cancelling, AllStopped
<1>. QED BY <1>1, <1>2, <1>3, <1>4, <1>5, <1>6

LEMMA TakeReleasingSandboxIInv ==
  ASSUME SandboxIInv, NEW a \in Releaser, TakeReleasing(a)
  PROVE  SandboxIInv'
<1>. USE SandboxAssumption DEF SandboxIInv
<1> DEFINE l == release[a].lease
<1>0. /\ l \in LeaseId /\ release[a].at = "take"
      /\ UNCHANGED <<exec, worker, box, sweep, faults>>
  BY DEF TakeReleasing, ReleasersKnow
<1>a. /\ release' \in [Releaser -> ReleaseRecs]
      /\ \A b \in Releaser \ {a} : release'[b] = release[b]
      /\ \/ /\ lease[l].state \in LeaseActive
            /\ release'[a].at = "cancel" /\ release'[a].lease = l
         \/ lease[l].state \notin LeaseActive /\ release'[a].at = "none"
  <2>1. CASE lease[l].state \in LeaseActive
    <3>1. /\ release' = [release EXCEPT ![a] =
                          [at |-> "cancel", lease |-> l, known |-> release[a].known]]
          /\ [at |-> "cancel", lease |-> l, known |-> release[a].known] \in ReleaseRecs
      BY <1>0, <2>1, RowsTyped DEF TakeReleasing, Releases, ReleaseRecs
    <3>. QED BY <2>1, <3>1, ReleasesTyped
  <2>2. CASE lease[l].state \notin LeaseActive
    <3>1. release' = [release EXCEPT ![a] = NoRelease] /\ NoRelease \in ReleaseRecs
      BY <2>2 DEF TakeReleasing, Returns, NoRelease, ReleaseRecs
    <3>2. NoRelease.at = "none"
      BY DEF NoRelease
    <3>. QED BY <2>2, <3>1, <3>2, ReleasesTyped
  <2>. QED BY <2>1, <2>2
<1>b. /\ lease' \in [LeaseId -> LeaseRecs]
      /\ \A k \in LeaseId \ {l} : lease'[k] = lease[k]
      /\ lease[l].state \notin LeaseActive => lease'[l] = lease[l]
      /\ lease[l].state \in LeaseActive => lease'[l].state = "releasing"
      /\ \A k \in LeaseId : lease'[k].state \in {"ready", "busy", "idle"} => lease'[k].known
  BY <1>0, SetStateTyped DEF TakeReleasing
<1> HIDE DEF l
<1>1. SandboxTypeOK'
  BY <1>0, <1>a, <1>b, RowsTyped, TypedRows DEF SandboxTypeOK
<1>2. WorkersKnow'
  BY <1>0, <1>b DEF WorkersKnow, WorkerKnows, Creating, Holding, LeaseActive, LeaseFinished
<1>3. OneEach'
  BY <1>0 DEF OneEach, Creating, Holding
<1>4. ReleasersKnow'
  BY <1>0, <1>a, <1>b DEF ReleasersKnow, LeaseActive
<1>5. NoneTooEarly'
  BY <1>0, <1>b DEF NoneTooEarly, LeaseActive
<1>6. GivenUpIsQuiet'
  <2>1. ASSUME NEW k \in LeaseId, lease'[k].state \in {"releasing", "terminated"}
        PROVE  Cancelling(k)' \/ AllStopped(k)'
    <3>1. CASE k = l /\ lease[l].state \in LeaseActive
      BY <1>a, <3>1 DEF Cancelling
    <3>2. CASE lease'[k] = lease[k]
      <4>1. \A b \in Releaser : release[b].at = "cancel" => release'[b] = release[b]
        BY <1>0, <1>a
      <4>. QED BY <1>0, <2>1, <3>2, <4>1, CancellingStays DEF GivenUpIsQuiet, AllStopped
    <3>. QED BY <1>a, <1>b, <3>1, <3>2
  <2>. QED BY <2>1 DEF GivenUpIsQuiet
<1>. QED BY <1>1, <1>2, <1>3, <1>4, <1>5, <1>6

LEMMA CancelByLeaseSandboxIInv ==
  ASSUME SandboxIInv, NEW a \in Releaser, CancelByLease(a)
  PROVE  SandboxIInv'
<1>. USE SandboxAssumption DEF SandboxIInv
<1>l. PICK l \in LeaseId : l = release[a].lease
  BY DEF CancelByLease, ReleasersKnow
<1>0. /\ release[a].at = "cancel" /\ Stops(OnLease(l))
      /\ UNCHANGED <<lease, box, sweep, faults>>
  BY <1>l DEF CancelByLease
<1>a. /\ worker' \in [Exec -> WorkerRecs] /\ exec' \in [Exec -> ExecRecs]
      /\ \A f \in Exec : /\ worker'[f].at = worker[f].at /\ worker'[f].lease = worker[f].lease
                         /\ worker'[f].stopped =
                              (worker[f].stopped \/ (f \in OnLease(l) /\ worker[f].at # "done"))
  BY <1>0, StopsTyped
<1>b. /\ release' \in [Releaser -> ReleaseRecs]
      /\ \A b \in Releaser \ {a} : release'[b] = release[b]
      /\ release'[a].at = "delete" /\ release'[a].lease = l
  <2>1. /\ release' = [release EXCEPT ![a] =
                        [at |-> "delete", lease |-> l, known |-> release[a].known]]
        /\ [at |-> "delete", lease |-> l, known |-> release[a].known] \in ReleaseRecs
    BY <1>l, <1>0, RowsTyped DEF CancelByLease, Releases, ReleaseRecs
  <2>. QED BY <2>1, ReleasesTyped
<1>1. SandboxTypeOK'
  BY <1>0, <1>a, <1>b, RowsTyped, TypedRows DEF SandboxTypeOK
<1>2. WorkersKnow'
  BY DEF CancelByLease, WorkersKnow, WorkerKnows, Creating, Holding, OnLease, Stops, Releases
<1>3. OneEach'
  BY DEF CancelByLease, OneEach, WorkersKnow, WorkerKnows, Creating, Holding, OnLease, Stops,
       Releases
<1>4. ReleasersKnow'
  BY DEF CancelByLease, ReleasersKnow, OnLease, Stops, Releases
<1>5. NoneTooEarly'
  BY DEF CancelByLease, NoneTooEarly, WorkersKnow, WorkerKnows, Creating, ReleasersKnow
<1>6. GivenUpIsQuiet'
  <2>1. AllStopped(l)'
    <3>1. ASSUME NEW e \in Exec, worker[e].at = "executing", worker[e].lease = l, ~worker[e].stopped
          PROVE  e \in OnLease(l)
      BY <3>1 DEF WorkersKnow, WorkerKnows, OnLease, ExecActive
    <3>. QED BY <1>a, <3>1 DEF AllStopped
  <2>2. ASSUME NEW k \in LeaseId, k # l, lease[k].state \in {"releasing", "terminated"}
        PROVE  Cancelling(k)' \/ AllStopped(k)'
    <3>1. CASE Cancelling(k)
      <4>1. PICK b \in Releaser : release[b].at = "cancel" /\ release[b].lease = k
        BY <3>1 DEF Cancelling
      <4>2. b # a
        BY <1>l, <2>2, <4>1
      <4>. QED BY <1>b, <4>1, <4>2 DEF Cancelling
    <3>2. CASE AllStopped(k)
      BY <1>a, <3>2 DEF AllStopped
    <3>. QED BY <2>2, <3>1, <3>2 DEF GivenUpIsQuiet
  <2>. QED BY <1>0, <2>1, <2>2 DEF GivenUpIsQuiet
<1>. QED BY <1>1, <1>2, <1>3, <1>4, <1>5, <1>6

LEMMA TerminateSandboxIInv ==
  ASSUME SandboxIInv, NEW a \in Releaser, Terminate(a)
  PROVE  SandboxIInv'
<1>. USE SandboxAssumption DEF SandboxIInv
<1>1. SandboxTypeOK'
  BY DEF Terminate, SandboxTypeOK, SetState, Returns, DeleteAndTerminate, NoRow, NoRelease,
       ExecActive, ExecTerminal, LeaseActive, LeaseFinished
<1>2. WorkersKnow'
  BY DEF Terminate, SandboxTypeOK, WorkersKnow, WorkerKnows, Creating, Holding, SetState,
       Returns, DeleteAndTerminate, NoRow, NoRelease, ExecActive, ExecTerminal, LeaseActive,
       LeaseFinished
<1>3. OneEach'
  BY DEF Terminate, OneEach, WorkersKnow, WorkerKnows, Creating, Holding
<1>4. ReleasersKnow'
  BY DEF Terminate, SandboxTypeOK, ReleasersKnow, SetState, Returns, DeleteAndTerminate, NoRow,
       NoRelease, ExecActive, ExecTerminal, LeaseActive, LeaseFinished
<1>5. NoneTooEarly'
  BY DEF Terminate, SandboxTypeOK, NoneTooEarly, WorkersKnow, WorkerKnows, Creating,
       ReleasersKnow, SetState, Returns, DeleteAndTerminate, NoRow, NoRelease, ExecActive,
       ExecTerminal, LeaseActive, LeaseFinished
<1>6. GivenUpIsQuiet'
  BY DEF Terminate, SandboxTypeOK, GivenUpIsQuiet, Cancelling, AllStopped, WorkersKnow,
       WorkerKnows, Creating, Holding, SetState, Returns, DeleteAndTerminate, NoRow, NoRelease,
       ExecActive, ExecTerminal, LeaseActive, LeaseFinished
<1>. QED BY <1>1, <1>2, <1>3, <1>4, <1>5, <1>6

LEMMA DeleteFailsSandboxIInv ==
  ASSUME SandboxIInv, NEW a \in Releaser, DeleteFails(a)
  PROVE  SandboxIInv'
<1>. USE SandboxAssumption DEF SandboxIInv
<1>1. SandboxTypeOK'
  BY DEF DeleteFails, SandboxTypeOK, Fault, Returns, NoRelease, ExecActive, ExecTerminal,
       LeaseActive, LeaseFinished
<1>2. WorkersKnow'
  BY DEF DeleteFails, WorkersKnow, WorkerKnows, Creating, Holding
<1>3. OneEach'
  BY DEF DeleteFails, OneEach, WorkersKnow, WorkerKnows, Creating, Holding
<1>4. ReleasersKnow'
  BY DEF DeleteFails, SandboxTypeOK, ReleasersKnow, Fault, Returns, NoRelease, ExecActive,
       ExecTerminal, LeaseActive, LeaseFinished
<1>5. NoneTooEarly'
  BY DEF DeleteFails, NoneTooEarly, WorkersKnow, WorkerKnows, Creating, ReleasersKnow, Fault,
       Returns, SandboxTypeOK, LeaseActive, LeaseFinished, ExecActive, ExecTerminal
<1>6. GivenUpIsQuiet'
  BY DEF DeleteFails, GivenUpIsQuiet, Cancelling, AllStopped, WorkersKnow, WorkerKnows, Creating,
       Holding, Fault, Returns
<1>. QED BY <1>1, <1>2, <1>3, <1>4, <1>5, <1>6

LEMMA SweepListSandboxIInv ==
  ASSUME SandboxIInv, SweepList
  PROVE  SandboxIInv'
<1>. USE SandboxAssumption DEF SandboxIInv
<1>0. PICK phase \in {"expired", "stuck", "releasing", "missing"} :
        sweep' = [phase |-> phase, list |-> Listed(phase)]
  BY DEF SweepList
<1>a. Listed(phase) \subseteq LeaseId
  BY <1>0 DEF Listed
<1>1. SandboxTypeOK'
  BY <1>0, <1>a DEF SweepList, SandboxTypeOK
<1>2. WorkersKnow'
  BY DEF SweepList, WorkersKnow, WorkerKnows, Creating, Holding
<1>3. OneEach'
  BY DEF SweepList, OneEach, WorkersKnow, WorkerKnows, Creating, Holding
<1>4. ReleasersKnow'
  BY DEF SweepList, ReleasersKnow
<1>5. NoneTooEarly'
  BY DEF SweepList, NoneTooEarly, WorkersKnow, WorkerKnows, Creating, ReleasersKnow
<1>6. GivenUpIsQuiet'
  BY DEF SweepList, GivenUpIsQuiet, Cancelling, AllStopped, WorkersKnow, WorkerKnows, Creating,
       Holding
<1>. QED BY <1>1, <1>2, <1>3, <1>4, <1>5, <1>6

LEMMA AdminReleasesSandboxIInv ==
  ASSUME SandboxIInv, NEW l \in LeaseId, AdminReleases(l)
  PROVE  SandboxIInv'
<1>. USE SandboxAssumption DEF SandboxIInv
<1>0. Admin \in Releaser /\ GetLease(Admin, l)
  BY DEF Releaser, AdminReleases
<1>a. /\ release[Admin].at = "none"
      /\ \A b \in Releaser \ {Admin} : release'[b] = release[b]
  BY <1>0, GetLeaseTyped
<1>1. SandboxTypeOK'
  BY DEF AdminReleases, SandboxTypeOK, Releases, GetLease, ExecActive, ExecTerminal, LeaseActive,
       LeaseFinished
<1>2. WorkersKnow'
  BY DEF AdminReleases, WorkersKnow, WorkerKnows, Creating, Holding
<1>3. OneEach'
  BY DEF AdminReleases, OneEach, WorkersKnow, WorkerKnows, Creating, Holding
<1>4. ReleasersKnow'
  BY DEF AdminReleases, SandboxTypeOK, ReleasersKnow, Releases, GetLease, ExecActive,
       ExecTerminal, LeaseActive, LeaseFinished
<1>5. NoneTooEarly'
  BY DEF AdminReleases, NoneTooEarly, WorkersKnow, WorkerKnows, Creating, ReleasersKnow
<1>6. GivenUpIsQuiet'
  BY <1>a, CancellingStays DEF AdminReleases, GivenUpIsQuiet, AllStopped
<1>. QED BY <1>1, <1>2, <1>3, <1>4, <1>5, <1>6

LEMMA SweepExpiredSandboxIInv ==
  ASSUME SandboxIInv, NEW l \in LeaseId, SweepExpired(l)
  PROVE  SandboxIInv'
<1>. USE SandboxAssumption DEF SandboxIInv
<1>s. sweep' \in [phase : {"expired", "stuck", "releasing", "missing"}, list : SUBSET LeaseId]
  <2>1. sweep \in [phase : {"expired", "stuck", "releasing", "missing"}, list : SUBSET LeaseId]
    BY DEF SandboxTypeOK
  <2>2. sweep' = NoList \/ sweep' = [sweep EXCEPT !.list = sweep.list \ {l}]
    BY <2>1 DEF SweepExpired, Swept
  <2>. QED BY <2>1, <2>2 DEF NoList
<1>0. Sweeper \in Releaser /\ GetLease(Sweeper, l)
  BY DEF Releaser, SweepExpired
<1>a. /\ release' \in [Releaser -> ReleaseRecs] /\ release[Sweeper].at = "none"
      /\ \A b \in Releaser \ {Sweeper} : release'[b] = release[b]
  BY <1>0, GetLeaseTyped
<1>1. SandboxTypeOK'
  BY <1>a, <1>s, RowsTyped, TypedRows DEF SweepExpired, SandboxTypeOK
<1>2. WorkersKnow'
  BY DEF SweepExpired, WorkersKnow, WorkerKnows, Creating, Holding
<1>3. OneEach'
  BY DEF SweepExpired, OneEach, WorkersKnow, WorkerKnows, Creating, Holding
<1>4. ReleasersKnow'
  BY DEF SweepExpired, SandboxTypeOK, ReleasersKnow, Releases, GetLease, Swept, NoList,
       ExecActive, ExecTerminal, LeaseActive, LeaseFinished
<1>5. NoneTooEarly'
  BY DEF SweepExpired, NoneTooEarly, WorkersKnow, WorkerKnows, Creating, ReleasersKnow
<1>6. GivenUpIsQuiet'
  BY <1>a, CancellingStays DEF SweepExpired, GivenUpIsQuiet, AllStopped
<1>. QED BY <1>1, <1>2, <1>3, <1>4, <1>5, <1>6

LEMMA SweepStuckSandboxIInv ==
  ASSUME SandboxIInv, NEW l \in LeaseId, SweepStuck(l)
  PROVE  SandboxIInv'
<1>. USE SandboxAssumption DEF SandboxIInv
<1>1. SandboxTypeOK'
  BY DEF SweepStuck, SandboxTypeOK, SetState, Swept, NoRow, NoList, ExecActive, ExecTerminal,
       LeaseActive, LeaseFinished
<1>2. WorkersKnow'
  BY DEF SweepStuck, WorkersKnow, WorkerKnows, Creating, Holding, SetState, Swept, LeaseActive,
       SandboxTypeOK, LeaseFinished, ExecActive, ExecTerminal
<1>3. OneEach'
  BY DEF SweepStuck, OneEach, WorkersKnow, WorkerKnows, Creating, Holding
<1>4. ReleasersKnow'
  BY DEF SweepStuck, ReleasersKnow, SetState, Swept, LeaseActive
<1>5. NoneTooEarly'
  BY DEF SweepStuck, NoneTooEarly, WorkersKnow, WorkerKnows, Creating, ReleasersKnow, SetState,
       Swept, LeaseActive
<1>6. GivenUpIsQuiet'
  BY DEF SweepStuck, GivenUpIsQuiet, Cancelling, AllStopped, WorkersKnow, WorkerKnows, Creating,
       Holding, SetState, Swept, LeaseActive
<1>. QED BY <1>1, <1>2, <1>3, <1>4, <1>5, <1>6

LEMMA SweepMissingSandboxIInv ==
  ASSUME SandboxIInv, NEW l \in LeaseId, SweepMissing(l)
  PROVE  SandboxIInv'
<1>. USE SandboxAssumption DEF SandboxIInv
<1>s. sweep' \in [phase : {"expired", "stuck", "releasing", "missing"}, list : SUBSET LeaseId]
  <2>1. sweep \in [phase : {"expired", "stuck", "releasing", "missing"}, list : SUBSET LeaseId]
    BY DEF SandboxTypeOK
  <2>2. sweep' = NoList \/ sweep' = [sweep EXCEPT !.list = sweep.list \ {l}]
    BY <2>1 DEF SweepMissing, Swept
  <2>. QED BY <2>1, <2>2 DEF NoList
<1>0. /\ Stops(OnLease(l)) /\ SetState(l, LeaseActive, "failed")
      /\ UNCHANGED <<box, release, faults>> /\ "failed" \in LeaseFinished
  BY DEF SweepMissing, LeaseFinished
<1>a. /\ worker' \in [Exec -> WorkerRecs] /\ exec' \in [Exec -> ExecRecs]
  BY <1>0, StopsTyped
<1>b. /\ lease' \in [LeaseId -> LeaseRecs]
      /\ \A k \in LeaseId : lease'[k].state \in {"ready", "busy", "idle"} => lease'[k].known
  BY <1>0, SetStateTyped
<1>1. SandboxTypeOK'
  BY <1>0, <1>a, <1>b, <1>s, RowsTyped, TypedRows DEF SandboxTypeOK
<1>2. WorkersKnow'
  BY DEF SweepMissing, WorkersKnow, WorkerKnows, Creating, Holding, SetState, OnLease, Stops,
       Swept, LeaseActive, SandboxTypeOK, LeaseFinished, ExecActive, ExecTerminal
<1>3. OneEach'
  BY DEF SweepMissing, OneEach, WorkersKnow, WorkerKnows, Creating, Holding, SetState, OnLease,
       Stops, Swept, LeaseActive
<1>4. ReleasersKnow'
  BY DEF SweepMissing, ReleasersKnow, SetState, OnLease, Stops, Swept, LeaseActive
<1>5. NoneTooEarly'
  BY DEF SweepMissing, NoneTooEarly, WorkersKnow, WorkerKnows, Creating, ReleasersKnow, SetState,
       OnLease, Stops, Swept, LeaseActive
<1>6. GivenUpIsQuiet'
  BY DEF SweepMissing, GivenUpIsQuiet, Cancelling, AllStopped, WorkersKnow, WorkerKnows,
       Creating, Holding, SetState, OnLease, Stops, Swept, LeaseActive
<1>. QED BY <1>1, <1>2, <1>3, <1>4, <1>5, <1>6

LEMMA SweepReleasingSandboxIInv ==
  ASSUME SandboxIInv, NEW l \in LeaseId, SweepReleasing(l)
  PROVE  SandboxIInv'
<1>. USE SandboxAssumption DEF SandboxIInv
<1>1. SandboxTypeOK'
  BY DEF SweepReleasing, SandboxTypeOK, SetState, DeleteAndTerminate, Swept, NoRow, NoList,
       ExecActive, ExecTerminal, LeaseActive, LeaseFinished
<1>2. WorkersKnow'
  BY DEF SweepReleasing, SandboxTypeOK, WorkersKnow, WorkerKnows, Creating, Holding, SetState,
       DeleteAndTerminate, Swept, NoRow, NoList, ExecActive, ExecTerminal, LeaseActive,
       LeaseFinished
<1>3. OneEach'
  BY DEF SweepReleasing, OneEach, WorkersKnow, WorkerKnows, Creating, Holding
<1>4. ReleasersKnow'
  BY DEF SweepReleasing, SandboxTypeOK, ReleasersKnow, SetState, DeleteAndTerminate, Swept,
       NoRow, NoList, ExecActive, ExecTerminal, LeaseActive, LeaseFinished
<1>5. NoneTooEarly'
  BY DEF SweepReleasing, SandboxTypeOK, NoneTooEarly, WorkersKnow, WorkerKnows, Creating,
       ReleasersKnow, SetState, DeleteAndTerminate, Swept, NoRow, NoList, ExecActive,
       ExecTerminal, LeaseActive, LeaseFinished
<1>6. GivenUpIsQuiet'
  BY DEF SweepReleasing, SandboxTypeOK, GivenUpIsQuiet, Cancelling, AllStopped, WorkersKnow,
       WorkerKnows, Creating, Holding, SetState, DeleteAndTerminate, Swept, NoRow, NoList,
       ExecActive, ExecTerminal, LeaseActive, LeaseFinished
<1>. QED BY <1>1, <1>2, <1>3, <1>4, <1>5, <1>6

LEMMA SweepReleasingFailsSandboxIInv ==
  ASSUME SandboxIInv, NEW l \in LeaseId, SweepReleasingFails(l)
  PROVE  SandboxIInv'
<1>. USE SandboxAssumption DEF SandboxIInv
<1>1. SandboxTypeOK'
  BY DEF SweepReleasingFails, SandboxTypeOK, Fault, Swept, NoList, ExecActive, ExecTerminal,
       LeaseActive, LeaseFinished
<1>2. WorkersKnow'
  BY DEF SweepReleasingFails, WorkersKnow, WorkerKnows, Creating, Holding
<1>3. OneEach'
  BY DEF SweepReleasingFails, OneEach, WorkersKnow, WorkerKnows, Creating, Holding
<1>4. ReleasersKnow'
  BY DEF SweepReleasingFails, ReleasersKnow
<1>5. NoneTooEarly'
  BY DEF SweepReleasingFails, NoneTooEarly, WorkersKnow, WorkerKnows, Creating, ReleasersKnow
<1>6. GivenUpIsQuiet'
  BY DEF SweepReleasingFails, GivenUpIsQuiet, Cancelling, AllStopped, WorkersKnow, WorkerKnows,
       Creating, Holding
<1>. QED BY <1>1, <1>2, <1>3, <1>4, <1>5, <1>6

LEMMA TimePassesSandboxIInv ==
  ASSUME SandboxIInv, NEW l \in LeaseId, TimePasses(l)
  PROVE  SandboxIInv'
<1>. USE SandboxAssumption DEF SandboxIInv
<1>0. /\ lease' \in [LeaseId -> LeaseRecs]
      /\ \A k \in LeaseId : lease'[k].state = lease[k].state /\ lease'[k].known = lease[k].known
  <2>1. lease \in [LeaseId -> LeaseRecs] /\ lease[l] \in LeaseRecs
    BY RowsTyped
  <2>2. /\ [lease[l] EXCEPT !.late = TRUE] \in LeaseRecs
        /\ [lease[l] EXCEPT !.late = TRUE].state = lease[l].state
        /\ [lease[l] EXCEPT !.late = TRUE].known = lease[l].known
    BY <2>1 DEF LeaseRecs
  <2>3. lease' = [lease EXCEPT ![l] = [lease[l] EXCEPT !.late = TRUE]]
    BY <2>1 DEF TimePasses
  <2> HIDE DEF LeaseRecs
  <2>. QED BY <2>1, <2>2, <2>3
<1>1. SandboxTypeOK'
  BY <1>0, RowsTyped, TypedRows DEF TimePasses, SandboxTypeOK
<1>2. WorkersKnow'
  BY DEF TimePasses, WorkersKnow, WorkerKnows, Creating, Holding
<1>3. OneEach'
  BY DEF TimePasses, OneEach, WorkersKnow, WorkerKnows, Creating, Holding
<1>4. ReleasersKnow'
  BY DEF TimePasses, ReleasersKnow
<1>5. NoneTooEarly'
  BY DEF TimePasses, NoneTooEarly, WorkersKnow, WorkerKnows, Creating, ReleasersKnow
<1>6. GivenUpIsQuiet'
  BY DEF TimePasses, GivenUpIsQuiet, Cancelling, AllStopped, WorkersKnow, WorkerKnows, Creating,
       Holding
<1>. QED BY <1>1, <1>2, <1>3, <1>4, <1>5, <1>6

LEMMA VanishSandboxIInv ==
  ASSUME SandboxIInv, NEW l \in LeaseId, Vanish(l)
  PROVE  SandboxIInv'
<1>. USE SandboxAssumption DEF SandboxIInv
<1>1. SandboxTypeOK'
  BY DEF Vanish, SandboxTypeOK, Fault
<1>2. WorkersKnow'
  BY DEF Vanish, WorkersKnow, WorkerKnows, Creating, Holding
<1>3. OneEach'
  BY DEF Vanish, OneEach, WorkersKnow, WorkerKnows, Creating, Holding
<1>4. ReleasersKnow'
  BY DEF Vanish, ReleasersKnow
<1>5. NoneTooEarly'
  BY DEF Vanish, NoneTooEarly, WorkersKnow, WorkerKnows, Creating, ReleasersKnow
<1>6. GivenUpIsQuiet'
  BY DEF Vanish, GivenUpIsQuiet, Cancelling, AllStopped, WorkersKnow, WorkerKnows, Creating,
       Holding
<1>. QED BY <1>1, <1>2, <1>3, <1>4, <1>5, <1>6

LEMMA DieSandboxIInv ==
  ASSUME SandboxIInv, Die
  PROVE  SandboxIInv'
<1>. USE SandboxAssumption DEF SandboxIInv
<1>0. worker' \in [Exec -> WorkerRecs]
  <2>1. worker \in [Exec -> WorkerRecs]
    BY RowsTyped
  <2>2. [NoWorker EXCEPT !.at = "done"] \in WorkerRecs
    <3>1. NoWorker \in WorkerRecs
      BY DEF NoWorker, WorkerRecs, Places
    <3>2. ASSUME NEW w \in WorkerRecs PROVE [w EXCEPT !.at = "done"] \in WorkerRecs
      BY <3>2 DEF WorkerRecs, Places
    <3>. QED BY <3>1, <3>2
  <2> HIDE DEF WorkerRecs
  <2>. QED BY <2>1, <2>2 DEF Die
<1>a. /\ release' \in [Releaser -> ReleaseRecs]
      /\ sweep' \in [phase : {"expired", "stuck", "releasing", "missing"}, list : SUBSET LeaseId]
  BY DEF Die, NoRelease, NoList, ReleaseRecs
<1>1. SandboxTypeOK'
  <2>1. /\ exec' = exec /\ lease' = lease /\ box' = box /\ faults' \in 0 .. MaxFaults
    BY DEF Die, SandboxTypeOK, Fault
  <2>2. /\ exec \in [Exec -> ExecRecs] /\ lease \in [LeaseId -> LeaseRecs]
    BY RowsTyped
  <2>. QED BY <1>0, <1>a, <2>1, <2>2, TypedRows DEF SandboxTypeOK
<1>2. WorkersKnow'
  BY DEF Die, WorkersKnow, WorkerKnows, Creating, Holding
<1>3. OneEach'
  BY DEF Die, OneEach, WorkersKnow, WorkerKnows, Creating, Holding
<1>4. ReleasersKnow'
  BY DEF Die, ReleasersKnow, Fault, NoWorker, NoRelease, NoList
<1>5. NoneTooEarly'
  BY DEF Die, NoneTooEarly, WorkersKnow, WorkerKnows, Creating, ReleasersKnow
<1>6. GivenUpIsQuiet'
  BY DEF Die, GivenUpIsQuiet, Cancelling, AllStopped, WorkersKnow, WorkerKnows, Creating, Holding
<1>. QED BY <1>1, <1>2, <1>3, <1>4, <1>5, <1>6

LEMMA SandboxInitIInv ==
  ASSUME SandboxInit
  PROVE  SandboxIInv
  BY SandboxAssumption DEF SandboxInit, SandboxIInv, SandboxTypeOK, WorkersKnow, WorkerKnows,
     OneEach, ReleasersKnow, NoneTooEarly, GivenUpIsQuiet, AllStopped, Creating, Holding,
     LeaseId, NoRow, NoWorker, NoList, NoRelease

LEMMA SandboxNextIInv ==
  ASSUME SandboxIInv, [SandboxNext]_sandboxVars
  PROVE  SandboxIInv'
<1>1. ASSUME NEW e \in Exec, 
             Create(e) \/ Panic(e) \/ Cancel(e) \/ SweepTimedOut(e) \/ MarkRunning(e) \/
             SetLease(e) \/ Claim(e) \/ Execute(e) \/ MarkIdle(e) \/ WorkerReleases(e)
      PROVE  SandboxIInv'
  BY <1>1, CreateSandboxIInv, PanicSandboxIInv, CancelSandboxIInv, SweepTimedOutSandboxIInv,
     MarkRunningSandboxIInv, SetLeaseSandboxIInv, ClaimSandboxIInv, ExecuteSandboxIInv,
     MarkIdleSandboxIInv, WorkerReleasesSandboxIInv
<1>2. ASSUME NEW e \in Exec, 
             Stopped(e) \/ FindReusable(e) \/ RenewFound(e) \/ CountActive(e) \/
             CreateLease(e) \/ RuntimeCreates(e) \/ RuntimeCreateFails(e) \/
             MarkLeaseReady(e)
      PROVE  SandboxIInv'
  BY <1>2, StoppedSandboxIInv, FindReusableSandboxIInv, RenewFoundSandboxIInv,
     CountActiveSandboxIInv, CreateLeaseSandboxIInv, RuntimeCreatesSandboxIInv,
     RuntimeCreateFailsSandboxIInv, MarkLeaseReadySandboxIInv
<1>3. ASSUME NEW a \in Releaser, 
             TakeReleasing(a) \/ CancelByLease(a) \/ Terminate(a) \/ DeleteFails(a)
      PROVE  SandboxIInv'
  BY <1>3, TakeReleasingSandboxIInv, CancelByLeaseSandboxIInv, TerminateSandboxIInv,
     DeleteFailsSandboxIInv
<1>4. ASSUME NEW l \in LeaseId, 
             AdminReleases(l) \/ TimePasses(l) \/ Vanish(l) \/ SweepExpired(l) \/
             SweepStuck(l) \/ SweepMissing(l) \/ SweepReleasing(l) \/ SweepReleasingFails(l)
      PROVE  SandboxIInv'
  BY <1>4, AdminReleasesSandboxIInv, TimePassesSandboxIInv, VanishSandboxIInv,
     SweepExpiredSandboxIInv, SweepStuckSandboxIInv, SweepMissingSandboxIInv,
     SweepReleasingSandboxIInv, SweepReleasingFailsSandboxIInv
<1>5. ASSUME SweepList \/ Die
      PROVE  SandboxIInv'
  BY <1>5, SweepListSandboxIInv, DieSandboxIInv
<1>6. CASE UNCHANGED sandboxVars
  BY <1>6 DEF sandboxVars, SandboxIInv, SandboxTypeOK, WorkersKnow, WorkerKnows, OneEach,
     ReleasersKnow, NoneTooEarly, GivenUpIsQuiet, Cancelling, AllStopped, Creating, Holding
<1>. QED BY <1>1, <1>2, <1>3, <1>4, <1>5, <1>6
         DEF SandboxNext, Works, Acquires, ReleaseStep, SweepLease

LEMMA HonestLeases ==
  ASSUME SandboxIInv
  PROVE  OneRunsPerLease /\ ServedIsNotDeleted /\ TerminatedIsQuiet
<1>1. OneRunsPerLease
  BY DEF SandboxIInv, OneEach, Holding, OneRunsPerLease
<1>2. ServedIsNotDeleted
  BY DEF SandboxIInv, NoneTooEarly, ServedIsNotDeleted
<1>3. TerminatedIsQuiet
  BY DEF SandboxIInv, ReleasersKnow, GivenUpIsQuiet, Cancelling, AllStopped, TerminatedIsQuiet,
       Released
<1>. QED BY <1>1, <1>2, <1>3

(* A terminal row stands.                                                    *)
TerminalRowsStand ==
  \A e \in Exec : exec[e].status \in ExecTerminal => exec'[e].status = exec[e].status

(* Finish and the cancellations pass over what is terminal.                  *)
LEMMA FinishSparesTerminal ==
  ASSUME SandboxTypeOK, NEW e \in Exec, NEW status, Finish(e, status)
  PROVE  TerminalRowsStand
<1>1. exec \in [Exec -> ExecRecs]
  BY RowsTyped
<1>2. \/ exec' = [exec EXCEPT ![e] = Ended(status)] /\ exec[e].status \in ExecActive
      \/ exec' = exec
  BY <1>1 DEF Finish
<1>. QED BY <1>1, <1>2 DEF TerminalRowsStand, ExecActive, ExecTerminal

LEMMA StopsSpareTerminal ==
  ASSUME NEW S, \A x \in Exec \cap S : exec[x].status \in ExecActive, Stops(S)
  PROVE  TerminalRowsStand
  BY DEF TerminalRowsStand, Stops, ExecActive, ExecTerminal

LEMMA TerminalStays ==
  ASSUME SandboxIInv, [SandboxNext]_sandboxVars
  PROVE  TerminalRowsStand
<1>1. ASSUME NEW e \in Exec,
             Create(e) \/ MarkRunning(e)
      PROVE  TerminalRowsStand
  BY <1>1, StatusTyped DEF TerminalRowsStand, Create, MarkRunning, SandboxIInv, ExecActive,
       ExecTerminal
<1>2. ASSUME NEW e \in Exec,
             Stopped(e) \/ CountActive(e) \/ RuntimeCreateFails(e) \/ MarkLeaseReady(e) \/
             Claim(e) \/ Panic(e)
      PROVE  TerminalRowsStand
  BY <1>2, FinishSparesTerminal DEF TerminalRowsStand, Stopped, CountActive, RuntimeCreateFails,
       MarkLeaseReady, Claim, Panic, SandboxIInv
<1>3. ASSUME NEW e \in Exec,
             Execute(e)
      PROVE  TerminalRowsStand
  BY <1>3, FinishSparesTerminal DEF TerminalRowsStand, Execute, SandboxIInv
<1>4. ASSUME NEW e \in Exec,
             SetLease(e)
      PROVE  TerminalRowsStand
  BY <1>4 DEF TerminalRowsStand, SetLease, SandboxIInv, SandboxTypeOK
<1>5. ASSUME NEW e \in Exec,
             Cancel(e) \/ SweepTimedOut(e)
      PROVE  TerminalRowsStand
  BY <1>5, StopsSpareTerminal DEF TerminalRowsStand, Cancel, SweepTimedOut, ExecActive
<1>6. ASSUME NEW a \in Releaser,
             CancelByLease(a)
      PROVE  TerminalRowsStand
  BY <1>6, StopsSpareTerminal DEF TerminalRowsStand, CancelByLease, OnLease
<1>7. ASSUME NEW l \in LeaseId,
             SweepMissing(l)
      PROVE  TerminalRowsStand
  BY <1>7, StopsSpareTerminal DEF TerminalRowsStand, SweepMissing, OnLease
<1>8. ASSUME NEW e \in Exec,
             FindReusable(e) \/ RenewFound(e) \/ CreateLease(e) \/ RuntimeCreates(e) \/
             MarkIdle(e) \/ WorkerReleases(e)
      PROVE  TerminalRowsStand
  BY <1>8 DEF TerminalRowsStand, FindReusable, RenewFound, CreateLease, RuntimeCreates, MarkIdle,
       WorkerReleases
<1>9. ASSUME NEW a \in Releaser,
             TakeReleasing(a) \/ Terminate(a) \/ DeleteFails(a)
      PROVE  TerminalRowsStand
  BY <1>9 DEF TerminalRowsStand, TakeReleasing, Terminate, DeleteFails
<1>10. ASSUME NEW l \in LeaseId,
             AdminReleases(l) \/ TimePasses(l) \/ Vanish(l) \/ SweepExpired(l) \/
             SweepStuck(l) \/ SweepReleasing(l) \/ SweepReleasingFails(l)
      PROVE  TerminalRowsStand
  BY <1>10 DEF TerminalRowsStand, AdminReleases, TimePasses, Vanish, SweepExpired, SweepStuck,
       SweepReleasing, SweepReleasingFails
<1>11. ASSUME SweepList \/ Die
      PROVE  TerminalRowsStand
  BY <1>11 DEF TerminalRowsStand, SweepList, Die
<1>12. CASE UNCHANGED sandboxVars
  BY <1>12 DEF TerminalRowsStand, sandboxVars
<1>. QED BY <1>1, <1>2, <1>3, <1>4, <1>5, <1>6, <1>7, <1>8, <1>9, <1>10, <1>11, <1>12 DEF
         SandboxNext, Works, Acquires, ReleaseStep, SweepLease


-----------------------------------------------------------------------------
(* VectorOutbox                                                              *)

(* The chunks in Milvus and the workers about to add to them are together no *)
(* more than the workers: who writes has deleted before.                     *)
Writers == {w \in PoolWorker : pool[w] = "write"}
CopiesBounded == copies \in Nat /\ copies + Cardinality(Writers) <= Cardinality(PoolWorker)

OutboxIInv == OutboxTypeOK /\ ProcessingIsHeld /\ CopiesBounded

LEMMA WritersAreFew ==
  /\ IsFiniteSet(Writers) /\ Cardinality(Writers) \in Nat
  /\ Cardinality(PoolWorker) \in Nat /\ Cardinality(Writers) <= Cardinality(PoolWorker)
<1>1. Writers \subseteq PoolWorker
  BY DEF Writers
<1>. QED BY <1>1, OutboxAssumption, FS_Subset, FS_CardinalityType

(* A step that puts no worker before the insert and adds no chunks.          *)
LEMMA CopiesStay ==
  ASSUME OutboxIInv, copies' \in {copies, 0}, Writers' \subseteq Writers
  PROVE  CopiesBounded' /\ copies' \in 0 .. Cardinality(PoolWorker)
<1>1. Cardinality(Writers') <= Cardinality(Writers) /\ Cardinality(Writers') \in Nat
  BY WritersAreFew, FS_Subset, FS_CardinalityType
<1>. QED BY <1>1, WritersAreFew DEF OutboxIInv, CopiesBounded

(* A file's status is replaced, or stays.                                    *)
LEMMA FileIsTyped ==
  ASSUME NEW s \in {"none", "pending", "processing", "done", "failed", "not_supported"}, FileIs(s)
  PROVE  file' \in [status : {"none", "pending", "processing", "done", "failed", "not_supported"},
                    old : BOOLEAN]
  BY DEF FileIs

LEMMA ClaimVectorPendingOutboxIInv ==
  ASSUME OutboxIInv, ClaimVectorPending
  PROVE  OutboxIInv'
<1>1. copies' \in {copies, 0} /\ Writers' \subseteq Writers
  BY DEF ClaimVectorPending, Writers, OutboxIInv, OutboxTypeOK
<1>2. CopiesBounded' /\ copies' \in 0 .. Cardinality(PoolWorker)
  BY <1>1, CopiesStay
<1>3. OutboxTypeOK'
  BY <1>2, OutboxAssumption DEF ClaimVectorPending, OutboxIInv, OutboxTypeOK, FileIs, Waiting
<1>4. ProcessingIsHeld'
  BY OutboxAssumption DEF ClaimVectorPending, OutboxIInv, OutboxTypeOK, ProcessingIsHeld
<1>. QED BY <1>2, <1>3, <1>4 DEF OutboxIInv

LEMMA EnqueueTaskOutboxIInv ==
  ASSUME OutboxIInv, EnqueueTask
  PROVE  OutboxIInv'
<1>1. copies' \in {copies, 0} /\ Writers' \subseteq Writers
  BY DEF EnqueueTask, Writers, OutboxIInv, OutboxTypeOK
<1>2. CopiesBounded' /\ copies' \in 0 .. Cardinality(PoolWorker)
  BY <1>1, CopiesStay
<1>3. OutboxTypeOK'
  BY <1>2, OutboxAssumption DEF EnqueueTask, OutboxIInv, OutboxTypeOK, FileIs, Steps, NoTask,
       EnqueueResets, Requeued, Waiting, Settled
<1>4. ProcessingIsHeld'
  BY OutboxAssumption DEF EnqueueTask, OutboxIInv, OutboxTypeOK, ProcessingIsHeld, EnqueueResets
<1>. QED BY <1>2, <1>3, <1>4 DEF OutboxIInv

LEMMA EnqueueFailsOutboxIInv ==
  ASSUME OutboxIInv, EnqueueFails
  PROVE  OutboxIInv'
<1>1. copies' \in {copies, 0} /\ Writers' \subseteq Writers
  BY DEF EnqueueFails, Writers, OutboxIInv, OutboxTypeOK
<1>2. CopiesBounded' /\ copies' \in 0 .. Cardinality(PoolWorker)
  BY <1>1, CopiesStay
<1>3. OutboxTypeOK'
  BY <1>2, OutboxAssumption DEF EnqueueFails, OutboxIInv, OutboxTypeOK, FileIs
<1>4. ProcessingIsHeld'
  BY OutboxAssumption DEF EnqueueFails, OutboxIInv, OutboxTypeOK, ProcessingIsHeld
<1>. QED BY <1>2, <1>3, <1>4 DEF OutboxIInv

LEMMA ClaimNextOutboxIInv ==
  ASSUME OutboxIInv, NEW w \in PoolWorker, ClaimNext(w)
  PROVE  OutboxIInv'
<1>1. copies' \in {copies, 0} /\ Writers' \subseteq Writers
  BY DEF ClaimNext, Steps, Writers, OutboxIInv, OutboxTypeOK
<1>2. CopiesBounded' /\ copies' \in 0 .. Cardinality(PoolWorker)
  BY <1>1, CopiesStay
<1>3. OutboxTypeOK'
  <2>1. file' \in [status : {"none", "pending", "processing", "done", "failed", "not_supported"},
                    old : BOOLEAN]
    BY DEF ClaimNext, FileIs, OutboxIInv, OutboxTypeOK
  <2>2. pool' \in [PoolWorker -> {"idle", "begin", "delete", "write", "check", "mark",
                                    "succeeded", "failed"}]
    BY DEF ClaimNext, Steps, OutboxIInv, OutboxTypeOK
  <2>3. /\ task' \in [state : Waiting \cup Settled, attempts : Nat, told : BOOLEAN, old : BOOLEAN]
        /\ task'.state = "processing" => task'.attempts > 0
    <3>1. task' = [state |-> "processing", attempts |-> task.attempts + 1, told |-> task.told, old |-> FALSE]
      BY DEF ClaimNext, OutboxIInv, OutboxTypeOK
    <3>2. task.attempts \in Nat /\ task.told \in BOOLEAN
      BY DEF OutboxIInv, OutboxTypeOK
    <3>. QED BY <3>1, <3>2 DEF Waiting
  <2>. QED BY <1>2, <2>1, <2>2, <2>3, OutboxAssumption DEF ClaimNext, OutboxIInv, OutboxTypeOK
<1>4. ProcessingIsHeld'
  BY OutboxAssumption DEF ClaimNext, OutboxIInv, OutboxTypeOK, ProcessingIsHeld, Steps
<1>. QED BY <1>2, <1>3, <1>4 DEF OutboxIInv

LEMMA BeginOutboxIInv ==
  ASSUME OutboxIInv, NEW w \in PoolWorker, Begin(w)
  PROVE  OutboxIInv'
<1>1. copies' \in {copies, 0} /\ Writers' \subseteq Writers
  BY DEF Begin, Steps, Writers, OutboxIInv, OutboxTypeOK
<1>2. CopiesBounded' /\ copies' \in 0 .. Cardinality(PoolWorker)
  BY <1>1, CopiesStay
<1>3. OutboxTypeOK'
  <2>1. file' \in [status : {"none", "pending", "processing", "done", "failed", "not_supported"},
                    old : BOOLEAN]
    BY FileIsTyped DEF Begin, OutboxIInv, OutboxTypeOK
  <2>2. pool' \in [PoolWorker -> {"idle", "begin", "delete", "write", "check", "mark",
                                    "succeeded", "failed"}]
    BY DEF Begin, Steps, OutboxIInv, OutboxTypeOK
  <2>3. /\ task' \in [state : Waiting \cup Settled, attempts : Nat, told : BOOLEAN, old : BOOLEAN]
        /\ task'.state = "processing" => task'.attempts > 0
    BY DEF Begin, OutboxIInv, OutboxTypeOK
  <2>. QED BY <1>2, <2>1, <2>2, <2>3, OutboxAssumption DEF Begin, OutboxIInv, OutboxTypeOK
<1>4. ProcessingIsHeld'
  BY OutboxAssumption DEF Begin, OutboxIInv, OutboxTypeOK, ProcessingIsHeld, FileIs, Steps
<1>. QED BY <1>2, <1>3, <1>4 DEF OutboxIInv

LEMMA VectorizeFailsOutboxIInv ==
  ASSUME OutboxIInv, NEW w \in PoolWorker, VectorizeFails(w)
  PROVE  OutboxIInv'
<1>1. copies' \in {copies, 0} /\ Writers' \subseteq Writers
  BY DEF VectorizeFails, Steps, Writers, OutboxIInv, OutboxTypeOK
<1>2. CopiesBounded' /\ copies' \in 0 .. Cardinality(PoolWorker)
  BY <1>1, CopiesStay
<1>3. OutboxTypeOK'
  <2>1. file' \in [status : {"none", "pending", "processing", "done", "failed", "not_supported"},
                    old : BOOLEAN]
    BY FileIsTyped DEF VectorizeFails, OutboxIInv, OutboxTypeOK
  <2>2. pool' \in [PoolWorker -> {"idle", "begin", "delete", "write", "check", "mark",
                                    "succeeded", "failed"}]
    BY DEF VectorizeFails, Steps, OutboxIInv, OutboxTypeOK
  <2>3. /\ task' \in [state : Waiting \cup Settled, attempts : Nat, told : BOOLEAN, old : BOOLEAN]
        /\ task'.state = "processing" => task'.attempts > 0
    BY DEF VectorizeFails, OutboxIInv, OutboxTypeOK
  <2>. QED BY <1>2, <2>1, <2>2, <2>3, OutboxAssumption DEF VectorizeFails, OutboxIInv,
     OutboxTypeOK
<1>4. ProcessingIsHeld'
  BY OutboxAssumption DEF VectorizeFails, OutboxIInv, OutboxTypeOK, ProcessingIsHeld, FileIs,
       Steps
<1>. QED BY <1>2, <1>3, <1>4 DEF OutboxIInv

LEMMA CheckCountOutboxIInv ==
  ASSUME OutboxIInv, NEW w \in PoolWorker, CheckCount(w)
  PROVE  OutboxIInv'
<1>1. copies' \in {copies, 0} /\ Writers' \subseteq Writers
  BY DEF CheckCount, Steps, Writers, OutboxIInv, OutboxTypeOK
<1>2. CopiesBounded' /\ copies' \in 0 .. Cardinality(PoolWorker)
  BY <1>1, CopiesStay
<1>3. OutboxTypeOK'
  <2>1. file' \in [status : {"none", "pending", "processing", "done", "failed", "not_supported"},
                    old : BOOLEAN]
    BY FileIsTyped DEF CheckCount, OutboxIInv, OutboxTypeOK
  <2>2. pool' \in [PoolWorker -> {"idle", "begin", "delete", "write", "check", "mark",
                                    "succeeded", "failed"}]
    BY DEF CheckCount, Steps, OutboxIInv, OutboxTypeOK
  <2>3. /\ task' \in [state : Waiting \cup Settled, attempts : Nat, told : BOOLEAN, old : BOOLEAN]
        /\ task'.state = "processing" => task'.attempts > 0
    BY DEF CheckCount, OutboxIInv, OutboxTypeOK
  <2>. QED BY <1>2, <2>1, <2>2, <2>3, OutboxAssumption DEF CheckCount, OutboxIInv, OutboxTypeOK
<1>4. ProcessingIsHeld'
  BY OutboxAssumption DEF CheckCount, OutboxIInv, OutboxTypeOK, ProcessingIsHeld, FileIs, Steps
<1>. QED BY <1>2, <1>3, <1>4 DEF OutboxIInv

LEMMA MarkDoneOutboxIInv ==
  ASSUME OutboxIInv, NEW w \in PoolWorker, MarkDone(w)
  PROVE  OutboxIInv'
<1>1. copies' \in {copies, 0} /\ Writers' \subseteq Writers
  BY DEF MarkDone, Steps, Writers, OutboxIInv, OutboxTypeOK
<1>2. CopiesBounded' /\ copies' \in 0 .. Cardinality(PoolWorker)
  BY <1>1, CopiesStay
<1>3. OutboxTypeOK'
  BY <1>2, OutboxAssumption DEF MarkDone, OutboxIInv, OutboxTypeOK, FileIs, Steps
<1>4. ProcessingIsHeld'
  BY OutboxAssumption DEF MarkDone, OutboxIInv, OutboxTypeOK, ProcessingIsHeld, FileIs, Steps
<1>. QED BY <1>2, <1>3, <1>4 DEF OutboxIInv

LEMMA FinishTaskOutboxIInv ==
  ASSUME OutboxIInv, NEW w \in PoolWorker, FinishTask(w)
  PROVE  OutboxIInv'
<1>1. copies' \in {copies, 0} /\ Writers' \subseteq Writers
  BY DEF FinishTask, Steps, Writers, OutboxIInv, OutboxTypeOK
<1>2. CopiesBounded' /\ copies' \in 0 .. Cardinality(PoolWorker)
  BY <1>1, CopiesStay
<1>3. OutboxTypeOK'
  BY <1>2, OutboxAssumption DEF FinishTask, OutboxIInv, OutboxTypeOK, FileIs, Steps, NoTask,
       EnqueueResets, Requeued, Waiting, Settled
<1>4. ProcessingIsHeld'
  BY OutboxAssumption DEF FinishTask, OutboxIInv, OutboxTypeOK, ProcessingIsHeld
<1>. QED BY <1>2, <1>3, <1>4 DEF OutboxIInv

LEMMA PanicsTaskOutboxIInv ==
  ASSUME OutboxIInv, NEW w \in PoolWorker, PanicsTask(w)
  PROVE  OutboxIInv'
<1>1. copies' \in {copies, 0} /\ Writers' \subseteq Writers
  BY DEF PanicsTask, Steps, Writers, OutboxIInv, OutboxTypeOK
<1>2. CopiesBounded' /\ copies' \in 0 .. Cardinality(PoolWorker)
  BY <1>1, CopiesStay
<1>3. OutboxTypeOK'
  BY <1>2, OutboxAssumption DEF PanicsTask, OutboxIInv, OutboxTypeOK, Steps
<1>4. ProcessingIsHeld'
  BY OutboxAssumption DEF PanicsTask, OutboxIInv, OutboxTypeOK, ProcessingIsHeld, Steps
<1>. QED BY <1>2, <1>3, <1>4 DEF OutboxIInv

LEMMA JanitorListsOutboxIInv ==
  ASSUME OutboxIInv, JanitorLists
  PROVE  OutboxIInv'
<1>1. copies' \in {copies, 0} /\ Writers' \subseteq Writers
  BY DEF JanitorLists, Writers, OutboxIInv, OutboxTypeOK
<1>2. CopiesBounded' /\ copies' \in 0 .. Cardinality(PoolWorker)
  BY <1>1, CopiesStay
<1>3. OutboxTypeOK'
  BY <1>2, OutboxAssumption DEF JanitorLists, OutboxIInv, OutboxTypeOK
<1>4. ProcessingIsHeld'
  BY OutboxAssumption DEF JanitorLists, OutboxIInv, OutboxTypeOK, ProcessingIsHeld
<1>. QED BY <1>2, <1>3, <1>4 DEF OutboxIInv

LEMMA RequeueIDsOutboxIInv ==
  ASSUME OutboxIInv, RequeueIDs
  PROVE  OutboxIInv'
<1>1. copies' \in {copies, 0} /\ Writers' \subseteq Writers
  BY DEF RequeueIDs, Writers, OutboxIInv, OutboxTypeOK
<1>2. CopiesBounded' /\ copies' \in 0 .. Cardinality(PoolWorker)
  BY <1>1, CopiesStay
<1>3. OutboxTypeOK'
  BY <1>2, OutboxAssumption DEF RequeueIDs, OutboxIInv, OutboxTypeOK, FileIs, Steps, NoTask,
       EnqueueResets, Requeued, Waiting, Settled
<1>4. ProcessingIsHeld'
  BY OutboxAssumption DEF RequeueIDs, OutboxIInv, OutboxTypeOK, ProcessingIsHeld, Requeued
<1>. QED BY <1>2, <1>3, <1>4 DEF OutboxIInv

LEMMA RequeueOneWithFilesOutboxIInv ==
  ASSUME OutboxIInv, RequeueOneWithFiles
  PROVE  OutboxIInv'
<1>1. copies' \in {copies, 0} /\ Writers' \subseteq Writers
  BY DEF RequeueOneWithFiles, Writers, OutboxIInv, OutboxTypeOK
<1>2. CopiesBounded' /\ copies' \in 0 .. Cardinality(PoolWorker)
  BY <1>1, CopiesStay
<1>3. OutboxTypeOK'
  <2>1. file' \in [status : {"none", "pending", "processing", "done", "failed", "not_supported"},
                    old : BOOLEAN]
    BY FileIsTyped DEF RequeueOneWithFiles, OutboxIInv, OutboxTypeOK
  <2>2. pool' \in [PoolWorker -> {"idle", "begin", "delete", "write", "check", "mark",
                                    "succeeded", "failed"}]
    BY DEF RequeueOneWithFiles, Steps, OutboxIInv, OutboxTypeOK
  <2>3. /\ task' \in [state : Waiting \cup Settled, attempts : Nat, told : BOOLEAN, old : BOOLEAN]
        /\ task'.state = "processing" => task'.attempts > 0
    BY DEF RequeueOneWithFiles, Requeued, Waiting, Settled, OutboxIInv, OutboxTypeOK
  <2>. QED BY <1>2, <2>1, <2>2, <2>3, OutboxAssumption DEF RequeueOneWithFiles, OutboxIInv,
     OutboxTypeOK
<1>4. ProcessingIsHeld'
  BY OutboxAssumption DEF RequeueOneWithFiles, OutboxIInv, OutboxTypeOK, ProcessingIsHeld,
       FileIs, Requeued
<1>. QED BY <1>2, <1>3, <1>4 DEF OutboxIInv

LEMMA ReconcileFileOutboxIInv ==
  ASSUME OutboxIInv, ReconcileFile
  PROVE  OutboxIInv'
<1>1. copies' \in {copies, 0} /\ Writers' \subseteq Writers
  BY DEF ReconcileFile, Writers, OutboxIInv, OutboxTypeOK
<1>2. CopiesBounded' /\ copies' \in 0 .. Cardinality(PoolWorker)
  BY <1>1, CopiesStay
<1>3. OutboxTypeOK'
  BY <1>2, OutboxAssumption DEF ReconcileFile, OutboxIInv, OutboxTypeOK, FileIs
<1>4. ProcessingIsHeld'
  BY OutboxAssumption DEF ReconcileFile, OutboxIInv, OutboxTypeOK, ProcessingIsHeld
<1>. QED BY <1>2, <1>3, <1>4 DEF OutboxIInv

LEMMA FinishByUploadUUIDOutboxIInv ==
  ASSUME OutboxIInv, FinishByUploadUUID
  PROVE  OutboxIInv'
<1>1. copies' \in {copies, 0} /\ Writers' \subseteq Writers
  BY DEF FinishByUploadUUID, Writers, OutboxIInv, OutboxTypeOK
<1>2. CopiesBounded' /\ copies' \in 0 .. Cardinality(PoolWorker)
  BY <1>1, CopiesStay
<1>3. OutboxTypeOK'
  BY <1>2, OutboxAssumption DEF FinishByUploadUUID, OutboxIInv, OutboxTypeOK, FileIs, Steps,
       NoTask, EnqueueResets, Requeued, Waiting, Settled
<1>4. ProcessingIsHeld'
  BY OutboxAssumption DEF FinishByUploadUUID, OutboxIInv, OutboxTypeOK, ProcessingIsHeld
<1>. QED BY <1>2, <1>3, <1>4 DEF OutboxIInv

LEMMA ReconcileDoneOutboxIInv ==
  ASSUME OutboxIInv, ReconcileDone
  PROVE  OutboxIInv'
<1>1. copies' \in {copies, 0} /\ Writers' \subseteq Writers
  BY DEF ReconcileDone, Writers, OutboxIInv, OutboxTypeOK
<1>2. CopiesBounded' /\ copies' \in 0 .. Cardinality(PoolWorker)
  BY <1>1, CopiesStay
<1>3. OutboxTypeOK'
  BY <1>2, OutboxAssumption DEF ReconcileDone, OutboxIInv, OutboxTypeOK, FileIs
<1>4. ProcessingIsHeld'
  BY OutboxAssumption DEF ReconcileDone, OutboxIInv, OutboxTypeOK, ProcessingIsHeld
<1>. QED BY <1>2, <1>3, <1>4 DEF OutboxIInv

LEMMA LoseVectorsOutboxIInv ==
  ASSUME OutboxIInv, LoseVectors
  PROVE  OutboxIInv'
<1>1. copies' \in {copies, 0} /\ Writers' \subseteq Writers
  BY DEF LoseVectors, Writers, OutboxIInv, OutboxTypeOK
<1>2. CopiesBounded' /\ copies' \in 0 .. Cardinality(PoolWorker)
  BY <1>1, CopiesStay
<1>3. OutboxTypeOK'
  BY <1>2, OutboxAssumption DEF LoseVectors, OutboxIInv, OutboxTypeOK
<1>4. ProcessingIsHeld'
  BY OutboxAssumption DEF LoseVectors, OutboxIInv, OutboxTypeOK, ProcessingIsHeld
<1>. QED BY <1>2, <1>3, <1>4 DEF OutboxIInv

LEMMA TenMinutesPassOutboxIInv ==
  ASSUME OutboxIInv, TenMinutesPass
  PROVE  OutboxIInv'
<1>1. copies' \in {copies, 0} /\ Writers' \subseteq Writers
  BY DEF TenMinutesPass, Writers, OutboxIInv, OutboxTypeOK
<1>2. CopiesBounded' /\ copies' \in 0 .. Cardinality(PoolWorker)
  BY <1>1, CopiesStay
<1>3. OutboxTypeOK'
  BY <1>2, OutboxAssumption DEF TenMinutesPass, OutboxIInv, OutboxTypeOK
<1>4. ProcessingIsHeld'
  BY OutboxAssumption DEF TenMinutesPass, OutboxIInv, OutboxTypeOK, ProcessingIsHeld
<1>. QED BY <1>2, <1>3, <1>4 DEF OutboxIInv

LEMMA ReplicasDieOutboxIInv ==
  ASSUME OutboxIInv, ReplicasDie
  PROVE  OutboxIInv'
<1>1. copies' \in {copies, 0} /\ Writers' \subseteq Writers
  BY DEF ReplicasDie, Writers, OutboxIInv, OutboxTypeOK
<1>2. CopiesBounded' /\ copies' \in 0 .. Cardinality(PoolWorker)
  BY <1>1, CopiesStay
<1>3. OutboxTypeOK'
  <2>1. file' \in [status : {"none", "pending", "processing", "done", "failed", "not_supported"},
                    old : BOOLEAN]
    BY DEF ReplicasDie, FileIs, OutboxIInv, OutboxTypeOK
  <2>2. pool' \in [PoolWorker -> {"idle", "begin", "delete", "write", "check", "mark",
                                    "succeeded", "failed"}]
    BY DEF ReplicasDie, Steps, OutboxIInv, OutboxTypeOK
  <2>3. /\ task' \in [state : Waiting \cup Settled, attempts : Nat, told : BOOLEAN, old : BOOLEAN]
        /\ task'.state = "processing" => task'.attempts > 0
    BY DEF ReplicasDie, OutboxIInv, OutboxTypeOK
  <2>4. replicaDeaths' \in 0 .. MaxReplicaDeaths /\ triggers' \in 0 .. MaxTriggers
    BY OutboxAssumption DEF ReplicasDie, OutboxIInv, OutboxTypeOK
  <2>5. asking' \in BOOLEAN /\ poller' \in BOOLEAN /\ janitor' \in {"none", "stale", "failed"}
    BY DEF ReplicasDie
  <2>. QED BY <1>2, <2>1, <2>2, <2>3, <2>4, <2>5 DEF OutboxTypeOK
<1>4. ProcessingIsHeld'
  BY OutboxAssumption DEF ReplicasDie, OutboxIInv, OutboxTypeOK, ProcessingIsHeld
<1>. QED BY <1>2, <1>3, <1>4 DEF OutboxIInv

LEMMA DeleteOldOutboxIInv ==
  ASSUME OutboxIInv, NEW w \in PoolWorker, DeleteOld(w)
  PROVE  OutboxIInv'
<1>1. Writers' \subseteq PoolWorker /\ copies' = 0
  BY DEF DeleteOld, Writers
<1>2. Cardinality(Writers') <= Cardinality(PoolWorker) /\ Cardinality(Writers') \in Nat
  BY <1>1, OutboxAssumption, FS_Subset, FS_CardinalityType
<1>3. CopiesBounded'
  BY <1>1, <1>2, WritersAreFew DEF CopiesBounded
<1>4. OutboxTypeOK'
  BY <1>1, WritersAreFew DEF DeleteOld, Steps, OutboxIInv, OutboxTypeOK
<1>5. ProcessingIsHeld'
  BY DEF DeleteOld, Steps, OutboxIInv, OutboxTypeOK, ProcessingIsHeld
<1>. QED BY <1>3, <1>4, <1>5 DEF OutboxIInv

LEMMA WriteNewOutboxIInv ==
  ASSUME OutboxIInv, NEW w \in PoolWorker, WriteNew(w)
  PROVE  OutboxIInv'
<1>1. Writers' = Writers \ {w} /\ w \in Writers /\ copies' = copies + 1
  BY DEF WriteNew, Steps, Writers, OutboxIInv, OutboxTypeOK
<1>2. Cardinality(Writers') = Cardinality(Writers) - 1
  BY <1>1, WritersAreFew, FS_RemoveElement
<1>3. CopiesBounded' /\ copies' \in 0 .. Cardinality(PoolWorker)
  <2>1. Cardinality(Writers') \in Nat
    BY <1>1, WritersAreFew, FS_RemoveElement, FS_CardinalityType
  <2>. QED BY <1>1, <1>2, <2>1, WritersAreFew DEF OutboxIInv, CopiesBounded
<1>4. OutboxTypeOK'
  BY <1>3 DEF WriteNew, Steps, OutboxIInv, OutboxTypeOK
<1>5. ProcessingIsHeld'
  BY DEF WriteNew, Steps, OutboxIInv, OutboxTypeOK, ProcessingIsHeld
<1>. QED BY <1>3, <1>4, <1>5 DEF OutboxIInv

LEMMA OutboxInitIInv ==
  ASSUME OutboxInit
  PROVE  OutboxIInv
<1>1. Writers = {}
  BY DEF OutboxInit, Writers
<1>2. CopiesBounded
  BY <1>1, WritersAreFew, FS_EmptySet DEF OutboxInit, CopiesBounded
<1>3. copies \in 0 .. Cardinality(PoolWorker)
  BY WritersAreFew DEF OutboxInit
<1>4. /\ NoTask \in [state : Waiting \cup Settled, attempts : Nat, told : BOOLEAN, old : BOOLEAN]
      /\ NoTask.state = "none"
  BY DEF NoTask, Waiting, Settled
<1>5. OutboxTypeOK
  <2>1. pool \in [PoolWorker -> {"idle", "begin", "delete", "write", "check", "mark",
                                "succeeded", "failed"}]
    BY DEF OutboxInit
  <2>2. file \in [status : {"none", "pending", "processing", "done", "failed", "not_supported"},
                 old : BOOLEAN]
    BY DEF OutboxInit
  <2>3. triggers \in 0 .. MaxTriggers /\ replicaDeaths \in 0 .. MaxReplicaDeaths
    BY OutboxAssumption DEF OutboxInit
  <2>. QED BY <1>3, <1>4, <2>1, <2>2, <2>3 DEF OutboxInit, OutboxTypeOK
<1>6. ProcessingIsHeld
  BY <1>4 DEF OutboxInit, ProcessingIsHeld
<1>. QED BY <1>2, <1>5, <1>6 DEF OutboxIInv

LEMMA OutboxNextIInv ==
  ASSUME OutboxIInv, [OutboxNext]_outboxVars
  PROVE  OutboxIInv'
<1>1. ASSUME NEW w \in PoolWorker, 
             ClaimNext(w) \/ Begin(w) \/ DeleteOld(w) \/ WriteNew(w) \/ VectorizeFails(w) \/
             CheckCount(w) \/ MarkDone(w) \/ FinishTask(w) \/ PanicsTask(w)
      PROVE  OutboxIInv'
  BY <1>1, ClaimNextOutboxIInv, BeginOutboxIInv, DeleteOldOutboxIInv, WriteNewOutboxIInv,
     VectorizeFailsOutboxIInv, CheckCountOutboxIInv, MarkDoneOutboxIInv, FinishTaskOutboxIInv,
     PanicsTaskOutboxIInv
<1>2. ASSUME JanitorLists \/ RequeueIDs \/ RequeueOneWithFiles
      PROVE  OutboxIInv'
  BY <1>2, JanitorListsOutboxIInv, RequeueIDsOutboxIInv, RequeueOneWithFilesOutboxIInv
<1>3. ASSUME ClaimVectorPending \/ EnqueueTask \/ EnqueueFails \/ ReconcileFile \/
             FinishByUploadUUID \/ ReconcileDone
      PROVE  OutboxIInv'
  BY <1>3, ClaimVectorPendingOutboxIInv, EnqueueTaskOutboxIInv, EnqueueFailsOutboxIInv,
     ReconcileFileOutboxIInv, FinishByUploadUUIDOutboxIInv, ReconcileDoneOutboxIInv
<1>4. ASSUME LoseVectors \/ TenMinutesPass \/ ReplicasDie
      PROVE  OutboxIInv'
  BY <1>4, LoseVectorsOutboxIInv, TenMinutesPassOutboxIInv, ReplicasDieOutboxIInv
<1>5. CASE UNCHANGED outboxVars
  BY <1>5 DEF outboxVars, OutboxIInv, OutboxTypeOK, ProcessingIsHeld, CopiesBounded, Writers
<1>. QED BY <1>1, <1>2, <1>3, <1>4, <1>5 DEF OutboxNext, Executes, JanitorStep


-----------------------------------------------------------------------------
(* VideoVectorize                                                            *)

VecBooksOK ==
  /\ slots \in Nat \ {0} /\ IsFiniteSet(running) /\ tangled \in BOOLEAN
  /\ poll \in [step : {"idle", "count", "heal", "over"},
               rec : [status : PageStatuses, hash : Texts], count : BOOLEAN]

(* Who is in the queue waits, and waits once.                                *)
QueueWaits ==
  /\ \A i \in 1 .. Len(vqueue) : vstep[vqueue[i]] = "wait"
  /\ \A i, j \in 1 .. Len(vqueue) : vqueue[i] = vqueue[j] => i = j

(* A task has its outcome only at the end.                                   *)
OutcomesCome == \A t \in Task : row[t] \in {"done", "failed"} => vstep[t] \in {"failPage", "end"}

(* A page that says pending or processing has somebody who will write it:    *)
(* one at "settle" writes no more, one before "save" may still be refused.   *)
WillWrite == (Pipeline \ {"settle"}) \cup {"save", "wait"}
WriterComes == page.status \in {"pending", "processing"} => \E t \in Task : vstep[t] \in WillWrite

(* A poll heals from a record of a page that was done, or that was pending,  *)
(* and then somebody was at work.                                            *)
PollKnows ==
  poll.step \in {"count", "heal"} =>
    poll.rec.status = "done" \/ (poll.rec.status = "pending" /\ tangled)

(* While nothing ran beside it, a pipeline finds page and vectors as it left *)
(* them.                                                                     *)
AloneAtPage ==
  ~tangled =>
    /\ \A t, u \in InProgress : t = u
    /\ \A t \in Task :
         /\ vstep[t] \in {"asr", "clear", "embed", "insert", "finish"} => page.status = "processing"
         /\ vstep[t] = "insert" => vectors = {}
         /\ vstep[t] = "finish" => vectors = {txt[t]}
         /\ vstep[t] \in {"fail", "failPage"} => page.status # "done"

VecIInv ==
  /\ VecTypeOK /\ VecBooksOK /\ PipelinesBounded /\ QueueWaits
  /\ OutcomesCome /\ WriterComes /\ PollKnows /\ AloneAtPage /\ DoneIsIndexed

-----------------------------------------------------------------------------
(* The semaphore.                                                            *)

(* A step that neither takes nor frees a slot, of a task that does not wait. *)
LEMMA PlacesStay ==
  ASSUME VecIInv, NEW t \in Task, NEW s \in VSteps, vstep' = [vstep EXCEPT ![t] = s],
         vstep[t] \in Pipeline <=> s \in Pipeline, vstep[t] # "wait", s # "wait",
         UNCHANGED <<running, vqueue, slots>>
  PROVE  IsFiniteSet(running') /\ PipelinesBounded' /\ QueueWaits'
<1>. USE DEF VecIInv
<1>1. running' = {u \in Task : vstep'[u] \in Pipeline}
  BY DEF VecTypeOK, PipelinesBounded
<1>2. PipelinesBounded'
  BY <1>1 DEF PipelinesBounded
<1>3. QueueWaits'
  BY DEF VecTypeOK, QueueWaits
<1>. QED BY <1>2, <1>3 DEF VecBooksOK

(* A pipeline that ends hands its slot to the first in the queue.            *)
LEMMA SlotHandedOver ==
  ASSUME VecIInv, NEW t \in Task, vstep[t] \in {"settle", "failPage"}, EndPipeline(t),
         slots' = slots
  PROVE  /\ running' \subseteq Task /\ IsFiniteSet(running') /\ vqueue' \in Seq(Task)
         /\ vstep' \in [Task -> VSteps]
         /\ PipelinesBounded' /\ QueueWaits'
         /\ vstep'[t] = "end"
         /\ \A u \in Task \ {t} :
              vstep'[u] = vstep[u] \/ (vstep[u] = "wait" /\ vstep'[u] = "init")
<1>. USE DEF VecIInv
<1>1. /\ running \subseteq Task /\ vqueue \in Seq(Task) /\ vstep \in [Task -> VSteps]
      /\ IsFiniteSet(running) /\ Cardinality(running) \in Nat /\ slots \in Nat \ {0}
      /\ running = {u \in Task : vstep[u] \in Pipeline}
  BY FS_CardinalityType DEF VecTypeOK, VecBooksOK, PipelinesBounded
<1>2. t \in running /\ IsFiniteSet(running \ {t})
      /\ Cardinality(running \ {t}) = Cardinality(running) - 1
  BY <1>1, FS_RemoveElement DEF Pipeline
<1>3. CASE vqueue = <<>>
  <2>1. running' = running \ {t} /\ vqueue' = vqueue /\ vstep' = [vstep EXCEPT ![t] = "end"]
    BY <1>3 DEF EndPipeline, VGoto
  <2>2. running' = {u \in Task : vstep'[u] \in Pipeline}
    BY <1>1, <2>1 DEF Pipeline
  <2>3. Cardinality(running') <= slots'
    BY <1>1, <1>2, <2>1 DEF PipelinesBounded
  <2>4. PipelinesBounded'
    BY <1>3, <2>1, <2>2, <2>3 DEF PipelinesBounded
  <2>5. QueueWaits'
    BY <1>1, <1>3, <2>1 DEF QueueWaits
  <2>6. vstep' \in [Task -> VSteps]
    BY <1>1, <2>1 DEF VSteps
  <2>. QED BY <1>1, <1>2, <2>1, <2>4, <2>5, <2>6
<1>4. CASE vqueue # <<>>
  <2> DEFINE h == Head(vqueue)
  <2>1. /\ running' = (running \ {t}) \cup {h} /\ vqueue' = Tail(vqueue)
        /\ vstep' = [vstep EXCEPT ![t] = "end", ![h] = "init"]
    BY <1>4 DEF EndPipeline
  <2>2. /\ Len(vqueue) \in Nat \ {0} /\ h = vqueue[1] /\ h \in Task
        /\ vqueue' \in Seq(Task) /\ Len(vqueue') = Len(vqueue) - 1
        /\ \A i \in 1 .. Len(vqueue') : vqueue'[i] = vqueue[i + 1] /\ i + 1 \in 1 .. Len(vqueue)
    BY <1>1, <1>4, <2>1
  <2>3. vstep[h] = "wait" /\ \A i \in 1 .. Len(vqueue') : vqueue'[i] # h
    BY <2>2 DEF QueueWaits
  <2>4. h # t /\ h \notin running
    BY <1>1, <2>3 DEF Pipeline
  <2> HIDE DEF h
  <2>5. /\ vstep' \in [Task -> VSteps] /\ vstep'[t] = "end" /\ vstep'[h] = "init"
        /\ \A u \in Task \ {t, h} : vstep'[u] = vstep[u]
    BY <1>1, <2>1, <2>2, <2>4 DEF VSteps
  <2>6. running' = {u \in Task : vstep'[u] \in Pipeline}
    BY <1>1, <2>1, <2>2, <2>5 DEF Pipeline
  <2>7. IsFiniteSet(running') /\ Cardinality(running') = Cardinality(running)
    <3>1. h \notin running \ {t}
      BY <2>4
    <3>2. Cardinality(running') = Cardinality(running \ {t}) + 1 /\ IsFiniteSet(running')
      BY <1>2, <2>1, <3>1, FS_AddElement
    <3>. QED BY <1>1, <1>2, <3>2
  <2>8. Cardinality(running) = slots
    BY <1>4 DEF PipelinesBounded
  <2>9. PipelinesBounded'
    BY <1>1, <2>6, <2>7, <2>8 DEF PipelinesBounded
  <2>10. QueueWaits'
    <3>1. ASSUME NEW i \in 1 .. Len(vqueue') PROVE vstep'[vqueue'[i]] = "wait"
      <4>1. vqueue'[i] \in Task /\ vqueue'[i] # h /\ vstep[vqueue'[i]] = "wait"
        <5>1. vqueue'[i] = vqueue[i + 1] /\ i + 1 \in 1 .. Len(vqueue)
          BY <2>2
        <5>. QED BY <1>1, <2>3, <5>1 DEF QueueWaits
      <4>2. vqueue'[i] # t
        BY <4>1
      <4>. QED BY <2>5, <4>1, <4>2
    <3>2. ASSUME NEW i \in 1 .. Len(vqueue'), NEW j \in 1 .. Len(vqueue'),
                 vqueue'[i] = vqueue'[j]
          PROVE  i = j
      BY <2>2, <3>2 DEF QueueWaits
    <3>. QED BY <3>1, <3>2 DEF QueueWaits
  <2>11. running' \subseteq Task
    BY <1>1, <2>1, <2>2
  <2>. QED BY <2>2, <2>3, <2>5, <2>7, <2>9, <2>10, <2>11
<1>. QED BY <1>3, <1>4

LEMMA RequestVecIInv ==
  ASSUME VecIInv, NEW t \in Task, Request(t)
  PROVE  VecIInv'
<1>. USE VecAssumption DEF VecIInv
<1>1. VecTypeOK'
  <2>1. seen' \in [Task -> [status : PageStatuses, hash : Texts]]
    BY DEF Request, VecTypeOK
  <2>2. vstep' \in [Task -> VSteps] /\ row' \in [Task -> {"none", "pending", "processing", "done", "failed"}]
    BY DEF Request, VGoto, Row, bookVars, VecTypeOK, Texts, PageStatuses, NoPage, VSteps,
         Pipeline
  <2>. QED BY <2>1, <2>2 DEF Request, VGoto, Tangle, bookVars, VecTypeOK
<1>2. VecBooksOK' /\ PipelinesBounded' /\ QueueWaits'
  <2>1. PICK s \in {"current", "deferred", "write"} : vstep' = [vstep EXCEPT ![t] = s]
    BY DEF Request, VGoto
  <2>2. /\ UNCHANGED <<running, vqueue, slots, poll>> /\ tangled' \in BOOLEAN
        /\ vstep[t] \in Pipeline <=> s \in Pipeline
        /\ vstep[t] # "wait" /\ s # "wait" /\ s \in VSteps
    BY <2>1 DEF Request, Tangle, bookVars, VecBooksOK, Pipeline, VSteps
  <2>3. IsFiniteSet(running') /\ PipelinesBounded' /\ QueueWaits'
    BY <2>1, <2>2, PlacesStay
  <2>. QED BY <2>2, <2>3 DEF VecBooksOK
<1>3. OutcomesCome' /\ WriterComes'
  BY DEF Request, VGoto, Row, Persist, UpToDate, OutcomesCome, WriterComes, WillWrite, bookVars,
       VecTypeOK, Texts, PageStatuses, NoPage, VSteps, Pipeline
<1>4. PollKnows' /\ AloneAtPage'
  <2>1. (tangled => tangled') /\ UNCHANGED <<poll, page, vectors, txt>> /\ vstep[t] = "new"
    BY DEF Request, Tangle, bookVars, VecBooksOK
  <2>2. PollKnows'
    BY <2>1 DEF PollKnows
  <2>3. \A u \in Task \ {t} : vstep'[u] = vstep[u]
    BY DEF Request, VGoto, bookVars, VecTypeOK
  <2>4. vstep'[t] \in {"current", "deferred", "write"}
    BY DEF Request, VGoto, bookVars, VecTypeOK
  <2>5. vstep'[t] = "write" /\ ~tangled' => InProgress = {}
    BY DEF Request, VGoto, Tangle, VecBooksOK, bookVars, VecTypeOK
  <2>6. AloneAtPage'
    BY <2>1, <2>3, <2>4, <2>5 DEF AloneAtPage, InProgress, Pipeline
  <2>. QED BY <2>2, <2>6
<1>5. DoneIsIndexed'
  BY DEF Request, VGoto, Tangle, AloneAtPage, VecBooksOK, DoneIsIndexed, bookVars, VecTypeOK
<1>. QED BY <1>1, <1>2, <1>3, <1>4, <1>5

LEMMA WritePendingVecIInv ==
  ASSUME VecIInv, NEW t \in Task, WritePending(t)
  PROVE  VecIInv'
<1>. USE VecAssumption DEF VecIInv
<1>1. VecTypeOK'
  BY DEF WritePending, VGoto, Row, Persist, Tangle, bookVars, VecTypeOK, Texts, PageStatuses,
       NoPage, VSteps, Pipeline
<1>2. VecBooksOK' /\ PipelinesBounded' /\ QueueWaits'
  <2>1. PICK s \in {"save"} : vstep' = [vstep EXCEPT ![t] = s]
    BY DEF WritePending, VGoto
  <2>2. /\ UNCHANGED <<running, vqueue, slots, poll>> /\ tangled' \in BOOLEAN
        /\ vstep[t] \in Pipeline <=> s \in Pipeline
        /\ vstep[t] # "wait" /\ s # "wait" /\ s \in VSteps
    BY <2>1 DEF WritePending, Tangle, bookVars, VecBooksOK, Pipeline, VSteps
  <2>3. IsFiniteSet(running') /\ PipelinesBounded' /\ QueueWaits'
    BY <2>1, <2>2, PlacesStay
  <2>. QED BY <2>2, <2>3 DEF VecBooksOK
<1>3. OutcomesCome' /\ WriterComes'
  BY DEF WritePending, VGoto, Persist, OutcomesCome, WriterComes, WillWrite, bookVars, VecTypeOK,
       NoPage
<1>4. PollKnows' /\ AloneAtPage'
  BY DEF WritePending, VGoto, Persist, UpToDate, Tangle, PollKnows, AloneAtPage, InProgress,
       VecBooksOK, bookVars, VecTypeOK, Texts, PageStatuses, NoPage, VSteps, Pipeline
<1>5. DoneIsIndexed'
  BY DEF WritePending, VGoto, Persist, AloneAtPage, VecBooksOK, DoneIsIndexed, bookVars,
       VecTypeOK, NoPage
<1>. QED BY <1>1, <1>2, <1>3, <1>4, <1>5

LEMMA InitPhaseVecIInv ==
  ASSUME VecIInv, NEW t \in Task, InitPhase(t)
  PROVE  VecIInv'
<1>. USE VecAssumption DEF VecIInv
<1>1. VecTypeOK'
  <2>1. seen' \in [Task -> [status : PageStatuses, hash : Texts]] /\ txt' \in [Task -> Texts]
    <3>1. /\ page \in [status : PageStatuses, hash : Texts] /\ text \in Texts
          /\ seen \in [Task -> [status : PageStatuses, hash : Texts]] /\ txt \in [Task -> Texts]
      BY DEF VecTypeOK
    <3>2. \/ seen' = [seen EXCEPT ![t] = page] /\ txt' = [txt EXCEPT ![t] = text]
          \/ seen' = seen /\ txt' = txt
      BY DEF InitPhase
    <3>. QED BY <3>1, <3>2
  <2>2. /\ vstep' \in [Task -> VSteps] /\ vstep'[t] \in {"mark", "fail", "settle"}
        /\ row' \in [Task -> {"none", "pending", "processing", "done", "failed"}]
    BY DEF InitPhase, VGoto, Row, VSteps, VecTypeOK
  <2>3. \A u \in Task \ {t} : vstep'[u] = vstep[u] /\ txt'[u] = txt[u]
    BY DEF InitPhase, VGoto, VecTypeOK
  <2>. QED BY <2>1, <2>2, <2>3 DEF InitPhase, VecTypeOK, bookVars
<1>2. VecBooksOK' /\ PipelinesBounded' /\ QueueWaits'
  <2>1. PICK s \in {"mark", "fail", "settle"} : vstep' = [vstep EXCEPT ![t] = s]
    BY DEF InitPhase, VGoto
  <2>2. /\ UNCHANGED <<running, vqueue, slots, poll>> /\ tangled' \in BOOLEAN
        /\ vstep[t] \in Pipeline <=> s \in Pipeline
        /\ vstep[t] # "wait" /\ s # "wait" /\ s \in VSteps
    BY <2>1 DEF InitPhase, Tangle, bookVars, VecBooksOK, Pipeline, VSteps
  <2>3. IsFiniteSet(running') /\ PipelinesBounded' /\ QueueWaits'
    BY <2>1, <2>2, PlacesStay
  <2>. QED BY <2>2, <2>3 DEF VecBooksOK
<1>3. OutcomesCome' /\ WriterComes'
  BY DEF InitPhase, VGoto, Row, Persist, UpToDate, OutcomesCome, WriterComes, WillWrite,
       bookVars, VecTypeOK, Texts, PageStatuses, NoPage, VSteps, Pipeline
<1>4. PollKnows' /\ AloneAtPage'
  BY DEF InitPhase, VGoto, Persist, UpToDate, Tangle, PollKnows, AloneAtPage, InProgress,
       VecBooksOK, bookVars, VecTypeOK, Texts, PageStatuses, NoPage, VSteps, Pipeline
<1>5. DoneIsIndexed'
  BY DEF InitPhase, VGoto, AloneAtPage, VecBooksOK, DoneIsIndexed, bookVars, VecTypeOK
<1>. QED BY <1>1, <1>2, <1>3, <1>4, <1>5

LEMMA MarkProcessingVecIInv ==
  ASSUME VecIInv, NEW t \in Task, MarkProcessing(t)
  PROVE  VecIInv'
<1>. USE VecAssumption DEF VecIInv
<1>1. VecTypeOK'
  <2>1. page' \in [status : PageStatuses, hash : Texts]
    BY DEF MarkProcessing, VGoto, Persist, bookVars, VecTypeOK, Texts, PageStatuses, NoPage,
         VSteps, Pipeline
  <2>2. seen' \in [Task -> [status : PageStatuses, hash : Texts]]
    BY DEF MarkProcessing, VGoto, Persist, bookVars, VecTypeOK, Texts, PageStatuses, NoPage,
         VSteps, Pipeline
  <2>3. vstep' \in [Task -> VSteps] /\ row' \in [Task -> {"none", "pending", "processing", "done", "failed"}]
    BY DEF MarkProcessing, VGoto, Row, bookVars, VecTypeOK, Texts, PageStatuses, NoPage, VSteps,
         Pipeline
  <2>. QED BY <2>1, <2>2, <2>3 DEF MarkProcessing, VGoto, Persist, bookVars, VecTypeOK, NoPage
<1>2. VecBooksOK' /\ PipelinesBounded' /\ QueueWaits'
  <2>1. PICK s \in {"asr", "clear"} : vstep' = [vstep EXCEPT ![t] = s]
    BY DEF MarkProcessing, VGoto
  <2>2. /\ UNCHANGED <<running, vqueue, slots, poll>> /\ tangled' \in BOOLEAN
        /\ vstep[t] \in Pipeline <=> s \in Pipeline
        /\ vstep[t] # "wait" /\ s # "wait" /\ s \in VSteps
    BY <2>1 DEF MarkProcessing, Tangle, bookVars, VecBooksOK, Pipeline, VSteps
  <2>3. IsFiniteSet(running') /\ PipelinesBounded' /\ QueueWaits'
    BY <2>1, <2>2, PlacesStay
  <2>. QED BY <2>2, <2>3 DEF VecBooksOK
<1>3. OutcomesCome' /\ WriterComes'
  BY DEF MarkProcessing, VGoto, Row, Persist, UpToDate, OutcomesCome, WriterComes, WillWrite,
       bookVars, VecTypeOK, Texts, PageStatuses, NoPage, VSteps, Pipeline
<1>4. PollKnows' /\ AloneAtPage'
  BY DEF MarkProcessing, VGoto, Persist, UpToDate, Tangle, PollKnows, AloneAtPage, InProgress,
       VecBooksOK, bookVars, VecTypeOK, Texts, PageStatuses, NoPage, VSteps, Pipeline
<1>5. DoneIsIndexed'
  BY DEF MarkProcessing, VGoto, Persist, AloneAtPage, VecBooksOK, DoneIsIndexed, bookVars,
       VecTypeOK, NoPage
<1>. QED BY <1>1, <1>2, <1>3, <1>4, <1>5

LEMMA AsrPhaseVecIInv ==
  ASSUME VecIInv, NEW t \in Task, AsrPhase(t)
  PROVE  VecIInv'
<1>. USE VecAssumption DEF VecIInv
<1>1. VecTypeOK'
  <2>1. text' \in Texts /\ (vstep'[t] = "clear" => text' # 0 /\ txt' = [txt EXCEPT ![t] = text'])
    BY DEF AsrPhase, VGoto, Texts, VecTypeOK, VSteps
  <2>2. txt' \in [Task -> Texts]
    BY <2>1 DEF AsrPhase, VecTypeOK
  <2>3. vstep' \in [Task -> VSteps] /\ vstep'[t] \in {"clear", "fail"}
    BY DEF AsrPhase, VGoto, VSteps, VecTypeOK
  <2>4. \A u \in Task \ {t} : vstep'[u] = vstep[u] /\ txt'[u] = txt[u]
    BY DEF AsrPhase, VGoto, VecTypeOK
  <2>5. vstep'[t] = "clear" => txt'[t] # 0
    BY <2>1 DEF VecTypeOK
  <2>. QED BY <2>1, <2>2, <2>3, <2>4, <2>5 DEF AsrPhase, VecTypeOK, bookVars
<1>2. VecBooksOK' /\ PipelinesBounded' /\ QueueWaits'
  <2>1. PICK s \in {"clear", "fail"} : vstep' = [vstep EXCEPT ![t] = s]
    BY DEF AsrPhase, VGoto
  <2>2. /\ UNCHANGED <<running, vqueue, slots, poll>> /\ tangled' \in BOOLEAN
        /\ vstep[t] \in Pipeline <=> s \in Pipeline
        /\ vstep[t] # "wait" /\ s # "wait" /\ s \in VSteps
    BY <2>1 DEF AsrPhase, Tangle, bookVars, VecBooksOK, Pipeline, VSteps
  <2>3. IsFiniteSet(running') /\ PipelinesBounded' /\ QueueWaits'
    BY <2>1, <2>2, PlacesStay
  <2>. QED BY <2>2, <2>3 DEF VecBooksOK
<1>3. OutcomesCome' /\ WriterComes'
  BY DEF AsrPhase, VGoto, Row, Persist, UpToDate, OutcomesCome, WriterComes, WillWrite, bookVars,
       VecTypeOK, Texts, PageStatuses, NoPage, VSteps, Pipeline
<1>4. PollKnows' /\ AloneAtPage'
  <2>1. PollKnows'
    BY DEF AsrPhase, Tangle, PollKnows, bookVars
  <2> SUFFICES ASSUME ~tangled' PROVE AloneAtPage'
    BY <2>1 DEF AloneAtPage
  <2>2. ~tangled /\ \A u \in Task \ {t} : vstep'[u] = vstep[u] /\ u \notin InProgress
    BY DEF AsrPhase, VGoto, Tangle, AloneAtPage, InProgress, VecBooksOK, bookVars, VecTypeOK,
         Texts, PageStatuses, NoPage, VSteps, Pipeline
  <2>3. \A u \in Task \ {t} : u \notin InProgress'
    BY <2>2 DEF InProgress
  <2>4. /\ vstep'[t] \in {"asr", "clear", "embed", "insert", "finish"} => page'.status = "processing"
        /\ vstep'[t] = "insert" => vectors' = {}
        /\ vstep'[t] = "finish" => vectors' = {txt'[t]}
        /\ vstep'[t] \in {"fail", "failPage"} => page'.status # "done"
    BY <2>2 DEF AsrPhase, VGoto, AloneAtPage, bookVars, VecTypeOK
  <2>. QED BY <2>3, <2>4 DEF AloneAtPage, InProgress, Pipeline
<1>5. DoneIsIndexed'
  BY DEF AsrPhase, AloneAtPage, VecBooksOK, DoneIsIndexed, VecTypeOK
<1>. QED BY <1>1, <1>2, <1>3, <1>4, <1>5

LEMMA ClearVectorsVecIInv ==
  ASSUME VecIInv, NEW t \in Task, ClearVectors(t)
  PROVE  VecIInv'
<1>. USE VecAssumption DEF VecIInv
<1>1. VecTypeOK'
  BY DEF ClearVectors, VGoto, Row, Persist, Tangle, bookVars, VecTypeOK, Texts, PageStatuses,
       NoPage, VSteps, Pipeline
<1>2. VecBooksOK' /\ PipelinesBounded' /\ QueueWaits'
  <2>1. PICK s \in {"embed"} : vstep' = [vstep EXCEPT ![t] = s]
    BY DEF ClearVectors, VGoto
  <2>2. /\ UNCHANGED <<running, vqueue, slots, poll>> /\ tangled' \in BOOLEAN
        /\ vstep[t] \in Pipeline <=> s \in Pipeline
        /\ vstep[t] # "wait" /\ s # "wait" /\ s \in VSteps
    BY <2>1 DEF ClearVectors, Tangle, bookVars, VecBooksOK, Pipeline, VSteps
  <2>3. IsFiniteSet(running') /\ PipelinesBounded' /\ QueueWaits'
    BY <2>1, <2>2, PlacesStay
  <2>. QED BY <2>2, <2>3 DEF VecBooksOK
<1>3. OutcomesCome' /\ WriterComes'
  BY DEF ClearVectors, VGoto, Row, Persist, UpToDate, OutcomesCome, WriterComes, WillWrite,
       bookVars, VecTypeOK, Texts, PageStatuses, NoPage, VSteps, Pipeline
<1>4. PollKnows' /\ AloneAtPage'
  BY DEF ClearVectors, VGoto, Persist, UpToDate, Tangle, PollKnows, AloneAtPage, InProgress,
       VecBooksOK, bookVars, VecTypeOK, Texts, PageStatuses, NoPage, VSteps, Pipeline
<1>5. DoneIsIndexed'
  BY DEF ClearVectors, AloneAtPage, VecBooksOK, DoneIsIndexed, VecTypeOK
<1>. QED BY <1>1, <1>2, <1>3, <1>4, <1>5

LEMMA EmbedAndDeleteVecIInv ==
  ASSUME VecIInv, NEW t \in Task, EmbedAndDelete(t)
  PROVE  VecIInv'
<1>. USE VecAssumption DEF VecIInv
<1>1. VecTypeOK'
  BY DEF EmbedAndDelete, VGoto, Row, Persist, Tangle, bookVars, VecTypeOK, Texts, PageStatuses,
       NoPage, VSteps, Pipeline
<1>2. VecBooksOK' /\ PipelinesBounded' /\ QueueWaits'
  <2>1. PICK s \in {"insert", "fail"} : vstep' = [vstep EXCEPT ![t] = s]
    BY DEF EmbedAndDelete, VGoto
  <2>2. /\ UNCHANGED <<running, vqueue, slots, poll>> /\ tangled' \in BOOLEAN
        /\ vstep[t] \in Pipeline <=> s \in Pipeline
        /\ vstep[t] # "wait" /\ s # "wait" /\ s \in VSteps
    BY <2>1 DEF EmbedAndDelete, Tangle, bookVars, VecBooksOK, Pipeline, VSteps
  <2>3. IsFiniteSet(running') /\ PipelinesBounded' /\ QueueWaits'
    BY <2>1, <2>2, PlacesStay
  <2>. QED BY <2>2, <2>3 DEF VecBooksOK
<1>3. OutcomesCome' /\ WriterComes'
  BY DEF EmbedAndDelete, VGoto, Row, Persist, UpToDate, OutcomesCome, WriterComes, WillWrite,
       bookVars, VecTypeOK, Texts, PageStatuses, NoPage, VSteps, Pipeline
<1>4. PollKnows' /\ AloneAtPage'
  <2>1. PollKnows'
    BY DEF EmbedAndDelete, Tangle, PollKnows, bookVars
  <2> SUFFICES ASSUME ~tangled' PROVE AloneAtPage'
    BY <2>1 DEF AloneAtPage
  <2>2. ~tangled /\ \A u \in Task \ {t} : vstep'[u] = vstep[u] /\ u \notin InProgress
    BY DEF EmbedAndDelete, VGoto, Tangle, AloneAtPage, InProgress, VecBooksOK, bookVars,
         VecTypeOK, Texts, PageStatuses, NoPage, VSteps, Pipeline
  <2>3. \A u \in Task \ {t} : u \notin InProgress'
    BY <2>2 DEF InProgress
  <2>4. /\ vstep'[t] \in {"asr", "clear", "embed", "insert", "finish"} => page'.status = "processing"
        /\ vstep'[t] = "insert" => vectors' = {}
        /\ vstep'[t] = "finish" => vectors' = {txt'[t]}
        /\ vstep'[t] \in {"fail", "failPage"} => page'.status # "done"
    BY <2>2 DEF EmbedAndDelete, VGoto, AloneAtPage, bookVars, VecTypeOK
  <2>. QED BY <2>3, <2>4 DEF AloneAtPage, InProgress, Pipeline
<1>5. DoneIsIndexed'
  BY DEF EmbedAndDelete, AloneAtPage, VecBooksOK, DoneIsIndexed, VecTypeOK
<1>. QED BY <1>1, <1>2, <1>3, <1>4, <1>5

LEMMA InsertRowsVecIInv ==
  ASSUME VecIInv, NEW t \in Task, InsertRows(t)
  PROVE  VecIInv'
<1>. USE VecAssumption DEF VecIInv
<1>1. VecTypeOK'
  <2>1. vectors' \subseteq Texts
    BY DEF InsertRows, VecTypeOK
  <2>2. vstep' \in [Task -> VSteps] /\ txt[t] # 0
    BY DEF InsertRows, VGoto, VSteps, VecTypeOK
  <2>. QED BY <2>1, <2>2 DEF InsertRows, VGoto, VecTypeOK, bookVars
<1>2. VecBooksOK' /\ PipelinesBounded' /\ QueueWaits'
  <2>1. PICK s \in {"finish", "fail"} : vstep' = [vstep EXCEPT ![t] = s]
    BY DEF InsertRows, VGoto
  <2>2. /\ UNCHANGED <<running, vqueue, slots, poll>> /\ tangled' \in BOOLEAN
        /\ vstep[t] \in Pipeline <=> s \in Pipeline
        /\ vstep[t] # "wait" /\ s # "wait" /\ s \in VSteps
    BY <2>1 DEF InsertRows, Tangle, bookVars, VecBooksOK, Pipeline, VSteps
  <2>3. IsFiniteSet(running') /\ PipelinesBounded' /\ QueueWaits'
    BY <2>1, <2>2, PlacesStay
  <2>. QED BY <2>2, <2>3 DEF VecBooksOK
<1>3. OutcomesCome' /\ WriterComes'
  BY DEF InsertRows, VGoto, Row, Persist, UpToDate, OutcomesCome, WriterComes, WillWrite,
       bookVars, VecTypeOK, Texts, PageStatuses, NoPage, VSteps, Pipeline
<1>4. PollKnows' /\ AloneAtPage'
  <2>1. PollKnows'
    BY DEF InsertRows, Tangle, PollKnows, bookVars
  <2> SUFFICES ASSUME ~tangled' PROVE AloneAtPage'
    BY <2>1 DEF AloneAtPage
  <2>2. ~tangled /\ \A u \in Task \ {t} : vstep'[u] = vstep[u] /\ u \notin InProgress
    BY DEF InsertRows, VGoto, Tangle, AloneAtPage, InProgress, VecBooksOK, bookVars, VecTypeOK,
         Texts, PageStatuses, NoPage, VSteps, Pipeline
  <2>3. \A u \in Task \ {t} : u \notin InProgress'
    BY <2>2 DEF InProgress
  <2>4. /\ vstep'[t] \in {"asr", "clear", "embed", "insert", "finish"} => page'.status = "processing"
        /\ vstep'[t] = "insert" => vectors' = {}
        /\ vstep'[t] = "finish" => vectors' = {txt'[t]}
        /\ vstep'[t] \in {"fail", "failPage"} => page'.status # "done"
    BY <2>2 DEF InsertRows, VGoto, AloneAtPage, bookVars, VecTypeOK
  <2>. QED BY <2>3, <2>4 DEF AloneAtPage, InProgress, Pipeline
<1>5. DoneIsIndexed'
  BY DEF InsertRows, AloneAtPage, VecBooksOK, DoneIsIndexed, VecTypeOK
<1>. QED BY <1>1, <1>2, <1>3, <1>4, <1>5

LEMMA FinishPageVecIInv ==
  ASSUME VecIInv, NEW t \in Task, FinishPage(t)
  PROVE  VecIInv'
<1>. USE VecAssumption DEF VecIInv
<1>1. VecTypeOK'
  BY DEF FinishPage, VGoto, Row, Persist, Tangle, bookVars, VecTypeOK, Texts, PageStatuses,
       NoPage, VSteps, Pipeline
<1>2. VecBooksOK' /\ PipelinesBounded' /\ QueueWaits'
  <2>1. PICK s \in {"settle"} : vstep' = [vstep EXCEPT ![t] = s]
    BY DEF FinishPage, VGoto
  <2>2. /\ UNCHANGED <<running, vqueue, slots, poll>> /\ tangled' \in BOOLEAN
        /\ vstep[t] \in Pipeline <=> s \in Pipeline
        /\ vstep[t] # "wait" /\ s # "wait" /\ s \in VSteps
    BY <2>1 DEF FinishPage, Tangle, bookVars, VecBooksOK, Pipeline, VSteps
  <2>3. IsFiniteSet(running') /\ PipelinesBounded' /\ QueueWaits'
    BY <2>1, <2>2, PlacesStay
  <2>. QED BY <2>2, <2>3 DEF VecBooksOK
<1>3. OutcomesCome' /\ WriterComes'
  BY DEF FinishPage, VGoto, Persist, OutcomesCome, WriterComes, WillWrite, bookVars, VecTypeOK
<1>4. PollKnows' /\ AloneAtPage'
  BY DEF FinishPage, VGoto, Persist, UpToDate, Tangle, PollKnows, AloneAtPage, InProgress,
       VecBooksOK, bookVars, VecTypeOK, Texts, PageStatuses, NoPage, VSteps, Pipeline
<1>5. DoneIsIndexed'
  BY DEF FinishPage, VGoto, Persist, AloneAtPage, VecBooksOK, DoneIsIndexed, bookVars, VecTypeOK
<1>. QED BY <1>1, <1>2, <1>3, <1>4, <1>5

LEMMA SettleFailedVecIInv ==
  ASSUME VecIInv, NEW t \in Task, SettleFailed(t)
  PROVE  VecIInv'
<1>. USE VecAssumption DEF VecIInv
<1>1. VecTypeOK'
  BY DEF SettleFailed, VGoto, Row, Persist, Tangle, bookVars, VecTypeOK, Texts, PageStatuses,
       NoPage, VSteps, Pipeline
<1>2. VecBooksOK' /\ PipelinesBounded' /\ QueueWaits'
  <2>1. PICK s \in {"failPage"} : vstep' = [vstep EXCEPT ![t] = s]
    BY DEF SettleFailed, VGoto
  <2>2. /\ UNCHANGED <<running, vqueue, slots, poll>> /\ tangled' \in BOOLEAN
        /\ vstep[t] \in Pipeline <=> s \in Pipeline
        /\ vstep[t] # "wait" /\ s # "wait" /\ s \in VSteps
    BY <2>1 DEF SettleFailed, Tangle, bookVars, VecBooksOK, Pipeline, VSteps
  <2>3. IsFiniteSet(running') /\ PipelinesBounded' /\ QueueWaits'
    BY <2>1, <2>2, PlacesStay
  <2>. QED BY <2>2, <2>3 DEF VecBooksOK
<1>3. OutcomesCome' /\ WriterComes'
  BY DEF SettleFailed, VGoto, Row, Persist, UpToDate, OutcomesCome, WriterComes, WillWrite,
       bookVars, VecTypeOK, Texts, PageStatuses, NoPage, VSteps, Pipeline
<1>4. PollKnows' /\ AloneAtPage'
  BY DEF SettleFailed, VGoto, Persist, UpToDate, Tangle, PollKnows, AloneAtPage, InProgress,
       VecBooksOK, bookVars, VecTypeOK, Texts, PageStatuses, NoPage, VSteps, Pipeline
<1>5. DoneIsIndexed'
  BY DEF SettleFailed, AloneAtPage, VecBooksOK, DoneIsIndexed, VecTypeOK
<1>. QED BY <1>1, <1>2, <1>3, <1>4, <1>5

LEMMA SaveTaskVecIInv ==
  ASSUME VecIInv, NEW t \in Task, SaveTask(t)
  PROVE  VecIInv'
<1>. USE VecAssumption DEF VecIInv
<1>1. /\ running \subseteq Task /\ vqueue \in Seq(Task) /\ vstep \in [Task -> VSteps]
      /\ IsFiniteSet(running) /\ Cardinality(running) \in Nat /\ slots \in Nat \ {0}
      /\ running = {u \in Task : vstep[u] \in Pipeline} /\ vstep[t] = "save"
      /\ slots' = slots
  BY FS_CardinalityType DEF VecTypeOK, VecBooksOK, PipelinesBounded, SaveTask, bookVars
<1>2. ASSUME Cardinality(running) < slots
      PROVE  /\ running' \subseteq Task /\ IsFiniteSet(running') /\ vqueue' \in Seq(Task)
             /\ PipelinesBounded' /\ QueueWaits'
  <2>1. running' = running \cup {t} /\ vqueue' = vqueue /\ vstep' = [vstep EXCEPT ![t] = "init"]
    BY <1>2 DEF SaveTask, VGoto
  <2>2. IsFiniteSet(running') /\ Cardinality(running') = Cardinality(running) + 1
    <3>1. t \notin running
      BY <1>1 DEF Pipeline
    <3>. QED BY <1>1, <2>1, <3>1, FS_AddElement
  <2>3. vqueue = <<>>
    BY <1>1, <1>2 DEF PipelinesBounded
  <2>4. running' = {u \in Task : vstep'[u] \in Pipeline}
    BY <1>1, <2>1 DEF Pipeline
  <2>5. PipelinesBounded' /\ QueueWaits'
    BY <1>1, <1>2, <2>1, <2>2, <2>3, <2>4 DEF PipelinesBounded, QueueWaits
  <2>6. running' \subseteq Task /\ vqueue' \in Seq(Task)
    BY <1>1, <2>1
  <2>. QED BY <2>2, <2>5, <2>6
<1>3. ASSUME ~(Cardinality(running) < slots)
      PROVE  /\ running' \subseteq Task /\ IsFiniteSet(running') /\ vqueue' \in Seq(Task)
             /\ PipelinesBounded' /\ QueueWaits'
  <2>1. running' = running /\ vqueue' = Append(vqueue, t) /\ vstep' = [vstep EXCEPT ![t] = "wait"]
    BY <1>3 DEF SaveTask, VGoto
  <2>2. Cardinality(running) = slots
    BY <1>1, <1>3 DEF PipelinesBounded
  <2>3. running' = {u \in Task : vstep'[u] \in Pipeline}
    BY <1>1, <2>1 DEF Pipeline
  <2>4. PipelinesBounded'
    BY <1>1, <2>1, <2>2, <2>3 DEF PipelinesBounded
  <2>5. /\ vqueue' \in Seq(Task) /\ Len(vqueue') = Len(vqueue) + 1 /\ Len(vqueue) \in Nat
        /\ \A i \in 1 .. Len(vqueue) : vqueue'[i] = vqueue[i] /\ vqueue[i] \in Task
        /\ vqueue'[Len(vqueue) + 1] = t
    BY <1>1, <2>1
  <2>6. \A i \in 1 .. Len(vqueue) : vstep'[vqueue'[i]] = "wait" /\ vqueue'[i] # t
    BY <1>1, <2>1, <2>5 DEF QueueWaits
  <2>7. vstep'[t] = "wait"
    BY <1>1, <2>1
  <2>8. QueueWaits'
    <3>1. \A i \in 1 .. Len(vqueue') : i \in 1 .. Len(vqueue) \/ i = Len(vqueue) + 1
      BY <2>5
    <3>2. \A i \in 1 .. Len(vqueue') : vstep'[vqueue'[i]] = "wait"
      BY <2>5, <2>6, <2>7, <3>1
    <3>3. ASSUME NEW i \in 1 .. Len(vqueue'), NEW j \in 1 .. Len(vqueue'), vqueue'[i] = vqueue'[j]
          PROVE  i = j
      BY <2>5, <2>6, <3>1, <3>3 DEF QueueWaits
    <3>. QED BY <3>2, <3>3 DEF QueueWaits
  <2>. QED BY <1>1, <2>1, <2>4, <2>5, <2>8
<1>4. /\ vstep' \in [Task -> VSteps] /\ vstep'[t] \in {"init", "wait"}
      /\ \A u \in Task \ {t} : vstep'[u] = vstep[u]
      /\ row' = [row EXCEPT ![t] = "pending"]
      /\ UNCHANGED <<text, page, vectors, seen, txt, tangled, slots, poll, deletion>>
  BY <1>1 DEF SaveTask, VGoto, Row, VSteps, bookVars
<1>5. VecTypeOK' /\ VecBooksOK'
  BY <1>2, <1>3, <1>4 DEF VecTypeOK, VecBooksOK
<1>6. OutcomesCome' /\ WriterComes'
  BY <1>1, <1>4 DEF OutcomesCome, WriterComes, WillWrite, Pipeline, VecTypeOK
<1>7. PollKnows' /\ AloneAtPage' /\ DoneIsIndexed'
  BY <1>1, <1>4 DEF PollKnows, AloneAtPage, DoneIsIndexed, InProgress
<1>. QED BY <1>2, <1>3, <1>5, <1>6, <1>7

LEMMA SettleDoneVecIInv ==
  ASSUME VecIInv, NEW t \in Task, SettleDone(t)
  PROVE  VecIInv'
<1>. USE VecAssumption DEF VecIInv
<1>1. /\ running' \subseteq Task /\ IsFiniteSet(running') /\ vqueue' \in Seq(Task)
      /\ vstep' \in [Task -> VSteps] /\ PipelinesBounded' /\ QueueWaits' /\ vstep'[t] = "end"
      /\ \A u \in Task \ {t} :
           vstep'[u] = vstep[u] \/ (vstep[u] = "wait" /\ vstep'[u] = "init")
  BY SlotHandedOver DEF SettleDone, bookVars
<1>2. VecTypeOK' /\ VecBooksOK'
  <2>1. txt' \in [Task -> Texts] /\ \A u \in Task \ {t} : txt'[u] = txt[u]
    BY DEF SettleDone, VecTypeOK, Texts
  <2>2. row' \in [Task -> {"none", "pending", "processing", "done", "failed"}]
    BY DEF SettleDone, Row, VecTypeOK
  <2>. QED BY <1>1, <2>1, <2>2 DEF SettleDone, VecTypeOK, VecBooksOK, bookVars
<1>3. OutcomesCome'
  BY <1>1 DEF SettleDone, Row, OutcomesCome, VecTypeOK
<1>4. WriterComes'
  BY <1>1 DEF SettleDone, Persist, WriterComes, WillWrite, Pipeline, VecTypeOK
<1>5. PollKnows' /\ AloneAtPage' /\ DoneIsIndexed'
  BY <1>1 DEF SettleDone, Persist, PollKnows, AloneAtPage, DoneIsIndexed, InProgress, Pipeline,
       VecTypeOK, bookVars
<1>. QED BY <1>1, <1>2, <1>3, <1>4, <1>5

LEMMA FailPageVecIInv ==
  ASSUME VecIInv, NEW t \in Task, FailPage(t)
  PROVE  VecIInv'
<1>. USE VecAssumption DEF VecIInv
<1>1. /\ running' \subseteq Task /\ IsFiniteSet(running') /\ vqueue' \in Seq(Task)
      /\ vstep' \in [Task -> VSteps] /\ PipelinesBounded' /\ QueueWaits' /\ vstep'[t] = "end"
      /\ \A u \in Task \ {t} :
           vstep'[u] = vstep[u] \/ (vstep[u] = "wait" /\ vstep'[u] = "init")
  BY SlotHandedOver DEF FailPage, bookVars
<1>2. VecTypeOK' /\ VecBooksOK'
  BY <1>1 DEF FailPage, Row, Persist, VecTypeOK, VecBooksOK, PageStatuses, bookVars
<1>3. OutcomesCome'
  BY <1>1 DEF FailPage, Row, OutcomesCome, VecTypeOK
<1>4. WriterComes'
  BY <1>1 DEF FailPage, Persist, WriterComes, WillWrite, VecTypeOK
<1>5. PollKnows' /\ AloneAtPage' /\ DoneIsIndexed'
  BY <1>1 DEF FailPage, Persist, PollKnows, AloneAtPage, DoneIsIndexed, InProgress, Pipeline,
       VecTypeOK, bookVars
<1>. QED BY <1>1, <1>2, <1>3, <1>4, <1>5

LEMMA NewTextVecIInv ==
  ASSUME VecIInv, NewText
  PROVE  VecIInv'
<1>. USE VecAssumption DEF VecIInv
<1>1. VecTypeOK' /\ VecBooksOK'
  BY DEF NewText, Persist, Tangle, VecTypeOK, VecBooksOK, Texts, PageStatuses, NoPage, bookVars
<1>2. PipelinesBounded' /\ QueueWaits' /\ OutcomesCome'
  BY DEF NewText, PipelinesBounded, QueueWaits, OutcomesCome, bookVars
<1>3. WriterComes' /\ PollKnows'
  BY DEF NewText, WriterComes, WillWrite, PollKnows, VecTypeOK, VecBooksOK, bookVars
<1>4. AloneAtPage' /\ DoneIsIndexed'
  BY DEF NewText, Tangle, PollKnows, AloneAtPage, DoneIsIndexed, InProgress, Pipeline, NoPage,
       VecTypeOK, VecBooksOK, bookVars
<1>. QED BY <1>1, <1>2, <1>3, <1>4

LEMMA PollReadVecIInv ==
  ASSUME VecIInv, PollRead
  PROVE  VecIInv'
<1>. USE VecAssumption DEF VecIInv
<1>1. VecTypeOK' /\ VecBooksOK'
  BY DEF PollRead, Tangle, VecTypeOK, VecBooksOK
<1>2. PipelinesBounded' /\ QueueWaits' /\ OutcomesCome'
  BY DEF PollRead, PipelinesBounded, QueueWaits, OutcomesCome
<1>3. WriterComes' /\ PollKnows'
  BY DEF PollRead, Tangle, WriterComes, WillWrite, PollKnows, InProgress, VecTypeOK, VecBooksOK
<1>4. AloneAtPage' /\ DoneIsIndexed'
  BY DEF PollRead, Tangle, PollKnows, AloneAtPage, DoneIsIndexed, InProgress, VecTypeOK,
       VecBooksOK
<1>. QED BY <1>1, <1>2, <1>3, <1>4

LEMMA PollCountVecIInv ==
  ASSUME VecIInv, PollCount
  PROVE  VecIInv'
<1>. USE VecAssumption DEF VecIInv
<1>1. VecTypeOK' /\ VecBooksOK'
  BY DEF PollCount, VecTypeOK, VecBooksOK
<1>2. PipelinesBounded' /\ QueueWaits' /\ OutcomesCome'
  BY DEF PollCount, PipelinesBounded, QueueWaits, OutcomesCome
<1>3. WriterComes' /\ PollKnows'
  BY DEF PollCount, WriterComes, WillWrite, PollKnows, VecTypeOK, VecBooksOK
<1>4. AloneAtPage' /\ DoneIsIndexed'
  BY DEF PollCount, Tangle, PollKnows, AloneAtPage, DoneIsIndexed, InProgress, Pipeline, NoPage,
       VecTypeOK, VecBooksOK, bookVars
<1>. QED BY <1>1, <1>2, <1>3, <1>4

LEMMA PollHealVecIInv ==
  ASSUME VecIInv, PollHeal
  PROVE  VecIInv'
<1>. USE VecAssumption DEF VecIInv
<1>1. VecTypeOK' /\ VecBooksOK'
  <2>1. poll.rec \in [status : PageStatuses, hash : Texts] /\ page \in [status : PageStatuses, hash : Texts]
    BY DEF VecTypeOK, VecBooksOK
  <2>2. \A rec \in [status : PageStatuses, hash : Texts], st \in {"failed", "done"} :
          [rec EXCEPT !.status = st] \in [status : PageStatuses, hash : Texts]
    BY DEF PageStatuses
  <2>3. page' \in [status : PageStatuses, hash : Texts]
    BY <2>1, <2>2 DEF PollHeal
  <2>4. poll' \in [step : {"idle", "count", "heal", "over"},
                    rec : [status : PageStatuses, hash : Texts], count : BOOLEAN]
    BY DEF PollHeal, NoPage, PageStatuses, Texts
  <2>. QED BY <2>3, <2>4 DEF PollHeal, Tangle, VecTypeOK, VecBooksOK
<1>2. PipelinesBounded' /\ QueueWaits' /\ OutcomesCome'
  BY DEF PollHeal, PipelinesBounded, QueueWaits, OutcomesCome
<1>3. WriterComes' /\ PollKnows'
  BY DEF PollHeal, WriterComes, WillWrite, PollKnows, VecTypeOK, VecBooksOK
<1>4. AloneAtPage' /\ DoneIsIndexed'
  BY DEF PollHeal, Tangle, PollKnows, AloneAtPage, DoneIsIndexed, InProgress, Pipeline, NoPage,
       VecTypeOK, VecBooksOK, bookVars
<1>. QED BY <1>1, <1>2, <1>3, <1>4

LEMMA DeleteVectorsVecIInv ==
  ASSUME VecIInv, DeleteVectors
  PROVE  VecIInv'
<1>. USE VecAssumption DEF VecIInv
<1>1. VecTypeOK' /\ VecBooksOK'
  BY DEF DeleteVectors, VecTypeOK, VecBooksOK
<1>2. PipelinesBounded' /\ QueueWaits' /\ OutcomesCome'
  BY DEF DeleteVectors, PipelinesBounded, QueueWaits, OutcomesCome
<1>3. WriterComes' /\ PollKnows'
  BY DEF DeleteVectors, WriterComes, WillWrite, PollKnows, VecTypeOK, VecBooksOK
<1>4. AloneAtPage' /\ DoneIsIndexed'
  BY DEF DeleteVectors, PollKnows, AloneAtPage, DoneIsIndexed, InProgress, Pipeline, VecTypeOK,
       VecBooksOK
<1>. QED BY <1>1, <1>2, <1>3, <1>4

LEMMA DeletePagesVecIInv ==
  ASSUME VecIInv, DeletePages
  PROVE  VecIInv'
<1>. USE VecAssumption DEF VecIInv
<1>1. VecTypeOK' /\ VecBooksOK'
  BY DEF DeletePages, Persist, Tangle, VecTypeOK, VecBooksOK, Texts, PageStatuses, NoPage,
       bookVars
<1>2. PipelinesBounded' /\ QueueWaits' /\ OutcomesCome'
  BY DEF DeletePages, PipelinesBounded, QueueWaits, OutcomesCome
<1>3. WriterComes' /\ PollKnows'
  BY DEF DeletePages, WriterComes, WillWrite, PollKnows, InProgress, NoPage, VecTypeOK,
       VecBooksOK
<1>4. AloneAtPage' /\ DoneIsIndexed'
  BY DEF DeletePages, PollKnows, AloneAtPage, DoneIsIndexed, InProgress, Pipeline, NoPage,
       VecTypeOK, VecBooksOK
<1>. QED BY <1>1, <1>2, <1>3, <1>4

LEMMA VecInitIInv ==
  ASSUME VecInit
  PROVE  VecIInv
<1>1. VecTypeOK
  BY VecAssumption DEF VecInit, VecTypeOK, NoPage, PageStatuses, Texts, VSteps
<1>2. running = {t \in Task : vstep[t] \in Pipeline}
  BY DEF VecInit, Pipeline
<1>3. IsFiniteSet(running) /\ Cardinality(running) = 0 /\ slots \in Nat \ {0}
  BY VecAssumption, FS_EmptySet DEF VecInit
<1>4. PipelinesBounded
  BY <1>2, <1>3 DEF VecInit, PipelinesBounded
<1>5. VecBooksOK
  <2>1. poll \in [step : {"idle", "count", "heal", "over"},
                 rec : [status : PageStatuses, hash : Texts], count : BOOLEAN]
    BY VecAssumption DEF VecInit, NoPage, PageStatuses, Texts
  <2>. QED BY <1>3, <2>1 DEF VecInit, VecBooksOK
<1>6. QueueWaits /\ OutcomesCome /\ WriterComes /\ PollKnows
  BY DEF VecInit, QueueWaits, OutcomesCome, WriterComes, PollKnows, NoPage
<1>7. AloneAtPage /\ DoneIsIndexed
  BY DEF VecInit, AloneAtPage, DoneIsIndexed, InProgress, Pipeline, NoPage
<1>. QED BY <1>1, <1>4, <1>5, <1>6, <1>7 DEF VecIInv

LEMMA VecNextIInv ==
  ASSUME VecIInv, [VecNext]_vecVars
  PROVE  VecIInv'
<1>1. ASSUME NEW t \in Task, 
             Request(t) \/ WritePending(t) \/ SaveTask(t) \/ InitPhase(t) \/
             MarkProcessing(t) \/ AsrPhase(t) \/ ClearVectors(t) \/ EmbedAndDelete(t) \/
             InsertRows(t) \/ FinishPage(t) \/ SettleDone(t) \/ SettleFailed(t) \/
             FailPage(t)
      PROVE  VecIInv'
  BY <1>1, RequestVecIInv, WritePendingVecIInv, SaveTaskVecIInv, InitPhaseVecIInv,
     MarkProcessingVecIInv, AsrPhaseVecIInv, ClearVectorsVecIInv, EmbedAndDeleteVecIInv,
     InsertRowsVecIInv, FinishPageVecIInv, SettleDoneVecIInv, SettleFailedVecIInv,
     FailPageVecIInv
<1>2. ASSUME NewText \/ PollRead \/ PollCount \/ PollHeal \/ DeleteVectors \/ DeletePages
      PROVE  VecIInv'
  BY <1>2, NewTextVecIInv, PollReadVecIInv, PollCountVecIInv, PollHealVecIInv,
     DeleteVectorsVecIInv, DeletePagesVecIInv
<1>3. CASE UNCHANGED vecVars
  BY <1>3 DEF vecVars, VecIInv, VecTypeOK, VecBooksOK, PipelinesBounded, QueueWaits,
     OutcomesCome, WriterComes, PollKnows, AloneAtPage, DoneIsIndexed, InProgress
<1>. QED BY <1>1, <1>2, <1>3 DEF VecNext, VecStep

LEMMA PagesAreBacked ==
  ASSUME VecIInv
  PROVE  PendingIsBacked
  BY DEF VecIInv, WriterComes, WillWrite, PendingIsBacked, InProgress, Pipeline

(* An outcome stands.                                                        *)
OutcomesStand == \A t \in Task : row[t] \in {"done", "failed"} => row'[t] = row[t]

LEMMA OutcomeStays ==
  ASSUME VecIInv, [VecNext]_vecVars
  PROVE  OutcomesStand
<1>1. ASSUME NEW t \in Task,
             SaveTask(t) \/ InitPhase(t) \/ SettleDone(t) \/ SettleFailed(t)
      PROVE  OutcomesStand
  BY <1>1 DEF OutcomesStand, SaveTask, InitPhase, SettleDone, SettleFailed, Row, VecIInv,
       VecTypeOK, OutcomesCome
<1>2. ASSUME NEW t \in Task,
             Request(t) \/ WritePending(t) \/ MarkProcessing(t) \/ AsrPhase(t) \/
             ClearVectors(t) \/ EmbedAndDelete(t) \/ InsertRows(t) \/ FinishPage(t) \/
             FailPage(t)
      PROVE  OutcomesStand
  BY <1>2 DEF OutcomesStand, Request, WritePending, MarkProcessing, AsrPhase, ClearVectors,
       EmbedAndDelete, InsertRows, FinishPage, FailPage
<1>3. ASSUME NewText \/ PollRead \/ PollCount \/ PollHeal \/ DeleteVectors \/ DeletePages
      PROVE  OutcomesStand
  BY <1>3 DEF OutcomesStand, NewText, PollRead, PollCount, PollHeal, DeleteVectors, DeletePages
<1>4. CASE UNCHANGED vecVars
  BY <1>4 DEF OutcomesStand, vecVars
<1>. QED BY <1>1, <1>2, <1>3, <1>4 DEF VecNext, VecStep


-----------------------------------------------------------------------------
(* KgBuild                                                                   *)

(* A run has its record open, and has read no page before its version.       *)
RunsKnow ==
  /\ crashes \in 0 .. 1 /\ overlap \in BOOLEAN
  /\ \A r \in Req :
       /\ kstep[r] \in Running => build[r] = "processing"
       /\ kind = "page" /\ kstep[r] \in {"new", "scope", "save", "select", "begin", "read"}
            => got[r] = 0
       /\ kstep[r] \in {"select", "clear"} => kind = "page"
       /\ kstep[r] = "mark" => kind = "doc"
       /\ kstep[r] \in {"mark", "clear", "extract", "confirm"} => got[r] # 0
       /\ kstep[r] \in {"clear", "extract", "confirm"} /\ kind = "page" => got[r] >= aim[r]

(* While no two runs met at the item, the one at work finds it as it left it.*)
(* A page is in processing until its evidence is complete; a document loses  *)
(* its old state only when the ledger says so.                               *)
WorksOn(r) ==
  /\ \/ kstep[r] \in {"extract", "confirm"}
     \/ kstep[r] \in {"read", "clear", "failItem"} /\ kind = "page"
     => item.status = "processing"
  /\ kstep[r] = "extract" /\ kind = "page" => evidence = {}
  /\ kstep[r] = "confirm" => evidence = {got[r]}
AtWork == AtItem \ {"begin"}
AloneAtItem ==
  ~overlap => /\ \A r, o \in Req : kstep[r] \in AtWork /\ kstep[o] \in AtWork => r = o
              /\ \A r \in Req : WorksOn(r)

KgIInv == KgTypeOK /\ ProcessingIsBacked /\ RunsKnow /\ AloneAtItem /\ DoneItemHasEvidence

LEMMA NewSourceKgIInv ==
  ASSUME KgIInv, NewSource
  PROVE  KgIInv'
<1>. USE DEF KgIInv
<1>1. KgTypeOK'
  BY KgAssumption DEF NewSource, KgTypeOK
<1>2. ProcessingIsBacked' /\ RunsKnow'
  BY KgAssumption DEF NewSource, ProcessingIsBacked, RunsKnow, KgTypeOK
<1>3. AloneAtItem'
  BY KgAssumption DEF NewSource, RunsKnow, AloneAtItem, AtWork, WorksOn, KgTypeOK
<1>4. DoneItemHasEvidence'
  BY KgAssumption DEF NewSource, RunsKnow, AloneAtItem, AtWork, WorksOn, DoneItemHasEvidence,
       KgTypeOK
<1>. QED BY <1>1, <1>2, <1>3, <1>4

LEMMA LearnVersionKgIInv ==
  ASSUME KgIInv, LearnVersion
  PROVE  KgIInv'
<1>. USE DEF KgIInv
<1>1. KgTypeOK'
  BY KgAssumption DEF LearnVersion, KgTypeOK
<1>2. ProcessingIsBacked' /\ RunsKnow'
  BY KgAssumption DEF LearnVersion, ProcessingIsBacked, RunsKnow, KgTypeOK
<1>3. AloneAtItem'
  BY KgAssumption DEF LearnVersion, RunsKnow, AloneAtItem, AtWork, WorksOn, KgTypeOK
<1>4. DoneItemHasEvidence'
  BY KgAssumption DEF LearnVersion, RunsKnow, AloneAtItem, AtWork, WorksOn, DoneItemHasEvidence,
       KgTypeOK
<1>. QED BY <1>1, <1>2, <1>3, <1>4

LEMMA CrashKgKgIInv ==
  ASSUME KgIInv, CrashKg
  PROVE  KgIInv'
<1>. USE DEF KgIInv
<1>1. KgTypeOK'
  BY KgAssumption DEF CrashKg, KGoto, Item, PagePending, kgWorld, KgTypeOK, KSteps, Running,
       AtItem
<1>2. ProcessingIsBacked' /\ RunsKnow'
  BY KgAssumption DEF CrashKg, ProcessingIsBacked, RunsKnow, KgTypeOK, Running, AtItem
<1>3. AloneAtItem'
  BY KgAssumption DEF CrashKg, RunsKnow, AloneAtItem, AtWork, WorksOn, KgTypeOK, Running, AtItem
<1>4. DoneItemHasEvidence'
  BY KgAssumption DEF CrashKg, RunsKnow, AloneAtItem, AtWork, WorksOn, DoneItemHasEvidence,
       KgTypeOK
<1>. QED BY <1>1, <1>2, <1>3, <1>4

LEMMA FindActiveKgIInv ==
  ASSUME KgIInv, NEW r \in Req, FindActive(r)
  PROVE  KgIInv'
<1>. USE DEF KgIInv
<1>1. KgTypeOK'
  BY KgAssumption DEF FindActive, KGoto, Item, PagePending, kgWorld, KgTypeOK, KSteps, Running,
       AtItem
<1>2. ProcessingIsBacked' /\ RunsKnow'
  BY KgAssumption DEF FindActive, KGoto, Item, ProcessingIsBacked, RunsKnow, kgWorld, KgTypeOK,
       KSteps, Running, AtItem
<1>3. AloneAtItem'
  BY KgAssumption DEF FindActive, KGoto, Item, RunsKnow, AloneAtItem, AtWork, WorksOn, kgWorld,
       KgTypeOK, KSteps, Running, AtItem
<1>4. DoneItemHasEvidence'
  BY KgAssumption DEF FindActive, RunsKnow, AloneAtItem, AtWork, WorksOn, DoneItemHasEvidence,
       KgTypeOK
<1>. QED BY <1>1, <1>2, <1>3, <1>4

LEMMA ResolveScopeKgIInv ==
  ASSUME KgIInv, NEW r \in Req, ResolveScope(r)
  PROVE  KgIInv'
<1>. USE DEF KgIInv
<1>1. KgTypeOK'
  BY KgAssumption DEF ResolveScope, KGoto, Item, PagePending, kgWorld, KgTypeOK, KSteps, Running,
       AtItem
<1>2. ProcessingIsBacked' /\ RunsKnow'
  BY KgAssumption DEF ResolveScope, KGoto, Item, ProcessingIsBacked, RunsKnow, kgWorld, KgTypeOK,
       KSteps, Running, AtItem
<1>3. AloneAtItem'
  BY KgAssumption DEF ResolveScope, KGoto, Item, RunsKnow, AloneAtItem, AtWork, WorksOn, kgWorld,
       KgTypeOK, KSteps, Running, AtItem
<1>4. DoneItemHasEvidence'
  BY KgAssumption DEF ResolveScope, RunsKnow, AloneAtItem, AtWork, WorksOn, DoneItemHasEvidence,
       KgTypeOK
<1>. QED BY <1>1, <1>2, <1>3, <1>4

LEMMA SaveRecordKgIInv ==
  ASSUME KgIInv, NEW r \in Req, SaveRecord(r)
  PROVE  KgIInv'
<1>. USE DEF KgIInv
<1>1. KgTypeOK'
  BY KgAssumption DEF SaveRecord, KGoto, Item, PagePending, kgWorld, KgTypeOK, KSteps, Running,
       AtItem
<1>2. ProcessingIsBacked' /\ RunsKnow'
  BY KgAssumption DEF SaveRecord, KGoto, Item, ProcessingIsBacked, RunsKnow, kgWorld, KgTypeOK,
       KSteps, Running, AtItem
<1>3. AloneAtItem'
  BY KgAssumption DEF SaveRecord, KGoto, Item, RunsKnow, AloneAtItem, AtWork, WorksOn, kgWorld,
       KgTypeOK, KSteps, Running, AtItem
<1>4. DoneItemHasEvidence'
  BY KgAssumption DEF SaveRecord, RunsKnow, AloneAtItem, AtWork, WorksOn, DoneItemHasEvidence,
       KgTypeOK
<1>. QED BY <1>1, <1>2, <1>3, <1>4

LEMMA SelectPagesKgIInv ==
  ASSUME KgIInv, NEW r \in Req, SelectPages(r)
  PROVE  KgIInv'
<1>. USE DEF KgIInv
<1>1. KgTypeOK'
  BY KgAssumption DEF SelectPages, KGoto, Item, PagePending, kgWorld, KgTypeOK, KSteps, Running,
       AtItem
<1>2. ProcessingIsBacked' /\ RunsKnow'
  BY KgAssumption DEF SelectPages, KGoto, Item, ProcessingIsBacked, RunsKnow, kgWorld, KgTypeOK,
       KSteps, Running, AtItem
<1>3. AloneAtItem'
  BY KgAssumption DEF SelectPages, KGoto, Item, RunsKnow, AloneAtItem, AtWork, WorksOn, kgWorld,
       KgTypeOK, KSteps, Running, AtItem
<1>4. DoneItemHasEvidence'
  BY KgAssumption DEF SelectPages, RunsKnow, AloneAtItem, AtWork, WorksOn, DoneItemHasEvidence,
       KgTypeOK
<1>. QED BY <1>1, <1>2, <1>3, <1>4

LEMMA BeginItemKgIInv ==
  ASSUME KgIInv, NEW r \in Req, BeginItem(r)
  PROVE  KgIInv'
<1>. USE DEF KgIInv
<1>1. KgTypeOK'
  BY KgAssumption DEF BeginItem, KGoto, Item, PagePending, kgWorld, KgTypeOK, KSteps, Running,
       AtItem
<1>2. ProcessingIsBacked' /\ RunsKnow'
  BY KgAssumption DEF BeginItem, KGoto, Item, ProcessingIsBacked, RunsKnow, kgWorld, KgTypeOK,
       KSteps, Running, AtItem
<1>3. AloneAtItem'
  <2> SUFFICES ASSUME ~overlap'
               PROVE  /\ \A q, o \in Req : kstep'[q] \in AtWork /\ kstep'[o] \in AtWork => q = o
                      /\ \A q \in Req : WorksOn(q)'
    BY KgAssumption DEF AloneAtItem
  <2>1. ~overlap /\ \A o \in Req \ {r} : kstep[o] \notin AtWork /\ kstep'[o] = kstep[o]
    BY KgAssumption DEF BeginItem, KGoto, RunsKnow, AloneAtItem, AtWork, kgWorld, KgTypeOK,
         AtItem
  <2>2. \A o \in Req \ {r} : WorksOn(o)'
    BY <2>1 DEF AtWork, AtItem, WorksOn
  <2>3. WorksOn(r)'
    BY <2>1, KgAssumption DEF BeginItem, KGoto, Item, RunsKnow, AloneAtItem, WorksOn, kgWorld,
         KgTypeOK, AtItem
  <2>. QED BY <2>1, <2>2, <2>3
<1>4. DoneItemHasEvidence'
  <2>1. ~overlap' => ~overlap
    BY DEF BeginItem, RunsKnow
  <2>2. evidence' = evidence /\ (item' = item \/ item'.status = "processing")
    BY DEF BeginItem, Item
  <2>. QED BY <2>1, <2>2 DEF DoneItemHasEvidence
<1>. QED BY <1>1, <1>2, <1>3, <1>4

LEMMA ReadTextKgIInv ==
  ASSUME KgIInv, NEW r \in Req, ReadText(r)
  PROVE  KgIInv'
<1>. USE DEF KgIInv
<1>1. KgTypeOK'
  BY KgAssumption DEF ReadText, KGoto, Item, PagePending, kgWorld, KgTypeOK, KSteps, Running,
       AtItem
<1>2. ProcessingIsBacked' /\ RunsKnow'
  BY KgAssumption DEF ReadText, KGoto, Item, ProcessingIsBacked, RunsKnow, kgWorld, KgTypeOK,
       KSteps, Running, AtItem
<1>3. AloneAtItem'
  BY KgAssumption DEF ReadText, KGoto, Item, RunsKnow, AloneAtItem, AtWork, WorksOn, kgWorld,
       KgTypeOK, KSteps, Running, AtItem
<1>4. DoneItemHasEvidence'
  BY KgAssumption DEF ReadText, RunsKnow, AloneAtItem, AtWork, WorksOn, DoneItemHasEvidence,
       KgTypeOK
<1>. QED BY <1>1, <1>2, <1>3, <1>4

LEMMA MarkDocKgIInv ==
  ASSUME KgIInv, NEW r \in Req, MarkDoc(r)
  PROVE  KgIInv'
<1>. USE DEF KgIInv
<1>1. KgTypeOK'
  BY KgAssumption DEF MarkDoc, KGoto, Item, PagePending, kgWorld, KgTypeOK, KSteps, Running,
       AtItem
<1>2. ProcessingIsBacked' /\ RunsKnow'
  BY KgAssumption DEF MarkDoc, KGoto, Item, ProcessingIsBacked, RunsKnow, kgWorld, KgTypeOK,
       KSteps, Running, AtItem
<1>3. AloneAtItem'
  <2> SUFFICES ASSUME ~overlap'
               PROVE  /\ \A q, o \in Req : kstep'[q] \in AtWork /\ kstep'[o] \in AtWork => q = o
                      /\ \A q \in Req : WorksOn(q)'
    BY KgAssumption DEF AloneAtItem
  <2>1. ~overlap /\ \A o \in Req \ {r} : kstep[o] \notin AtWork /\ kstep'[o] = kstep[o]
    BY KgAssumption DEF MarkDoc, KGoto, RunsKnow, AloneAtItem, AtWork, kgWorld, KgTypeOK, KSteps,
         Running, AtItem
  <2>2. \A o \in Req \ {r} : WorksOn(o)'
    BY <2>1 DEF AtWork, AtItem, WorksOn
  <2>3. WorksOn(r)'
    BY <2>1, KgAssumption DEF MarkDoc, KGoto, Item, RunsKnow, AloneAtItem, WorksOn, kgWorld,
         KgTypeOK
  <2>. QED BY <2>1, <2>2, <2>3
<1>4. DoneItemHasEvidence'
  BY KgAssumption DEF MarkDoc, KGoto, Item, RunsKnow, AloneAtItem, AtWork, WorksOn,
       DoneItemHasEvidence, kgWorld, KgTypeOK
<1>. QED BY <1>1, <1>2, <1>3, <1>4

LEMMA ClearEvidenceKgIInv ==
  ASSUME KgIInv, NEW r \in Req, ClearEvidence(r)
  PROVE  KgIInv'
<1>. USE DEF KgIInv
<1>1. KgTypeOK'
  BY KgAssumption DEF ClearEvidence, KGoto, Item, PagePending, kgWorld, KgTypeOK, KSteps,
       Running, AtItem
<1>2. ProcessingIsBacked' /\ RunsKnow'
  BY KgAssumption DEF ClearEvidence, KGoto, Item, ProcessingIsBacked, RunsKnow, kgWorld,
       KgTypeOK, KSteps, Running, AtItem
<1>3. AloneAtItem'
  <2> SUFFICES ASSUME ~overlap'
               PROVE  /\ \A q, o \in Req : kstep'[q] \in AtWork /\ kstep'[o] \in AtWork => q = o
                      /\ \A q \in Req : WorksOn(q)'
    BY KgAssumption DEF AloneAtItem
  <2>1. ~overlap /\ \A o \in Req \ {r} : kstep[o] \notin AtWork /\ kstep'[o] = kstep[o]
    BY KgAssumption DEF ClearEvidence, KGoto, RunsKnow, AloneAtItem, AtWork, kgWorld, KgTypeOK,
         KSteps, Running, AtItem
  <2>2. \A o \in Req \ {r} : WorksOn(o)'
    BY <2>1 DEF AtWork, AtItem, WorksOn
  <2>3. WorksOn(r)'
    BY <2>1, KgAssumption DEF ClearEvidence, KGoto, RunsKnow, AloneAtItem, WorksOn, KgTypeOK
  <2>. QED BY <2>1, <2>2, <2>3
<1>4. DoneItemHasEvidence'
  BY KgAssumption DEF ClearEvidence, KGoto, RunsKnow, AloneAtItem, AtWork, WorksOn,
       DoneItemHasEvidence, KgTypeOK
<1>. QED BY <1>1, <1>2, <1>3, <1>4

LEMMA ExtractAndLinkKgIInv ==
  ASSUME KgIInv, NEW r \in Req, ExtractAndLink(r)
  PROVE  KgIInv'
<1>. USE DEF KgIInv
<1>1. KgTypeOK'
  <2>1. got[r] \in 1 .. MaxVer
    BY KgAssumption DEF ExtractAndLink, RunsKnow, KgTypeOK
  <2>2. evidence' \subseteq 1 .. MaxVer
    BY <2>1 DEF ExtractAndLink, KgTypeOK
  <2>. QED
    BY <2>2, KgAssumption DEF ExtractAndLink, KGoto, kgWorld, KgTypeOK, KSteps, Running, AtItem
<1>2. ProcessingIsBacked' /\ RunsKnow'
  BY KgAssumption DEF ExtractAndLink, KGoto, Item, ProcessingIsBacked, RunsKnow, kgWorld,
       KgTypeOK, KSteps, Running, AtItem
<1>3. AloneAtItem'
  <2> SUFFICES ASSUME ~overlap'
               PROVE  /\ \A q, o \in Req : kstep'[q] \in AtWork /\ kstep'[o] \in AtWork => q = o
                      /\ \A q \in Req : WorksOn(q)'
    BY KgAssumption DEF AloneAtItem
  <2>1. ~overlap /\ \A o \in Req \ {r} : kstep[o] \notin AtWork /\ kstep'[o] = kstep[o]
    BY KgAssumption DEF ExtractAndLink, KGoto, RunsKnow, AloneAtItem, AtWork, kgWorld, KgTypeOK,
         KSteps, Running, AtItem
  <2>2. \A o \in Req \ {r} : WorksOn(o)'
    BY <2>1 DEF AtWork, AtItem, WorksOn
  <2>3. WorksOn(r)'
    BY <2>1, KgAssumption DEF ExtractAndLink, KGoto, RunsKnow, AloneAtItem, WorksOn, kgWorld,
         KgTypeOK
  <2>. QED BY <2>1, <2>2, <2>3
<1>4. DoneItemHasEvidence'
  BY KgAssumption DEF ExtractAndLink, RunsKnow, AloneAtItem, AtWork, WorksOn,
       DoneItemHasEvidence, KgTypeOK
<1>. QED BY <1>1, <1>2, <1>3, <1>4

LEMMA ConfirmKgIInv ==
  ASSUME KgIInv, NEW r \in Req, Confirm(r)
  PROVE  KgIInv'
<1>. USE DEF KgIInv
<1>1. KgTypeOK'
  BY KgAssumption DEF Confirm, KGoto, Item, PagePending, kgWorld, KgTypeOK, KSteps, Running,
       AtItem
<1>2. ProcessingIsBacked' /\ RunsKnow'
  BY KgAssumption DEF Confirm, KGoto, Item, ProcessingIsBacked, RunsKnow, kgWorld, KgTypeOK,
       KSteps, Running, AtItem
<1>3. AloneAtItem'
  BY KgAssumption DEF Confirm, KGoto, Item, RunsKnow, AloneAtItem, AtWork, WorksOn, kgWorld,
       KgTypeOK, KSteps, Running, AtItem
<1>4. DoneItemHasEvidence'
  BY KgAssumption DEF Confirm, KGoto, Item, RunsKnow, AloneAtItem, AtWork, WorksOn,
       DoneItemHasEvidence, kgWorld, KgTypeOK
<1>. QED BY <1>1, <1>2, <1>3, <1>4

LEMMA FailItemKgIInv ==
  ASSUME KgIInv, NEW r \in Req, FailItem(r)
  PROVE  KgIInv'
<1>. USE DEF KgIInv
<1>1. KgTypeOK'
  BY KgAssumption DEF FailItem, KGoto, Item, PagePending, kgWorld, KgTypeOK, KSteps, Running,
       AtItem
<1>2. ProcessingIsBacked' /\ RunsKnow'
  BY KgAssumption DEF FailItem, KGoto, Item, ProcessingIsBacked, RunsKnow, kgWorld, KgTypeOK,
       KSteps, Running, AtItem
<1>3. AloneAtItem'
  BY KgAssumption DEF FailItem, KGoto, Item, RunsKnow, AloneAtItem, AtWork, WorksOn, kgWorld,
       KgTypeOK, KSteps, Running, AtItem
<1>4. DoneItemHasEvidence'
  BY KgAssumption DEF FailItem, KGoto, Item, RunsKnow, AloneAtItem, AtWork, WorksOn,
       DoneItemHasEvidence, kgWorld, KgTypeOK
<1>. QED BY <1>1, <1>2, <1>3, <1>4

LEMMA FinalSaveKgIInv ==
  ASSUME KgIInv, NEW r \in Req, FinalSave(r)
  PROVE  KgIInv'
<1>. USE DEF KgIInv
<1>1. KgTypeOK'
  BY KgAssumption DEF FinalSave, KGoto, Item, PagePending, kgWorld, KgTypeOK, KSteps, Running,
       AtItem
<1>2. ProcessingIsBacked' /\ RunsKnow'
  BY KgAssumption DEF FinalSave, KGoto, Item, ProcessingIsBacked, RunsKnow, kgWorld, KgTypeOK,
       KSteps, Running, AtItem
<1>3. AloneAtItem'
  BY KgAssumption DEF FinalSave, KGoto, Item, RunsKnow, AloneAtItem, AtWork, WorksOn, kgWorld,
       KgTypeOK, KSteps, Running, AtItem
<1>4. DoneItemHasEvidence'
  BY KgAssumption DEF FinalSave, RunsKnow, AloneAtItem, AtWork, WorksOn, DoneItemHasEvidence,
       KgTypeOK
<1>. QED BY <1>1, <1>2, <1>3, <1>4

LEMMA KgInitIInv ==
  ASSUME KgInit
  PROVE  KgIInv
<1>1. KgTypeOK
  <2>1. item \in [status : {"none", "processing", "done", "failed"}, ver : 0..MaxVer]
    BY KgAssumption DEF KgInit
  <2>2. kstep \in [Req -> KSteps] /\ \A r \in Req : kstep[r] \notin AtItem
    BY DEF KgInit, KSteps, AtItem
  <2>3. aim \in [Req -> 0..MaxVer] /\ got \in [Req -> 0..MaxVer]
    BY KgAssumption DEF KgInit
  <2>4. build \in [Req -> {"none", "processing", "done", "failed"}]
    BY DEF KgInit
  <2>. QED BY <2>1, <2>2, <2>3, <2>4, KgAssumption DEF KgInit, KgTypeOK
<1>2. ProcessingIsBacked
  BY DEF KgInit, ProcessingIsBacked
<1>3. RunsKnow
  <2>1. crashes \in 0 .. 1
    BY DEF KgInit
  <2>2. overlap \in BOOLEAN
    BY DEF KgInit
  <2>3. \A r \in Req : kstep[r] = "new" /\ got[r] = 0
    BY DEF KgInit
  <2>. QED BY <2>1, <2>2, <2>3 DEF RunsKnow, Running, AtItem
<1>4. AloneAtItem /\ DoneItemHasEvidence
  BY DEF KgInit, AloneAtItem, WorksOn, AtWork, AtItem, DoneItemHasEvidence
<1>. QED BY <1>1, <1>2, <1>3, <1>4 DEF KgIInv

LEMMA KgNextIInv ==
  ASSUME KgIInv, [KgNext]_kgVars
  PROVE  KgIInv'
<1>1. ASSUME NEW r \in Req, 
             FindActive(r) \/ ResolveScope(r) \/ SaveRecord(r) \/ SelectPages(r) \/
             BeginItem(r) \/ ReadText(r) \/ MarkDoc(r) \/ ClearEvidence(r) \/
             ExtractAndLink(r) \/ Confirm(r) \/ FailItem(r) \/ FinalSave(r)
      PROVE  KgIInv'
  BY <1>1, FindActiveKgIInv, ResolveScopeKgIInv, SaveRecordKgIInv, SelectPagesKgIInv,
     BeginItemKgIInv, ReadTextKgIInv, MarkDocKgIInv, ClearEvidenceKgIInv, ExtractAndLinkKgIInv,
     ConfirmKgIInv, FailItemKgIInv, FinalSaveKgIInv
<1>2. ASSUME NewSource \/ LearnVersion
      PROVE  KgIInv'
  BY <1>2, NewSourceKgIInv, LearnVersionKgIInv
<1>c. ASSUME CrashKg
      PROVE  KgIInv'
  BY <1>c, CrashKgKgIInv
<1>3. CASE UNCHANGED kgVars
  BY <1>3 DEF kgVars, kgWorld, KgIInv, KgTypeOK, ProcessingIsBacked, RunsKnow, AloneAtItem,
     WorksOn, DoneItemHasEvidence
<1>. QED BY <1>1, <1>2, <1>c, <1>3 DEF KgNext, KgRun

(* Who goes on from the look at the records saw none processing.             *)
NobodySeenRunning ==
  \A r \in Req : (kstep[r] = "new" /\ kstep'[r] = "scope") => \A o \in Req : kstep[o] \notin Running

LEMMA NoSecondBuild ==
  ASSUME KgIInv, [KgNext]_kgVars
  PROVE  NobodySeenRunning
<1>1. ASSUME NEW r \in Req,
             FindActive(r)
      PROVE  NobodySeenRunning
  BY <1>1 DEF NobodySeenRunning, FindActive, KGoto, KgIInv, KgTypeOK, RunsKnow
<1>2. ASSUME NEW r \in Req,
             ResolveScope(r) \/ SaveRecord(r) \/ SelectPages(r) \/ BeginItem(r) \/
             ReadText(r) \/ MarkDoc(r) \/ ClearEvidence(r) \/ ExtractAndLink(r) \/ Confirm(r)
             \/ FailItem(r) \/ FinalSave(r)
      PROVE  NobodySeenRunning
  BY <1>2 DEF NobodySeenRunning, ResolveScope, SaveRecord, SelectPages, BeginItem, ReadText,
       MarkDoc, ClearEvidence, ExtractAndLink, Confirm, FailItem, FinalSave, KGoto, KgIInv,
       KgTypeOK
<1>3. ASSUME NewSource \/ LearnVersion \/ CrashKg
      PROVE  NobodySeenRunning
  BY <1>3 DEF NobodySeenRunning, NewSource, LearnVersion, CrashKg
<1>4. CASE UNCHANGED kgVars
  BY <1>4 DEF NobodySeenRunning, kgVars
<1>. QED BY <1>1, <1>2, <1>3, <1>4 DEF KgNext, KgRun


-----------------------------------------------------------------------------
(* TaskQuiz                                                                  *)

(* Questions that are ready were written by some call.                       *)
ReadyHasPaper == doubled \in BOOLEAN /\ (doc.status = "ready" => doc.paper # NoCall)

(* While calls did not overlap, the document is as the one at work left it,  *)
(* and who was told of questions was told the truth.                         *)
AtQuiz == Writing \cup {"get"}
OneGeneration ==
  ~doubled =>
    /\ \A g, h \in ExecCall : cstep[g] \in AtQuiz /\ cstep[h] \in AtQuiz => g = h
    /\ \A g \in ExecCall :
         /\ cstep[g] \in {"delete", "mark"} => doc.status # "ready"
         /\ cstep[g] \in {"row", "generate", "ready", "failed"} => doc.status = "generating"
    /\ sched = "completed" \/ (\E m \in mail : m[2] = "completed") => doc.status = "ready"

QuizIInv == QuizTypeOK /\ ReadyHasPaper /\ OneGeneration

LEMMA DispatchQuizIInv ==
  ASSUME QuizIInv, NEW g \in ExecCall, Dispatch(g)
  PROVE  QuizIInv'
<1>. USE DEF QuizIInv
<1>1. QuizTypeOK'
  BY QuizAssumption DEF Dispatch, QuizTypeOK, CGoto, userVars, Writing
<1>2. ReadyHasPaper'
  BY QuizAssumption DEF Dispatch, QuizTypeOK, ReadyHasPaper
<1>3. OneGeneration'
  BY QuizAssumption DEF Dispatch, QuizTypeOK, ReadyHasPaper, OneGeneration, AtQuiz, CGoto,
       userVars, Writing
<1>. QED BY <1>1, <1>2, <1>3

LEMMA GetDocQuizIInv ==
  ASSUME QuizIInv, NEW g \in ExecCall, GetDoc(g)
  PROVE  QuizIInv'
<1>. USE DEF QuizIInv
<1>1. QuizTypeOK'
  BY QuizAssumption DEF GetDoc, QuizTypeOK, CGoto, Answered, Lose, SetDoc, NoDoc, Tell, userVars,
       Writing
<1>2. ReadyHasPaper'
  BY QuizAssumption DEF GetDoc, QuizTypeOK, ReadyHasPaper
<1>3. OneGeneration'
  BY QuizAssumption DEF GetDoc, QuizTypeOK, ReadyHasPaper, OneGeneration, AtQuiz, CGoto,
       Answered, userVars
<1>. QED BY <1>1, <1>2, <1>3

LEMMA DeleteIfFailedQuizIInv ==
  ASSUME QuizIInv, NEW g \in ExecCall, DeleteIfFailed(g)
  PROVE  QuizIInv'
<1>. USE DEF QuizIInv
<1>1. QuizTypeOK'
  BY QuizAssumption DEF DeleteIfFailed, QuizTypeOK, CGoto, Answered, Lose, SetDoc, NoDoc, Tell,
       userVars, Writing
<1>2. ReadyHasPaper'
  BY QuizAssumption DEF DeleteIfFailed, QuizTypeOK, ReadyHasPaper, CGoto, NoDoc, userVars
<1>3. OneGeneration'
  BY QuizAssumption DEF DeleteIfFailed, QuizTypeOK, ReadyHasPaper, OneGeneration, AtQuiz, CGoto,
       NoDoc, userVars
<1>. QED BY <1>1, <1>2, <1>3

LEMMA MarkGeneratingQuizIInv ==
  ASSUME QuizIInv, NEW g \in ExecCall, MarkGenerating(g)
  PROVE  QuizIInv'
<1>. USE DEF QuizIInv
<1>1. QuizTypeOK'
  BY QuizAssumption DEF MarkGenerating, QuizTypeOK, CGoto, Answered, Lose, SetDoc, NoDoc, Tell,
       userVars, Writing
<1>2. ReadyHasPaper'
  BY QuizAssumption DEF MarkGenerating, QuizTypeOK, ReadyHasPaper
<1>3. OneGeneration'
  BY QuizAssumption DEF MarkGenerating, QuizTypeOK, ReadyHasPaper, OneGeneration, AtQuiz, CGoto,
       Answered, userVars
<1>. QED BY <1>1, <1>2, <1>3

LEMMA CreateRowQuizIInv ==
  ASSUME QuizIInv, NEW g \in ExecCall, CreateRow(g)
  PROVE  QuizIInv'
<1>. USE DEF QuizIInv
<1>1. QuizTypeOK'
  BY QuizAssumption DEF CreateRow, QuizTypeOK, CGoto, Answered, Lose, SetDoc, NoDoc, Tell,
       userVars, Writing
<1>2. ReadyHasPaper'
  BY QuizAssumption DEF CreateRow, QuizTypeOK, ReadyHasPaper
<1>3. OneGeneration'
  BY QuizAssumption DEF CreateRow, QuizTypeOK, ReadyHasPaper, OneGeneration, AtQuiz, CGoto,
       userVars
<1>. QED BY <1>1, <1>2, <1>3

LEMMA GenerateQuizIInv ==
  ASSUME QuizIInv, NEW g \in ExecCall, Generate(g)
  PROVE  QuizIInv'
<1>. USE DEF QuizIInv
<1>1. QuizTypeOK'
  BY QuizAssumption DEF Generate, QuizTypeOK, CGoto, Answered, Lose, SetDoc, NoDoc, Tell,
       userVars, Writing
<1>2. ReadyHasPaper'
  BY QuizAssumption DEF Generate, QuizTypeOK, ReadyHasPaper
<1>3. OneGeneration'
  BY QuizAssumption DEF Generate, QuizTypeOK, ReadyHasPaper, OneGeneration, AtQuiz, CGoto,
       userVars
<1>. QED BY <1>1, <1>2, <1>3

LEMMA MarkReadyQuizIInv ==
  ASSUME QuizIInv, NEW g \in ExecCall, MarkReady(g)
  PROVE  QuizIInv'
<1>. USE DEF QuizIInv
<1>1. QuizTypeOK'
  BY QuizAssumption DEF MarkReady, QuizTypeOK, CGoto, Answered, Lose, SetDoc, NoDoc, Tell,
       userVars, Writing
<1>2. ReadyHasPaper'
  BY QuizAssumption DEF MarkReady, QuizTypeOK, ReadyHasPaper
<1>3. OneGeneration'
  BY QuizAssumption DEF MarkReady, QuizTypeOK, ReadyHasPaper, OneGeneration, AtQuiz, CGoto,
       NoDoc, Tell, userVars
<1>. QED BY <1>1, <1>2, <1>3

LEMMA MarkFailedQuizIInv ==
  ASSUME QuizIInv, NEW g \in ExecCall, MarkFailed(g)
  PROVE  QuizIInv'
<1>. USE DEF QuizIInv
<1>1. QuizTypeOK'
  BY QuizAssumption DEF MarkFailed, QuizTypeOK, CGoto, Lose, SetDoc, Tell, userVars
<1>2. ReadyHasPaper'
  BY QuizAssumption DEF MarkFailed, QuizTypeOK, ReadyHasPaper, CGoto, Lose, SetDoc, Tell,
       userVars
<1>3. OneGeneration'
  BY QuizAssumption DEF MarkFailed, QuizTypeOK, ReadyHasPaper, OneGeneration, AtQuiz, CGoto,
       Lose, SetDoc, Tell, userVars
<1>. QED BY <1>1, <1>2, <1>3

LEMMA GeneratedArrivesQuizIInv ==
  ASSUME QuizIInv, NEW m \in mail, GeneratedArrives(m)
  PROVE  QuizIInv'
<1>. USE DEF QuizIInv
<1>1. QuizTypeOK'
  BY QuizAssumption DEF GeneratedArrives, QuizTypeOK, userVars
<1>2. ReadyHasPaper'
  BY QuizAssumption DEF GeneratedArrives, QuizTypeOK, ReadyHasPaper
<1>3. OneGeneration'
  BY QuizAssumption DEF GeneratedArrives, QuizTypeOK, ReadyHasPaper, OneGeneration, AtQuiz
<1>. QED BY <1>1, <1>2, <1>3

LEMMA ReportArrivesQuizIInv ==
  ASSUME QuizIInv, NEW m \in mail, ReportArrives(m)
  PROVE  QuizIInv'
<1>. USE DEF QuizIInv
<1>1. QuizTypeOK'
  BY QuizAssumption DEF ReportArrives, QuizTypeOK, userVars
<1>2. ReadyHasPaper'
  BY QuizAssumption DEF ReportArrives, QuizTypeOK, ReadyHasPaper
<1>3. OneGeneration'
  BY QuizAssumption DEF ReportArrives, QuizTypeOK, ReadyHasPaper, OneGeneration, AtQuiz
<1>. QED BY <1>1, <1>2, <1>3

LEMMA RequestLostQuizIInv ==
  ASSUME QuizIInv, NEW m \in mail, RequestLost(m)
  PROVE  QuizIInv'
<1>. USE DEF QuizIInv
<1>1. QuizTypeOK'
  BY QuizAssumption DEF RequestLost, QuizTypeOK, Lose, userVars
<1>2. ReadyHasPaper'
  BY QuizAssumption DEF RequestLost, QuizTypeOK, ReadyHasPaper
<1>3. OneGeneration'
  BY QuizAssumption DEF RequestLost, QuizTypeOK, ReadyHasPaper, OneGeneration, AtQuiz
<1>. QED BY <1>1, <1>2, <1>3

LEMMA RunsOutQuizIInv ==
  ASSUME QuizIInv, RunsOut
  PROVE  QuizIInv'
<1>. USE DEF QuizIInv
<1>1. QuizTypeOK'
  BY QuizAssumption DEF RunsOut, QuizTypeOK, userVars
<1>2. ReadyHasPaper'
  BY QuizAssumption DEF RunsOut, QuizTypeOK, ReadyHasPaper
<1>3. OneGeneration'
  BY QuizAssumption DEF RunsOut, QuizTypeOK, ReadyHasPaper, OneGeneration, AtQuiz
<1>. QED BY <1>1, <1>2, <1>3

LEMMA SubmitQuizIInv ==
  ASSUME QuizIInv, NEW s \in Submission, Submit(s)
  PROVE  QuizIInv'
<1>. USE DEF QuizIInv
<1>1. QuizTypeOK'
  BY QuizAssumption DEF Submit, QuizTypeOK
<1>2. ReadyHasPaper'
  BY QuizAssumption DEF Submit, QuizTypeOK, ReadyHasPaper
<1>3. OneGeneration'
  BY QuizAssumption DEF Submit, QuizTypeOK, ReadyHasPaper, OneGeneration, AtQuiz
<1>. QED BY <1>1, <1>2, <1>3

LEMMA QuizInitIInv ==
  ASSUME QuizInit
  PROVE  QuizIInv
  BY QuizAssumption
     DEF QuizInit, QuizIInv, QuizTypeOK, ReadyHasPaper, OneGeneration, AtQuiz, NoDoc, Writing

LEMMA QuizNextIInv ==
  ASSUME QuizIInv, [QuizNext]_quizVars
  PROVE  QuizIInv'
<1>1. ASSUME NEW g \in ExecCall, 
             Dispatch(g) \/ GetDoc(g) \/ DeleteIfFailed(g) \/ MarkGenerating(g) \/
             CreateRow(g) \/ Generate(g) \/ MarkReady(g) \/ MarkFailed(g)
      PROVE  QuizIInv'
  BY <1>1, DispatchQuizIInv, GetDocQuizIInv, DeleteIfFailedQuizIInv, MarkGeneratingQuizIInv,
     CreateRowQuizIInv, GenerateQuizIInv, MarkReadyQuizIInv, MarkFailedQuizIInv
<1>2. ASSUME NEW m \in mail, 
             GeneratedArrives(m) \/ ReportArrives(m) \/ RequestLost(m)
      PROVE  QuizIInv'
  BY <1>2, GeneratedArrivesQuizIInv, ReportArrivesQuizIInv, RequestLostQuizIInv
<1>3. ASSUME NEW s \in Submission, 
             Submit(s)
      PROVE  QuizIInv'
  BY <1>3, SubmitQuizIInv
<1>4. ASSUME RunsOut
      PROVE  QuizIInv'
  BY <1>4, RunsOutQuizIInv
<1>5. CASE UNCHANGED quizVars
  BY <1>5 DEF quizVars, userVars, QuizIInv, QuizTypeOK, ReadyHasPaper, OneGeneration
<1>. QED BY <1>1, <1>2, <1>3, <1>4, <1>5 DEF QuizNext, Generation

(* Questions and answers stand as they are.                                  *)
QuizStands ==
  /\ doc.status = "ready" /\ ~doubled => doc' = doc
  /\ answers # "none" => answers' = answers /\ line' = line

LEMMA AnswersStay ==
  ASSUME QuizIInv, [QuizNext]_quizVars
  PROVE  QuizStands
<1>1. ASSUME NEW g \in ExecCall,
             DeleteIfFailed(g) \/ MarkGenerating(g) \/ MarkReady(g) \/ MarkFailed(g)
      PROVE  QuizStands
  BY <1>1 DEF QuizStands, DeleteIfFailed, MarkGenerating, MarkReady, MarkFailed, SetDoc,
       userVars, QuizIInv, OneGeneration
<1>2. ASSUME NEW g \in ExecCall,
             CreateRow(g)
      PROVE  QuizStands
  BY <1>2 DEF QuizStands, CreateRow, userVars, QuizIInv, QuizTypeOK
<1>3. ASSUME NEW m \in mail,
             GeneratedArrives(m)
      PROVE  QuizStands
  BY <1>3 DEF QuizStands, GeneratedArrives, userVars, QuizIInv, QuizTypeOK
<1>4. ASSUME NEW s \in Submission,
             Submit(s)
      PROVE  QuizStands
  BY <1>4 DEF QuizStands, Submit
<1>5. ASSUME NEW g \in ExecCall,
             Dispatch(g) \/ GetDoc(g) \/ Generate(g)
      PROVE  QuizStands
  BY <1>5 DEF QuizStands, Dispatch, GetDoc, Generate, userVars
<1>6. ASSUME NEW m \in mail,
             ReportArrives(m) \/ RequestLost(m)
      PROVE  QuizStands
  BY <1>6 DEF QuizStands, ReportArrives, RequestLost, userVars
<1>7. ASSUME RunsOut
      PROVE  QuizStands
  BY <1>7 DEF QuizStands, RunsOut, userVars
<1>8. CASE UNCHANGED quizVars
  BY <1>8 DEF quizVars, userVars, QuizStands
<1>. QED BY <1>1, <1>2, <1>3, <1>4, <1>5, <1>6, <1>7, <1>8 DEF QuizNext, Generation

LEMMA CompletedIsReady ==
  ASSUME QuizIInv
  PROVE  CompletedHasQuestions
  BY DEF QuizIInv, ReadyHasPaper, OneGeneration, CompletedHasQuestions

-----------------------------------------------------------------------------
(* The five side by side: every step is a step of one of them and a stutter  *)
(* of the others.                                                            *)
pipelinesVars == <<pipeline, sandboxVars, outboxVars, vecVars, kgVars, quizVars>>
PipelinesIInv == SandboxIInv /\ OutboxIInv /\ VecIInv /\ KgIInv /\ QuizIInv

LEMMA PartsStep ==
  ASSUME [PipelinesNext]_pipelinesVars
  PROVE  /\ [SandboxNext]_sandboxVars /\ [OutboxNext]_outboxVars /\ [VecNext]_vecVars
         /\ [KgNext]_kgVars /\ [QuizNext]_quizVars
  BY DEF PipelinesNext, pipelinesVars, OnlyLease, OnlyOutbox, OnlyVideo, OnlyGraph, OnlyQuiz

LEMMA PipelinesInvariance == PipelinesSpec => []PipelinesIInv
<1>1. PipelinesInit => PipelinesIInv
  BY SandboxInitIInv, OutboxInitIInv, VecInitIInv, KgInitIInv, QuizInitIInv
     DEF PipelinesInit, PipelinesIInv
<1>2. PipelinesIInv /\ [PipelinesNext]_pipelinesVars => PipelinesIInv'
  BY PartsStep, SandboxNextIInv, OutboxNextIInv, VecNextIInv, KgNextIInv, QuizNextIInv
     DEF PipelinesIInv
<1>. QED BY <1>1, <1>2, PTL DEF PipelinesSpec, pipelinesVars

(* Every variable of the five keeps its type.                                *)
THEOREM PipelinesTypeCorrect == PipelinesSpec => []PipelinesTypeOK
<1>1. PipelinesIInv => PipelinesTypeOK
  BY DEF PipelinesIInv, SandboxIInv, OutboxIInv, VecIInv, KgIInv, QuizIInv, PipelinesTypeOK
<1>. QED BY <1>1, PipelinesInvariance, PTL

(* A lease tells the truth about its sandbox, however many executions,       *)
(* leases and releases there are and wherever workers, sweeper and process   *)
(* fail (service/lease.go, execution.go, sweeper.go).                        *)
THEOREM LeasesAreHonest == PipelinesSpec => []LeaseIsHonest
<1>1. PipelinesIInv => LeaseIsHonest
  BY HonestLeases DEF PipelinesIInv, LeaseIsHonest
<1>. QED BY <1>1, PipelinesInvariance, PTL

(* What says it is in progress has somebody at work on it: the outbox row a  *)
(* worker, the page a pipeline that will still write it, the build a run;    *)
(* and the semaphore counts the pipelines at work.                           *)
THEOREM WorkHasAWorker == PipelinesSpec => []WorkIsBacked
<1>1. PipelinesIInv => WorkIsBacked
  BY PagesAreBacked DEF PipelinesIInv, OutboxIInv, VecIInv, KgIInv, WorkIsBacked
<1>. QED BY <1>1, PipelinesInvariance, PTL

(* What says it is done is there: vectors of the very text, evidence of one  *)
(* version, the questions of the quiz.                                       *)
THEOREM DoneMeansThere == PipelinesSpec => []DoneIsThere
<1>1. PipelinesIInv => DoneIsThere
  BY CompletedIsReady DEF PipelinesIInv, VecIInv, KgIInv, DoneIsThere
<1>. QED BY <1>1, PipelinesInvariance, PTL

(* Nothing settled is reopened and no second build is started beside one     *)
(* that was seen (ExecutionRepo.Finish and Cancel, the task the poller       *)
(* reads, the quiz document and its answers, startBuild).                    *)
THEOREM SettledStaysSettled == PipelinesSpec => NothingIsRedone
<1>1. PipelinesIInv /\ [PipelinesNext]_pipelinesVars => [TerminalRowsStand]_sandboxVars
  BY PartsStep, TerminalStays DEF PipelinesIInv
<1>2. PipelinesIInv /\ [PipelinesNext]_pipelinesVars => [OutcomesStand]_vecVars
  BY PartsStep, OutcomeStays DEF PipelinesIInv
<1>3. PipelinesIInv /\ [PipelinesNext]_pipelinesVars => [NobodySeenRunning]_kgVars
  BY PartsStep, NoSecondBuild DEF PipelinesIInv
<1>4. PipelinesIInv /\ [PipelinesNext]_pipelinesVars
        => [doc.status = "ready" /\ ~doubled => doc' = doc]_quizVars
  BY PartsStep, AnswersStay DEF PipelinesIInv, QuizStands
<1>5. PipelinesIInv /\ [PipelinesNext]_pipelinesVars
        => [answers # "none" => answers' = answers /\ line' = line]_quizVars
  BY PartsStep, AnswersStay DEF PipelinesIInv, QuizStands
<1>6. PipelinesSpec => ExecTerminalIsFinal
  BY <1>1, PipelinesInvariance, PTL
     DEF PipelinesSpec, pipelinesVars, ExecTerminalIsFinal, TerminalRowsStand
<1>7. PipelinesSpec => OutcomeIsFinal
  BY <1>2, PipelinesInvariance, PTL
     DEF PipelinesSpec, pipelinesVars, OutcomeIsFinal, OutcomesStand
<1>8. PipelinesSpec => ActiveIsReused
  BY <1>3, PipelinesInvariance, PTL
     DEF PipelinesSpec, pipelinesVars, ActiveIsReused, NobodySeenRunning
<1>9. PipelinesSpec => ReadyStaysReady
  BY <1>4, PipelinesInvariance, PTL DEF PipelinesSpec, pipelinesVars, ReadyStaysReady
<1>10. PipelinesSpec => AnswersAreFinal
  BY <1>5, PipelinesInvariance, PTL DEF PipelinesSpec, pipelinesVars, AnswersAreFinal
<1>. QED BY <1>6, <1>7, <1>8, <1>9, <1>10 DEF NothingIsRedone
=============================================================================
