------------------------------ MODULE JobLease ------------------------------
(* The lease that keeps one fallback job of app-pay from running on several  *)
(* instances: two SQL statements on the job's row, a time to live that is    *)
(* never renewed during a run, and instances that die and come back under    *)
(* another owner name.                                                       *)
EXTENDS Integers

CONSTANTS Instance, NoOwner, FormerOwner,
          Ttl,        \* lease-ttl-seconds, in ticks
          MaxRun,     \* bound: ticks the longest run takes
          MaxCrashes  \* bound

ASSUME OwnerAssumption == {NoOwner, FormerOwner} \cap Instance = {} /\ NoOwner # FormerOwner
ASSUME TimeAssumption == Ttl \in Nat \ {0} /\ MaxRun \in Nat \ {0} /\ MaxCrashes \in Nat

VARIABLES
  owner,    \* pay_job_lock.owner, NoOwner while the row does not exist
  left,     \* locked_until - now, -1 once the lease is past
  at,       \* [Instance -> Place]
  ran,      \* [Instance -> ticks its run has lasted]
  crashes

vars == <<owner, left, at, ran, crashes>>

(* "running" on the lease, "unleased" after a table error; in "insert" only  *)
(* the first of the two statements is done.                                  *)
Place == {"idle", "insert", "running", "unleased"}

Init == /\ owner = NoOwner
        /\ left = -1
        /\ at = [i \in Instance |-> "idle"]
        /\ ran = [i \in Instance |-> 0]
        /\ crashes = 0

Goes(i, place) == at' = [at EXCEPT ![i] = place] /\ ran' = [ran EXCEPT ![i] = 0]

Holds(i) == owner' = i /\ left' = Ttl

(* Mutant of TryTakeOver: anyone takes any lease.                            *)
TryTakeOverAny(i) ==
  /\ at[i] = "idle"
  /\ IF owner # NoOwner
     THEN Holds(i) /\ Goes(i, "running")
     ELSE UNCHANGED <<owner, left>> /\ Goes(i, "insert")
  /\ UNCHANGED crashes

(* UPDATE ... WHERE locked_until < now OR owner = me                         *)
TryTakeOver(i) ==
  /\ at[i] = "idle"
  /\ IF owner = i \/ (owner # NoOwner /\ left < 0)
     THEN Holds(i) /\ Goes(i, "running")
     ELSE UNCHANGED <<owner, left>> /\ Goes(i, "insert")
  /\ UNCHANGED crashes

(* INSERT IGNORE                                                             *)
TryInsert(i) ==
  /\ at[i] = "insert"
  /\ IF owner = NoOwner
     THEN Holds(i) /\ Goes(i, "running")
     ELSE UNCHANGED <<owner, left>> /\ Goes(i, "idle")
  /\ UNCHANGED crashes

(* Either statement throws: the job runs without a lease of its own.  (A      *)
(* statement that threw after its effect is TryTakeOver or TryInsert.)       *)
Proceed(i) ==
  /\ at[i] \in {"idle", "insert"}
  /\ Goes(i, "unleased")
  /\ UNCHANGED <<owner, left, crashes>>

Runs(i) == at[i] \in {"running", "unleased"}

(* The run ends; the lease is left to run out.                               *)
Finish(i) ==
  /\ Runs(i)
  /\ Goes(i, "idle")
  /\ UNCHANGED <<owner, left, crashes>>

(* The new process has a new owner name, so its own lease is a stranger's.   *)
Crash(i) ==
  /\ crashes < MaxCrashes
  /\ crashes' = crashes + 1
  /\ Goes(i, "idle")
  /\ owner' = IF owner = i THEN FormerOwner ELSE owner
  /\ UNCHANGED left

Tick ==
  /\ \A i \in Instance : Runs(i) => ran[i] < MaxRun
  /\ left' = IF left < 0 THEN left ELSE left - 1
  /\ ran' = [i \in Instance |-> IF Runs(i) THEN ran[i] + 1 ELSE 0]
  /\ UNCHANGED <<owner, at, crashes>>

Tries(i) == TryTakeOver(i) \/ TryInsert(i) \/ Proceed(i)

Next == Tick \/ \E i \in Instance : Tries(i) \/ Finish(i) \/ Crash(i)

Spec == Init /\ [][Next]_vars

(* The trigger calls the job again after every round, and time passes.       *)
FairSpec == Spec /\ SF_vars(Tick) /\ \A i \in Instance : WF_vars(Tries(i)) /\ WF_vars(Finish(i))

-----------------------------------------------------------------------------
(* Every variable has its type.                                              *)
TypeOK == /\ owner \in Instance \cup {NoOwner, FormerOwner}
          /\ left \in -1 .. Ttl
          /\ at \in [Instance -> Place]
          /\ ran \in [Instance -> 0 .. MaxRun]
          /\ crashes \in 0 .. MaxCrashes

(* JobLease 14-15: at any moment one instance runs the job on the lease,      *)
(* whatever interleaves with the two statements of tryAcquire, as long as no *)
(* run outlasts the lease.  A run that a table error let through is not one. *)
OnlyOneRuns ==
  \A i, j \in Instance : at[i] = "running" /\ at[j] = "running" => i = j
=============================================================================
