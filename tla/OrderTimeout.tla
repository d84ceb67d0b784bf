---------------------------- MODULE OrderTimeout ----------------------------
(* How an unpaid order comes to its end: the delegation to app-task (a timer *)
(* registered after the order commits, executed through a bounded queue and  *)
(* its workers) and the fallback OrderTimeoutJob, against payments that      *)
(* arrive late and a process that crashes.  The payment itself (module       *)
(* PayOrder) is one step, and delivery is not here.                          *)
EXTENDS Integers, Sequences, FiniteSets

CONSTANTS MaxTimed,     \* bound: orders 1 .. MaxTimed, in the order of expires_at
          Worker,        \* pay.job.executor-workers
          QueueCapacity, \* pay.job.executor-queue-capacity
          RegisterCapacity, \* pay.apptask.register-queue-capacity
          MaxCalls,      \* calls app-task makes for one task: 1 + max_retry
          ScanLimit,     \* pay.job.scan-limit
          MaxPoison,     \* bound: orders whose channel reports another amount
          MaxDeaths,    \* bound
          MayBeEarly     \* whether app-task may call before expires_at

ASSUME TimeoutAssumption ==
  /\ {MaxTimed, QueueCapacity, RegisterCapacity, MaxCalls, ScanLimit} \subseteq Nat \ {0}
  /\ MaxPoison \in Nat /\ MaxDeaths \in Nat /\ MayBeEarly \in BOOLEAN

TimedOrder == 1 .. MaxTimed

VARIABLES
  status,      \* [Order -> pay_order.status]
  expired,     \* orders whose expires_at has passed
  money,       \* what the channel would answer: "unpaid", "paid", "wrong" amount
  registering, \* orders in the registration pool
  task,        \* [Order -> app-task's task: state and calls made]
  queue,       \* TimeoutExecutionQueue: commands [order, call]
  working,     \* [Worker -> the command taken from the queue]
  job,         \* [Order -> where OrderTimeoutJob's round is with the order]
  deaths

timeoutVars == <<status, expired, money, registering, task, queue, working, job, deaths>>

NoCommand == [order |-> 0, call |-> 0]
Command == [order : TimedOrder, call : 1 .. MaxCalls]
NoTask == [state |-> "none", calls |-> 0]

TimeoutInit ==
  /\ status = [o \in TimedOrder |-> "NONE"]
  /\ expired = {}
  /\ money = [o \in TimedOrder |-> "unpaid"]
  /\ registering = {}
  /\ task = [o \in TimedOrder |-> NoTask]
  /\ queue = <<>>
  /\ working = [w \in Worker |-> NoCommand]
  /\ job = [o \in TimedOrder |-> "out"]
  /\ deaths = 0

Becomes(o, s) == status' = [status EXCEPT ![o] = s]

-----------------------------------------------------------------------------
(* The order, its buyer, the clock                                           *)

(* Commit, then afterCommit hands the registration to the bounded pool; a    *)
(* full pool drops it.                                                       *)
Create(o) ==
  /\ status[o] = "NONE"
  /\ Becomes(o, "CREATED")
  /\ registering' = IF Cardinality(registering) < RegisterCapacity
                    THEN registering \cup {o} ELSE registering
  /\ UNCHANGED <<expired, money, task, queue, working, job, deaths>>

Expire(o) ==
  /\ status[o] # "NONE"
  /\ o \notin expired
  /\ \A other \in TimedOrder : other < o => other \in expired
  /\ expired' = expired \cup {o}
  /\ UNCHANGED <<status, money, registering, task, queue, working, job, deaths>>

(* The buyer pays, in time or on a code that was never withdrawn; the amount *)
(* the channel reports may not be the order's.                               *)
PayAtChannel(o, amount) ==
  /\ status[o] # "NONE"
  /\ money[o] = "unpaid"
  /\ amount = "wrong" => Cardinality({p \in TimedOrder : money[p] = "wrong"}) < MaxPoison
  /\ money' = [money EXCEPT ![o] = amount]
  /\ UNCHANGED <<status, expired, registering, task, queue, working, job, deaths>>

(* A notification: markPaid, or markPaidAfterClose.                          *)
Notify(o) ==
  /\ money[o] = "paid"
  /\ status[o] \in {"CREATED", "CLOSED"}
  /\ Becomes(o, "PAID")
  /\ UNCHANGED <<expired, money, registering, task, queue, working, job, deaths>>

-----------------------------------------------------------------------------
(* The delegation                                                            *)

(* POST /tasks/register: it succeeds, or it fails and is only logged.        *)
Register(o) ==
  /\ o \in registering
  /\ registering' = registering \ {o}
  /\ \/ task' = [task EXCEPT ![o].state = "waiting"]
     \/ UNCHANGED task
  /\ UNCHANGED <<status, expired, money, queue, working, job, deaths>>

(* app-task (external) hears an error, a 503 or nothing: it calls again until*)
(* the calls are used up.                                                    *)
Unanswered(o) ==
  task' = [task EXCEPT ![o].state = IF @ = "calling" /\ task[o].calls = MaxCalls
                                    THEN "failed" ELSE "waiting"]

Answers(command) ==
  IF task[command.order] = [state |-> "calling", calls |-> command.call]
  THEN task' = [task EXCEPT ![command.order].state = "completed"]
  ELSE UNCHANGED task

(* Mutants of Call: the queue takes one more than its capacity; the endpoint *)
(* answers when the command is queued, not when it is done.                  *)
CallOverfull(o) ==
  /\ task[o].state = "waiting"
  /\ task[o].calls < MaxCalls
  /\ o \in expired \/ MayBeEarly
  /\ Len(queue) <= QueueCapacity
  /\ queue' = Append(queue, [order |-> o, call |-> task[o].calls + 1])
  /\ task' = [task EXCEPT ![o] = [state |-> "calling", calls |-> @.calls + 1]]
  /\ UNCHANGED <<status, expired, money, registering, working, job, deaths>>

CallAcknowledged(o) ==
  /\ task[o].state = "waiting"
  /\ task[o].calls < MaxCalls
  /\ o \in expired \/ MayBeEarly
  /\ Len(queue) < QueueCapacity
  /\ queue' = Append(queue, [order |-> o, call |-> task[o].calls + 1])
  /\ task' = [task EXCEPT ![o] = [state |-> "completed", calls |-> @.calls + 1]]
  /\ UNCHANGED <<status, expired, money, registering, working, job, deaths>>

(* app-task's call reaches submit: the command is queued, or the answer is   *)
(* 503 and counts as a call.                                                 *)
Call(o) ==
  /\ task[o].state = "waiting"
  /\ task[o].calls < MaxCalls
  /\ o \in expired \/ MayBeEarly
  /\ LET call == task[o].calls + 1 IN
     IF Len(queue) < QueueCapacity
     THEN /\ queue' = Append(queue, [order |-> o, call |-> call])
          /\ task' = [task EXCEPT ![o] = [state |-> "calling", calls |-> call]]
     ELSE /\ task' = [task EXCEPT ![o] =
               [state |-> IF call = MaxCalls THEN "failed" ELSE "waiting", calls |-> call]]
          /\ UNCHANGED queue
  /\ UNCHANGED <<status, expired, money, registering, working, job, deaths>>

(* The wait of submit (30 s) or the connection ends; the command stays.      *)
GiveUp(o) ==
  /\ task[o].state = "calling"
  /\ Unanswered(o)
  /\ UNCHANGED <<status, expired, money, registering, queue, working, job, deaths>>

Take(w) ==
  /\ working[w] = NoCommand
  /\ queue # <<>>
  /\ working' = [working EXCEPT ![w] = Head(queue)]
  /\ queue' = Tail(queue)
  /\ UNCHANGED <<status, expired, money, registering, task, job, deaths>>

(* closeOrderAtVersion: an update that bumps the version also takes the order*)
(* out of CREATED, for good, so the version says nothing the status does not.*)
(* Whatever the outcome, closed or skipped, the answer is a 200.             *)
Execute(w) ==
  /\ working[w] # NoCommand
  /\ LET o == working[w].order IN
     IF status[o] = "CREATED" /\ o \in expired THEN Becomes(o, "CLOSED")
                                               ELSE UNCHANGED status
  /\ Answers(working[w])
  /\ working' = [working EXCEPT ![w] = NoCommand]
  /\ UNCHANGED <<expired, money, registering, queue, job, deaths>>

(* The statement throws: 5xx.                                                *)
ExecuteFails(w) ==
  /\ working[w] # NoCommand
  /\ LET o == working[w].order IN
     IF task[o] = [state |-> "calling", calls |-> working[w].call]
     THEN Unanswered(o) ELSE UNCHANGED task
  /\ working' = [working EXCEPT ![w] = NoCommand]
  /\ UNCHANGED <<status, expired, money, registering, queue, job, deaths>>

-----------------------------------------------------------------------------
(* OrderTimeoutJob: a round lists the expired orders, queries and closes them*)
(* in parallel, and ends when all are done.                                  *)

(* Mutant of Overdue: an order delegated to app-task is left to it.           *)
OverdueUndelegated ==
  {o \in TimedOrder : status[o] = "CREATED" /\ o \in expired /\ task[o].state = "none"}

Overdue == {o \in TimedOrder : status[o] = "CREATED" /\ o \in expired}

Listed == {o \in Overdue : Cardinality({p \in Overdue : p < o}) < ScanLimit}

Scan ==
  /\ \A o \in TimedOrder : job[o] = "out"
  /\ Overdue # {}
  /\ job' = [o \in TimedOrder |-> IF o \in Listed THEN "listed" ELSE "out"]
  /\ UNCHANGED <<status, expired, money, registering, task, queue, working, deaths>>

(* queryOrder: an error and an exception are answered as NOT_PAID, which the *)
(* job cannot tell from an answer of the channel.                            *)
Query(o) ==
  /\ job[o] = "listed"
  /\ \E answer \in {money[o], "unknown"} : job' = [job EXCEPT ![o] = answer]
  /\ UNCHANGED <<status, expired, money, registering, task, queue, working, deaths>>

Leaves(o) == job' = [job EXCEPT ![o] = "out"]

(* Mutant of CloseListed: the close trusts the listed status.                *)
CloseListedBlindly(o) ==
  /\ job[o] \in {"unpaid", "unknown"}
  /\ Leaves(o)
  /\ Becomes(o, "CLOSED")
  /\ UNCHANGED <<expired, money, registering, task, queue, working, deaths>>

CloseListed(o) ==
  /\ job[o] \in {"unpaid", "unknown"}
  /\ Leaves(o)
  /\ IF status[o] = "CREATED" THEN Becomes(o, "CLOSED") ELSE UNCHANGED status
  /\ UNCHANGED <<expired, money, registering, task, queue, working, deaths>>

(* handleChannelPaid: a wrong amount throws and the order stays as it is.    *)
AcceptListed(o) ==
  /\ job[o] \in {"paid", "wrong"}
  /\ Leaves(o)
  /\ IF job[o] = "paid" /\ status[o] \in {"CREATED", "CLOSED"}
     THEN Becomes(o, "PAID") ELSE UNCHANGED status
  /\ UNCHANGED <<expired, money, registering, task, queue, working, deaths>>

(* Everything in memory is gone; app-task's open calls break.                *)
ProcessDies ==
  /\ deaths < MaxDeaths
  /\ deaths' = deaths + 1
  /\ registering' = {}
  /\ queue' = <<>>
  /\ working' = [w \in Worker |-> NoCommand]
  /\ job' = [o \in TimedOrder |-> "out"]
  /\ task' = [o \in TimedOrder |-> [task[o] EXCEPT !.state =
       IF @ # "calling" THEN @ ELSE IF task[o].calls = MaxCalls THEN "failed" ELSE "waiting"]]
  /\ UNCHANGED <<status, expired, money>>

Delegates(o) == Register(o) \/ Call(o) \/ GiveUp(o)
Executes(w) == Take(w) \/ Execute(w) \/ ExecuteFails(w)
Processes(o) == Query(o) \/ CloseListed(o) \/ AcceptListed(o)

TimeoutNext ==
  \/ \E o \in TimedOrder :
       \/ Create(o) \/ Expire(o) \/ Notify(o) \/ Delegates(o) \/ Processes(o)
       \/ \E amount \in {"paid", "wrong"} : PayAtChannel(o, amount)
  \/ \E w \in Worker : Executes(w)
  \/ Scan
  \/ ProcessDies

TimeoutSpec == TimeoutInit /\ [][TimeoutNext]_timeoutVars

(* The scheduler starts the job again after every round and a round goes on; *)
(* nothing is assumed of app-task, of the queue, or of notifications.        *)
TimeoutFairSpec ==
  /\ TimeoutSpec
  /\ WF_timeoutVars(Scan)
  /\ \A o \in TimedOrder : WF_timeoutVars(Processes(o))

-----------------------------------------------------------------------------
(* Every variable has its type, and the queue its capacity.                  *)
TimeoutTypeOK ==
  /\ status \in [TimedOrder -> {"NONE", "CREATED", "CLOSED", "PAID"}]
  /\ expired \subseteq TimedOrder
  /\ money \in [TimedOrder -> {"unpaid", "paid", "wrong"}]
  /\ registering \subseteq TimedOrder /\ Cardinality(registering) <= RegisterCapacity
  /\ task \in [TimedOrder -> [state : {"none", "waiting", "calling", "completed", "failed"},
                         calls : 0 .. MaxCalls]]
  /\ queue \in Seq(Command) /\ Len(queue) <= QueueCapacity
  /\ working \in [Worker -> Command \cup {NoCommand}]
  /\ job \in [TimedOrder -> {"out", "listed", "unpaid", "paid", "wrong", "unknown"}]
  /\ deaths \in 0 .. MaxDeaths

(* A timeout closes an order only out of CREATED and only after its deadline,*)
(* however old the command or the job's list is and whoever paid meanwhile.  *)
ClosesOnlyOverdue ==
  [][\A o \in TimedOrder : status[o] # "CLOSED" /\ status'[o] = "CLOSED"
                       => status[o] = "CREATED" /\ o \in expired]_timeoutVars

(* What app-task records as completed is done: the order is not waiting for  *)
(* payment any more, in spite of queued, abandoned and repeated commands and *)
(* of crashes (TimeoutExecutionQueue.submit waits for the result).           *)
CompletedIsTruthful ==
  \A o \in TimedOrder : task[o].state = "completed" => status[o] # "CREATED"

(* The fallback alone ends every overdue order, whatever became of its       *)
(* delegation, except one the channel reports another amount for; fewer of   *)
(* those than the scan limit are assumed.                                    *)
OverdueIsResolved ==
  \A o \in TimedOrder :
    []<>~(status[o] = "CREATED" /\ o \in expired /\ money[o] # "wrong")

-----------------------------------------------------------------------------
(* Statements of the source that the runs refute                             *)

(* OrderTimeoutJob 73: when the query fails the order is not closed.         *)
FailedQueryKeepsOpen ==
  [][\A o \in TimedOrder : job[o] = "unknown" /\ job'[o] = "out" /\ UNCHANGED deaths
                       => status'[o] = status[o]]_timeoutVars
=============================================================================
