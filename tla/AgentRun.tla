------------------------------ MODULE AgentRun ------------------------------
(***************************************************************************)
(* Agent runs and their tools (agent/lifecycle.ts, agent/circuit.ts,       *)
(* tools/runtime.ts, tools/concurrency.ts, tools/timeout-manager.ts,       *)
(* tools/harness/delegate.ts).  Each turn runs a main agent, which calls   *)
(* tools; one tool delegates to a sub-agent that calls tools itself.  All  *)
(* tool calls share one gate of slots with a bounded wait, every call has  *)
(* a budget, every agent and every tool has a circuit breaker, and a turn  *)
(* can be aborted at any time.  A model stream or a tool may hang.         *)
(***************************************************************************)
EXTENDS Integers, Sequences, FiniteSets, SequencesExt

CONSTANTS
    Turn,          \* turns, each of a session of its own
    SlotOptions,   \* sizes of the gate
    Threshold,     \* consecutive failures that open a breaker
    MaxCalls       \* bound: tool calls of one agent run

ASSUME AgentAssumption ==
    /\ IsFiniteSet(Turn)
    /\ SlotOptions \subseteq Nat \ {0} /\ Threshold \in Nat \ {0} /\ MaxCalls \in Nat

VARIABLES
    run,      \* the agent runs: main and sub-agent of each turn
    sig,      \* the run's abort signal has fired
    call,     \* the run's tool call: none, waiting for a slot, executing
    calls,    \* calls made (bound)
    width,    \* max of the gate
    held,     \* slots in use
    line,     \* calls waiting for a slot
    breaker,  \* state and failure count of each breaker
    gauge     \* AgentRunStat.active of the two agents

agentVars == <<run, sig, call, calls, width, held, line, breaker, gauge>>

P == Turn \X {"main", "sub"}
main(t) == <<t, "main">>
sub(t) == <<t, "sub">>
Tools == {"tool", "delegate"}
Waiting == [tool |-> "wait tool", delegate |-> "wait delegate"]
Wanted(c) == CHOOSE b \in Tools : Waiting[b] = c

AgentInit ==
    /\ run = [p \in P |-> "idle"]
    /\ sig = [p \in P |-> FALSE]
    /\ call = [p \in P |-> "none"]
    /\ calls = [p \in P |-> 0]
    /\ width \in SlotOptions
    /\ held = 0 /\ line = <<>>
    /\ breaker = [b \in Tools \cup {"main", "sub"} |-> [state |-> "closed", fails |-> 0]]
    /\ gauge = [a \in {"main", "sub"} |-> 0]

(***************************************************************************)
(* CircuitBreaker.  "cooled" is OPEN with its cooldown over.               *)
(***************************************************************************)
Tripped(b) == breaker[b].state = "open"
\* The getter that found the breaker not tripped.
Probe(b) == IF breaker[b].state = "cooled"
            THEN [breaker EXCEPT ![b].state = "half_open"] ELSE breaker
Success(b) == [breaker EXCEPT ![b] = [state |-> "closed", fails |-> 0]]
\* The count is capped at the threshold: it is only compared with it.
Failure(b) ==
    LET n == IF breaker[b].fails < Threshold THEN breaker[b].fails + 1 ELSE Threshold IN
    [breaker EXCEPT ![b] =
        [state |-> IF breaker[b].state = "half_open" \/ n = Threshold
                   THEN "open" ELSE breaker[b].state,
         fails |-> n]]

Cool(b) ==
    /\ breaker[b].state = "open"
    /\ breaker' = [breaker EXCEPT ![b].state = "cooled"]
    /\ UNCHANGED <<run, sig, call, calls, width, held, line, gauge>>

(***************************************************************************)
(* The gate.  A call that has a slot starts its tool; a delegation starts  *)
(* its sub-agent.                                                          *)
(***************************************************************************)
RunWhenGranted(p, b) ==
    IF b = "delegate" THEN [run EXCEPT ![sub(p[1])] = "starting"] ELSE run

\* Semaphore.release: the first in line gets the slot.
Release(p) ==
    IF line = <<>>
    THEN /\ held' = held - 1
         /\ call' = [call EXCEPT ![p] = "none"]
         /\ UNCHANGED <<line, run>>
    ELSE LET q == Head(line) IN
         /\ line' = Tail(line)
         /\ call' = [call EXCEPT ![p] = "none", ![q] = Wanted(call[q])]
         /\ run' = RunWhenGranted(q, Wanted(call[q]))
         /\ UNCHANGED held

\* No slot within queueWaitMs: the call is refused as busy.
WaitExpires(p) ==
    /\ \E i \in DOMAIN line : line[i] = p /\ line' = RemoveAt(line, i)
    /\ call' = [call EXCEPT ![p] = "none"]
    /\ UNCHANGED <<run, sig, calls, width, held, breaker, gauge>>

(***************************************************************************)
(* AgentRuntime.execute up to the slot: an aborted turn calls nothing, an  *)
(* open breaker short-circuits, and the call takes a slot or waits.        *)
(***************************************************************************)
CallTool(p, b) ==
    /\ run[p] = "running" /\ ~sig[p] /\ call[p] = "none" /\ calls[p] < MaxCalls
    /\ b = "delegate" => p[2] = "main" /\ run[sub(p[1])] = "idle"
    /\ calls' = [calls EXCEPT ![p] = @ + 1]
    /\ IF Tripped(b)
       THEN UNCHANGED <<run, call, held, line, breaker>>
       ELSE /\ breaker' = Probe(b)
            /\ IF held < width
               THEN /\ held' = held + 1
                    /\ call' = [call EXCEPT ![p] = b]
                    /\ run' = RunWhenGranted(p, b)
                    /\ UNCHANGED line
               ELSE /\ line' = Append(line, p)
                    /\ call' = [call EXCEPT ![p] = Waiting[b]]
                    /\ UNCHANGED <<held, run>>
    /\ UNCHANGED <<sig, width, gauge>>

(***************************************************************************)
(* The rest of execute, with TimeoutManager.run.                           *)
(***************************************************************************)
\* A tool answers or throws.
ToolReturns(p) ==
    /\ call[p] = "tool"
    /\ Release(p)
    /\ breaker' \in {Success("tool"), Failure("tool")}
    /\ UNCHANGED <<sig, calls, width, gauge>>

\* The delegation answers; a failed sub-agent is an answer too.
DelegateReturns(t) ==
    /\ call[main(t)] = "delegate" /\ run[sub(t)] \in {"clean", "error", "aborted", "refused"}
    /\ Release(main(t))
    /\ breaker' = Success("delegate")
    /\ UNCHANGED <<sig, calls, width, gauge>>

\* The run's signal has fired: the call returns at once, nobody is blamed.
Cancelled(p) ==
    /\ call[p] \in Tools /\ sig[p]
    /\ Release(p)
    /\ UNCHANGED <<sig, calls, width, breaker, gauge>>

\* The budget is over: the call returns even if its tool ignores the signal.
BudgetOver(p) ==
    /\ call[p] \in Tools /\ ~sig[p]
    /\ Release(p)
    /\ breaker' = Failure(call[p])
    /\ sig' = IF call[p] = "delegate" THEN [sig EXCEPT ![sub(p[1])] = TRUE] ELSE sig
    /\ UNCHANGED <<calls, width, gauge>>

(***************************************************************************)
(* stream: the main agent of a turn.                                       *)
(***************************************************************************)
StartTurn(t) ==
    /\ run[main(t)] = "idle"
    /\ IF Tripped("main")
       THEN /\ run' = [run EXCEPT ![main(t)] = "refused"]
            /\ UNCHANGED <<breaker, gauge>>
       ELSE /\ run' = [run EXCEPT ![main(t)] = "running"]
            /\ breaker' = Probe("main")
            /\ gauge' = [gauge EXCEPT !["main"] = @ + 1]
    /\ UNCHANGED <<sig, call, calls, width, held, line>>

Finish(p, out) ==
    /\ run[p] = "running" /\ call[p] = "none"
    /\ run' = [run EXCEPT ![p] = out]
    /\ breaker' = IF out = "clean" THEN Success(p[2]) ELSE Failure(p[2])
    /\ gauge' = [gauge EXCEPT ![p[2]] = IF @ > 0 THEN @ - 1 ELSE 0]
    /\ UNCHANGED <<sig, call, calls, width, held, line>>

\* Mutant: the delegation is not told.
AbortMainOnly(t) ==
    /\ run[main(t)] = "running" /\ ~sig[main(t)]
    /\ sig' = [sig EXCEPT ![main(t)] = TRUE]
    /\ UNCHANGED <<run, call, calls, width, held, line, breaker, gauge>>

\* The turn's deadline passes or its client leaves.
Abort(t) ==
    /\ run[main(t)] = "running" /\ ~sig[main(t)]
    /\ sig' = [sig EXCEPT ![main(t)] = TRUE,
                          ![sub(t)] = @ \/ call[main(t)] = "delegate"]
    /\ UNCHANGED <<run, call, calls, width, held, line, breaker, gauge>>

\* The next frame finds the turn aborted: askStream leaves its loop, which
\* ends the generator at its yield - neither the breaker nor recordEnd is
\* reached, and the call in flight is left behind.
MainCut(t) ==
    /\ run[main(t)] = "running" /\ sig[main(t)]
    /\ run' = [run EXCEPT ![main(t)] = "aborted"]
    /\ UNCHANGED <<sig, call, calls, width, held, line, breaker, gauge>>

(***************************************************************************)
(* invokeReentrant: the sub-agent.  Its signal is the call's.              *)
(***************************************************************************)
StartSub(t) ==
    /\ run[sub(t)] = "starting"
    /\ sig' = [sig EXCEPT ![sub(t)] = @ \/ sig[main(t)]]
    /\ IF Tripped("sub")
       THEN /\ run' = [run EXCEPT ![sub(t)] = "refused"]
            /\ UNCHANGED <<breaker, gauge>>
       ELSE /\ run' = [run EXCEPT ![sub(t)] = "running"]
            /\ breaker' = Probe("sub")
            /\ gauge' = [gauge EXCEPT !["sub"] = @ + 1]
    /\ UNCHANGED <<call, calls, width, held, line>>

\* A sub-agent that is aborted ends without an error frame: for
\* invokeReentrant it has not failed.
SubCut(t) ==
    /\ run[sub(t)] = "running" /\ sig[sub(t)]
    /\ run' = [run EXCEPT ![sub(t)] = "aborted"]
    /\ breaker' = Success("sub")
    /\ gauge' = [gauge EXCEPT !["sub"] = IF @ > 0 THEN @ - 1 ELSE 0]
    /\ UNCHANGED <<sig, call, calls, width, held, line>>

AgentNext ==
    \/ \E b \in DOMAIN breaker : Cool(b)
    \/ \E p \in P : \/ \E b \in Tools : CallTool(p, b)
                    \/ WaitExpires(p) \/ ToolReturns(p) \/ Cancelled(p) \/ BudgetOver(p)
                    \/ \E out \in {"clean", "error"} : Finish(p, out)
    \/ \E t \in Turn : \/ StartTurn(t) \/ Abort(t) \/ MainCut(t)
                       \/ StartSub(t) \/ SubCut(t) \/ DelegateReturns(t)

\* Timers fire and settled promises are noticed; model streams and tools owe
\* nothing.
AgentFairness ==
    /\ \A p \in P : /\ WF_agentVars(WaitExpires(p))
                    /\ WF_agentVars(Cancelled(p)) /\ WF_agentVars(BudgetOver(p))
    /\ \A t \in Turn : /\ WF_agentVars(Abort(t)) /\ WF_agentVars(MainCut(t))
                       /\ WF_agentVars(StartSub(t)) /\ WF_agentVars(SubCut(t))

AgentSpec == AgentInit /\ [][AgentNext]_agentVars /\ AgentFairness

(***************************************************************************)
(* Properties.                                                             *)
(***************************************************************************)
\* Types; a closed breaker has counted fewer failures than open it.
AgentTypeOK ==
    /\ run \in [P -> {"idle", "starting", "running", "refused", "clean", "error", "aborted"}]
    /\ sig \in [P -> BOOLEAN]
    /\ call \in [P -> {"none", "wait tool", "wait delegate"} \cup Tools]
    /\ calls \in [P -> 0..MaxCalls]
    /\ width \in SlotOptions /\ held \in 0..width /\ line \in Seq(P)
    /\ \A b \in DOMAIN breaker :
          /\ breaker[b].state \in {"closed", "open", "cooled", "half_open"}
          /\ breaker[b].fails \in 0..Threshold
          /\ breaker[b].state = "closed" => breaker[b].fails < Threshold
    /\ gauge \in [{"main", "sub"} -> 0..Cardinality(Turn)]

\* The gate's books: every slot in use is held by exactly one executing call,
\* also by calls whose agent is gone; exactly the waiting calls are in line,
\* once each; and nobody waits while a slot is free.
GateAccounted ==
    /\ held = Cardinality({p \in P : call[p] \in Tools})
    /\ Range(line) = {p \in P : call[p] \in {"wait tool", "wait delegate"}}
    /\ IsInjective(line)
    /\ line # <<>> => held = width

\* Every run ends and every call comes back, although main agents hold slots
\* while their sub-agents wait for one, and streams and tools may hang.
EveryRunEnds ==
    \A p \in P : /\ []<>(run[p] # "running")
                 /\ []<>(call[p] = "none")

=============================================================================
