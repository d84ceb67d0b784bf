----------------------------- MODULE MCChatPath -----------------------------
(* What a chat turn of app-ts uses, side by side for TLC: the daily quota,   *)
(* the run of the agents, the history of a session and the context of the    *)
(* agents. Every behaviour runs one of them on its small instance and leaves *)
(* the others in their initial states.                                       *)
EXTENDS MCUsageQuota, AgentRun, ChatHistory, AgentContext

VARIABLE subject

pathVars == <<subject, quotaVars, agentVars, historyVars, contextVars>>

PathInit ==
  /\ subject \in {"quota", "agents", "history", "context"}
  /\ QuotaInit /\ AgentInit /\ HistoryInit /\ ContextInit

PathNext ==
  \/ subject = "quota" /\ QuotaNext /\ UNCHANGED <<subject, agentVars, historyVars, contextVars>>
  \/ subject = "agents" /\ AgentNext /\ UNCHANGED <<subject, quotaVars, historyVars, contextVars>>
  \/ subject = "history" /\ HistoryNext /\ UNCHANGED <<subject, quotaVars, agentVars, contextVars>>
  \/ subject = "context" /\ ContextNext /\ UNCHANGED <<subject, quotaVars, agentVars, historyVars>>

(* The fairness of each module, for the subject that runs.                   *)
PathFairness ==
  /\ \A l \in QLane : WF_quotaVars(subject = "quota" /\ QuotaStep(l))
  /\ \A p \in P : /\ WF_agentVars(subject = "agents" /\ WaitExpires(p))
                  /\ WF_agentVars(subject = "agents" /\ Cancelled(p))
                  /\ WF_agentVars(subject = "agents" /\ BudgetOver(p))
  /\ \A t \in Turn : /\ WF_agentVars(subject = "agents" /\ Abort(t))
                     /\ WF_agentVars(subject = "agents" /\ MainCut(t))
                     /\ WF_agentVars(subject = "agents" /\ StartSub(t))
                     /\ WF_agentVars(subject = "agents" /\ SubCut(t))
  /\ WF_historyVars(subject = "history" /\ Compress)

PathSpec == PathInit /\ [][PathNext]_pathVars /\ PathFairness

-----------------------------------------------------------------------------
(* Every variable of the four has its type.                                  *)
PathTypeOK == QuotaTypeOK /\ AgentTypeOK /\ HistoryTypeOK /\ ContextTypeOK

(* Nothing a turn uses is given out beyond its limit or lost: the quota's    *)
(* counters exceed theirs by no more than what was in progress, and every    *)
(* slot of the tool gate belongs to one executing call, with nobody waiting  *)
(* beside a free one.                                                        *)
NothingOverdrawn == LimitsHold /\ GateAccounted

(* What the model is told next is what was said: questions stay with their   *)
(* answers, the summary covers the messages it counts, and the agents' raw   *)
(* context is their latest entries, whatever a background compression, a     *)
(* truncation or a second turn does meanwhile.                               *)
MemoryIsCoherent == PairsStayTogether /\ SummaryIsPrefix /\ RecentIsLatest

(* Nothing hangs with Redis, a model's stream, a tool or the summarizer:     *)
(* requests and runs end, and the next compression can start.                *)
ChatPathEnds == EveryRequestEnds /\ EveryRunEnds /\ CompressionReopens
=============================================================================
