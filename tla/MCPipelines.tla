----------------------------- MODULE MCPipelines -----------------------------
(* The work that outlives its request, side by side for TLC: executions and  *)
(* leases of app-sandbox, files of app-cloud, videos, the knowledge graph and*)
(* the scheduled quizzes of app-ts. The five share no state; every behaviour *)
(* runs one of them on its small instance and leaves the others in one of    *)
(* their initial states.                                                     *)
EXTENDS SandboxLease, VectorOutbox, VideoVectorize, KgBuild, TaskQuiz

VARIABLE pipeline

PipelinesInit ==
  /\ pipeline \in {"lease", "outbox", "video", "graph", "quiz"}
  /\ SandboxInit /\ OutboxInit /\ VecInit /\ KgInit /\ QuizInit
  /\ pipeline # "video" => text = 0 /\ slots = 1
  /\ pipeline # "graph" => kind = "page"

OnlyLease == UNCHANGED <<pipeline, outboxVars, vecVars, kgVars, quizVars>>
OnlyOutbox == UNCHANGED <<pipeline, sandboxVars, vecVars, kgVars, quizVars>>
OnlyVideo == UNCHANGED <<pipeline, sandboxVars, outboxVars, kgVars, quizVars>>
OnlyGraph == UNCHANGED <<pipeline, sandboxVars, outboxVars, vecVars, quizVars>>
OnlyQuiz == UNCHANGED <<pipeline, sandboxVars, outboxVars, vecVars, kgVars>>

PipelinesNext ==
  \/ pipeline = "lease" /\ SandboxNext /\ OnlyLease
  \/ pipeline = "outbox" /\ OutboxNext /\ OnlyOutbox
  \/ pipeline = "video" /\ VecNext /\ OnlyVideo
  \/ pipeline = "graph" /\ KgNext /\ OnlyGraph
  \/ pipeline = "quiz" /\ QuizNext /\ OnlyQuiz

(* The fairness of each module, for the pipeline that runs.                  *)
PipelinesFairness ==
  /\ \A e \in Exec : WF_sandboxVars(pipeline = "lease" /\ (Works(e) \/ ReleaseStep(e)))
  /\ WF_sandboxVars(pipeline = "lease" /\ SweeperStep)
  /\ WF_sandboxVars(pipeline = "lease" /\ ReleaseStep(Admin))
  /\ \A l \in LeaseId : WF_sandboxVars(pipeline = "lease" /\ TimePasses(l))
  /\ \A w \in PoolWorker : WF_outboxVars(pipeline = "outbox" /\ Executes(w))
  /\ WF_outboxVars(pipeline = "outbox" /\ JanitorStep)
  /\ WF_outboxVars(pipeline = "outbox" /\ TenMinutesPass)
  /\ \A t \in Task : WF_vecVars(pipeline = "video" /\ VecStep(t))
  /\ \A r \in Req : WF_kgVars(pipeline = "graph" /\ KgRun(r))
  /\ \A g \in ExecCall : WF_quizVars(pipeline = "quiz" /\ Generation(g))
  /\ \A m \in ExecCall \X {"generated", "completed", "failed"} :
       WF_quizVars(pipeline = "quiz" /\ (GeneratedArrives(m) \/ ReportArrives(m)))

PipelinesSpec ==
  PipelinesInit /\ [][PipelinesNext]_<<pipeline, sandboxVars, outboxVars, vecVars, kgVars, quizVars>>
                /\ PipelinesFairness

-----------------------------------------------------------------------------
(* Every variable of the five has its type.                                  *)
PipelinesTypeOK == SandboxTypeOK /\ OutboxTypeOK /\ VecTypeOK /\ KgTypeOK /\ QuizTypeOK

(* A lease tells the truth about its sandbox: one execution uses it at a     *)
(* time, one that is still handed out has not been deleted, and on one that  *)
(* is terminated nothing runs that was not told to stop.                     *)
LeaseIsHonest == OneRunsPerLease /\ ServedIsNotDeleted /\ TerminatedIsQuiet

(* What says it is in progress has somebody at work on it who will write the *)
(* outcome: the outbox row, the video's page, the graph build; and the       *)
(* pipelines that hold a place in the semaphore are the ones at work.        *)
WorkIsBacked == ProcessingIsHeld /\ PipelinesBounded /\ PendingIsBacked /\ ProcessingIsBacked

(* What says it is done is there: the vectors of the very text, evidence of  *)
(* one version and no older than promised, the questions of the quiz.        *)
DoneIsThere == DoneIsIndexed /\ DoneItemHasEvidence /\ CompletedHasQuestions

(* Nothing settled is reopened and nothing under way is started twice, by    *)
(* late workers, sweepers, pollers, retries or callbacks.                    *)
NothingIsRedone ==
  /\ ExecTerminalIsFinal /\ OutcomeIsFinal
  /\ ReadyStaysReady /\ AnswersAreFinal /\ ActiveIsReused

(* Everything that was started ends, through failures and deaths.            *)
EveryPipelineEnds ==
  /\ RunningEnds /\ LeaseIsReclaimed
  /\ TaskSettles /\ RetriesEnd
  /\ EveryTaskSettles /\ EveryBuildEnds /\ GenerationEnds
=============================================================================
