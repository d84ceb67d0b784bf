------------------------------ MODULE TaskQuiz ------------------------------
(***************************************************************************)
(* One scheduled quiz.  When it is due app-task calls app-ts, which writes *)
(* the questions in the background (services/task-quiz-generation.ts,      *)
(* repository/mongo/task-quiz-docs.ts) and tells app-content, which keeps  *)
(* the row and judges the answers (repo/quiz/task_quiz.go,                 *)
(* service/quiz/task_quiz.go).  app-task repeats a call whose answer it    *)
(* did not get, so two calls can be at work on one quiz.  A set of         *)
(* questions is named by the call that wrote it.                           *)
(***************************************************************************)
EXTENDS Naturals, FiniteSets

CONSTANTS
    ExecCall,     \* calls app-task makes for the quiz
    NoCall,       \* nobody: no questions yet
    Submission,   \* answers the user sends
    MaxLoss       \* bound: writes and answers lost

ASSUME QuizAssumption == NoCall \notin ExecCall /\ "none" \notin Submission /\ MaxLoss \in Nat

VARIABLES
    sched,      \* app-task's status of the quiz
    doc,        \* the questions' document: its status and its questions
    line,       \* app-content's row of the quiz
    cstep,      \* where a call and its pipeline are
    mail,       \* requests in flight to app-content and app-task
    sstep,      \* where a submission is
    answers,    \* the submission whose answers are stored
    lossCount,  \* writes and answers lost so far
    docLost,    \* history: an update of the document failed
    doubled     \* history: a call began while another was at work

quizVars == <<sched, doc, line, cstep, mail, sstep, answers, lossCount, docLost, doubled>>
userVars == <<sstep, answers>>

Writing == {"delete", "mark", "row", "generate", "ready", "failed"}
NoDoc == [status |-> "none", paper |-> NoCall]
\* A status set by updateOne without upsert: nothing where there is no document.
SetDoc(d, status) == IF d = NoDoc THEN NoDoc ELSE [d EXCEPT !.status = status]

QuizInit ==
    /\ sched = "pending"
    /\ doc = NoDoc
    /\ line = "none"
    /\ cstep = [g \in ExecCall |-> "new"]
    /\ mail = {}
    /\ sstep = [s \in Submission |-> "new"]
    /\ answers = "none"
    /\ lossCount = 0 /\ docLost = FALSE /\ doubled = FALSE

Lose == /\ lossCount < MaxLoss
        /\ lossCount' = lossCount + 1
CGoto(g, s) == cstep' = [cstep EXCEPT ![g] = s]
\* What app-task makes of the answer to a call: 202 it runs, an error or
\* silence it is due again.
Answered(code) ==
    \/ code = 202 /\ sched' = "running" /\ UNCHANGED lossCount
    \/ code = 500 /\ UNCHANGED <<sched, lossCount>>
    \/ Lose /\ UNCHANGED sched

\* app-task: the quiz is due; one call at a time.
Dispatch(g) ==
    /\ sched = "pending" /\ cstep[g] = "new"
    /\ \A h \in ExecCall : cstep[h] \notin {"get", "delete", "mark"}
    /\ CGoto(g, "get")
    /\ doubled' = (doubled \/ \E h \in ExecCall : cstep[h] \in Writing)
    /\ UNCHANGED <<sched, doc, line, mail, userVars, lossCount, docLost>>

\* startGeneration: get
\* Mutant: a retry regenerates what is ready.
GetDocRegenerates(g) ==
    /\ cstep[g] = "get"
    /\ CGoto(g, IF doc.status = "failed" THEN "delete" ELSE "mark")
    /\ UNCHANGED <<sched, doc, line, mail, userVars, lossCount, docLost, doubled>>

GetDoc(g) ==
    /\ cstep[g] = "get"
    /\ IF doc.status = "ready"
       THEN CGoto(g, "end") /\ Answered(202)
       ELSE /\ CGoto(g, IF doc.status = "failed" THEN "delete" ELSE "mark")
            /\ UNCHANGED <<sched, lossCount>>
    /\ UNCHANGED <<doc, line, mail, userVars, docLost, doubled>>

\* deleteIfFailed
DeleteIfFailed(g) ==
    /\ cstep[g] = "delete"
    /\ doc' = IF doc.status = "failed" THEN NoDoc ELSE doc
    /\ CGoto(g, "mark")
    /\ UNCHANGED <<sched, line, mail, userVars, lossCount, docLost, doubled>>

\* markGenerating (an upsert that keeps the questions), the answer, and the
\* pipeline in the background; or the store fails and so does the call.
MarkGenerating(g) ==
    /\ cstep[g] = "mark"
    /\ \/ doc' = [doc EXCEPT !.status = "generating"] /\ CGoto(g, "row") /\ Answered(202)
       \/ doc' = doc /\ CGoto(g, "end") /\ Answered(500)
    /\ UNCHANGED <<line, mail, userVars, docLost, doubled>>

\* createTaskQuizRow: the row, unless there is one.
CreateRow(g) ==
    /\ cstep[g] = "row"
    /\ \/ line' = (IF line = "none" THEN "generating" ELSE line) /\ CGoto(g, "generate")
       \/ line' = line /\ CGoto(g, "failed")
    /\ UNCHANGED <<sched, doc, mail, userVars, lossCount, docLost, doubled>>

\* generateQuestions, up to genRetries attempts.
Generate(g) ==
    /\ cstep[g] = "generate"
    /\ \E s \in {"ready", "failed"} : CGoto(g, s)
    /\ UNCHANGED <<sched, doc, line, mail, userVars, lossCount, docLost, doubled>>

Tell(g, what) == mail' = mail \cup ({g} \X what)

\* markReady; then the row, the email and app-task are told, nobody waiting
\* for them.  A store that fails leads to markFailed.
MarkReady(g) ==
    /\ cstep[g] = "ready"
    /\ \/ /\ doc' = IF doc = NoDoc THEN NoDoc ELSE [status |-> "ready", paper |-> g]
          /\ Tell(g, {"generated", "completed"})
          /\ CGoto(g, "end")
       \/ doc' = doc /\ mail' = mail /\ CGoto(g, "failed")
    /\ UNCHANGED <<sched, line, userVars, lossCount, docLost, doubled>>

\* markFailed, whose own failure is swallowed, and the report.
MarkFailed(g) ==
    /\ cstep[g] = "failed"
    /\ \/ doc' = SetDoc(doc, "failed") /\ UNCHANGED <<lossCount, docLost>>
       \/ doc' = doc /\ docLost' = TRUE /\ Lose
    /\ Tell(g, {"failed"})
    /\ CGoto(g, "end")
    /\ UNCHANGED <<sched, line, userVars, doubled>>

\* app-content: MarkTaskQuizGenerated
GeneratedArrives(m) ==
    /\ m \in mail /\ m[2] = "generated"
    /\ line' = IF line = "generating" THEN "awaiting" ELSE line
    /\ mail' = mail \ {m}
    /\ UNCHANGED <<sched, doc, cstep, userVars, lossCount, docLost, doubled>>

\* app-task: the report moves a running quiz (docs/app-task.md).
ReportArrives(m) ==
    /\ m \in mail /\ m[2] \in {"completed", "failed"}
    /\ sched' = IF sched = "running" THEN m[2] ELSE sched
    /\ mail' = mail \ {m}
    /\ UNCHANGED <<doc, line, cstep, userVars, lossCount, docLost, doubled>>

\* bestEffort: it is tried once.
RequestLost(m) ==
    /\ m \in mail /\ Lose
    /\ mail' = mail \ {m}
    /\ UNCHANGED <<sched, doc, line, cstep, userVars, docLost, doubled>>

\* app-task: no report within ten minutes.
RunsOut ==
    /\ sched = "running"
    /\ sched' = "failed"
    /\ UNCHANGED <<doc, line, cstep, mail, userVars, lossCount, docLost, doubled>>

\* SubmitTaskQuizAnswer, once there is a row: the answers are judged, and
\* stored with the new status of the row in one transaction that a second
\* answer to the same question aborts (uq_quiz_task_answer_task_q).
Submit(s) ==
    /\ sstep[s] = "new" /\ line # "none"
    /\ IF answers = "none"
       THEN /\ answers' = s
            /\ line' = IF line \in {"awaiting", "generating"} THEN "completed" ELSE line
            /\ sstep' = [sstep EXCEPT ![s] = "stored"]
       ELSE sstep' = [sstep EXCEPT ![s] = "refused"] /\ UNCHANGED <<answers, line>>
    /\ UNCHANGED <<sched, doc, cstep, mail, lossCount, docLost, doubled>>

Generation(g) ==
    \/ GetDoc(g) \/ DeleteIfFailed(g) \/ MarkGenerating(g) \/ CreateRow(g)
    \/ Generate(g) \/ MarkReady(g) \/ MarkFailed(g)
QuizNext ==
    \/ RunsOut
    \/ \E g \in ExecCall : Dispatch(g) \/ Generation(g)
    \/ \E m \in mail : GeneratedArrives(m) \/ ReportArrives(m) \/ RequestLost(m)
    \/ \E s \in Submission : Submit(s)

\* Store, model and app-content calls settle; requests are delivered or lost.
QuizFairness == /\ \A g \in ExecCall : WF_quizVars(Generation(g))
                /\ \A m \in ExecCall \X {"generated", "completed", "failed"} :
                      WF_quizVars(GeneratedArrives(m) \/ ReportArrives(m))
QuizSpec == QuizInit /\ [][QuizNext]_quizVars /\ QuizFairness

(***************************************************************************)
(* Properties.                                                             *)
(***************************************************************************)
\* Types; a row that awaits answers or has them was told of questions.
QuizTypeOK ==
    /\ sched \in {"pending", "running", "completed", "failed"}
    /\ doc \in [status : {"none", "generating", "ready", "failed"}, paper : ExecCall \cup {NoCall}]
    /\ line \in {"none", "generating", "awaiting", "completed"}
    /\ cstep \in [ExecCall -> Writing \cup {"new", "get", "end"}]
    /\ mail \subseteq ExecCall \X {"generated", "completed", "failed"}
    /\ answers \in Submission \cup {"none"}
    /\ line = "completed" <=> answers # "none"

\* What app-task calls completed has its questions, unless two calls were at
\* work on it: the document is written before anyone is told.
CompletedHasQuestions ==
    sched = "completed" /\ ~doubled => doc.status = "ready" /\ doc.paper # NoCall

\* Retries leave finished questions alone: what the user was emailed is
\* what the answers are judged by.
ReadyStaysReady == [][doc.status = "ready" /\ ~doubled => doc' = doc]_quizVars

\* A quiz is answered once, and late news from a generation does not reopen it.
AnswersAreFinal == [][answers # "none" => answers' = answers /\ line' = line]_quizVars

\* A document does not stay "generating": every pipeline ends with a verdict.
GenerationEnds == []<>(doc.status # "generating" \/ docLost)

=============================================================================
