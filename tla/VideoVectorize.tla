--------------------------- MODULE VideoVectorize ---------------------------
(***************************************************************************)
(* Vectorization of one video page (services/video-vectorizer.ts): create  *)
(* and revector requests, the pipeline each of them starts behind a        *)
(* semaphore, the status poll that heals the bookkeeping against Milvus,   *)
(* and the deletion of the video.  Every await on the stores, the ASR      *)
(* delegate or Milvus is a place where the others run.  The text of a page *)
(* is a version number, and the vectors of the page are the versions they  *)
(* were cut from.                                                          *)
(***************************************************************************)
EXTENDS Integers, Sequences, FiniteSets

CONSTANTS
    Task,        \* requests; each starts at most one pipeline
    SlotOptions, \* values of config.vectorize.concurrency
    MaxText      \* bound: versions of the page's transcript

ASSUME VecAssumption == SlotOptions \subseteq Nat \ {0} /\ MaxText \in Nat \ {0}

Texts == 0..MaxText        \* 0: no transcript
PageStatuses == {"none", "pending", "processing", "done", "failed"}
NoPage == [status |-> "none", hash |-> 0]

VARIABLES
    text,     \* version of the latest transcript
    page,     \* the vec_pages record: status and contentHash (0: undefined)
    vectors,  \* versions whose chunks Milvus holds for the page
    vstep,    \* where a request or its pipeline is
    row,      \* status of its vec_tasks record
    seen,     \* the page record it has read
    txt,      \* the version it is indexing
    running,  \* pipelines that hold a slot (Semaphore.active)
    vqueue,   \* pipelines that wait for one (Semaphore.waiters)
    slots,    \* the configured concurrency
    poll,     \* the status poll: its step, what it has read and counted
    deletion, \* the deletion of the video: its step
    tangled   \* history: someone else wrote while a pipeline was in progress

vecVars == <<text, page, vectors, vstep, row, seen, txt, running,
             vqueue, slots, poll, deletion, tangled>>
bookVars == <<slots, poll, deletion>>

VSteps == {"new", "current", "deferred", "write", "save", "wait", "init", "mark", "asr",
           "clear", "embed", "insert", "finish", "settle", "fail", "failPage", "end"}
Pipeline == {"init", "mark", "asr", "clear", "embed", "insert", "finish",
             "settle", "fail", "failPage"}
InProgress == {t \in Task : vstep[t] \in Pipeline \cup {"write", "save", "wait"}}

VecInit ==
    /\ text \in 0..1
    /\ page = NoPage
    /\ vectors = {}
    /\ vstep = [t \in Task |-> "new"]
    /\ row = [t \in Task |-> "none"]
    /\ seen = [t \in Task |-> NoPage]
    /\ txt = [t \in Task |-> 0]
    /\ running = {}
    /\ vqueue = <<>>
    /\ slots \in SlotOptions
    /\ poll = [step |-> "idle", rec |-> NoPage, count |-> FALSE]
    /\ deletion = "no"
    /\ tangled = FALSE

VGoto(t, s) == vstep' = [vstep EXCEPT ![t] = s]
Row(t, s) == row' = [row EXCEPT ![t] = s]
Persist(rec) == page' = rec
Tangle == tangled' = (tangled \/ InProgress # {})

\* app-user stores a new transcript.
NewText ==
    /\ text < MaxText
    /\ text' = text + 1
    /\ UNCHANGED <<page, vectors, vstep, row, seen, txt, running, vqueue, tangled>>
    /\ UNCHANGED bookVars

(***************************************************************************)
(* createTask and revector.                                                *)
(***************************************************************************)
UpToDate(rec) == rec.status = "done" /\ rec.hash # 0 /\ text # 0 /\ rec.hash = text

\* Reads the transcript and the page: a page that is up to date is left alone
\* (revector: one without transcript is refused), the quota may defer it.
Request(t) ==
    /\ vstep[t] = "new"
    /\ \E revector \in BOOLEAN :
          LET leave == IF revector THEN text = 0 ELSE UpToDate(page) IN
          \/ /\ leave
             /\ VGoto(t, IF revector THEN "deferred" ELSE "current")
             /\ UNCHANGED <<seen, tangled>>
          \/ /\ ~leave
             /\ VGoto(t, "deferred")
             /\ UNCHANGED <<seen, tangled>>
          \/ /\ ~leave
             /\ VGoto(t, "write")
             /\ seen' = [seen EXCEPT ![t] = page]
             /\ Tangle
    /\ UNCHANGED <<text, page, vectors, row, txt, running, vqueue>>
    /\ UNCHANGED bookVars

\* upsertPage of the record read before the quota was asked.
WritePending(t) ==
    /\ vstep[t] = "write"
    /\ Persist([status |-> "pending", hash |-> seen[t].hash])
    /\ VGoto(t, "save")
    /\ seen' = [seen EXCEPT ![t] = NoPage]
    /\ UNCHANGED <<text, vectors, row, txt, running, vqueue, tangled>>
    /\ UNCHANGED bookVars

\* saveTask, then runPipeline, which asks for a slot at once.
SaveTask(t) ==
    /\ vstep[t] = "save"
    /\ Row(t, "pending")
    /\ IF Cardinality(running) < slots
       THEN /\ running' = running \cup {t}
            /\ VGoto(t, "init")
            /\ UNCHANGED vqueue
       ELSE /\ vqueue' = Append(vqueue, t)
            /\ VGoto(t, "wait")
            /\ UNCHANGED running
    /\ UNCHANGED <<text, page, vectors, seen, txt, tangled>>
    /\ UNCHANGED bookVars

(***************************************************************************)
(* runPipeline.                                                            *)
(***************************************************************************)
\* The finally: the slot goes to the first waiter, whose pipeline starts.
EndPipeline(t) ==
    IF vqueue = <<>>
    THEN /\ running' = running \ {t}
         /\ VGoto(t, "end")
         /\ UNCHANGED vqueue
    ELSE /\ running' = (running \ {t}) \cup {Head(vqueue)}
         /\ vqueue' = Tail(vqueue)
         /\ vstep' = [vstep EXCEPT ![t] = "end", ![Head(vqueue)] = "init"]

\* Reads the page and the transcript: gone, up to date after all, or to do.
InitPhase(t) ==
    /\ vstep[t] = "init"
    /\ Row(t, "processing")
    /\ IF page.status # "none" /\ ~UpToDate(page)
       THEN /\ seen' = [seen EXCEPT ![t] = page]
            /\ txt' = [txt EXCEPT ![t] = text]
            /\ VGoto(t, "mark")
       ELSE /\ VGoto(t, IF page.status = "none" THEN "fail" ELSE "settle")
            /\ UNCHANGED <<seen, txt>>
    /\ UNCHANGED <<text, page, vectors, running, vqueue, tangled>>
    /\ UNCHANGED bookVars

MarkProcessing(t) ==
    /\ vstep[t] = "mark"
    /\ Persist([seen[t] EXCEPT !.status = "processing"])
    /\ VGoto(t, IF txt[t] = 0 THEN "asr" ELSE "clear")
    /\ seen' = [seen EXCEPT ![t] = NoPage]
    /\ UNCHANGED <<text, vectors, row, txt, running, vqueue, tangled>>
    /\ UNCHANGED bookVars

\* ensureAsr and the second read of the transcript: there is one, or it fails.
AsrPhase(t) ==
    /\ vstep[t] = "asr"
    /\ \/ /\ text' = IF text = 0 THEN 1 ELSE text
          /\ txt' = [txt EXCEPT ![t] = text']
          /\ VGoto(t, "clear")
       \/ /\ VGoto(t, "fail")
          /\ UNCHANGED <<text, txt>>
    /\ UNCHANGED <<page, vectors, row, seen, running, vqueue, tangled>>
    /\ UNCHANGED bookVars

\* deletePageVectors, whose failure is only logged.
ClearVectors(t) ==
    /\ vstep[t] = "clear"
    /\ vectors' \in {{}, vectors}
    /\ VGoto(t, "embed")
    /\ UNCHANGED <<text, page, row, seen, txt, running, vqueue, tangled>>
    /\ UNCHANGED bookVars

\* addVideoContent: the embeddings, then delete-then-insert; each call may fail.
EmbedAndDelete(t) ==
    /\ vstep[t] = "embed"
    /\ \/ /\ vectors' = {}
          /\ VGoto(t, "insert")
       \/ /\ VGoto(t, "fail")
          /\ UNCHANGED vectors
    /\ UNCHANGED <<text, page, row, seen, txt, running, vqueue, tangled>>
    /\ UNCHANGED bookVars

InsertRows(t) ==
    /\ vstep[t] = "insert"
    /\ \/ /\ vectors' = vectors \cup {txt[t]}
          /\ VGoto(t, "finish")
       \/ /\ VGoto(t, "fail")
          /\ UNCHANGED vectors
    /\ UNCHANGED <<text, page, row, seen, txt, running, vqueue, tangled>>
    /\ UNCHANGED bookVars

\* Mutant: the page keeps the status it had when it was read again.
FinishKeepsStatus(t) ==
    /\ vstep[t] = "finish"
    /\ Persist([status |-> IF page.status = "none" THEN "done" ELSE page.status,
                hash |-> txt[t]])
    /\ VGoto(t, "settle")
    /\ UNCHANGED <<text, vectors, row, seen, txt, running, vqueue, tangled>>
    /\ UNCHANGED bookVars

\* The page is written done with the hash of the text that was read at the
\* start, over whatever the record says now, or anew when it was deleted.
FinishPage(t) ==
    /\ vstep[t] = "finish"
    /\ Persist([status |-> "done", hash |-> txt[t]])
    /\ VGoto(t, "settle")
    /\ UNCHANGED <<text, vectors, row, seen, txt, running, vqueue, tangled>>
    /\ UNCHANGED bookVars

\* complete(taskId), then the finally.
SettleDone(t) ==
    /\ vstep[t] = "settle"
    /\ Row(t, "done")
    /\ EndPipeline(t)
    /\ txt' = [txt EXCEPT ![t] = 0]
    /\ UNCHANGED <<text, page, vectors, seen, tangled>>
    /\ UNCHANGED bookVars

\* The catch: fail(taskId), then the page record if there is one, the finally.
SettleFailed(t) ==
    /\ vstep[t] = "fail"
    /\ Row(t, "failed")
    /\ VGoto(t, "failPage")
    /\ txt' = [txt EXCEPT ![t] = 0]
    /\ UNCHANGED <<text, page, vectors, seen, running, vqueue, tangled>>
    /\ UNCHANGED bookVars

FailPage(t) ==
    /\ vstep[t] = "failPage"
    /\ IF page.status = "none" THEN UNCHANGED page
       ELSE Persist([page EXCEPT !.status = "failed"])
    /\ EndPipeline(t)
    /\ UNCHANGED <<text, vectors, row, seen, txt, tangled>>
    /\ UNCHANGED bookVars

(***************************************************************************)
(* pageStatus and deleteVideo.                                             *)
(***************************************************************************)
PollRead ==
    /\ poll.step = "idle" /\ page.status \in {"pending", "done"}
    /\ poll' = [poll EXCEPT !.step = "count", !.rec = page]
    /\ Tangle
    /\ UNCHANGED <<text, page, vectors, vstep, row, seen, txt, running,
                   vqueue, slots, deletion>>

PollCount ==
    /\ poll.step = "count"
    /\ poll' = [poll EXCEPT !.step = "heal", !.count = vectors # {}]
    /\ UNCHANGED <<text, page, vectors, vstep, row, seen, txt, running,
                   vqueue, slots, deletion, tangled>>

\* The self-heal writes back the record it read before it counted.
PollHeal ==
    /\ poll.step = "heal"
    /\ poll' = [step |-> "over", rec |-> NoPage, count |-> FALSE]
    /\ page' = CASE poll.rec.status = "done" /\ ~poll.count
                      -> [poll.rec EXCEPT !.status = "failed"]
                 [] poll.rec.status = "pending" /\ poll.count /\ text # 0
                      -> [poll.rec EXCEPT !.status = "done"]
                 [] OTHER -> page
    /\ Tangle
    /\ UNCHANGED <<text, vectors, vstep, row, seen, txt, running,
                   vqueue, slots, deletion>>

DeleteVectors ==
    /\ deletion = "no"
    /\ vectors' = {}
    /\ deletion' = "pages"
    /\ tangled' = (tangled \/ InProgress # {} \/ poll.step # "idle")
    /\ UNCHANGED <<text, page, vstep, row, seen, txt, running, vqueue,
                   slots, poll>>

DeletePages ==
    /\ deletion = "pages"
    /\ page' = NoPage
    /\ deletion' = "over"
    /\ tangled' = (tangled \/ InProgress # {} \/ poll.step # "idle")
    /\ UNCHANGED <<text, vectors, vstep, row, seen, txt, running,
                   vqueue, slots, poll>>

VecStep(t) ==
    \/ WritePending(t) \/ SaveTask(t) \/ InitPhase(t) \/ MarkProcessing(t)
    \/ AsrPhase(t) \/ ClearVectors(t) \/ EmbedAndDelete(t) \/ InsertRows(t)
    \/ FinishPage(t) \/ SettleDone(t) \/ SettleFailed(t) \/ FailPage(t)

VecNext ==
    \/ NewText \/ PollRead \/ PollCount \/ PollHeal \/ DeleteVectors \/ DeletePages
    \/ \E t \in Task : Request(t) \/ VecStep(t)

\* Every awaited call returns; ensureAsr has a deadline of its own.
VecFairness == \A t \in Task : WF_vecVars(VecStep(t))
VecSpec == VecInit /\ [][VecNext]_vecVars /\ VecFairness

(***************************************************************************)
(* Properties.                                                             *)
(***************************************************************************)
VecTypeOK ==
    /\ text \in Texts
    /\ page \in [status : PageStatuses, hash : Texts]
    /\ vectors \subseteq Texts
    /\ vstep \in [Task -> VSteps]
    /\ row \in [Task -> {"none", "pending", "processing", "done", "failed"}]
    /\ seen \in [Task -> [status : PageStatuses, hash : Texts]]
    /\ txt \in [Task -> Texts]
    /\ \A t \in Task : vstep[t] \in {"clear", "embed", "insert", "finish"} => txt[t] # 0
    /\ running \subseteq Task /\ vqueue \in Seq(Task)
    /\ deletion \in {"no", "pages", "over"}

\* The semaphore bounds the pipelines that load the embedding gateway, and no
\* slot stays with a pipeline that has ended or idle while others wait.
PipelinesBounded ==
    /\ running = {t \in Task : vstep[t] \in Pipeline}
    /\ Cardinality(running) <= slots
    /\ vqueue # <<>> => Cardinality(running) = slots

\* A page that says pending or processing has a request or pipeline behind it
\* that will write its outcome, however requests, polls and deletion interleave.
PendingIsBacked == page.status \in {"pending", "processing"} => InProgress # {}

\* When nothing ran beside a pipeline, a page that is done is indexed with the
\* text whose hash it carries and with nothing else (not the poll's own repair
\* of a page whose vectors were lost by a failed run).
DoneIsIndexed ==
    (~tangled /\ page.status = "done" /\ deletion # "pages") => vectors = {page.hash}

\* What the outcome of a task was stays: the poller never sees it reopened.
OutcomeIsFinal ==
    [][\A t \in Task : row[t] \in {"done", "failed"} => row'[t] = row[t]]_vecVars

\* Every pipeline ends and its task is settled.
EveryTaskSettles ==
    \A t \in Task : []<>(\/ vstep[t] \in {"new", "current", "deferred"}
                         \/ vstep[t] = "end" /\ row[t] \in {"done", "failed"})

=============================================================================
