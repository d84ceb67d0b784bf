---------------------------- MODULE ChatHistory -----------------------------
(***************************************************************************)
(* One chat session as it is stored (repository/mongo/chat-store.ts,       *)
(* services/chat-sessions.ts): the turns that write their two messages,    *)
(* regeneration, which cuts the history, clearing, deleting, the sweep of  *)
(* empty sessions, and the rolling summary that is brought up to date      *)
(* behind a finished turn (services/context-compression.ts).               *)
(***************************************************************************)
EXTENDS Integers, Sequences, FiniteSets, SequencesExt

CONSTANTS
    Asker,        \* turns of the session
    RecentKeep,   \* messages the summary leaves out (context.recentKeep)
    CompressMin,  \* new messages that are worth a summary (compressThreshold)
    AtOnce,       \* bound: a turn is closed before this many others have
                  \* been begun after it (turns of a session share a lock)
    MaxCuts       \* bound: regenerations, clearings, deletions

ASSUME HistoryAssumption ==
    /\ IsFiniteSet(Asker)
    /\ RecentKeep \in Nat \ {0} /\ CompressMin \in Nat \ {0}
    /\ AtOnce \in Nat \ {0} /\ MaxCuts \in Nat
    \* The messages of the turns that were begun after an unfinished one are
    \* among those the summary leaves out (recentKeep is 6 in default.yaml).
    /\ 2 * (AtOnce - 1) <= RecentKeep

VARIABLES
    session,   \* the session's document
    msgs,      \* its messages by createdAt
    asker,     \* where each turn is
    job,       \* the compression, at most one per session
    sweep,     \* list() has counted the session's messages
    remover,   \* delete() has deleted the messages
    cuts,      \* interventions of the user so far (bound)
    cut        \* history: messages or the document were taken away

historyVars == <<session, msgs, asker, job, sweep, remover, cuts, cut>>

Msg(t, role, status) == [turn |-> t, role |-> role, status |-> status]
NewSession == [alive |-> TRUE, old |-> FALSE, covered |-> {}, count |-> 0]
IdleJob == [step |-> "idle", total |-> 0, already |-> 0, base |-> {}, picked |-> {}]

\* countDone and listDone: where the done messages are, how many there are up to
\* a place, and the n of them behind the first skip.
DoneAt == {i \in DOMAIN msgs : msgs[i].status = "done"}
Place(i) == Cardinality({j \in DoneAt : j <= i})
DoneSlice(skip, n) ==
    {<<msgs[i].turn, msgs[i].role>> : i \in {j \in DoneAt : Place(j) \in (skip + 1)..(skip + n)}}

HistoryInit ==
    /\ session = NewSession
    /\ msgs = <<>>
    /\ asker = [t \in Asker |-> "new"]
    /\ job = IdleJob
    /\ sweep = "idle" /\ remover = "idle" /\ cuts = 0 /\ cut = FALSE

Reach(t, s) == asker' = [asker EXCEPT ![t] = s]
GetOrCreate == session' = IF session.alive THEN session ELSE NewSession

(***************************************************************************)
(* Turns.                                                                  *)
(***************************************************************************)
Open(t) ==
    /\ asker[t] = "new"
    /\ GetOrCreate
    /\ Reach(t, "opened")
    /\ UNCHANGED <<msgs, job, sweep, remover, cuts, cut>>

BeginTurn(t) ==
    /\ asker[t] = "opened"
    /\ \A i \in DOMAIN msgs :
          msgs[i].status = "pending" => Len(msgs) - i < 2 * (AtOnce - 1)
    /\ msgs' = msgs \o <<Msg(t, "user", "done"), Msg(t, "assistant", "pending")>>
    /\ Reach(t, "begun")
    /\ UNCHANGED <<session, job, sweep, remover, cuts, cut>>

\* finalizeTurn; behind a turn that is done the summary is looked after, unless
\* that is under way.
FinalizeTurn(t, st) ==
    /\ asker[t] = "begun"
    /\ msgs' = [i \in DOMAIN msgs |->
                   IF msgs[i].turn = t /\ msgs[i].role = "assistant"
                   THEN Msg(t, "assistant", st) ELSE msgs[i]]
    /\ job' = IF st = "done" /\ job.step = "idle" THEN [IdleJob EXCEPT !.step = "count"] ELSE job
    /\ Reach(t, "end")
    /\ UNCHANGED <<session, sweep, remover, cuts, cut>>

(***************************************************************************)
(* maybeCompress.                                                          *)
(***************************************************************************)
CompressCount ==
    /\ job.step = "count"
    /\ job' = [job EXCEPT !.step = "look", !.total = Cardinality(DoneAt)]
    /\ UNCHANGED <<session, msgs, asker, sweep, remover, cuts, cut>>

Target == job.total - RecentKeep

CompressLook ==
    /\ job.step = "look"
    /\ job' = IF Target - session.count < CompressMin THEN IdleJob
              ELSE [job EXCEPT !.step = "list", !.already = session.count, !.base = session.covered]
    /\ UNCHANGED <<session, msgs, asker, sweep, remover, cuts, cut>>

CompressList ==
    /\ job.step = "list"
    /\ LET new == DoneSlice(job.already, Target - job.already) IN
       job' = IF new = {} THEN IdleJob ELSE [job EXCEPT !.step = "save", !.picked = new]
    /\ UNCHANGED <<session, msgs, asker, sweep, remover, cuts, cut>>

\* Mutant: the summary is written with upsert.
CompressSaveAnyway ==
    /\ job.step = "save"
    /\ session' = [session EXCEPT !.covered = job.base \cup job.picked, !.count = Target]
    /\ job' = IdleJob
    /\ UNCHANGED <<msgs, asker, sweep, remover, cuts, cut>>

\* saveSummary changes a session that is there, with the messages it has by now.
CompressSave ==
    /\ job.step = "save"
    /\ session' = IF session.alive
                  THEN [session EXCEPT !.covered = job.base \cup job.picked, !.count = Target]
                  ELSE session
    /\ job' = IdleJob
    /\ UNCHANGED <<msgs, asker, sweep, remover, cuts, cut>>

\* The store or the model fails, or the model takes more than 30 s.
CompressFails ==
    /\ job.step # "idle"
    /\ job' = IdleJob
    /\ UNCHANGED <<session, msgs, asker, sweep, remover, cuts, cut>>

(***************************************************************************)
(* The user's hand.                                                        *)
(***************************************************************************)
Intervene == cuts < MaxCuts /\ cuts' = cuts + 1

\* Mutant: the cut goes by the message's place.
TruncateFromPlace(i) ==
    /\ Intervene
    /\ session.alive
    /\ msgs' = SubSeq(msgs, 1, i - 1)
    /\ cut' = TRUE
    /\ UNCHANGED <<session, asker, job, sweep, remover>>

\* deleteMany createdAt >= the anchor's: the two messages of a turn carry one
\* time, so the anchor's turn goes as a whole, and all later ones.
TruncateFrom(i) ==
    /\ Intervene
    /\ session.alive
    /\ LET first == CHOOSE j \in DOMAIN msgs : msgs[j].turn = msgs[i].turn /\ msgs[j].role = "user"
       IN msgs' = SubSeq(msgs, 1, first - 1)
    /\ cut' = TRUE
    /\ UNCHANGED <<session, asker, job, sweep, remover>>

ClearHistory ==
    /\ Intervene
    /\ session.alive
    /\ msgs' = <<>> /\ cut' = TRUE
    /\ UNCHANGED <<session, asker, job, sweep, remover>>

DeleteMessages ==
    /\ Intervene
    /\ session.alive /\ remover = "idle"
    /\ msgs' = <<>> /\ remover' = "emptied" /\ cut' = TRUE
    /\ UNCHANGED <<session, asker, job, sweep>>

DeleteSession ==
    /\ remover = "emptied"
    /\ session' = [NewSession EXCEPT !.alive = FALSE]
    /\ remover' = "idle"
    /\ UNCHANGED <<msgs, asker, job, sweep, cuts, cut>>

(***************************************************************************)
(* list(): an empty session past the grace time is deleted.                *)
(***************************************************************************)
GraceOver ==
    /\ session.alive /\ ~session.old
    /\ session' = [session EXCEPT !.old = TRUE]
    /\ UNCHANGED <<msgs, asker, job, sweep, remover, cuts, cut>>

SweepCount ==
    /\ sweep = "idle" /\ session.alive /\ session.old /\ msgs = <<>>
    /\ sweep' = "empty"
    /\ UNCHANGED <<session, msgs, asker, job, remover, cuts, cut>>

SweepDelete ==
    /\ sweep = "empty"
    /\ session' = [NewSession EXCEPT !.alive = FALSE]
    /\ sweep' = "idle" /\ cut' = TRUE
    /\ UNCHANGED <<msgs, asker, job, remover, cuts>>

Compress == CompressCount \/ CompressLook \/ CompressList \/ CompressSave \/ CompressFails
HistoryNext ==
    \/ \E t \in Asker : \/ Open(t) \/ BeginTurn(t)
                        \/ \E st \in {"done", "failed"} : FinalizeTurn(t, st)
    \/ Compress
    \/ \E i \in DOMAIN msgs : TruncateFrom(i)
    \/ ClearHistory \/ DeleteMessages \/ DeleteSession
    \/ GraceOver \/ SweepCount \/ SweepDelete

\* Each await of the compression settles: the store's calls have timeouts,
\* the model call an abort signal.
HistoryFairness == WF_historyVars(Compress)
HistorySpec == HistoryInit /\ [][HistoryNext]_historyVars /\ HistoryFairness

(***************************************************************************)
(* Properties.                                                             *)
(***************************************************************************)
\* Types; what is gone holds nothing.
HistoryTypeOK ==
    /\ session.count \in 0..(2 * Cardinality(Asker))
    /\ session.covered \subseteq Asker \X {"user", "assistant"}
    /\ asker \in [Asker -> {"new", "opened", "begun", "end"}]
    /\ job.step \in {"idle", "count", "look", "list", "save"}
    /\ cuts \in 0..MaxCuts
    /\ session.alive \/ session = [NewSession EXCEPT !.alive = FALSE]

\* A turn's question and answer are there together or not at all, whatever is
\* cut and whichever turns run side by side: a history never starts with an
\* answer or loses the answer to a question it keeps.
PairsStayTogether ==
    \A t \in Asker :
        Cardinality({i \in DOMAIN msgs : msgs[i].turn = t}) \in {0, 2}

\* As long as nothing is taken away the summary covers exactly the messages
\* it counts, although answers are finished later than questions that were
\* asked after them, and turns fail.
SummaryIsPrefix == ~cut => session.covered = DoneSlice(0, session.count)

\* A compression that is in flight ends, so that the next one can start.
CompressionReopens == []<>(job.step = "idle")

=============================================================================
