------------------------------ MODULE BoardSave ------------------------------
(* A mind map or whiteboard on its way to its two stores.  Every window has  *)
(* an editor that saves the whole document after a pause, one save at a time *)
(* (MindMapEditorView, WhiteboardEditorView), over a bridge that knows the   *)
(* version and answers a conflict with one retry (board-store.ts).  app-      *)
(* content writes the body to MongoDB under the version of the MySQL row,    *)
(* moves the row on, or puts the body back, and keeps a read cache           *)
(* (service/board, repo/board).                                              *)
EXTENDS Naturals

CONSTANTS Window,     \* editors of the board, of one user
          Agent,      \* callers of update_board with a title and no content
          NoText,     \* no document; also the content of an update without one
          MaxEdits,
          MaxExtras   \* snapshots taken and faults of the database, together

ASSUME BoardAssumption ==
  /\ Window \cap Agent = {}
  /\ NoText \notin Nat
  /\ MaxEdits \in Nat /\ MaxExtras \in Nat

VARIABLES meta,     \* the version in the MySQL row
          body,     \* the MongoDB document: its version and text
          cached,   \* the detail in Redis: the row's version, the body's; or None
          update,   \* per caller: where its save is
          editor,   \* per window: the document and the flags of the autosave
          fetch,    \* per window: where a GetDetail of it is
          edits, extras,
          acked,    \* history: the text of the last committed content
          stored    \* history: per window, its last text that was saved

storeVars == <<meta, body, cached>>
countVars == <<edits, extras>>
boardVars == <<meta, body, cached, update, editor, fetch,
               edits, extras, acked, stored>>

None == [ver |-> 0, of |-> 0]
NoBody == [ver |-> 0, text |-> NoText]
NoUpdate == [at |-> "idle", try |-> 0, text |-> NoText, base |-> 0,
             prior |-> NoBody, outcome |-> "none"]
NoFetch == [at |-> "idle", for |-> "none", ver |-> 0, of |-> 0]

Caller == Window \cup Agent

(* A board with its first document, or created without one.                  *)
BoardInit ==
  /\ meta = 1
  /\ body \in {NoBody, [ver |-> 1, text |-> 0]}
  /\ acked = body.text
  /\ cached = None
  /\ update = [c \in Caller |-> NoUpdate]
  /\ editor = [w \in Window |-> [shown |-> 0, known |-> 1, dirty |-> FALSE,
                                 timer |-> FALSE, trailing |-> FALSE, failed |-> FALSE]]
  /\ fetch = [w \in Window |-> NoFetch]
  /\ edits = 0 /\ extras = 0
  /\ stored = [w \in Window |-> 0]

InFlight(w) == update[w].at # "idle"

(* The body's text is on its way into the row, or back out.                  *)
Unsettled(c) == update[c].text # NoText /\ update[c].at \in {"bump", "undo"}

-----------------------------------------------------------------------------
(* The editor.                                                               *)

\* onTreeChange: the refs are current at once, the save follows the pause.
Edit(w) ==
  /\ edits < MaxEdits
  /\ edits' = edits + 1
  /\ editor' = [editor EXCEPT ![w].shown = edits + 1, ![w].dirty = TRUE,
                              ![w].timer = TRUE, ![w].failed = FALSE]
  /\ UNCHANGED <<storeVars, update, fetch, extras, acked, stored>>

Sends(w) ==
  update' = [update EXCEPT ![w] =
    [NoUpdate EXCEPT !.at = "check", !.try = 1, !.text = editor[w].shown,
                     !.base = editor[w].known]]

\* doFlush, from the timer or from a caller that does not wait for it: one
\* save at a time, a second one is noted and follows.
Flush(w) ==
  /\ editor[w].dirty
  /\ IF InFlight(w)
     THEN /\ editor' = [editor EXCEPT ![w].timer = FALSE, ![w].trailing = TRUE]
          /\ UNCHANGED update
     ELSE /\ editor' = [editor EXCEPT ![w].timer = FALSE, ![w].dirty = FALSE,
                                      ![w].failed = FALSE]
          /\ Sends(w)
  /\ UNCHANGED <<storeVars, fetch, countVars, acked, stored>>

\* Mutant of Lands: the save that was noted meanwhile is dropped.
LandsForgets(w, saved, version) ==
  LET e == editor[w] IN
  editor' = [editor EXCEPT ![w] =
    [e EXCEPT !.known = version, !.dirty = e.dirty \/ ~saved, !.trailing = FALSE,
              !.failed = ~saved]]

\* The rest of doFlush: a failure leaves the document dirty, and either
\* outcome starts the timer for a save that was noted meanwhile.
Lands(w, saved, version) ==
  LET e == editor[w] IN
  editor' = [editor EXCEPT ![w] =
    [e EXCEPT !.known = version,
              !.dirty = e.dirty \/ ~saved,
              !.timer = e.timer \/ e.trailing,
              !.trailing = FALSE,
              !.failed = ~saved]]

-----------------------------------------------------------------------------
(* BoardService.Update, for a save and for an update_board of the title.     *)

UpdateGoes(c, place) == update' = [update EXCEPT ![c].at = place]

\* The row is read; If-Match must be its version.  Only content goes on to
\* the body.
Check(c) ==
  /\ update[c].at = "check"
  /\ UpdateGoes(c, IF update[c].base # meta THEN "conflict"
                   ELSE IF update[c].text = NoText THEN "bump" ELSE "prior")
  /\ UNCHANGED <<storeVars, editor, fetch, countVars, acked, stored>>

\* docs.Get, for a rollback.
ReadPrior(c) ==
  /\ update[c].at = "prior"
  /\ update' = [update EXCEPT ![c].at = "write", ![c].prior = body]
  /\ UNCHANGED <<storeVars, editor, fetch, countVars, acked, stored>>

\* Mutant of ConditionalWrite: the filter has no version.
ConditionalWriteBlind(c) ==
  /\ update[c].at = "write"
  /\ body' = [ver |-> update[c].base + 1, text |-> update[c].text]
  /\ UpdateGoes(c, "bump")
  /\ UNCHANGED <<meta, cached, editor, fetch, countVars, acked, stored>>

\* ConditionalWrite: the document of the expected version is replaced, or a
\* missing one inserted.
ConditionalWrite(c) ==
  /\ update[c].at = "write"
  /\ IF body = NoBody \/ body.ver = update[c].base
     THEN /\ body' = [ver |-> update[c].base + 1, text |-> update[c].text]
          /\ UpdateGoes(c, "bump")
     ELSE /\ UpdateGoes(c, "conflict")
          /\ UNCHANGED body
  /\ UNCHANGED <<meta, cached, editor, fetch, countVars, acked, stored>>

\* BumpVersion: UPDATE ... WHERE version = expected.
BumpVersion(c) ==
  /\ update[c].at = "bump"
  /\ IF meta = update[c].base
     THEN /\ meta' = meta + 1
          /\ acked' = IF update[c].text = NoText THEN acked ELSE update[c].text
          /\ UpdateGoes(c, "drop")
     ELSE /\ update' = [update EXCEPT ![c].at = IF update[c].text = NoText THEN "conflict" ELSE "undo",
                                      ![c].outcome = "conflict"]
          /\ UNCHANGED <<meta, acked>>
  /\ UNCHANGED <<body, cached, editor, fetch, countVars, stored>>

\* BumpVersion answers with an error of the database.
BumpFails(c) ==
  /\ update[c].at = "bump" /\ extras < MaxExtras
  /\ extras' = extras + 1
  /\ update' = [update EXCEPT ![c].at = IF update[c].text = NoText THEN "error" ELSE "undo",
                              ![c].outcome = "error"]
  /\ UNCHANGED <<storeVars, editor, fetch, edits, acked, stored>>

\* rollbackDoc, unless somebody has written over the body.
Restore(c) ==
  /\ update[c].at = "undo"
  /\ body' = IF body.ver = update[c].base + 1 THEN update[c].prior ELSE body
  /\ UpdateGoes(c, update[c].outcome)
  /\ UNCHANGED <<meta, cached, editor, fetch, countVars, acked, stored>>

DropCache(c) ==
  /\ update[c].at = "drop"
  /\ cached' = None
  /\ UpdateGoes(c, "reload")
  /\ UNCHANGED <<meta, body, editor, fetch, countVars, acked, stored>>

\* The row is read again and answered: its version may be another's by now.
Answer(w) ==
  /\ update[w].at = "reload"
  /\ Lands(w, TRUE, meta)
  /\ stored' = [stored EXCEPT ![w] = update[w].text]
  /\ update' = [update EXCEPT ![w] = NoUpdate]
  /\ UNCHANGED <<storeVars, fetch, countVars, acked>>

-----------------------------------------------------------------------------
(* saveMindMap, after an update that was refused.                            *)

Fail(w) ==
  /\ \/ update[w].at = "error"
     \/ update[w].at = "conflict" /\ update[w].try = 2
  /\ Lands(w, FALSE, editor[w].known)
  /\ update' = [update EXCEPT ![w] = NoUpdate]
  /\ UNCHANGED <<storeVars, fetch, countVars, acked, stored>>

\* GetDetail begins: a hit is the answer, a miss reads the row.
Fetches(w, for) ==
  fetch' = [fetch EXCEPT ![w] =
    IF cached # None THEN [at |-> "answer", for |-> for, ver |-> cached.ver, of |-> cached.of]
                     ELSE [at |-> "body", for |-> for, ver |-> meta, of |-> 0]]

Refresh(w) ==
  /\ update[w].at = "conflict" /\ update[w].try = 1
  /\ fetch[w].at = "idle"
  /\ UpdateGoes(w, "refresh")
  /\ Fetches(w, "retry")
  /\ UNCHANGED <<storeVars, editor, countVars, acked, stored>>

\* getMindMap beside the saves: a snapshot is taken of the server's document.
Peek(w) ==
  /\ extras < MaxExtras /\ fetch[w].at = "idle"
  /\ extras' = extras + 1
  /\ Fetches(w, "peek")
  /\ UNCHANGED <<storeVars, update, editor, edits, acked, stored>>

\* docs.Get, after the row.
FetchBody(w) ==
  /\ fetch[w].at = "body"
  /\ fetch' = [fetch EXCEPT ![w].at = "fill", ![w].of = body.ver]
  /\ UNCHANGED <<storeVars, update, editor, countVars, acked, stored>>

\* cache.Set, whatever was written since.
Fill(w) ==
  /\ fetch[w].at = "fill"
  /\ cached' = [ver |-> fetch[w].ver, of |-> fetch[w].of]
  /\ fetch' = [fetch EXCEPT ![w].at = "answer"]
  /\ UNCHANGED <<meta, body, update, editor, countVars, acked, stored>>

\* The answer: the second try, or a version to remember.
Fetched(w) ==
  /\ fetch[w].at = "answer"
  /\ IF fetch[w].for = "retry"
     THEN /\ update' = [update EXCEPT ![w].at = "check", ![w].try = 2, ![w].base = fetch[w].ver]
          /\ UNCHANGED editor
     ELSE /\ editor' = [editor EXCEPT ![w].known = fetch[w].ver]
          /\ UNCHANGED update
  /\ fetch' = [fetch EXCEPT ![w] = NoFetch]
  /\ UNCHANGED <<storeVars, countVars, acked, stored>>

\* The TTL, and SetPin, whose write does not touch the version.
Expires ==
  /\ cached # None
  /\ cached' = None
  /\ UNCHANGED <<meta, body, update, editor, fetch, countVars, acked, stored>>

-----------------------------------------------------------------------------
UpdateStep(c) ==
  Check(c) \/ ReadPrior(c) \/ ConditionalWrite(c) \/ BumpVersion(c) \/ Restore(c) \/ DropCache(c)

FetchStep(w) == FetchBody(w) \/ Fill(w) \/ Fetched(w)

SaveStep(w) == UpdateStep(w) \/ Answer(w) \/ Fail(w) \/ Refresh(w) \/ FetchStep(w)

BoardNext ==
  \/ \E w \in Window : Edit(w) \/ Flush(w) \/ SaveStep(w) \/ BumpFails(w) \/ Peek(w)
  \/ Expires

(* Timers fire, the server answers.                                          *)
BoardFairness ==
  \A w \in Window : /\ WF_boardVars(editor[w].timer /\ Flush(w))
                    /\ WF_boardVars(SaveStep(w))

BoardSpec == BoardInit /\ [][BoardNext]_boardVars /\ BoardFairness

-----------------------------------------------------------------------------
(* update_board of a title: app-content's version, no content.               *)
Retitle(a) ==
  /\ update[a].at = "idle"
  /\ update' = [update EXCEPT ![a] = [NoUpdate EXCEPT !.at = "check", !.try = 2, !.base = meta]]
  /\ UNCHANGED <<storeVars, editor, fetch, countVars, acked, stored>>

Retitled(a) ==
  /\ update[a].at \in {"reload", "conflict", "error"}
  /\ UpdateGoes(a, "done")
  /\ UNCHANGED <<storeVars, editor, fetch, countVars, acked, stored>>

TitleSpec ==
  BoardInit /\ [][BoardNext \/ \E a \in Agent : Retitle(a) \/ UpdateStep(a) \/ Retitled(a)]_boardVars

-----------------------------------------------------------------------------
(* The two stores agree: whenever no update stands between them, the body    *)
(* is the text that was acknowledged last, under the version of the row.     *)
(* Racing windows, conflicts and rolled back writes do not disturb it.       *)
StoresAgree ==
  \/ \E c \in Caller : Unsettled(c)
  \/ body = NoBody /\ acked = NoText /\ meta = 1
  \/ body = [ver |-> meta, text |-> acked]

(* What a reader gets, from the cache too, is not older than the version it  *)
(* comes with, so nobody saves under a version whose content it never had.   *)
DetailIsNotBehind ==
  /\ cached.of = 0 => cached.ver <= 1
  /\ cached.of # 0 => cached.of >= cached.ver

(* No edit is forgotten: it is saved, or in the save that is under way, or a *)
(* timer or a save that follows will take it, or the window was told that    *)
(* the save failed.                                                          *)
EditIsBacked ==
  \A w \in Window : LET e == editor[w] IN
    /\ e.dirty => e.timer \/ (e.trailing /\ InFlight(w)) \/ e.failed
    /\ ~e.dirty /\ e.shown # stored[w] => update[w].text = e.shown

(* Every edit is saved in the end, or its window is told that it was not.    *)
EveryEditIsSaved ==
  \A w \in Window : editor[w].shown # stored[w] ~> editor[w].shown = stored[w] \/ editor[w].failed

(* docs/app-content.md 81: an update whose If-Match is not the version gets  *)
(* 409.  So one whose If-Match is the version is refused only when another   *)
(* update is at work on the board.                                           *)
RefusedOnlyIfStale ==
  \A c \in Caller :
    update[c].at = "write" /\ update[c].base = meta
      => \/ body = NoBody \/ body.ver = meta
         \/ \E d \in Caller \ {c} : update[d].at \notin {"idle", "done"}

=============================================================================
