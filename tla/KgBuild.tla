------------------------------- MODULE KgBuild -------------------------------
(***************************************************************************)
(* The knowledge-graph builds of one user (kg/service.ts): requests that   *)
(* reuse the active build or start one, the background run of a build over *)
(* one item, and a crash of the process.  The item is a video page (its    *)
(* bookkeeping is in the graph, app-kg) or a cloud document (its ledger is *)
(* kg_docs).  A text is a version number; the evidence of the item is the  *)
(* set of versions it was extracted from.                                  *)
(***************************************************************************)
EXTENDS Integers, FiniteSets

CONSTANTS
    Req,       \* requests; each starts at most one build
    MaxVer     \* bound: versions of the item's text

ASSUME KgAssumption == MaxVer \in Nat \ {0}

VARIABLES
    kind,      \* what the item is: "page" or "doc"
    source,    \* version of the stored text
    known,     \* version the graph knows of (pages: bumped after the text)
    item,      \* bookkeeping of the item: status and the version it is done for
    evidence,  \* versions the item's evidence was extracted from
    kstep,     \* where a request or its run is
    build,     \* the status of the request's kg_builds record
    aim,       \* version the run has been told to bring the item to
    got,       \* version the run has read
    crashes,   \* crashes so far (bound: one)
    lostSaves, \* history: the final save of a run failed
    overlap    \* history: two runs worked on the item at once

kgVars == <<kind, source, known, item, evidence, kstep, build, aim, got,
            crashes, lostSaves, overlap>>
kgWorld == <<kind, source, known, crashes>>

AtItem == {"begin", "read", "mark", "clear", "extract", "confirm", "failItem"}
Running == AtItem \cup {"select", "final", "finalFailed"}
KSteps == {"new", "scope", "save", "reused", "none", "end", "dead"} \cup Running

KgInit ==
    /\ kind \in {"page", "doc"}
    /\ source = 1 /\ known = 1
    /\ item = [status |-> "none", ver |-> 0]
    /\ evidence = {}
    /\ kstep = [r \in Req |-> "new"]
    /\ build = [r \in Req |-> "none"]
    /\ aim = [r \in Req |-> 0]
    /\ got = [r \in Req |-> 0]
    /\ crashes = 0 /\ lostSaves = FALSE /\ overlap = FALSE

KGoto(r, s) == kstep' = [kstep EXCEPT ![r] = s]
Item(status, ver) == item' = [status |-> status, ver |-> ver]

\* What selectPendingPages selects, and what isCloudDocFresh does not skip.
PagePending == item.ver = 0 \/ item.status = "failed" \/ item.ver # known
DocFresh(v) == item.status = "done" /\ item.ver = v

(***************************************************************************)
(* The text changes: app-user or app-cloud stores it, then the graph       *)
(* learns the page's new version.                                          *)
(***************************************************************************)
NewSource ==
    /\ source < MaxVer /\ source = known
    /\ source' = source + 1
    /\ UNCHANGED <<kind, known, item, evidence, kstep, build, aim, got,
                   crashes, lostSaves, overlap>>

LearnVersion ==
    /\ known < source
    /\ known' = source
    /\ UNCHANGED <<kind, source, item, evidence, kstep, build, aim, got,
                   crashes, lostSaves, overlap>>

(***************************************************************************)
(* startBuild.                                                             *)
(***************************************************************************)
\* The graph answers and no build is active, or the request ends here.
FindActive(r) ==
    /\ kstep[r] = "new"
    /\ \/ KGoto(r, "none")
       \/ /\ \E o \in Req : build[o] = "processing"
          /\ KGoto(r, "reused")
       \/ /\ \A o \in Req : build[o] # "processing"
          /\ KGoto(r, "scope")
    /\ UNCHANGED <<item, evidence, build, aim, got, lostSaves, overlap>>
    /\ UNCHANGED kgWorld

\* The scope of the build; for documents their text may come with it.
ResolveScope(r) ==
    /\ kstep[r] = "scope"
    /\ \/ KGoto(r, "none") /\ UNCHANGED got
       \/ /\ KGoto(r, "save")
          /\ got' \in {got} \cup {[got EXCEPT ![r] = IF kind = "doc" THEN source ELSE 0]}
    /\ UNCHANGED <<item, evidence, build, aim, lostSaves, overlap>>
    /\ UNCHANGED kgWorld

SaveRecord(r) ==
    /\ kstep[r] = "save"
    /\ \/ /\ build' = [build EXCEPT ![r] = "processing"]
          /\ KGoto(r, IF kind = "page" THEN "select" ELSE "begin")
       \/ /\ KGoto(r, "none")
          /\ UNCHANGED build
    /\ UNCHANGED <<item, evidence, aim, got, lostSaves, overlap>>
    /\ UNCHANGED kgWorld

(***************************************************************************)
(* runVideo and runCloud.                                                  *)
(***************************************************************************)
\* Mutant: the version that was selected is not handed on.
SelectPagesUnaimed(r) ==
    /\ kstep[r] = "select"
    /\ KGoto(r, IF PagePending THEN "begin" ELSE "final")
    /\ UNCHANGED <<item, evidence, build, aim, got, lostSaves, overlap>>
    /\ UNCHANGED kgWorld

\* The pages whose version the graph has not seen done, with that version.
SelectPages(r) ==
    /\ kstep[r] = "select"
    /\ \/ /\ PagePending
          /\ aim' = [aim EXCEPT ![r] = known]
          /\ KGoto(r, "begin")
       \/ /\ ~PagePending
          /\ KGoto(r, "final")
          /\ UNCHANGED aim
       \/ /\ KGoto(r, "finalFailed")
          /\ UNCHANGED aim
    /\ UNCHANGED <<item, evidence, build, got, lostSaves, overlap>>
    /\ UNCHANGED kgWorld

\* beginPage with the version that was selected: it is not skipped, even when
\* another run has finished it meanwhile.  A fresh document is skipped, unless
\* its ledger does not answer.
BeginItem(r) ==
    /\ kstep[r] = "begin"
    /\ overlap' = (overlap \/ \E o \in Req \ {r} : kstep[o] \in AtItem \ {"begin"})
    /\ IF kind = "page"
       THEN \/ /\ Item("processing", item.ver)
               /\ KGoto(r, "read")
            \/ /\ KGoto(r, "final")         \* beginPage failed: nothing to undo
               /\ UNCHANGED item
       ELSE /\ \/ KGoto(r, "read")
               \/ /\ DocFresh(IF got[r] # 0 THEN got[r] ELSE source)
                  /\ KGoto(r, "final")
            /\ UNCHANGED item
    /\ UNCHANGED <<evidence, build, aim, got, lostSaves>>
    /\ UNCHANGED kgWorld

\* getLatest or getDocument, unless the listing brought the text.
ReadText(r) ==
    /\ kstep[r] = "read"
    /\ \/ /\ got' = [got EXCEPT ![r] = IF got[r] # 0 THEN got[r] ELSE source]
          /\ KGoto(r, IF kind = "page" THEN "clear" ELSE "mark")
       \/ /\ KGoto(r, "failItem")
          /\ UNCHANGED got
    /\ UNCHANGED <<item, evidence, build, aim, lostSaves, overlap>>
    /\ UNCHANGED kgWorld

\* The document's ledger says processing, or does not take it and the document
\* is given up as it is.
MarkDoc(r) ==
    /\ kstep[r] = "mark"
    /\ \/ /\ Item("processing", got[r])
          /\ KGoto(r, "extract")
       \/ /\ KGoto(r, "final")
          /\ UNCHANGED item
    /\ UNCHANGED <<evidence, build, aim, got, lostSaves, overlap>>
    /\ UNCHANGED kgWorld

\* Mutant: the page's old evidence is left.
ClearEvidenceNot(r) ==
    /\ kstep[r] = "clear"
    /\ KGoto(r, "extract")
    /\ UNCHANGED <<item, evidence, build, aim, got, lostSaves, overlap>>
    /\ UNCHANGED kgWorld

\* deletePageEvidence, before the extraction.
ClearEvidence(r) ==
    /\ kstep[r] = "clear"
    /\ \/ /\ evidence' = {}
          /\ KGoto(r, "extract")
       \/ /\ KGoto(r, "failItem")
          /\ UNCHANGED evidence
    /\ UNCHANGED <<item, build, aim, got, lostSaves, overlap>>
    /\ UNCHANGED kgWorld

\* The extraction and the graph writes: a page's evidence is added, a
\* document's is replaced in one call.
ExtractAndLink(r) ==
    /\ kstep[r] = "extract"
    /\ \/ /\ evidence' = (IF kind = "page" THEN evidence ELSE {}) \cup {got[r]}
          /\ KGoto(r, "confirm")
       \/ /\ KGoto(r, "failItem")
          /\ UNCHANGED evidence
    /\ UNCHANGED <<item, build, aim, got, lostSaves, overlap>>
    /\ UNCHANGED kgWorld

\* markPageDone for the version of beginPage, docs.save for the hash read.
Confirm(r) ==
    /\ kstep[r] = "confirm"
    /\ \/ /\ Item("done", IF kind = "page" THEN aim[r] ELSE got[r])
          /\ KGoto(r, "final")
       \/ /\ KGoto(r, "failItem")
          /\ UNCHANGED item
    /\ UNCHANGED <<evidence, build, aim, got, lostSaves, overlap>>
    /\ UNCHANGED kgWorld

\* markPageFailed or docs.save(failed); when that fails too it is only logged.
FailItem(r) ==
    /\ kstep[r] = "failItem"
    /\ \/ Item("failed", IF kind = "page" THEN item.ver ELSE got[r])
       \/ UNCHANGED item
    /\ KGoto(r, "final")
    /\ UNCHANGED <<evidence, build, aim, got, lostSaves, overlap>>
    /\ UNCHANGED kgWorld

\* The last save of the record; its failure is only logged.
FinalSave(r) ==
    /\ kstep[r] \in {"final", "finalFailed"}
    /\ \/ /\ build' = [build EXCEPT ![r] = IF kstep[r] = "final" THEN "done" ELSE "failed"]
          /\ UNCHANGED lostSaves
       \/ /\ lostSaves' = TRUE
          /\ UNCHANGED build
    /\ KGoto(r, "end")
    /\ UNCHANGED <<item, evidence, aim, got, overlap>>
    /\ UNCHANGED kgWorld

\* The process dies and is started again; nothing looks at what it left.
CrashKg ==
    /\ crashes = 0 /\ \E r \in Req : kstep[r] \in Running
    /\ crashes' = 1
    /\ kstep' = [r \in Req |-> IF kstep[r] \in {"new", "reused", "none", "end"}
                               THEN kstep[r] ELSE "dead"]
    /\ UNCHANGED <<kind, source, known, item, evidence, build, aim, got,
                   lostSaves, overlap>>

KgRun(r) ==
    \/ SaveRecord(r) \/ SelectPages(r) \/ BeginItem(r) \/ ReadText(r) \/ MarkDoc(r)
    \/ ClearEvidence(r) \/ ExtractAndLink(r) \/ Confirm(r) \/ FailItem(r) \/ FinalSave(r)

KgNext ==
    \/ NewSource \/ LearnVersion \/ CrashKg
    \/ \E r \in Req : FindActive(r) \/ ResolveScope(r) \/ KgRun(r)

KgFairness == \A r \in Req : WF_kgVars(KgRun(r))
KgSpec == KgInit /\ [][KgNext]_kgVars /\ KgFairness

(***************************************************************************)
(* Properties.                                                             *)
(***************************************************************************)
KgTypeOK ==
    /\ kind \in {"page", "doc"}
    /\ known \in 1..source /\ source \in 1..MaxVer
    /\ item \in [status : {"none", "processing", "done", "failed"}, ver : 0..MaxVer]
    /\ evidence \subseteq 1..MaxVer
    /\ kstep \in [Req -> KSteps]
    /\ build \in [Req -> {"none", "processing", "done", "failed"}]
    /\ aim \in [Req -> 0..MaxVer] /\ got \in [Req -> 0..MaxVer]
    /\ \A r \in Req : kind = "page" /\ kstep[r] \in AtItem => aim[r] \in 1..known

\* What a later build will not select is in the graph: the evidence of an item
\* that counts as done comes from one text, at least as new as the version it
\* is done for - unless two runs were at the item at once.  It survives
\* failures at every call and a crash at every step.
DoneItemHasEvidence ==
    (~overlap /\ item.status = "done") =>
        \E v \in evidence : evidence = {v} /\ v >= item.ver

\* A build that is processing has a run that will close it, except after a
\* crash or when its last save failed.
ProcessingIsBacked ==
    \A r \in Req : build[r] = "processing" =>
        kstep[r] \in Running \/ crashes = 1 \/ lostSaves

\* A second build is only started while no record of the user was processing
\* when the request looked: two runs are at work only if both looked before
\* either had saved its record.
ActiveIsReused ==
    [][\A r \in Req :
          (kstep[r] = "new" /\ kstep'[r] = "scope")
             => \A o \in Req : kstep[o] \notin Running]_kgVars

\* Every run closes its record, without a crash and with a store that takes it.
EveryBuildEnds ==
    \A r \in Req : 
        []<>(build[r] # "processing" \/ crashes = 1 \/ lostSaves)

=============================================================================
