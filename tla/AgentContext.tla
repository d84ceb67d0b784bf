---------------------------- MODULE AgentContext ----------------------------
(***************************************************************************)
(* The private context of one sub-agent in one session                     *)
(* (repository/mongo/agent-context.ts): finished runs append what was      *)
(* asked and answered, and a rolling summary takes in the older entries    *)
(* and trims them away (services/context-compression.ts,                   *)
(* maybeCompressAgent).  Entries are numbered as they are appended.        *)
(***************************************************************************)
EXTENDS Integers, Sequences, FiniteSets, SequencesExt

CONSTANTS
    AgentKeep,     \* entries that stay raw (context.recentKeep)
    AgentMin,      \* new entries worth a summary (context.compressThreshold)
    MaxEntries     \* bound: entries appended

ASSUME ContextAssumption ==
    AgentKeep \in Nat \ {0} /\ AgentMin \in Nat \ {0} /\ MaxEntries \in Nat

VARIABLES
    appended,  \* number of entries appended so far
    entries,   \* the raw entries
    told,      \* the entries the summary text was made from
    counted,   \* summarizedCount
    cjob,      \* the compression of this context, at most one
    late,      \* history: an append came while the context was compressed; it
               \* was overwritten by a trim
    pruned     \* history: entries trimmed away

contextVars == <<appended, entries, told, counted, cjob, late, pruned>>

NoJob == [step |-> "idle", total |-> 0, already |-> 0, base |-> {}, picked |-> {}, kept |-> <<>>]

ContextInit ==
    /\ appended = 0 /\ entries = <<>>
    /\ told = {} /\ counted = 0
    /\ cjob = NoJob
    /\ late = "none" /\ pruned = {}

\* A run of the agent is recorded and a compression scheduled.
AppendEntry ==
    /\ appended < MaxEntries
    /\ appended' = appended + 1
    /\ entries' = Append(entries, appended')
    /\ cjob' \in {cjob} \cup (IF cjob.step = "idle" THEN {[NoJob EXCEPT !.step = "count"]} ELSE {})
    /\ late' = IF cjob.step # "idle" /\ late = "none" THEN "during" ELSE late
    /\ UNCHANGED <<told, counted, pruned>>

CountEntries ==
    /\ cjob.step = "count"
    /\ cjob' = [cjob EXCEPT !.step = "look", !.total = Len(entries)]
    /\ UNCHANGED <<appended, entries, told, counted, late, pruned>>

SummaryTarget == cjob.total - AgentKeep

\* getSummary, and whether there is enough to summarize.
Look ==
    /\ cjob.step = "look"
    /\ cjob' = IF SummaryTarget - counted < AgentMin THEN NoJob
               ELSE [cjob EXCEPT !.step = "list", !.already = counted, !.base = told]
    /\ UNCHANGED <<appended, entries, told, counted, late, pruned>>

ListEntries ==
    /\ cjob.step = "list"
    /\ LET new == {entries[i] : i \in (cjob.already + 1)..(SummaryTarget)} IN
       cjob' = [cjob EXCEPT !.step = "save", !.picked = new]
    /\ UNCHANGED <<appended, entries, told, counted, late, pruned>>

SaveSummary ==
    /\ cjob.step = "save"
    /\ told' = cjob.base \cup cjob.picked
    /\ counted' = SummaryTarget
    /\ cjob' = [cjob EXCEPT !.step = "trim"]
    /\ UNCHANGED <<appended, entries, late, pruned>>

\* slice(-keepLast)
Recent(s) == SubSeq(s, IF Len(s) > AgentKeep THEN Len(s) - AgentKeep + 1 ELSE 1, Len(s))

\* trim: load the entries ...
TrimLoad ==
    /\ cjob.step = "trim"
    /\ cjob' = [cjob EXCEPT !.step = "write", !.kept = entries]
    /\ UNCHANGED <<appended, entries, told, counted, late, pruned>>

\* ... and write the last of them back.
TrimWrite ==
    /\ cjob.step = "write"
    /\ LET kept == Recent(cjob.kept) IN
       /\ entries' = kept
       /\ late' = IF entries # cjob.kept THEN "overwritten" ELSE late
       /\ pruned' = pruned \cup (Range(entries) \ Range(kept))
    /\ cjob' = NoJob
    /\ UNCHANGED <<appended, told, counted>>

\* A call fails; what has been saved stays.
CompressionFails ==
    /\ cjob.step # "idle"
    /\ cjob' = NoJob
    /\ UNCHANGED <<appended, entries, told, counted, late, pruned>>

ContextNext ==
    \/ AppendEntry
    \/ CountEntries \/ Look \/ ListEntries \/ SaveSummary \/ TrimLoad \/ TrimWrite
    \/ CompressionFails
ContextSpec == ContextInit /\ [][ContextNext]_contextVars

(***************************************************************************)
(* Properties.                                                             *)
(***************************************************************************)
\* Types; the latest entries are never in the summary as well.
ContextTypeOK ==
    /\ appended \in 0..MaxEntries
    /\ Range(entries) \cup told \cup pruned \subseteq 1..appended
    /\ counted \in 0..appended /\ (counted > 0 => counted + AgentKeep <= appended)
    /\ cjob.step \in {"idle", "count", "look", "list", "save", "trim", "write"}

\* What the agent is given as its recent context are its latest entries, in
\* order, whatever a compression is doing - unless an append fell between the
\* two halves of a trim.
RecentIsLatest ==
    late # "overwritten" =>
        /\ entries = [i \in 1..Len(entries) |-> appended - Len(entries) + i]
        /\ Len(entries) >= (IF appended < AgentKeep THEN appended ELSE AgentKeep)

\* "compression prunes what it summarized", even when nothing is appended
\* while it works.
PrunedIsSummarized == late = "none" => pruned \subseteq told
=============================================================================
