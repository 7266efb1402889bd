------------------------------ MODULE Research ------------------------------
(***************************************************************************)
(* One request to the research service: ExecuteResearch, which works       *)
(* through the tasks of a plan, query by query and hit by hit, until they  *)
(* are done or a limit is reached, or VerifySources, which fetches the     *)
(* sources a user has submitted.  What the web answers, what a page is     *)
(* worth and when the time is over is open.  A query, a hit or a source is *)
(* only its number.                                                        *)
(***************************************************************************)
EXTENDS Naturals, Sequences, FiniteSets

CONSTANTS
    Tasks,      \* tasks of the plan, or sources submitted
    Queries,    \* queries of a task
    MaxHits,    \* bound on the hits of a search
    Limits      \* limits a plan can have

ASSUME Constants ==
    /\ Tasks \in Nat \ {0} /\ Queries \in Nat \ {0} /\ MaxHits \in Nat
    /\ Limits \subseteq [queries : Nat \ {0}, sources : Nat \ {0},
                         saturation : Nat \ {0}, cost : Nat]

VARIABLES
    pc,          \* where the request is, or its outcome
    mode,        \* which of the two it is
    limit,       \* of the plan; the cost as a number of queries, 0 for no limit
    configured,  \* is there a search service
    late,        \* is the time of the plan over
    task,        \* the current task or source
    query,       \* the query of the task that comes next
    before,      \* how much evidence there was when the task began
    found,       \* EvidenceIDs of the result of the task
    hits,        \* hits of the last search that are not looked at
    stale,       \* staleQueries
    queriesUsed, reasons, evidence, results, status, \* of the report
    searched     \* history: every search, with what came of it

position == <<task, query, before, found, hits, stale>>
vars == <<pc, mode, limit, configured, late, position, queriesUsed, reasons, evidence, results,
          status, searched>>

Reason == {"query_limit_reached", "source_limit_reached", "time_limit_reached",
           "cost_limit_reached", "research_saturated",
           "google_search_configuration_missing"}

Init ==
    /\ pc = "start"
    /\ mode \in {"execute", "verify"}
    /\ limit \in Limits
    /\ configured \in BOOLEAN
    /\ late = FALSE
    /\ task = 1 /\ query = 1 /\ before = 0 /\ found = {} /\ hits = 0 /\ stale = 0
    /\ queriesUsed = 0 /\ reasons = {} /\ evidence = <<>> /\ results = <<>>
    /\ status = "completed"
    /\ searched = <<>>

-----------------------------------------------------------------------------
(* ExecuteResearch.                                                        *)

Result(t, verified, ids) ==
    [task |-> t, status |-> IF verified THEN "partially_verified" ELSE "unverified",
     evidence |-> ids]

Unverified(from) == [i \in 1..(Tasks + 1 - from) |-> Result(from + i - 1, FALSE, {})]

\* Without a search service nothing is looked for.
ExecuteUnconfigured ==
    /\ pc = "start" /\ mode = "execute" /\ ~configured
    /\ results' = Unverified(1)
    /\ reasons' = {"google_search_configuration_missing"}
    /\ status' = "limited"
    /\ pc' = "save"
    /\ UNCHANGED <<mode, limit, configured, late, position, queriesUsed, evidence,
                   searched>>

Execute ==
    /\ pc = "start" /\ mode = "execute" /\ configured
    /\ pc' = "query"
    /\ UNCHANGED <<mode, limit, configured, late, position, queriesUsed, reasons,
                   evidence, results, status, searched>>

\* The clock is only read between two queries.
TimePasses ==
    /\ pc \in {"query", "hits"} /\ ~late
    /\ late' = TRUE
    /\ UNCHANGED <<pc, mode, limit, configured, position, queriesUsed, reasons,
                   evidence, results, status, searched>>

limitReached_AfterOne ==
    IF queriesUsed > limit.queries THEN "query_limit_reached"
    ELSE IF Len(evidence) >= limit.sources THEN "source_limit_reached"
    ELSE IF late THEN "time_limit_reached"
    ELSE IF limit.cost > 0 /\ queriesUsed >= limit.cost THEN "cost_limit_reached"
    ELSE "none"

limitReached ==
    IF queriesUsed >= limit.queries THEN "query_limit_reached"
    ELSE IF Len(evidence) >= limit.sources THEN "source_limit_reached"
    ELSE IF late THEN "time_limit_reached"
    ELSE IF limit.cost > 0 /\ queriesUsed >= limit.cost THEN "cost_limit_reached"
    ELSE "none"

More == pc = "query" /\ query <= Queries

StopAtLimit_Silent ==
    /\ More /\ limitReached # "none"
    /\ query' = Queries + 1
    /\ UNCHANGED <<pc, mode, limit, configured, late, task, before, found, hits,
                   stale, queriesUsed, reasons, evidence, results, status,
                   searched>>

\* A limit ends the task, and with it the research.
StopAtLimit ==
    /\ More /\ limitReached # "none"
    /\ reasons' = reasons \cup {limitReached}
    /\ query' = Queries + 1
    /\ UNCHANGED <<pc, mode, limit, configured, late, task, before, found, hits,
                   stale, queriesUsed, evidence, results, status, searched>>

\* A search that fails is used up, and says nothing about the task.
SearchFails ==
    /\ More /\ limitReached = "none"
    /\ queriesUsed' = queriesUsed + 1
    /\ \/ UNCHANGED reasons
       \/ reasons' = reasons \cup {"google_search_configuration_missing"}
    /\ searched' = Append(searched, [task |-> task, outcome |-> "failed"])
    /\ query' = query + 1
    /\ UNCHANGED <<pc, mode, limit, configured, late, task, before, found, hits,
                   stale, evidence, results, status>>

Search ==
    /\ More /\ limitReached = "none"
    /\ queriesUsed' = queriesUsed + 1
    /\ hits' \in 0..MaxHits
    /\ searched' = Append(searched, [task |-> task, outcome |-> "nothing"])
    /\ pc' = "hits"
    /\ UNCHANGED <<mode, limit, configured, late, task, query, before, found, stale,
                   reasons, evidence, results, status>>

FetchFails ==
    /\ pc = "hits" /\ hits > 0 /\ Len(evidence) < limit.sources
    /\ hits' = hits - 1
    /\ UNCHANGED <<pc, mode, limit, configured, late, task, query, before, found,
                   stale, queriesUsed, reasons, evidence, results, status,
                   searched>>

\* A page that was fetched is evidence for the current task.
Fetch ==
    /\ pc = "hits" /\ hits > 0 /\ Len(evidence) < limit.sources
    /\ \E primary \in BOOLEAN :
           evidence' = Append(evidence, [task |-> task, primary |-> primary])
    /\ searched' = [searched EXCEPT ![Len(searched)].outcome = "found"]
    /\ found' = found \cup {Len(evidence) + 1}
    /\ hits' = hits - 1
    /\ UNCHANGED <<pc, mode, limit, configured, late, task, query, before, stale,
                   queriesUsed, reasons, results, status>>

SourceLimit ==
    /\ pc = "hits" /\ hits > 0 /\ Len(evidence) >= limit.sources
    /\ reasons' = reasons \cup {"source_limit_reached"}
    /\ hits' = 0
    /\ UNCHANGED <<pc, mode, limit, configured, late, task, query, before, found,
                   stale, queriesUsed, evidence, results, status, searched>>

StaleAfter_Kept == IF Len(evidence) = before THEN stale + 1 ELSE stale

\* A query counts as stale if its task is still without evidence; the count
\* goes on from one task to the next.
StaleAfter == IF Len(evidence) = before THEN stale + 1 ELSE 0

Saturated == StaleAfter >= limit.saturation

EndQuery ==
    /\ pc = "hits" /\ hits = 0
    /\ stale' = StaleAfter
    /\ \/ /\ Saturated
          /\ reasons' = reasons \cup {"research_saturated"}
          /\ query' = Queries + 1
       \/ /\ ~Saturated
          /\ query' = query + 1
          /\ UNCHANGED reasons
    /\ pc' = "query"
    /\ UNCHANGED <<mode, limit, configured, late, task, before, found, hits,
                   queriesUsed, evidence, results, status, searched>>

\* Of reliability grade A or B.
Primary(i) == evidence[i].primary

OfTask_All == DOMAIN evidence
OfTask == (before + 1)..Len(evidence)

\* The result of the task; the first limit is the end of all.
FinishTask ==
    /\ pc = "query" /\ query > Queries
    /\ results' = Append(results, Result(task, \E i \in OfTask : Primary(i), found))
    /\ \/ /\ reasons = {} /\ task < Tasks
          /\ task' = task + 1 /\ query' = 1 /\ before' = Len(evidence) /\ found' = {}
          /\ UNCHANGED pc
       \/ /\ reasons # {} \/ task = Tasks
          /\ pc' = "finish"
          /\ UNCHANGED <<task, query, before, found>>
    /\ UNCHANGED <<mode, limit, configured, late, hits, stale, queriesUsed, reasons,
                   evidence, status, searched>>

Finish_NoFill ==
    /\ pc = "finish"
    /\ status' = IF reasons # {} THEN "limited" ELSE status
    /\ pc' = "save"
    /\ UNCHANGED <<mode, limit, configured, late, position, queriesUsed, reasons,
                   evidence, results, searched>>

\* Tasks that were not reached are unverified.
Finish ==
    /\ pc = "finish"
    /\ results' = results \o Unverified(Len(results) + 1)
    /\ status' = IF reasons # {} THEN "limited" ELSE status
    /\ pc' = "save"
    /\ UNCHANGED <<mode, limit, configured, late, position, queriesUsed, reasons,
                   evidence, searched>>

-----------------------------------------------------------------------------
(* VerifySources: one task for every source, saved before any is looked at.*)

VerifyUnconfigured ==
    /\ pc = "start" /\ mode = "verify" /\ ~configured
    /\ reasons' = {"google_search_configuration_missing"}
    /\ status' = "limited"
    /\ pc' = "save"
    /\ UNCHANGED <<mode, limit, configured, late, position, queriesUsed, evidence,
                   results, searched>>

Source == pc = "start" /\ mode = "verify" /\ configured /\ task <= Tasks

\* An address that is none ends the request, whatever was verified before.
SourceMalformed ==
    /\ Source
    /\ pc' = "error"
    /\ UNCHANGED <<mode, limit, configured, late, position, queriesUsed, reasons,
                   evidence, results, status, searched>>

SourceFails ==
    /\ Source
    /\ task' = task + 1
    /\ UNCHANGED <<pc, mode, limit, configured, late, query, before, found, hits,
                   stale, queriesUsed, reasons, evidence, results, status,
                   searched>>

VerifySource ==
    /\ Source
    /\ \E primary \in BOOLEAN :
           evidence' = Append(evidence, [task |-> task, primary |-> primary])
    /\ results' = Append(results, Result(task, TRUE, {Len(evidence) + 1}))
    /\ task' = task + 1
    /\ UNCHANGED <<pc, mode, limit, configured, late, query, before, found, hits,
                   stale, queriesUsed, reasons, status, searched>>

FinishSources ==
    /\ pc = "start" /\ mode = "verify" /\ configured /\ task > Tasks
    /\ status' = IF evidence = <<>> THEN "limited" ELSE status
    /\ pc' = "save"
    /\ UNCHANGED <<mode, limit, configured, late, position, queriesUsed, reasons,
                   evidence, results, searched>>

\* SaveReport, which may fail.
Save ==
    /\ pc = "save"
    /\ pc' \in {"saved", "error"}
    /\ UNCHANGED <<mode, limit, configured, late, position, queriesUsed, reasons,
                   evidence, results, status, searched>>

Next ==
    \/ ExecuteUnconfigured \/ Execute \/ TimePasses \/ StopAtLimit \/ SearchFails
    \/ Search \/ FetchFails \/ Fetch \/ SourceLimit \/ EndQuery \/ FinishTask \/ Finish
    \/ VerifyUnconfigured \/ SourceMalformed \/ SourceFails \/ VerifySource
    \/ FinishSources \/ Save

Spec == Init /\ [][Next]_vars

-----------------------------------------------------------------------------
(* Properties.                                                             *)

\* Every variable has its type.
TypeOK ==
    /\ pc \in {"start", "query", "hits", "finish", "save", "saved", "error"}
    /\ mode \in {"execute", "verify"}
    /\ limit \in Limits
    /\ configured \in BOOLEAN /\ late \in BOOLEAN
    /\ task \in 1..(Tasks + 1) /\ query \in 1..(Queries + 1)
    /\ before \in 0..limit.sources /\ found \subseteq 1..Len(evidence) /\ hits \in 0..MaxHits
    /\ stale \in 0..limit.saturation
    /\ queriesUsed \in Nat
    /\ reasons \subseteq Reason
    /\ evidence \in Seq([task : 1..Tasks, primary : BOOLEAN])
    /\ results \in Seq([task : 1..Tasks, status : {"partially_verified", "unverified"},
                        evidence : SUBSET (1..Len(evidence))])
    /\ status \in {"completed", "limited"}
    /\ searched \in Seq([task : 1..Tasks, outcome : {"failed", "nothing", "found"}])

Reported == pc \in {"save", "saved"}

\* No request searches or fetches beyond the limits of its plan, whatever
\* fails in between.
LimitsKept ==
    mode = "execute" =>
        /\ Len(searched) = queriesUsed /\ queriesUsed <= limit.queries
        /\ limit.cost > 0 => queriesUsed <= limit.cost
        /\ Len(evidence) <= limit.sources

\* Every task of a plan has its result, in the order of the plan, wherever
\* the research has stopped.
OneResultPerTask ==
    mode = "execute" /\ Reported =>
        /\ Len(results) = Tasks
        /\ \A k \in 1..Tasks : results[k].task = k

\* A result names the evidence found for its own task, all of it and nothing
\* else, and a task of a plan is verified exactly by a primary source among it.
EvidenceOfItsTask ==
    \A k \in DOMAIN results :
        /\ results[k].evidence = {i \in DOMAIN evidence : evidence[i].task = results[k].task}
        /\ mode = "execute" =>
               (results[k].status = "partially_verified"
                   <=> \E i \in results[k].evidence : Primary(i))

SearchesOf(t) == {i \in DOMAIN searched : searched[i].task = t}

\* A research is reported as completed only if every query of every task was
\* sent, and as limited only with a reason; sources are reported as completed
\* if one of them could be read.
CompletedIsWhole ==
    Reported =>
        /\ mode = "execute" =>
               /\ status = "limited" <=> reasons # {}
               /\ status = "completed" =>
                      \A t \in 1..Tasks : Cardinality(SearchesOf(t)) = Queries
        /\ mode = "verify" => (status = "limited" <=> evidence = <<>>)

\* What is reported of a research agrees with what it has found: a result for
\* every task, with its own evidence, and a status that is earned.
ReportSound == OneResultPerTask /\ EvidenceOfItsTask /\ CompletedIsWhole

\* The searches from one on that were answered.
AnsweredFrom(n) == {i \in n..Len(searched) : searched[i].outcome # "failed"}

\* Research is called saturated only after so many searches in a row without
\* a single page, over the ends of tasks and past searches that failed.
SaturationSound ==
    "research_saturated" \in reasons =>
        \E n \in DOMAIN searched :
            /\ \A i \in n..Len(searched) : searched[i].outcome # "found"
            /\ Cardinality(AnsweredFrom(n)) >= limit.saturation
=============================================================================
