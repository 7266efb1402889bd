--------------------------- MODULE Implementations ---------------------------
(***************************************************************************)
(* What follows a plan: a repository is analysed, compared with what the   *)
(* plan expects and given a proposal of patches, and something is          *)
(* delivered to a tracker.  Calls run at the same time, the repository     *)
(* moves on under them, and the tracker, the database, git, the language   *)
(* model and the service itself may fail in the middle of a call.  All     *)
(* calls are about one project.                                            *)
(***************************************************************************)
EXTENDS Naturals, Sequences, FiniteSets

CONSTANTS
    Callers,         \* clients, each with one call at a time
    Traces, Targets, \* what is delivered, and where: connector and target
    Enabled, Writing, \* targets whose connector is configured, and may write
    Requirements,    \* what the plan expects: ids
    Expected,        \* the files each expects, of code and of tests
    FilesAt,         \* the files of the repository at each of its revisions
    PatchSets,       \* patches that can be proposed
    MaxCalls,        \* bound on the calls of a behaviour
    None             \* nothing

Revisions == DOMAIN FilesAt
Mismatches == {"code", "test"} \X Requirements
Keys == (Traces \cup {None}) \X Targets

ASSUME Constants ==
    /\ None \notin Traces /\ MaxCalls \in Nat /\ IsFiniteSet(Callers)
    /\ Enabled \subseteq Targets /\ Writing \subseteq Targets
    /\ Revisions = 1..Len(FilesAt) /\ 1 \in Revisions
    /\ DOMAIN Expected = Requirements
    /\ PatchSets \subseteq [resolves : SUBSET Mismatches, wellFormed : BOOLEAN,
                            placeholder : BOOLEAN, fits : SUBSET Revisions]

VARIABLES
    at,        \* where the call of each caller is
    asked,     \* what it asks for
    work,      \* what it has made so far, of which it answers
    tries,     \* answers of the language model it has used up
    held,      \* the last answer of each caller
    calls,     \* how many calls there were
    history,   \* implementation_history, the items of the project
    head,      \* the revision of the repository
    posts,     \* how often the tracker took a delivery
    excuses    \* history: events that let a delivery be repeated

vars == <<at, asked, work, tries, held, calls, history, head, posts, excuses>>
external == <<head, posts, excuses>>

Init ==
    /\ at = [c \in Callers |-> "idle"]
    /\ asked = [c \in Callers |-> None]
    /\ work = [c \in Callers |-> None]
    /\ tries = [c \in Callers |-> 0]
    /\ held = [c \in Callers |-> [kind |-> "error"]]
    /\ calls = 0
    /\ history = <<>>
    /\ head = 1
    /\ posts = [k \in Keys |-> 0]
    /\ excuses = [k \in Keys |-> 0]

Goto(c, l) == at' = [at EXCEPT ![c] = l]
Make(c, w) == work' = [work EXCEPT ![c] = w]

\* The call is over, with an answer.
Answer(c, a) ==
    /\ Goto(c, "idle")
    /\ held' = [held EXCEPT ![c] = a]
    /\ asked' = [asked EXCEPT ![c] = None]
    /\ work' = [work EXCEPT ![c] = None]
    /\ tries' = [tries EXCEPT ![c] = 0]
Failed == [kind |-> "error"]

Begin(c, l, request, w) ==
    /\ at[c] = "idle" /\ calls < MaxCalls
    /\ calls' = calls + 1
    /\ Goto(c, l) /\ asked' = [asked EXCEPT ![c] = request] /\ Make(c, w)
    /\ UNCHANGED <<tries, held, history, external>>

\* A call fails where the code returns an error: the project is not known,
\* the path is outside the allowed roots, git does not answer.
Fail(c) ==
    /\ at[c] \in {"head", "files", "validate"}
    /\ Answer(c, Failed)
    /\ UNCHANGED <<calls, history, external>>

\* The answer is ready, and with it an item of the history.
Finish(c, answer, item) ==
    /\ Goto(c, "append")
    /\ Make(c, [answer |-> answer, item |-> item])

Item(kind, trace, target, status) ==
    [kind |-> kind, trace |-> trace, target |-> target, status |-> status]

\* appendHistory: an item that cannot be stored is dropped.
AppendHistory(c) ==
    /\ at[c] = "append"
    /\ history' = Append(history, work[c].item)
    /\ Answer(c, work[c].answer)
    /\ UNCHANGED <<calls, external>>

-----------------------------------------------------------------------------
(* DeliverIntegration.                                                     *)

Key(c) == <<asked[c].trace, asked[c].target>>
Excuse(c, n) == excuses' = [excuses EXCEPT ![Key(c)] = @ + n]

Deliver(c) ==
    \E trace \in Traces \cup {None}, target \in Targets :
      \E approved \in (IF target \in Writing THEN BOOLEAN ELSE {FALSE}) :
        Begin(c, IF trace = None THEN "send" ELSE "lookup",
              [trace |-> trace, target |-> target, approved |-> approved], None)

Earlier_AnyTarget(c) ==
    \E i \in DOMAIN history :
        /\ history[i].kind = "integration_delivery" /\ history[i].status = "delivered"
        /\ history[i].trace = asked[c].trace

\* A delivery of the same trace to the same target that came through.
Earlier(c) ==
    \E i \in DOMAIN history :
        /\ history[i].kind = "integration_delivery" /\ history[i].status = "delivered"
        /\ history[i].trace = asked[c].trace /\ history[i].target = asked[c].target

Repeated(c) ==
    /\ at[c] = "lookup" /\ Earlier(c)
    /\ Answer(c, [kind |-> "delivery", status |-> "already_delivered", key |-> Key(c)])
    /\ UNCHANGED <<calls, history, external>>

\* Is c at the point where only the history does not know of its delivery?
Undocumented(c) == at[c] = "append" /\ work[c].item.status = "delivered"

\* It looks too early when such a delivery is under way.
LookUp(c) ==
    /\ at[c] = "lookup" /\ ~Earlier(c)
    /\ Goto(c, "send")
    /\ Excuse(c, IF \E d \in Callers : Undocumented(d) /\ Key(d) = Key(c) THEN 1 ELSE 0)
    /\ UNCHANGED <<asked, work, tries, held, calls, history, head, posts>>

\* A history that cannot be read is passed over.
LookUpFails(c) ==
    /\ at[c] = "lookup"
    /\ Goto(c, "send") /\ Excuse(c, 1)
    /\ UNCHANGED <<asked, work, tries, held, calls, history, head, posts>>

Delivered_Recorded(c, status) ==
    Finish(c, IF status = "failed" THEN Failed
              ELSE [kind |-> "delivery", status |-> status, key |-> Key(c)],
           Item("integration_delivery", asked[c].trace, asked[c].target, "delivered"))

\* The delivery is over, with a status for the caller and the history.
Delivered(c, status) ==
    Finish(c, IF status = "failed" THEN Failed
              ELSE [kind |-> "delivery", status |-> status, key |-> Key(c)],
           Item("integration_delivery", asked[c].trace, asked[c].target, status))

Approved(c) == asked[c].target \in Writing => asked[c].approved

\* Nothing is sent to a connector that is not configured, or that may write
\* and was not approved.
Withhold(c) ==
    /\ at[c] = "send"
    /\ asked[c].target \notin Enabled \/ ~Approved(c)
    /\ Delivered(c, IF asked[c].target \in Enabled THEN "approval_required" ELSE "failed")
    /\ UNCHANGED <<asked, tries, held, calls, history, external>>

Sendable(c) == at[c] = "send" /\ asked[c].target \in Enabled /\ Approved(c)

\* Other calls with the same trace and target that have looked already.
Overlapping(c) == {d \in Callers \ {c} : at[d] = "send" /\ Key(d) = Key(c)}

Send(c) ==
    /\ Sendable(c)
    /\ posts' = [posts EXCEPT ![Key(c)] = @ + 1]
    /\ Excuse(c, Cardinality(Overlapping(c)))
    /\ Delivered(c, "delivered")
    /\ UNCHANGED <<asked, tries, held, calls, history, head>>

\* The tracker has taken the delivery, its answer comes too late or not at all.
LoseReply(c) ==
    /\ Sendable(c)
    /\ posts' = [posts EXCEPT ![Key(c)] = @ + 1]
    /\ Excuse(c, 1)
    /\ Delivered(c, "failed")
    /\ UNCHANGED <<asked, tries, held, calls, history, head>>

SendFails(c) ==
    /\ Sendable(c)
    /\ Delivered(c, "failed")
    /\ UNCHANGED <<asked, tries, held, calls, history, external>>

AppendFails(c) ==
    /\ at[c] = "append"
    /\ IF Undocumented(c) THEN Excuse(c, 1) ELSE UNCHANGED excuses
    /\ Answer(c, work[c].answer)
    /\ UNCHANGED <<calls, history, head, posts>>

-----------------------------------------------------------------------------
(* AnalyzeRepository, CompareImplementation.                               *)

Analyze(c) == Begin(c, "head", [path |-> "repository"], None)

ReadHead(c) ==
    /\ at[c] = "head"
    /\ Make(c, [revision |-> head]) /\ Goto(c, "files")
    /\ UNCHANGED <<asked, tries, held, calls, history, external>>

\* The files are listed after the revision was read.
ListFiles(c) ==
    /\ at[c] = "files"
    /\ Finish(c, [kind |-> "analysis", revision |-> work[c].revision, files |-> FilesAt[head]],
              Item("repository_analysis", None, None, "completed"))
    /\ UNCHANGED <<asked, tries, held, calls, history, external>>

Mismatched(files) ==
    {m \in Mismatches : ~(Expected[m[2]][m[1]] \subseteq files)}

Compare(c) ==
    /\ held[c].kind = "analysis"
    /\ Begin(c, "append", None,
             [answer |-> [kind |-> "review", revision |-> held[c].revision,
                          mismatches |-> Mismatched(held[c].files)],
              item |-> Item("implementation_review", None, None, "completed")])

-----------------------------------------------------------------------------
(* CreateImplementationProposal.  A set of patches names the mismatches it *)
(* resolves, and fits the files of some revisions.                         *)

CreateProposal(c) ==
    /\ held[c].kind = "review"
    /\ \E base \in 1..head, patches \in PatchSets \cup {None} :
           Begin(c, IF patches = None THEN "generate" ELSE "validate",
                 [base |-> base, review |-> held[c]], patches)

Proposable_AnyMismatch(c, patches) ==
    /\ asked[c].base = asked[c].review.revision
    /\ patches.resolves # {} /\ patches.wellFormed

\* Propose: of the revision of the review, for mismatches of the review.
Proposable(c, patches) ==
    /\ asked[c].base = asked[c].review.revision
    /\ patches.resolves # {} /\ patches.resolves \subseteq asked[c].review.mismatches
    /\ patches.wellFormed

\* The language model is asked at most twice, and gives up the first patches
\* that can be proposed.
Generate(c) ==
    /\ at[c] = "generate" /\ tries[c] < 2
    /\ tries' = [tries EXCEPT ![c] = @ + 1]
    /\ \/ UNCHANGED <<at, work>>
       \/ \E p \in PatchSets : Proposable(c, p) /\ Make(c, p) /\ Goto(c, "try")
    /\ UNCHANGED <<asked, held, calls, history, external>>

NothingGenerated(c) ==
    /\ at[c] = "generate" /\ tries[c] = 2
    /\ Answer(c, Failed)
    /\ UNCHANGED <<calls, history, external>>

\* ValidatePatch reads HEAD, and then lets git try the patches.
TryHead(c) ==
    /\ at[c] = "try"
    /\ Goto(c, IF head = asked[c].base THEN "tryApply" ELSE "generate")
    /\ UNCHANGED <<asked, work, tries, held, calls, history, external>>

Applies_Placeholder(p) == head \in p.fits
Applies(p) == head \in p.fits /\ ~p.placeholder

TryApply(c) ==
    /\ at[c] = "tryApply"
    /\ Goto(c, IF Applies(work[c]) THEN "validate" ELSE "generate")
    /\ UNCHANGED <<asked, work, tries, held, calls, history, external>>

\* Whoever made the patches, they are checked and tried (again).
Validate(c) ==
    /\ at[c] = "validate"
    /\ Proposable(c, work[c]) /\ head = asked[c].base
    /\ Goto(c, "apply")
    /\ UNCHANGED <<asked, work, tries, held, calls, history, external>>

Apply(c) ==
    /\ at[c] = "apply" /\ Applies(work[c])
    /\ Finish(c, [kind |-> "proposal", base |-> asked[c].base, review |-> asked[c].review,
                  patches |-> work[c]],
              Item("implementation_proposal", None, None, "proposed"))
    /\ UNCHANGED <<asked, tries, held, calls, history, external>>

ApplyFails(c) ==
    /\ at[c] = "apply" /\ ~Applies(work[c])
    /\ Answer(c, Failed)
    /\ UNCHANGED <<calls, history, external>>

-----------------------------------------------------------------------------
\* Somebody commits to the repository.
Commit ==
    /\ head + 1 \in Revisions
    /\ head' = head + 1
    /\ UNCHANGED <<at, asked, work, tries, held, calls, history, posts, excuses>>

\* The service ends, and every call in it with an error.
Crash ==
    /\ \E c \in Callers : at[c] # "idle"
    /\ excuses' = [k \in Keys |-> excuses[k] +
                       Cardinality({c \in Callers : Undocumented(c) /\ Key(c) = k})]
    /\ held' = [c \in Callers |-> IF at[c] = "idle" THEN held[c] ELSE Failed]
    /\ at' = [c \in Callers |-> "idle"]
    /\ asked' = [c \in Callers |-> None]
    /\ work' = [c \in Callers |-> None]
    /\ tries' = [c \in Callers |-> 0]
    /\ UNCHANGED <<calls, history, head, posts>>

Serve(c) ==
    \/ Repeated(c) \/ LookUp(c) \/ LookUpFails(c) \/ Withhold(c)
    \/ Send(c) \/ LoseReply(c) \/ SendFails(c) \/ AppendHistory(c) \/ AppendFails(c)
    \/ ReadHead(c) \/ ListFiles(c) \/ Generate(c) \/ NothingGenerated(c) \/ TryHead(c)
    \/ TryApply(c) \/ Validate(c) \/ Apply(c) \/ ApplyFails(c) \/ Fail(c)

Next ==
    \/ \E c \in Callers : Deliver(c) \/ Analyze(c) \/ Compare(c) \/ CreateProposal(c) \/ Serve(c)
    \/ Commit \/ Crash

Spec == Init /\ [][Next]_vars

-----------------------------------------------------------------------------
(* DeliverIntegration: the tracker takes a trace once for each target, and *)
(* every further time has a cause of its own: two calls that overlap, an   *)
(* answer of the tracker that got lost, a history that could not be read   *)
(* or written, or the end of the service between the two.                  *)
DeliveredOnce ==
    \A k \in Traces \X Targets : posts[k] <= 1 + excuses[k]

DeliveredItems(k) ==
    {i \in DOMAIN history : history[i].status = "delivered" /\ history[i].trace = k[1]
                            /\ history[i].target = k[2]}

(* What the history and the callers are told of deliveries is true: every  *)
(* item stands for a delivery the tracker took, and whoever is told that   *)
(* something is or was already delivered is told of such a one.            *)
AuditTrue ==
    /\ \A k \in Keys : Cardinality(DeliveredItems(k)) <= posts[k]
    /\ \A c \in Callers :
        held[c].kind = "delivery" /\ held[c].status \in {"delivered", "already_delivered"}
            => posts[held[c].key] > 0

(* A delivery is repeated only for a cause, and its record is true:        *)
(* DeliveredOnce and AuditTrue.                                            *)
DeliverySound == DeliveredOnce /\ AuditTrue

(* A proposal that is answered is based on the revision of its review,     *)
(* resolves mismatches of that review and nothing else, and, as long as    *)
(* the repository has not moved on from that revision, can be applied.     *)
ProposalCurrent ==
    \A c \in Callers : held[c].kind = "proposal" =>
        LET p == held[c]
        IN  /\ p.base = p.review.revision /\ p.base <= head
            /\ p.patches.resolves # {} /\ p.patches.resolves \subseteq p.review.mismatches
            /\ ~p.patches.placeholder
            /\ head = p.base => head \in p.patches.fits

(* A review is of files the repository had at its revision or later, and   *)
(* if it has not moved on since that revision, it names exactly what is    *)
(* missing.                                                                *)
ReviewTrue ==
    \A c \in Callers : held[c].kind = "review" =>
        \E r \in held[c].revision..head : held[c].mismatches = Mismatched(FilesAt[r])

(* What is proposed follows from what was reviewed, and that from what was *)
(* analysed: ReviewTrue and ProposalCurrent.                               *)
ProposalSound == ReviewTrue /\ ProposalCurrent
=============================================================================
