------------------------ MODULE ImplementationsProofs ------------------------
(***************************************************************************)
(* Proofs about Implementations, for any clients, traces, targets, files   *)
(* and revisions: a delivery is repeated only for a cause of its own, its  *)
(* records are true, and a proposal follows from its review and analysis.  *)
(***************************************************************************)
EXTENDS Implementations, SequenceTheorems, FiniteSetTheorems, TLAPS

-----------------------------------------------------------------------------
(* The invariant: what is where, what is true of what a call has made, and *)
(* how the deliveries of a key are counted.                                *)

Proposing == {"generate", "try", "tryApply", "validate", "apply"}
Places == {"idle", "append", "lookup", "send", "head", "files"} \cup Proposing

Items == [kind : {"integration_delivery", "repository_analysis", "implementation_review",
                  "implementation_proposal"},
          trace : Traces \cup {None}, target : Targets \cup {None},
          status : {"delivered", "approval_required", "failed", "completed", "proposed"}]

Request == [trace : Traces \cup {None}, target : Targets, approved : BOOLEAN]

Typed ==
    /\ at \in [Callers -> Places]
    /\ DOMAIN asked = Callers /\ DOMAIN work = Callers /\ DOMAIN held = Callers
    /\ DOMAIN tries = Callers
    /\ history \in Seq(Items) /\ head \in Revisions
    /\ posts \in [Keys -> Nat] /\ excuses \in [Keys -> Nat]

OfDelivery(item) == item.status = "delivered" => item.kind = "integration_delivery"

\* What a call that delivers, or is about to append, holds.
Shape(c) ==
    /\ at[c] \in {"lookup", "send"} => asked[c] \in Request
    /\ at[c] = "append" =>
          /\ work[c].item \in Items /\ OfDelivery(work[c].item)
          /\ work[c].item.status = "delivered" =>
                /\ asked[c] \in Request
                /\ work[c].item.trace = asked[c].trace /\ work[c].item.target = asked[c].target

AnalysisTrue(v) ==
    v.revision \in 1..head /\ \E r \in v.revision..head : v.files = FilesAt[r]
ReviewedTrue(v) ==
    v.revision \in 1..head /\ \E r \in v.revision..head : v.mismatches = Mismatched(FilesAt[r])
ProposalTrue(p) ==
    /\ p.base = p.review.revision /\ p.base \in 1..head
    /\ p.patches.resolves # {} /\ p.patches.resolves \subseteq p.review.mismatches
    /\ ~p.patches.placeholder
    /\ head = p.base => head \in p.patches.fits
DeliveryTrue(v) ==
    v.status \in {"delivered", "already_delivered"} => v.key \in Keys /\ posts[v.key] > 0

Truthful(v) ==
    /\ v.kind = "analysis" => AnalysisTrue(v)
    /\ v.kind = "review" => ReviewedTrue(v)
    /\ v.kind = "proposal" => ProposalTrue(v)
    /\ v.kind = "delivery" => DeliveryTrue(v)

\* What a call holds or is about to answer is true at every step of it.
Founded(c) ==
    /\ Truthful(held[c])
    /\ at[c] = "append" => Truthful(work[c].answer)
    /\ at[c] = "files" => work[c].revision \in 1..head
    /\ at[c] \in Proposing => asked[c].base \in 1..head
    /\ at[c] = "apply" => Proposable(c, work[c])

Sending(k) == {c \in Callers : at[c] = "send" /\ Key(c) = k}
Pending(k) == {c \in Callers : Undocumented(c) /\ Key(c) = k}
Known(k) == DeliveredItems(k) # {} \/ Pending(k) # {}

\* Until a delivery is known, to the history or to a call that will append
\* it, every earlier one has its cause; from then on, so has every call that
\* did not see it and may still send.
Caused(k) ==
    /\ Known(k) => posts[k] + Cardinality(Sending(k)) <= 1 + excuses[k]
    /\ ~Known(k) => posts[k] <= excuses[k]

Counted(k) == Cardinality(DeliveredItems(k)) + Cardinality(Pending(k)) <= posts[k]

IInv ==
    /\ Typed
    /\ \A i \in DOMAIN history : OfDelivery(history[i])
    /\ \A c \in Callers : Shape(c) /\ Founded(c)
    /\ \A k \in Traces \X Targets : Caused(k)
    /\ \A k \in Keys : Counted(k)

-----------------------------------------------------------------------------
(* Sets of calls and of items.                                             *)

LEMMA Finite ==
    ASSUME Typed, NEW k
    PROVE  /\ IsFiniteSet(Sending(k)) /\ Cardinality(Sending(k)) \in Nat
           /\ IsFiniteSet(Pending(k)) /\ Cardinality(Pending(k)) \in Nat
           /\ IsFiniteSet(DeliveredItems(k)) /\ Cardinality(DeliveredItems(k)) \in Nat
  <1>1. Sending(k) \in SUBSET Callers /\ Pending(k) \in SUBSET Callers
    BY DEF Sending, Pending
  <1>2. DeliveredItems(k) \in SUBSET (1..Len(history)) /\ Len(history) \in Nat
    BY DEF DeliveredItems, Typed
  <1>3. IsFiniteSet(1..Len(history))
    BY <1>2, FS_Interval
  <1> QED
    BY <1>1, <1>2, <1>3, FS_Subset, FS_CardinalityType, Constants

LEMMA Joined ==
    ASSUME NEW S, IsFiniteSet(S), NEW x, x \notin S
    PROVE  /\ IsFiniteSet(S \cup {x}) /\ Cardinality(S \cup {x}) = Cardinality(S) + 1
           /\ Cardinality(S) \in Nat
  BY FS_AddElement, FS_CardinalityType

LEMMA SomeElement ==
    ASSUME NEW S, IsFiniteSet(S), S # {}
    PROVE  Cardinality(S) \in Nat /\ Cardinality(S) >= 1
  BY FS_EmptySet, FS_CardinalityType

-----------------------------------------------------------------------------
(* Steps of one call.                                                      *)

\* Only the call of c moves, and the repository and the tracker only go on.
Frame(c) ==
    /\ \A d \in Callers \ {c} : /\ at'[d] = at[d] /\ asked'[d] = asked[d]
                                /\ work'[d] = work[d] /\ held'[d] = held[d]
    /\ head' \in {head, head + 1}
    /\ \A k \in Keys : posts[k] <= posts'[k]

LEMMA StaysTrue ==
    ASSUME Typed, Typed', head' \in {head, head + 1}, \A k \in Keys : posts[k] <= posts'[k],
           NEW v, Truthful(v)
    PROVE  Truthful(v)'
  <1>1. head \in Nat /\ head' \in Nat /\ head <= head'
    BY Constants DEF Typed
  <1>2. v.kind = "analysis" => AnalysisTrue(v)'
    BY <1>1 DEF Truthful, AnalysisTrue
  <1>3. v.kind = "review" => ReviewedTrue(v)'
    BY <1>1 DEF Truthful, ReviewedTrue, Mismatched
  <1>4. v.kind = "proposal" => ProposalTrue(v)'
    BY <1>1 DEF Truthful, ProposalTrue
  <1>5. v.kind = "delivery" => DeliveryTrue(v)'
    BY DEF Truthful, DeliveryTrue, Typed
  <1> QED
    BY <1>2, <1>3, <1>4, <1>5 DEF Truthful

\* Calls that do not move keep what they have.
LEMMA OthersKeep ==
    ASSUME Typed, Typed', NEW d \in Callers, Shape(d), Founded(d),
           at'[d] = at[d], asked'[d] = asked[d], work'[d] = work[d], held'[d] = held[d],
           head' \in {head, head + 1}, \A k \in Keys : posts[k] <= posts'[k]
    PROVE  Shape(d)' /\ Founded(d)'
  <1>1. /\ at'[d] = at[d] /\ asked'[d] = asked[d] /\ work'[d] = work[d] /\ held'[d] = held[d]
        /\ head' \in {head, head + 1} /\ \A k \in Keys : posts[k] <= posts'[k]
    OBVIOUS
  <1>2. head \in Nat /\ head' \in Nat /\ head <= head'
    BY <1>1, Constants DEF Typed
  <1>3. Shape(d)'
    BY <1>1 DEF Shape
  <1>4. Truthful(held[d])' /\ (at[d] = "append" => Truthful(work[d].answer)')
    <2>1. \A v : Truthful(v) => Truthful(v)'
      BY <1>1, StaysTrue
    <2> QED
      BY <1>1, <2>1 DEF Founded
  <1>5. at[d] = "files" => work'[d].revision \in 1..head'
    BY <1>1, <1>2 DEF Founded
  <1>6. at[d] \in Proposing => asked'[d].base \in 1..head'
    BY <1>1, <1>2 DEF Founded
  <1>7. at[d] = "apply" => Proposable(d, work[d])'
    BY <1>1 DEF Founded, Proposable
  <1> QED
    BY <1>1, <1>3, <1>4, <1>5, <1>6, <1>7 DEF Founded

LEMMA Sets ==
    ASSUME NEW c \in Callers, Frame(c), NEW k
    PROVE  /\ Sending(k)' = (Sending(k) \ {c}) \cup {d \in {c} : at'[d] = "send" /\ Key(d)' = k}
           /\ Pending(k)' = (Pending(k) \ {c}) \cup {d \in {c} : Undocumented(d)' /\ Key(d)' = k}
  BY DEF Frame, Sending, Pending, Key, Undocumented

\* Where nothing is sent, known or forgotten, the counts stand.
LEMMA SameCounts ==
    ASSUME Typed, Typed', NEW k \in Keys, Sending(k)' = Sending(k), Pending(k)' = Pending(k),
           DeliveredItems(k)' = DeliveredItems(k), posts'[k] = posts[k],
           excuses[k] <= excuses'[k]
    PROVE  (Caused(k) => Caused(k)') /\ (Counted(k) => Counted(k)')
  <1>1. /\ posts[k] \in Nat /\ excuses[k] \in Nat /\ excuses'[k] \in Nat
        /\ Cardinality(Sending(k)) \in Nat
    BY Finite DEF Typed
  <1>2. Known(k)' <=> Known(k)
    BY DEF Known
  <1> QED
    BY <1>1, <1>2 DEF Caused, Counted

Moves(c) == Typed' /\ Frame(c) /\ Shape(c)' /\ Founded(c)'
Counts == (\A k \in Traces \X Targets : Caused(k)) /\ (\A k \in Keys : Counted(k))

LEMMA QuietCounts ==
    ASSUME IInv, Typed', NEW c \in Callers, Frame(c),
           at[c] # "send", at'[c] # "send", ~Undocumented(c), ~Undocumented(c)',
           UNCHANGED posts, \A k \in Keys : excuses[k] <= excuses'[k],
           \A k \in Keys : DeliveredItems(k)' = DeliveredItems(k)
    PROVE  Counts'
  <1>1. ASSUME NEW k \in Keys
        PROVE  Sending(k)' = Sending(k) /\ Pending(k)' = Pending(k)
    <2>1. c \notin Sending(k) /\ c \notin Pending(k)
      BY DEF Sending, Pending
    <2> QED
      BY <2>1, Sets
  <1>2. \A k \in Keys : DeliveredItems(k)' = DeliveredItems(k) /\ posts'[k] = posts[k]
    OBVIOUS
  <1>3. \A k \in Keys : (Caused(k) => Caused(k)') /\ (Counted(k) => Counted(k)')
    BY <1>1, <1>2, SameCounts DEF IInv
  <1>4. Traces \X Targets \subseteq Keys
    BY DEF Keys
  <1> QED
    BY <1>3, <1>4 DEF IInv, Counts

-----------------------------------------------------------------------------
(* Analyses, reviews and proposals.                                        *)

\* No step of these calls delivers anything.
Quiet(c) ==
    \/ Analyze(c) \/ Compare(c) \/ CreateProposal(c) \/ Fail(c)
    \/ ReadHead(c) \/ ListFiles(c) \/ Generate(c) \/ NothingGenerated(c) \/ TryHead(c)
    \/ TryApply(c) \/ Validate(c) \/ Apply(c) \/ ApplyFails(c)

LEMMA OtherItems ==
    ASSUME NEW kind \in {"repository_analysis", "implementation_review", "implementation_proposal"},
           NEW status \in {"completed", "proposed"}
    PROVE  /\ Item(kind, None, None, status) \in Items
           /\ Item(kind, None, None, status).status = status
           /\ OfDelivery(Item(kind, None, None, status))
  BY DEF Item, Items, OfDelivery

LEMMA QuietFrame ==
    ASSUME IInv, NEW c \in Callers, Quiet(c)
    PROVE  Typed' /\ Frame(c) /\ UNCHANGED <<history, posts, excuses, head>>
  <1> USE DEF Begin, Answer, Finish, Make, Goto, external
  <1>1. UNCHANGED <<history, posts, excuses, head>>
    BY DEF Quiet, Analyze, Compare, CreateProposal, Fail, ReadHead, ListFiles, Generate,
       NothingGenerated, TryHead, TryApply, Validate, Apply, ApplyFails
  <1>2. /\ \E l \in Places : at' = [at EXCEPT ![c] = l]
        /\ asked' = asked \/ \E v : asked' = [asked EXCEPT ![c] = v]
        /\ work' = work \/ \E v : work' = [work EXCEPT ![c] = v]
        /\ held' = held \/ \E v : held' = [held EXCEPT ![c] = v]
        /\ tries' = tries \/ \E v : tries' = [tries EXCEPT ![c] = v]
    <2>1. \E l \in Places : at' = [at EXCEPT ![c] = l]
      <3>1. at = [at EXCEPT ![c] = at[c]] /\ at[c] \in Places
        BY DEF IInv, Typed
      <3> QED
        BY <3>1 DEF Quiet, Analyze, Compare, CreateProposal, Fail, ReadHead, ListFiles, Generate,
           NothingGenerated, TryHead, TryApply, Validate, Apply, ApplyFails, Places, Proposing
    <2> QED
      BY <2>1 DEF Quiet, Analyze, Compare, CreateProposal, Fail, ReadHead, ListFiles, Generate,
         NothingGenerated, TryHead, TryApply, Validate, Apply, ApplyFails
  <1>3. Typed'
    BY <1>1, <1>2 DEF IInv, Typed
  <1>4. Frame(c)
    BY <1>1, <1>2 DEF Frame, IInv, Typed
  <1> QED
    BY <1>1, <1>3, <1>4

\* A call that is over holds its answer.
LEMMA Answered ==
    ASSUME Typed, NEW c \in Callers, NEW a, Answer(c, a), Truthful(a)'
    PROVE  at'[c] = "idle" /\ Shape(c)' /\ Founded(c)'
  <1>1. at'[c] = "idle" /\ held'[c] = a
    BY DEF Answer, Goto, Typed
  <1> QED
    BY <1>1 DEF Shape, Founded, Proposing

\* One that is about to append an item, of no delivery, keeps its promises.
LEMMA Finished ==
    ASSUME Typed, NEW c \in Callers, at'[c] = "append", Truthful(held[c])', held'[c] = held[c],
           Truthful(work[c].answer)',
           work'[c].item \in Items, OfDelivery(work'[c].item), work'[c].item.status # "delivered"
    PROVE  ~Undocumented(c)' /\ Shape(c)' /\ Founded(c)'
  BY DEF Undocumented, Shape, Founded, Proposing

LEMMA QuietMoves ==
    ASSUME IInv, NEW c \in Callers, Quiet(c)
    PROVE  Moves(c) /\ Counts' /\ UNCHANGED history
  <1>1. Typed' /\ Frame(c) /\ UNCHANGED <<history, posts, excuses, head>> /\ Typed
    BY QuietFrame DEF IInv
  <1>2. /\ Shape(c) /\ Founded(c) /\ at[c] \notin {"send"}
        /\ at[c] = "append" => FALSE
    BY DEF IInv, Quiet, Analyze, Compare, CreateProposal, Fail, ReadHead, ListFiles, Generate,
       NothingGenerated, TryHead, TryApply, Validate, Apply, ApplyFails, Begin
  <1>3. \A v : Truthful(v) => Truthful(v)'
    BY <1>1, StaysTrue DEF Frame
  <1>4. Truthful(Failed)'
    BY DEF Truthful, Failed
  <1>5. head \in Nat /\ head >= 1
    BY <1>1, Constants DEF Typed
  <1> DEFINE Goal == at'[c] # "send" /\ ~Undocumented(c)' /\ Shape(c)' /\ Founded(c)'
  <1>6. Truthful(held[c])
    BY <1>2 DEF Founded
  <1>7. ASSUME Analyze(c) \/ CreateProposal(c) PROVE Goal
    <2>1. CASE Analyze(c)
      <3>1. at'[c] = "head" /\ held'[c] = held[c]
        BY <1>1, <2>1 DEF Analyze, Begin, Goto, Typed
      <3> QED
        BY <1>3, <1>6, <3>1 DEF Shape, Founded, Proposing, Undocumented
    <2>2. CASE CreateProposal(c)
      <3>1. PICK base \in 1..head :
              /\ at'[c] \in {"generate", "validate"} /\ held'[c] = held[c]
              /\ asked'[c].base = base
        BY <1>1, <2>2 DEF CreateProposal, Begin, Goto, Typed
      <3> QED
        BY <1>1, <1>3, <1>6, <3>1 DEF Shape, Founded, Proposing, Undocumented
    <2> QED
      BY <1>7, <2>1, <2>2
  <1>8. ASSUME Compare(c) PROVE Goal
    <2> DEFINE review == [kind |-> "review", revision |-> held[c].revision,
                          mismatches |-> Mismatched(held[c].files)]
    <2>1. /\ at'[c] = "append" /\ held'[c] = held[c] /\ held[c].kind = "analysis"
          /\ work'[c] = [answer |-> review,
                         item |-> Item("implementation_review", None, None, "completed")]
      BY <1>1, <1>8 DEF Compare, Begin, Goto, Make, Typed
    <2>2. Truthful(review)
      BY <1>6, <2>1 DEF Truthful, AnalysisTrue, ReviewedTrue
    <2> QED
      BY <1>1, <1>3, <1>6, <2>1, <2>2, OtherItems, Finished
  <1>9. ASSUME ReadHead(c) PROVE Goal
    <2>1. at'[c] = "files" /\ held'[c] = held[c] /\ work'[c].revision = head
      BY <1>1, <1>9 DEF ReadHead, Goto, Make, Typed
    <2> QED
      BY <1>1, <1>3, <1>5, <1>6, <2>1 DEF Shape, Founded, Proposing, Undocumented
  <1>10. ASSUME ListFiles(c) PROVE Goal
    <2> DEFINE analysis == [kind |-> "analysis", revision |-> work[c].revision,
                            files |-> FilesAt[head]]
    <2>1. /\ at'[c] = "append" /\ held'[c] = held[c] /\ at[c] = "files"
          /\ work'[c] = [answer |-> analysis,
                         item |-> Item("repository_analysis", None, None, "completed")]
      BY <1>1, <1>10 DEF ListFiles, Finish, Goto, Make, Typed
    <2>2. Truthful(analysis)
      BY <1>2, <1>5, <2>1 DEF Truthful, AnalysisTrue, Founded
    <2> QED
      BY <1>1, <1>3, <1>6, <2>1, <2>2, OtherItems, Finished
  <1>11. ASSUME Generate(c) \/ TryHead(c) \/ TryApply(c) \/ Validate(c) PROVE Goal
    <2>1. /\ at[c] \in Proposing /\ at'[c] \in Proposing
          /\ asked'[c] = asked[c] /\ held'[c] = held[c]
          /\ at'[c] = "apply" => Proposable(c, work[c]) /\ work'[c] = work[c]
      BY <1>1, <1>11 DEF Generate, TryHead, TryApply, Validate, Goto, Make, Typed, Proposing
    <2>2. asked'[c].base \in 1..head'
      BY <1>1, <1>2, <2>1 DEF Founded
    <2>3. at'[c] = "apply" => Proposable(c, work[c])'
      BY <2>1 DEF Proposable
    <2> QED
      BY <1>3, <1>6, <2>1, <2>2, <2>3 DEF Shape, Founded, Proposing, Undocumented
  <1>12. ASSUME Apply(c) PROVE Goal
    <2> DEFINE proposal == [kind |-> "proposal", base |-> asked[c].base,
                            review |-> asked[c].review, patches |-> work[c]]
    <2>1. /\ at'[c] = "append" /\ held'[c] = held[c] /\ at[c] = "apply" /\ Applies(work[c])
          /\ work'[c] = [answer |-> proposal,
                         item |-> Item("implementation_proposal", None, None, "proposed")]
      BY <1>1, <1>12 DEF Apply, Finish, Goto, Make, Typed
    <2>2. Truthful(proposal)
      BY <1>2, <1>5, <2>1 DEF Truthful, ProposalTrue, Founded, Proposing, Proposable, Applies
    <2> QED
      BY <1>1, <1>3, <1>6, <2>1, <2>2, OtherItems, Finished
  <1>13. ASSUME Fail(c) \/ NothingGenerated(c) \/ ApplyFails(c) PROVE Goal
    <2>1. Answer(c, Failed)
      BY <1>13 DEF Fail, NothingGenerated, ApplyFails
    <2> QED
      BY <1>1, <1>4, <2>1, Answered DEF Undocumented
  <1>14. Goal
    BY <1>7, <1>8, <1>9, <1>10, <1>11, <1>12, <1>13 DEF Quiet
  <1>15. ~Undocumented(c) /\ \A k \in Keys : excuses[k] <= excuses'[k]
    BY <1>1, <1>2 DEF Undocumented, Typed
  <1>16. \A k \in Keys : DeliveredItems(k)' = DeliveredItems(k)
    BY <1>1 DEF DeliveredItems
  <1> QED
    BY <1>1, <1>2, <1>14, <1>15, <1>16, QuietCounts DEF Moves

-----------------------------------------------------------------------------
(* Deliveries.                                                             *)

LEMMA KeyOf ==
    ASSUME NEW c, asked[c] \in Request
    PROVE  /\ Key(c) \in Keys /\ asked[c].target \in Targets
           /\ asked[c].trace \in Traces \cup {None}
  BY DEF Key, Keys, Request

LEMMA Excused ==
    ASSUME Typed, NEW c, Key(c) \in Keys, NEW n \in Nat, Excuse(c, n)
    PROVE  /\ excuses' \in [Keys -> Nat]
           /\ excuses'[Key(c)] = excuses[Key(c)] + n
           /\ \A k \in Keys : k # Key(c) => excuses'[k] = excuses[k]
           /\ \A k \in Keys : excuses[k] <= excuses'[k]
  BY DEF Typed, Excuse

LEMMA Posted ==
    ASSUME Typed, NEW c, Key(c) \in Keys, posts' = [posts EXCEPT ![Key(c)] = @ + 1]
    PROVE  /\ posts' \in [Keys -> Nat]
           /\ posts'[Key(c)] = posts[Key(c)] + 1
           /\ \A k \in Keys : k # Key(c) => posts'[k] = posts[k]
           /\ \A k \in Keys : posts[k] <= posts'[k]
  BY DEF Typed

\* A step that touches one key leaves the counts of the others.
LEMMA KeyByKey ==
    ASSUME IInv, Typed', NEW key,
           \A k \in Keys : k # key =>
              /\ Sending(k)' = Sending(k) /\ Pending(k)' = Pending(k)
              /\ DeliveredItems(k)' = DeliveredItems(k)
              /\ posts'[k] = posts[k] /\ excuses[k] <= excuses'[k],
           \A k \in Keys : k = key => (k \in Traces \X Targets => Caused(k)') /\ Counted(k)'
    PROVE  Counts'
  <1>1. ASSUME NEW k \in Keys, k # key
        PROVE  (Caused(k) => Caused(k)') /\ (Counted(k) => Counted(k)')
    BY <1>1, SameCounts DEF IInv
  <1>2. Traces \X Targets \subseteq Keys
    BY DEF Keys
  <1> QED
    BY <1>1, <1>2 DEF IInv, Counts

\* Such as a step of a delivery under that key.
LEMMA OtherKeys ==
    ASSUME IInv, Typed', NEW c \in Callers, Frame(c), NEW key, asked[c] = asked'[c],
           key = Key(c), \A k \in Keys : DeliveredItems(k)' = DeliveredItems(k),
           \A k \in Keys : k # key => posts'[k] = posts[k] /\ excuses[k] <= excuses'[k],
           \A k \in Keys : k = key => (k \in Traces \X Targets => Caused(k)') /\ Counted(k)'
    PROVE  Counts'
  <1>1. ASSUME NEW k \in Keys, k # key
        PROVE  Sending(k)' = Sending(k) /\ Pending(k)' = Pending(k)
    <2>1. Key(c)' = key
      BY DEF Key
    <2>2. c \notin Sending(k) /\ c \notin Pending(k)
      BY <1>1 DEF Sending, Pending
    <2>3. /\ Sending(k)' = (Sending(k) \ {c}) \cup {d \in {c} : at'[d] = "send" /\ Key(d)' = k}
          /\ Pending(k)' = (Pending(k) \ {c}) \cup {d \in {c} : Undocumented(d)' /\ Key(d)' = k}
      BY Sets
    <2>4. \A d \in {c} : Key(d)' # k
      BY <1>1, <2>1
    <2>5. /\ {d \in {c} : at'[d] = "send" /\ Key(d)' = k} = {}
          /\ {d \in {c} : Undocumented(d)' /\ Key(d)' = k} = {}
      BY <2>4
    <2>6. Sending(k)' = Sending(k)
      BY <2>2, <2>3, <2>5
    <2>7. Pending(k)' = Pending(k)
      BY <2>2, <2>3, <2>5
    <2> QED
      BY <2>6, <2>7
  <1> QED
    BY <1>1, KeyByKey

LEMMA DeliverMoves ==
    ASSUME IInv, NEW c \in Callers, Deliver(c)
    PROVE  Moves(c) /\ Counts' /\ UNCHANGED history
  <1>1. PICK request \in Request :
          /\ asked' = [asked EXCEPT ![c] = request]
          /\ at' = [at EXCEPT ![c] = IF request.trace = None THEN "send" ELSE "lookup"]
          /\ work' = [work EXCEPT ![c] = None]
    BY DEF Deliver, Begin, Goto, Make, Request
  <1>2. /\ UNCHANGED <<tries, held, history, head, posts, excuses>>
        /\ at[c] = "idle"
    BY DEF Deliver, Begin, external
  <1>3. Typed' /\ Typed
    BY <1>1, <1>2 DEF IInv, Typed, Places, Request
  <1>4. /\ Frame(c) /\ asked'[c] = request /\ at'[c] \in {"send", "lookup"}
        /\ at'[c] = "send" => request.trace = None
    BY <1>1, <1>2, <1>3 DEF Frame, Typed
  <1>5. Shape(c)' /\ Founded(c)'
    <2>1. Truthful(held[c])'
      BY <1>2, <1>3, <1>4, StaysTrue DEF IInv, Founded, Frame
    <2> QED
      BY <1>4, <2>1 DEF Shape, Founded, Proposing
  <1>6. ASSUME NEW k \in Keys
        PROVE  (Counted(k) => Counted(k)') /\ (k \in Traces \X Targets => (Caused(k) => Caused(k)'))
    <2>1. /\ c \notin Sending(k) /\ c \notin Pending(k)
          /\ Pending(k)' = Pending(k) /\ DeliveredItems(k)' = DeliveredItems(k)
          /\ Sending(k)' = Sending(k) \cup {d \in {c} : at'[d] = "send" /\ Key(d)' = k}
      <3>1. c \notin Sending(k) /\ c \notin Pending(k) /\ ~Undocumented(c)'
        BY <1>2, <1>4 DEF Sending, Pending, Undocumented
      <3> QED
        BY <1>2, <1>4, <3>1, Sets DEF DeliveredItems
    <2>2. Counted(k) => Counted(k)'
      BY <1>2, <2>1 DEF Counted
    <2>3. ASSUME k \in Traces \X Targets
          PROVE  Caused(k) => Caused(k)'
      <3>1. Sending(k)' = Sending(k)
        BY <1>4, <2>1, <2>3, Constants DEF Key
      <3> QED
        BY <1>2, <2>1, <3>1 DEF Caused, Known
    <2> QED
      BY <2>2, <2>3
  <1>7. Traces \X Targets \subseteq Keys
    BY DEF Keys
  <1> QED
    BY <1>2, <1>3, <1>4, <1>5, <1>6, <1>7 DEF Moves, Counts, IInv

\* What a delivery's step to or from "send" does to the counts of its key.
LEMMA LookMoves ==
    ASSUME IInv, NEW c \in Callers, Repeated(c) \/ LookUp(c) \/ LookUpFails(c)
    PROVE  Moves(c) /\ Counts' /\ UNCHANGED history
  <1>1. /\ Typed /\ Shape(c) /\ Founded(c) /\ at[c] = "lookup" /\ asked[c] \in Request
        /\ UNCHANGED <<posts, head, history, calls>>
    BY DEF IInv, Repeated, LookUp, LookUpFails, Shape, external
  <1>2. PICK key \in Keys : key = Key(c)
    BY <1>1, KeyOf
  <1>3. \A k \in Keys : DeliveredItems(k)' = DeliveredItems(k)
    BY <1>1 DEF DeliveredItems
  <1>4. CASE Repeated(c)
    <2> DEFINE a == [kind |-> "delivery", status |-> "already_delivered", key |-> key]
    <2>1. Answer(c, a) /\ UNCHANGED excuses
      BY <1>2, <1>4 DEF Repeated, external
    <2>2. Typed' /\ Frame(c)
      BY <1>1, <2>1 DEF Answer, Goto, Typed, Frame, Places
    <2>3. posts[key] > 0
      <3>1. DeliveredItems(key) # {}
        BY <1>2, <1>4 DEF Repeated, Earlier, DeliveredItems, Key
      <3>2. Cardinality(DeliveredItems(key)) >= 1 /\ Cardinality(Pending(key)) \in Nat
            /\ Cardinality(DeliveredItems(key)) \in Nat
        BY <1>1, <3>1, Finite, SomeElement
      <3>3. Counted(key) /\ posts[key] \in Nat
        BY <1>1, <1>2 DEF IInv, Typed
      <3> QED
        BY <3>2, <3>3 DEF Counted
    <2>4. Truthful(a)'
      BY <1>1, <1>2, <2>3 DEF Truthful, DeliveryTrue
    <2>5. at'[c] = "idle" /\ Shape(c)' /\ Founded(c)'
      BY <1>1, <2>1, <2>4, Answered
    <2>6. Counts'
      <3>1. \A k \in Keys : excuses[k] <= excuses'[k]
        BY <1>1, <2>1 DEF Typed
      <3> QED
        BY <1>1, <1>3, <2>2, <2>5, <3>1, QuietCounts DEF Undocumented
    <2> QED
      BY <1>1, <2>2, <2>5, <2>6 DEF Moves
  <1>5. CASE LookUp(c) \/ LookUpFails(c)
    <2>1. PICK n \in {0, 1} : Excuse(c, n) /\ (n = 0 => ~Known(key))
      <3>1. CASE LookUpFails(c)
        BY <3>1 DEF LookUpFails
      <3>2. CASE LookUp(c)
        <4>1. DeliveredItems(key) = {}
          BY <1>1, <1>2, <3>2 DEF LookUp, Earlier, DeliveredItems, Key, IInv, OfDelivery
        <4>2. CASE \E d \in Callers : Undocumented(d) /\ Key(d) = Key(c)
          BY <3>2, <4>2 DEF LookUp
        <4>3. CASE ~\E d \in Callers : Undocumented(d) /\ Key(d) = Key(c)
          <5>1. Pending(key) = {}
            BY <1>2, <4>3 DEF Pending
          <5> QED
            BY <3>2, <4>1, <4>3, <5>1 DEF LookUp, Known
        <4> QED
          BY <4>2, <4>3
      <3> QED
        BY <1>5, <3>1, <3>2
    <2>2. /\ at' = [at EXCEPT ![c] = "send"] /\ UNCHANGED <<asked, work, tries, held>>
      BY <1>5 DEF LookUp, LookUpFails, Goto
    <2>3. /\ excuses' \in [Keys -> Nat] /\ excuses'[key] = excuses[key] + n
          /\ \A k \in Keys : excuses[k] <= excuses'[k]
      BY <1>1, <1>2, <2>1, Excused
    <2>4. Typed' /\ Frame(c) /\ at'[c] = "send"
      BY <1>1, <2>2, <2>3 DEF Typed, Frame, Places
    <2>5. Shape(c)' /\ Founded(c)'
      <3>1. Truthful(held[c])'
        BY <1>1, <2>2, <2>4, StaysTrue DEF Founded, Frame
      <3> QED
        BY <1>1, <2>2, <2>4, <3>1 DEF Shape, Founded, Proposing
    <2>6. /\ Pending(key)' = Pending(key)
          /\ c \notin Sending(key) /\ Sending(key)' = Sending(key) \cup {c}
      <3>1. ~Undocumented(c) /\ ~Undocumented(c)' /\ c \notin Sending(key) /\ Key(c)' = key
        BY <1>1, <1>2, <2>2, <2>4 DEF Undocumented, Sending, Key
      <3>2. c \notin Pending(key)
        BY <3>1 DEF Pending
      <3> QED
        BY <1>2, <2>4, <3>1, <3>2, Sets
    <2>7. Counted(key)'
      BY <1>1, <1>2, <1>3, <2>6 DEF IInv, Counted
    <2>8. ASSUME key \in Traces \X Targets PROVE Caused(key)'
      <3>1. /\ Cardinality(Sending(key)') = Cardinality(Sending(key)) + 1
            /\ Cardinality(Sending(key)) \in Nat
        BY <1>1, <2>6, Joined, Finite
      <3>2. Known(key)' <=> Known(key)
        BY <1>2, <1>3, <2>6 DEF Known
      <3>3. posts[key] \in Nat /\ excuses[key] \in Nat /\ Caused(key) /\ posts' = posts
        BY <1>1, <1>2, <2>8 DEF IInv, Typed
      <3> QED
        BY <2>1, <2>3, <3>1, <3>2, <3>3 DEF Caused
    <2>9. Counts'
      <3>1. asked[c] = asked'[c]
        BY <2>2
      <3>2. \A k \in Keys : posts'[k] = posts[k]
        BY <1>1
      <3> QED
        BY <1>3, <2>3, <2>4, <2>7, <2>8, <3>1, <3>2, <1>2, OtherKeys
    <2> QED
      BY <1>1, <2>4, <2>5, <2>9 DEF Moves
  <1> QED
    BY <1>4, <1>5

LEMMA SendMoves ==
    ASSUME IInv, NEW c \in Callers, Withhold(c) \/ Send(c) \/ LoseReply(c) \/ SendFails(c)
    PROVE  Moves(c) /\ Counts' /\ UNCHANGED history
  <1>1. /\ Typed /\ Shape(c) /\ Founded(c) /\ at[c] = "send" /\ asked[c] \in Request
        /\ UNCHANGED <<asked, tries, held, head, history>>
    BY DEF IInv, Withhold, Send, LoseReply, SendFails, Sendable, Shape, external
  <1>2. PICK key \in Keys : key = Key(c)
    BY <1>1, KeyOf
  <1>3. \A k \in Keys : DeliveredItems(k)' = DeliveredItems(k)
    BY <1>1 DEF DeliveredItems
  <1>4. /\ Overlapping(c) = Sending(key) \ {c} /\ c \in Sending(key)
        /\ IsFiniteSet(Overlapping(c)) /\ Cardinality(Overlapping(c)) \in Nat
        /\ Cardinality(Sending(key)) = Cardinality(Overlapping(c)) + 1
    <2>1. Overlapping(c) = Sending(key) \ {c} /\ c \in Sending(key)
      BY <1>1, <1>2 DEF Overlapping, Sending
    <2>2. Overlapping(c) \in SUBSET Sending(key) /\ IsFiniteSet(Sending(key))
      BY <1>1, <2>1, Finite
    <2>3. IsFiniteSet(Overlapping(c))
      BY <2>2, FS_Subset
    <2>4. c \notin Overlapping(c) /\ Sending(key) = Overlapping(c) \cup {c}
      BY <2>1
    <2> QED
      BY <2>1, <2>3, <2>4, Joined
  \* What is posted and excused: a reply that is lost has its excuse, and a
  \* delivery has one for every call that may repeat it.
  <1>5. PICK status \in {"delivered", "approval_required", "failed"}, m \in {0, 1}, n \in Nat :
          /\ Delivered(c, status)
          /\ posts' \in [Keys -> Nat] /\ excuses' \in [Keys -> Nat]
          /\ posts'[key] = posts[key] + m /\ excuses'[key] = excuses[key] + n
          /\ \A k \in Keys : k # key => posts'[k] = posts[k]
          /\ \A k \in Keys : posts[k] <= posts'[k] /\ excuses[k] <= excuses'[k]
          /\ status = "delivered" => m = 1 /\ n = Cardinality(Overlapping(c))
          /\ status # "delivered" => m = n
    <2>1. CASE Withhold(c) \/ SendFails(c)
      <3>1. UNCHANGED <<posts, excuses>>
        BY <2>1 DEF Withhold, SendFails, external
      <3>2. \E status \in {"approval_required", "failed"} : Delivered(c, status)
        BY <2>1 DEF Withhold, SendFails
      <3>3. /\ posts' \in [Keys -> Nat] /\ excuses' \in [Keys -> Nat]
            /\ posts'[key] = posts[key] + 0 /\ excuses'[key] = excuses[key] + 0
            /\ \A k \in Keys : k # key => posts'[k] = posts[k]
            /\ \A k \in Keys : posts[k] <= posts'[k] /\ excuses[k] <= excuses'[k]
        BY <1>1, <3>1 DEF Typed
      <3> QED
        BY <3>2, <3>3
    <2>2. CASE Send(c) \/ LoseReply(c)
      <3>1. posts' = [posts EXCEPT ![Key(c)] = @ + 1]
        BY <2>2 DEF Send, LoseReply
      <3>2. /\ posts' \in [Keys -> Nat] /\ posts'[key] = posts[key] + 1
            /\ \A k \in Keys : k # key => posts'[k] = posts[k]
            /\ \A k \in Keys : posts[k] <= posts'[k]
        BY <1>1, <1>2, <3>1, Posted
      <3>3. PICK status \in {"delivered", "failed"}, n \in Nat :
              /\ Delivered(c, status) /\ Excuse(c, n)
              /\ status = "delivered" => n = Cardinality(Overlapping(c))
              /\ status # "delivered" => n = 1
        BY <1>4, <2>2 DEF Send, LoseReply
      <3>4. /\ excuses' \in [Keys -> Nat] /\ excuses'[key] = excuses[key] + n
            /\ \A k \in Keys : excuses[k] <= excuses'[k]
        BY <1>1, <1>2, <3>3, Excused
      <3> QED
        BY <3>2, <3>3, <3>4
    <2> QED
      BY <2>1, <2>2
  <1> DEFINE answer == IF status = "failed" THEN Failed
                       ELSE [kind |-> "delivery", status |-> status, key |-> key]
             item == Item("integration_delivery", asked[c].trace, asked[c].target, status)
  <1>6. /\ at' = [at EXCEPT ![c] = "append"]
        /\ work' = [work EXCEPT ![c] = [answer |-> answer, item |-> item]]
    BY <1>2, <1>5 DEF Delivered, Finish, Goto, Make
  <1>7. Typed' /\ Frame(c) /\ at'[c] = "append" /\ work'[c].answer = answer /\ work'[c].item = item
    BY <1>1, <1>5, <1>6 DEF Typed, Frame, Places
  <1>8. Shape(c)' /\ Founded(c)'
    <2>1. /\ item \in Items /\ OfDelivery(item) /\ item.status = status
          /\ item.trace = asked[c].trace /\ item.target = asked[c].target
      BY <1>1, KeyOf DEF Item, Items, OfDelivery
    <2>2. Truthful(held[c])'
      BY <1>1, <1>7, StaysTrue DEF Founded, Frame
    <2>3. Truthful(answer)'
      <3>1. CASE status = "failed"
        BY <3>1 DEF Truthful, Failed
      <3>2. CASE status # "failed"
        <4>1. posts[key] \in Nat
          BY <1>1 DEF Typed
        <4>2. status = "delivered" => posts'[key] > 0
          BY <1>5, <4>1
        <4>3. status = "approval_required" \/ status = "delivered"
          BY <3>2
        <4> QED
          BY <3>2, <4>2, <4>3 DEF Truthful, DeliveryTrue
      <3> QED
        BY <3>1, <3>2
    <2> HIDE DEF answer, item
    <2> QED
      BY <1>1, <1>7, <2>1, <2>2, <2>3 DEF Shape, Founded, Proposing
  <1>9. Undocumented(c)' <=> status = "delivered"
    BY <1>7 DEF Undocumented, Item
  <1>10. /\ Sending(key)' = Overlapping(c)
         /\ c \notin Pending(key)
         /\ status = "delivered" => Pending(key)' = Pending(key) \cup {c}
         /\ status # "delivered" => Pending(key)' = Pending(key)
    <2>1. c \notin Pending(key) /\ Key(c)' = key
      BY <1>1, <1>2 DEF Pending, Undocumented, Key
    <2> QED
      BY <1>4, <1>7, <1>9, <2>1, Sets
  <1>11. /\ posts[key] \in Nat /\ excuses[key] \in Nat
         /\ Cardinality(Pending(key)) \in Nat /\ Cardinality(DeliveredItems(key)) \in Nat
         /\ IsFiniteSet(Pending(key)) /\ Counted(key)
         /\ key \in Traces \X Targets => Caused(key)
    BY <1>1, Finite DEF IInv, Typed
  <1>12. Cardinality(Pending(key)') = Cardinality(Pending(key)) + (IF status = "delivered" THEN 1 ELSE 0)
    BY <1>10, <1>11, Joined
  <1>13. Counted(key)'
    BY <1>3, <1>5, <1>11, <1>12 DEF Counted
  <1>14. ASSUME key \in Traces \X Targets PROVE Caused(key)'
    <2>1. CASE status = "delivered"
      <3>1. Known(key)'
        BY <1>10, <2>1 DEF Known
      <3> QED
        BY <1>4, <1>5, <1>10, <1>11, <1>14, <2>1, <3>1 DEF Caused
    <2>2. CASE status # "delivered"
      <3>1. Known(key)' <=> Known(key)
        BY <1>3, <1>10, <2>2 DEF Known
      <3> QED
        BY <1>4, <1>5, <1>10, <1>11, <1>14, <2>2, <3>1 DEF Caused
    <2> QED
      BY <2>1, <2>2
  <1>15. Counts'
    BY <1>1, <1>2, <1>3, <1>5, <1>7, <1>13, <1>14, OtherKeys
  <1> QED
    BY <1>1, <1>7, <1>8, <1>15 DEF Moves

LEMMA ItemAppended ==
    ASSUME Typed, NEW item \in Items, history' = Append(history, item)
    PROVE  /\ history' \in Seq(Items) /\ Len(history) + 1 \notin DOMAIN history
           /\ DOMAIN history' = DOMAIN history \cup {Len(history) + 1}
           /\ history'[Len(history) + 1] = item
           /\ \A i \in DOMAIN history : history'[i] = history[i]
  BY DEF Typed

LEMMA AppendMoves ==
    ASSUME IInv, NEW c \in Callers, AppendHistory(c) \/ AppendFails(c)
    PROVE  Moves(c) /\ Counts' /\ \A i \in DOMAIN history' : OfDelivery(history'[i])
  <1>1. /\ Typed /\ Shape(c) /\ Founded(c) /\ at[c] = "append"
        /\ Answer(c, work[c].answer) /\ UNCHANGED <<posts, head>>
    BY DEF IInv, AppendHistory, AppendFails, external
  <1>2. PICK item \in Items : item = work[c].item
    BY <1>1 DEF Shape
  <1>3. history' = history \/ history' = Append(history, item)
    BY <1>2 DEF AppendHistory, AppendFails
  <1>4. history' \in Seq(Items) /\ \A i \in DOMAIN history' : OfDelivery(history'[i])
    <2>1. (\A i \in DOMAIN history : OfDelivery(history[i])) /\ OfDelivery(item)
      BY <1>1, <1>2 DEF IInv, Shape
    <2>2. CASE history' = history
      BY <1>1, <2>1, <2>2 DEF Typed
    <2>3. CASE history' = Append(history, item)
      BY <1>1, <2>1, <2>3, ItemAppended
    <2> QED
      BY <1>3, <2>2, <2>3
  <1>5. Undocumented(c) <=> item.status = "delivered"
    BY <1>1, <1>2 DEF Undocumented
  <1>6. excuses' \in [Keys -> Nat] /\ \A k \in Keys : excuses[k] <= excuses'[k]
    <2>1. CASE UNCHANGED excuses
      BY <1>1, <2>1 DEF Typed
    <2>2. CASE Undocumented(c) /\ Excuse(c, 1)
      <3>1. Key(c) \in Keys
        BY <1>1, <1>2, <1>5, <2>2, KeyOf DEF Shape
      <3> QED
        BY <1>1, <2>2, <3>1, Excused
    <2> QED
      BY <2>1, <2>2 DEF AppendHistory, AppendFails, external
  <1>7. Typed' /\ Frame(c)
    BY <1>1, <1>4, <1>6 DEF Answer, Goto, Typed, Frame, Places
  <1>8. at'[c] = "idle" /\ Shape(c)' /\ Founded(c)'
    <2>1. Truthful(work[c].answer)
      BY <1>1 DEF Founded
    <2>2. PICK a : a = work[c].answer
      OBVIOUS
    <2>3. Truthful(a)'
      BY <1>1, <1>7, <2>1, <2>2, StaysTrue DEF Frame
    <2> QED
      BY <1>1, <2>2, <2>3, Answered
  <1>9. CASE item.status # "delivered"
    <2>1. \A k \in Keys : DeliveredItems(k)' = DeliveredItems(k)
      <3>1. CASE history' = history
        BY <3>1 DEF DeliveredItems
      <3>2. CASE history' = Append(history, item)
        BY <1>1, <1>9, <3>2, ItemAppended DEF DeliveredItems
      <3> QED
        BY <1>3, <3>1, <3>2
    <2>2. Counts'
      BY <1>1, <1>5, <1>6, <1>7, <1>8, <1>9, <2>1, QuietCounts DEF Undocumented
    <2> QED
      BY <1>4, <1>7, <1>8, <2>2 DEF Moves
  <1>10. CASE item.status = "delivered"
    <2>1. PICK key \in Keys : /\ key = Key(c) /\ item.trace = key[1] /\ item.target = key[2]
      BY <1>1, <1>2, <1>10, KeyOf DEF Shape, Key
    <2>2. /\ c \in Pending(key) /\ c \notin Sending(key)
          /\ Pending(key)' = Pending(key) \ {c} /\ Sending(key)' = Sending(key)
      <3>1. c \in Pending(key) /\ c \notin Sending(key)
        BY <1>1, <1>5, <1>10, <2>1 DEF Pending, Sending
      <3>2. ~Undocumented(c)'
        BY <1>8 DEF Undocumented
      <3> QED
        BY <1>7, <1>8, <3>1, <3>2, Sets
    <2>3. \A k \in Keys : k # key => DeliveredItems(k)' = DeliveredItems(k)
      <3>1. CASE history' = history
        BY <3>1 DEF DeliveredItems
      <3>2. CASE history' = Append(history, item)
        <4>1. ASSUME NEW k \in Keys, k # key
              PROVE  ~(item.trace = k[1] /\ item.target = k[2])
          BY <2>1, <4>1 DEF Keys
        <4> QED
          BY <1>1, <3>2, <4>1, ItemAppended DEF DeliveredItems
      <3> QED
        BY <1>3, <3>1, <3>2
    <2>4. /\ Cardinality(Pending(key)') \in Nat
          /\ Cardinality(Pending(key)) = Cardinality(Pending(key)') + 1
          /\ Cardinality(DeliveredItems(key)) \in Nat /\ Cardinality(Sending(key)) \in Nat
          /\ posts[key] \in Nat /\ excuses[key] \in Nat /\ posts'[key] = posts[key]
          /\ IsFiniteSet(DeliveredItems(key))
      <3>1. IsFiniteSet(Pending(key)')
        BY <1>1, <2>2, Finite, FS_RemoveElement
      <3>2. Pending(key) = Pending(key)' \cup {c} /\ c \notin Pending(key)'
        BY <2>2
      <3>3. /\ Cardinality(Pending(key)') \in Nat
            /\ Cardinality(Pending(key)) = Cardinality(Pending(key)') + 1
        BY <3>1, <3>2, Joined
      <3> QED
        BY <1>1, <3>3, Finite DEF Typed
    <2>5. Known(key) /\ Counted(key) /\ (key \in Traces \X Targets => Caused(key))
      BY <2>2 DEF Known, IInv
    <2>6. ASSUME AppendHistory(c)
          PROVE  Counted(key)' /\ (key \in Traces \X Targets => Caused(key)')
      <3>1. /\ history' = Append(history, item) /\ UNCHANGED excuses
        BY <1>2, <2>6 DEF AppendHistory, external
      <3>2. /\ DeliveredItems(key)' = DeliveredItems(key) \cup {Len(history) + 1}
            /\ Len(history) + 1 \notin DeliveredItems(key)
        BY <1>1, <1>10, <2>1, <3>1, ItemAppended DEF DeliveredItems
      <3>3. Cardinality(DeliveredItems(key)') = Cardinality(DeliveredItems(key)) + 1
        BY <2>4, <3>2, Joined
      <3>4. Counted(key)'
        BY <2>4, <2>5, <3>3 DEF Counted
      <3>5. Known(key)'
        BY <3>2 DEF Known
      <3>6. key \in Traces \X Targets => Caused(key)'
        BY <2>2, <2>4, <2>5, <3>1, <3>5 DEF Caused
      <3> QED
        BY <3>4, <3>6
    <2>7. ASSUME AppendFails(c)
          PROVE  Counted(key)' /\ (key \in Traces \X Targets => Caused(key)')
      <3>1. UNCHANGED history /\ Excuse(c, 1)
        BY <1>5, <1>10, <2>7 DEF AppendFails
      <3>2. excuses'[key] = excuses[key] + 1
        BY <1>1, <2>1, <3>1, Excused
      <3>3. DeliveredItems(key)' = DeliveredItems(key)
        BY <3>1 DEF DeliveredItems
      <3>4. Counted(key)'
        BY <2>4, <2>5, <3>3 DEF Counted
      <3>5. key \in Traces \X Targets => Caused(key)'
        BY <2>2, <2>4, <2>5, <3>2 DEF Caused
      <3> QED
        BY <3>4, <3>5
    <2>8. Counts'
      <3>1. ASSUME NEW k \in Keys, k # key
            PROVE  Sending(k)' = Sending(k) /\ Pending(k)' = Pending(k)
        <4>1. c \notin Sending(k) /\ c \notin Pending(k)
          BY <2>1, <3>1 DEF Sending, Pending
        <4>2. ~Undocumented(c)'
          BY <1>8 DEF Undocumented
        <4> QED
          BY <1>7, <1>8, <4>1, <4>2, Sets
      <3> QED
        BY <1>1, <1>6, <1>7, <2>3, <2>6, <2>7, <3>1, KeyByKey
    <2> QED
      BY <1>4, <1>7, <1>8, <2>8 DEF Moves
  <1> QED
    BY <1>9, <1>10

-----------------------------------------------------------------------------
(* The end of the service, and a commit.                                   *)

LEMMA CrashKeeps ==
    ASSUME IInv, Crash
    PROVE  IInv'
  <1>1. /\ \A c \in Callers : at'[c] = "idle" /\ held'[c] \in {held[c], Failed}
        /\ UNCHANGED <<history, head, posts>> /\ Typed
    BY DEF Crash, IInv
  <1>2. /\ excuses' \in [Keys -> Nat]
        /\ \A k \in Keys : excuses'[k] = excuses[k] + Cardinality(Pending(k))
    <2>1. excuses' = [k \in Keys |-> excuses[k] + Cardinality(Pending(k))]
      BY DEF Crash, Pending
    <2>2. \A k \in Keys : excuses[k] \in Nat /\ Cardinality(Pending(k)) \in Nat
      BY <1>1, Finite DEF Typed
    <2> QED
      BY <2>1, <2>2
  <1>3. Typed'
    BY <1>1, <1>2 DEF Crash, Typed, Places
  <1>4. ASSUME NEW c \in Callers PROVE Shape(c)' /\ Founded(c)'
    <2>1. Truthful(Failed)'
      BY DEF Truthful, Failed
    <2>2. Truthful(held[c]) /\ \A k \in Keys : posts[k] <= posts'[k]
      BY <1>1 DEF IInv, Founded, Typed
    <2>3. \A v : Truthful(v) => Truthful(v)'
      BY <1>1, <1>3, <2>2, StaysTrue
    <2>4. Truthful(held[c])'
      BY <1>1, <2>1, <2>2, <2>3
    <2> QED
      BY <1>1, <2>4 DEF Shape, Founded, Proposing
  <1>5. ASSUME NEW k \in Keys
        PROVE  Counted(k)' /\ (k \in Traces \X Targets => Caused(k)')
    <2>1. Sending(k)' = {} /\ Pending(k)' = {} /\ DeliveredItems(k)' = DeliveredItems(k)
      BY <1>1 DEF Sending, Pending, Undocumented, DeliveredItems
    <2>2. /\ Cardinality(Sending(k)') = 0 /\ Cardinality(Pending(k)') = 0
          /\ Cardinality(Sending(k)) \in Nat /\ Cardinality(Pending(k)) \in Nat
          /\ Cardinality(DeliveredItems(k)) \in Nat
          /\ Pending(k) # {} => Cardinality(Pending(k)) >= 1
          /\ posts[k] \in Nat /\ excuses[k] \in Nat /\ posts'[k] = posts[k]
      BY <1>1, <2>1, Finite, FS_EmptySet, SomeElement DEF Typed
    <2>3. Counted(k)'
      BY <2>1, <2>2 DEF IInv, Counted
    <2>4. ASSUME k \in Traces \X Targets PROVE Caused(k)'
      <3>1. Caused(k)
        BY <2>4 DEF IInv
      <3> QED
        BY <1>2, <2>1, <2>2, <3>1 DEF Caused, Known
    <2> QED
      BY <2>3, <2>4
  <1>6. Traces \X Targets \subseteq Keys
    BY DEF Keys
  <1> QED
    BY <1>1, <1>3, <1>4, <1>5, <1>6 DEF IInv

LEMMA CommitKeeps ==
    ASSUME IInv, Commit \/ UNCHANGED vars
    PROVE  IInv'
  <1>1. /\ head' \in {head, head + 1} /\ head' \in Revisions /\ Typed
        /\ UNCHANGED <<at, asked, work, tries, held, calls, history, posts, excuses>>
    BY DEF Commit, vars, IInv, Typed
  <1>2. Typed' /\ \A k \in Keys : posts[k] <= posts'[k]
    BY <1>1 DEF Typed
  <1>3. \A c \in Callers : Shape(c)' /\ Founded(c)'
    BY <1>1, <1>2, OthersKeep DEF IInv
  <1>4. ASSUME NEW k \in Keys
        PROVE  (Caused(k) => Caused(k)') /\ (Counted(k) => Counted(k)')
    <2>1. /\ Sending(k)' = Sending(k) /\ Pending(k)' = Pending(k)
          /\ DeliveredItems(k)' = DeliveredItems(k)
          /\ posts'[k] = posts[k] /\ excuses[k] <= excuses'[k]
      BY <1>1 DEF Sending, Pending, DeliveredItems, Key, Undocumented, Typed
    <2> QED
      BY <1>1, <1>2, <2>1, SameCounts
  <1>5. Traces \X Targets \subseteq Keys
    BY DEF Keys
  <1> QED
    BY <1>1, <1>2, <1>3, <1>4, <1>5 DEF IInv

-----------------------------------------------------------------------------
LEMMA InitHolds == Init => IInv
  <1> SUFFICES ASSUME Init PROVE IInv
    OBVIOUS
  <1>1. Typed
    BY Constants, EmptySeq DEF Init, Typed, Places
  <1>2. \A c \in Callers : Shape(c) /\ Founded(c)
    BY DEF Init, Shape, Founded, Truthful, Proposing
  <1>3. ASSUME NEW k \in Keys PROVE Caused(k) /\ Counted(k)
    <2>1. Sending(k) = {} /\ Pending(k) = {} /\ DeliveredItems(k) = {}
      BY DEF Init, Sending, Pending, Undocumented, DeliveredItems
    <2>2. posts[k] = 0 /\ excuses[k] = 0 /\ Cardinality({}) = 0
      BY FS_EmptySet DEF Init
    <2> QED
      BY <2>1, <2>2 DEF Caused, Counted, Known
  <1>4. history = <<>> /\ Traces \X Targets \subseteq Keys
    BY DEF Init, Keys
  <1> QED
    BY <1>1, <1>2, <1>3, <1>4 DEF IInv

LEMMA StepKeeps == IInv /\ [Next]_vars => IInv'
  <1> SUFFICES ASSUME IInv, [Next]_vars PROVE IInv'
    OBVIOUS
  <1>1. ASSUME NEW c \in Callers, Deliver(c) \/ Analyze(c) \/ Compare(c) \/ CreateProposal(c) \/ Serve(c)
        PROVE  IInv'
    <2>1. Moves(c) /\ Counts' /\ \A i \in DOMAIN history' : OfDelivery(history'[i])
      <3>1. \A i \in DOMAIN history : OfDelivery(history[i])
        BY DEF IInv
      <3>2. CASE Deliver(c)
        BY <3>1, <3>2, DeliverMoves
      <3>3. CASE Quiet(c)
        BY <3>1, <3>3, QuietMoves
      <3>4. CASE Repeated(c) \/ LookUp(c) \/ LookUpFails(c)
        BY <3>1, <3>4, LookMoves
      <3>5. CASE Withhold(c) \/ Send(c) \/ LoseReply(c) \/ SendFails(c)
        BY <3>1, <3>5, SendMoves
      <3>6. CASE AppendHistory(c) \/ AppendFails(c)
        BY <3>6, AppendMoves
      <3> QED
        BY <1>1, <3>2, <3>3, <3>4, <3>5, <3>6 DEF Serve, Quiet
    <2>2. ASSUME NEW d \in Callers \ {c} PROVE Shape(d)' /\ Founded(d)'
      BY <2>1, OthersKeep DEF IInv, Moves, Frame
    <2> QED
      BY <2>1, <2>2 DEF IInv, Moves, Counts
  <1> QED
    BY <1>1, CrashKeeps, CommitKeeps DEF Next

LEMMA Keeps == Spec => []IInv
  BY InitHolds, StepKeeps, PTL DEF Spec

\* However many clients deliver at the same time, and whatever replies, items
\* of the history or calls are lost, the tracker takes a trace again only for
\* a cause of its own, no item of the history stands for a delivery that was
\* not taken, and nobody is told of one that was not (implementation.go,
\* DeliverIntegration).
THEOREM DeliveriesAreSound == Spec => []DeliverySound
  <1>1. IInv => DeliverySound
    <2> SUFFICES ASSUME IInv PROVE DeliverySound
      OBVIOUS
    <2>1. ASSUME NEW k \in Traces \X Targets PROVE posts[k] <= 1 + excuses[k]
      <3>1. k \in Keys /\ Typed /\ Caused(k)
        BY DEF Keys, IInv
      <3>2. posts[k] \in Nat /\ excuses[k] \in Nat /\ Cardinality(Sending(k)) \in Nat
        BY <3>1, Finite DEF Typed
      <3> QED
        BY <3>1, <3>2 DEF Caused
    <2>2. ASSUME NEW k \in Keys PROVE Cardinality(DeliveredItems(k)) <= posts[k]
      <3>1. /\ posts[k] \in Nat /\ Counted(k)
            /\ Cardinality(Pending(k)) \in Nat /\ Cardinality(DeliveredItems(k)) \in Nat
        BY Finite DEF IInv, Typed
      <3> QED
        BY <3>1 DEF Counted
    <2>3. ASSUME NEW c \in Callers, held[c].kind = "delivery",
                 held[c].status \in {"delivered", "already_delivered"}
          PROVE  posts[held[c].key] > 0
      BY <2>3 DEF IInv, Founded, Truthful, DeliveryTrue
    <2> QED
      BY <2>1, <2>2, <2>3 DEF DeliverySound, DeliveredOnce, AuditTrue
  <1> QED
    BY <1>1, Keeps, PTL

\* However the repository moves on under the calls, a review is of files the
\* repository had and says what they lack, and a proposal is based on the
\* revision of its review, resolves what the review found and, while the
\* repository has not moved on, can be applied (implementation.go,
\* AnalyzeRepository, CompareImplementation, CreateImplementationProposal).
THEOREM ProposalsAreSound == Spec => []ProposalSound
  <1>1. IInv => ProposalSound
    <2> SUFFICES ASSUME IInv, NEW c \in Callers
                 PROVE  /\ held[c].kind = "review" =>
                             \E r \in held[c].revision..head :
                                held[c].mismatches = Mismatched(FilesAt[r])
                        /\ held[c].kind = "proposal" => ProposalTrue(held[c]) /\ held[c].base <= head
      BY DEF ProposalSound, ReviewTrue, ProposalCurrent, ProposalTrue
    <2>1. Truthful(held[c])
      BY DEF IInv, Founded
    <2> QED
      BY <2>1 DEF Truthful, ReviewedTrue, ProposalTrue
  <1> QED
    BY <1>1, Keeps, PTL
=============================================================================
