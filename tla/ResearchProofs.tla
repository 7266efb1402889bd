--------------------------- MODULE ResearchProofs ---------------------------
(***************************************************************************)
(* Proofs about Research, for any plan, limits and answers of the web: no  *)
(* request goes beyond its limits, and what it reports agrees with what it *)
(* has found and with how far it came.                                     *)
(***************************************************************************)
EXTENDS Research, FiniteSetTheorems, SequenceTheorems, TLAPS

Evidence == [task : 1..Tasks, primary : BOOLEAN]
Results == [task : 1..Tasks, status : {"partially_verified", "unverified"},
            evidence : SUBSET Nat]
Searches == [task : 1..Tasks, outcome : {"failed", "nothing", "found"}]

Places ==
    /\ pc \in {"start", "query", "hits", "finish", "save", "saved", "error"}
    /\ mode \in {"execute", "verify"}
    /\ limit \in Limits
    /\ configured \in BOOLEAN /\ late \in BOOLEAN
    /\ task \in 1..(Tasks + 1) /\ query \in 1..(Queries + 1)
    /\ before \in Nat /\ before <= Len(evidence)
    /\ found \subseteq 1..Len(evidence) /\ hits \in 0..MaxHits
    /\ stale \in Nat /\ queriesUsed \in Nat
    /\ reasons \subseteq Reason
    /\ status \in {"completed", "limited"}

Lists ==
    evidence \in Seq(Evidence) /\ results \in Seq(Results) /\ searched \in Seq(Searches)

Typed == Places /\ Lists

Working == pc \in {"query", "hits"}

\* Which request is where, and what it has when it begins.
Modes ==
    /\ Working \/ pc = "finish" => mode = "execute"
    /\ mode = "execute" => task <= Tasks
    /\ mode = "execute" /\ pc = "start" =>
           task = 1 /\ query = 1 /\ before = 0 /\ found = {} /\ reasons = {}
           /\ evidence = <<>> /\ results = <<>> /\ searched = <<>>
    /\ mode = "verify" => before = 0
    /\ mode = "verify" /\ pc = "start" /\ ~configured => evidence = <<>>
    /\ pc = "hits" => query <= Queries

\* The count of stale queries is below its limit as long as queries are sent.
Stale ==
    /\ stale <= limit.saturation
    /\ stale = limit.saturation => "research_saturated" \in reasons
    /\ "research_saturated" \in reasons => pc # "hits" /\ (pc = "query" => query > Queries)
    /\ pc = "start" => reasons = {}

\* Results come in the order of the plan.
Ordered ==
    mode = "execute" =>
        /\ \A k \in DOMAIN results : results[k].task = k
        /\ Working => Len(results) = task - 1
        /\ pc = "finish" => Len(results) = task
        /\ Reported => Len(results) = Tasks

\* The evidence of the current task is what was found since it began.
Attributed ==
    /\ mode = "execute" =>
           /\ \A i \in DOMAIN evidence : evidence[i].task <= task
           /\ Working =>
                  /\ \A i \in DOMAIN evidence : evidence[i].task = task <=> i > before
                  /\ found = (before + 1)..Len(evidence)
    /\ mode = "verify" =>
           /\ \A i \in DOMAIN evidence : evidence[i].task < task
           /\ \A k \in DOMAIN results : results[k].task < task

Sent(t) ==
    IF t > task THEN 0
    ELSE IF t < task \/ pc = "finish" THEN Queries
    ELSE IF pc = "hits" THEN query ELSE query - 1

\* As long as there is no reason to stop, every query was sent.
Whole ==
    /\ pc \in {"start", "finish"} \cup {"query", "hits"} => status = "completed"
    /\ mode = "execute" /\ pc \in {"start", "query", "hits", "finish"} /\ reasons = {} =>
           \A t \in 1..Tasks : Cardinality(SearchesOf(t)) = Sent(t)
    /\ pc = "finish" /\ reasons = {} => task = Tasks

IInv == /\ Typed /\ Modes /\ Stale /\ LimitsKept /\ Ordered /\ Attributed
        /\ EvidenceOfItsTask /\ Whole /\ CompletedIsWhole

-----------------------------------------------------------------------------
LEMMA Limited ==
    ASSUME Typed
    PROVE  /\ limit.queries \in Nat \ {0} /\ limit.sources \in Nat \ {0}
           /\ limit.saturation \in Nat \ {0} /\ limit.cost \in Nat
           /\ Tasks \in Nat \ {0} /\ Queries \in Nat \ {0} /\ MaxHits \in Nat
  BY Constants DEF Typed, Places

\* The searches of a task are finitely many, and one more is counted.
LEMMA SearchesFinite ==
    ASSUME searched \in Seq(Searches), NEW t
    PROVE  IsFiniteSet(SearchesOf(t)) /\ Cardinality(SearchesOf(t)) \in Nat
  <1>1. SearchesOf(t) \subseteq 1..Len(searched) /\ Len(searched) \in Nat
    BY DEF SearchesOf
  <1>2. IsFiniteSet(1..Len(searched))
    BY <1>1, FS_Interval
  <1>3. IsFiniteSet(SearchesOf(t))
    BY <1>1, <1>2, FS_Subset
  <1> QED
    BY <1>3, FS_CardinalityType

LEMMA SearchAdded ==
    ASSUME Typed, NEW o, searched' = Append(searched, [task |-> task, outcome |-> o]), NEW t
    PROVE  Cardinality(SearchesOf(t)') = Cardinality(SearchesOf(t)) + IF t = task THEN 1 ELSE 0
  <1>1. /\ Len(searched') = Len(searched) + 1 /\ Len(searched) \in Nat
        /\ DOMAIN searched = 1..Len(searched) /\ DOMAIN searched' = 1..Len(searched')
        /\ \A i \in DOMAIN searched : searched'[i] = searched[i]
        /\ searched'[Len(searched) + 1].task = task
    BY DEF Typed, Lists
  <1>2. IsFiniteSet(SearchesOf(t)) /\ Cardinality(SearchesOf(t)) \in Nat
    BY SearchesFinite DEF Typed, Lists
  <1>3. CASE t = task
    <2>1. SearchesOf(t)' = SearchesOf(t) \cup {Len(searched) + 1}
      BY <1>1, <1>3 DEF SearchesOf
    <2>2. Len(searched) + 1 \notin SearchesOf(t)
      BY <1>1 DEF SearchesOf
    <2> QED
      BY <1>2, <1>3, <2>1, <2>2, FS_AddElement
  <1>4. CASE t # task
    <2>1. SearchesOf(t)' = SearchesOf(t)
      BY <1>1, <1>4 DEF SearchesOf
    <2> QED
      BY <1>2, <1>4, <2>1
  <1> QED
    BY <1>3, <1>4

\* Tasks that are not reached get a result each.
LEMMA UnverifiedResults ==
    ASSUME NEW n \in 0..Tasks
    PROVE  /\ Unverified(n + 1) \in Seq(Results) /\ Len(Unverified(n + 1)) = Tasks - n
           /\ \A i \in 1..(Tasks - n) :
                  Unverified(n + 1)[i] = [task |-> n + i, status |-> "unverified", evidence |-> {}]
  <1> DEFINE R(i) == [task |-> n + i, status |-> "unverified", evidence |-> {}]
             m == Tasks - n
  <1>1. m \in Nat /\ n \in Nat /\ Tasks + 1 - (n + 1) = m
    BY Constants
  <1>2. \A i \in 1..m : R(i) \in Results /\ Result(n + 1 + i - 1, FALSE, {}) = R(i)
    BY <1>1, Constants DEF Results, Result
  <1>3. Unverified(n + 1) = [i \in 1..m |-> R(i)]
    BY <1>1, <1>2 DEF Unverified
  <1> HIDE DEF R, m
  <1>4. Unverified(n + 1) \in [1..m -> Results]
    BY <1>2, <1>3
  <1>5. Unverified(n + 1) \in Seq(Results)
    <2>1. Seq(Results) = UNION {[1..k -> Results] : k \in Nat}
      BY SeqDef
    <2>2. [1..m -> Results] \in {[1..k -> Results] : k \in Nat}
      BY <1>1
    <2> QED
      BY <1>4, <2>1, <2>2
  <1>6. Len(Unverified(n + 1)) = m
    BY <1>1, <1>4, <1>5, LenProperties
  <1> QED
    BY <1>3, <1>5, <1>6 DEF R, m

LEMMA AllUnverified ==
    /\ Unverified(1) \in Seq(Results) /\ Len(Unverified(1)) = Tasks
    /\ DOMAIN Unverified(1) = 1..Tasks
    /\ \A i \in 1..Tasks :
           Unverified(1)[i] = [task |-> i, status |-> "unverified", evidence |-> {}]
  <1>1. 0 \in 0..Tasks /\ 0 + 1 = 1 /\ Tasks - 0 = Tasks /\ \A i \in 1..Tasks : 0 + i = i
    BY Constants
  <1>2. /\ Unverified(0 + 1) \in Seq(Results) /\ Len(Unverified(0 + 1)) = Tasks - 0
        /\ \A i \in 1..(Tasks - 0) : Unverified(0 + 1)[i] =
               [task |-> 0 + i, status |-> "unverified", evidence |-> {}]
    BY <1>1, UnverifiedResults
  <1> DEFINE un == Unverified(1)
  <1>3. un \in Seq(Results) /\ Len(un) = Tasks
        /\ \A i \in 1..Tasks : un[i] = [task |-> i, status |-> "unverified", evidence |-> {}]
    BY <1>1, <1>2
  <1> HIDE DEF un
  <1>4. DOMAIN un = 1..Tasks
    BY <1>3
  <1> QED
    BY <1>3, <1>4 DEF un

Fills(done, all) ==
    /\ done \in Seq(Results) /\ Len(done) <= Tasks
    /\ all = done \o Unverified(Len(done) + 1)

Filled(done, all) ==
    /\ all \in Seq(Results) /\ Len(all) = Tasks /\ DOMAIN all = 1..Tasks
    /\ \A k \in DOMAIN done : k \in 1..Tasks /\ all[k] = done[k]
    /\ \A k \in 1..Tasks : k \in DOMAIN done \/
           all[k] = [task |-> k, status |-> "unverified", evidence |-> {}]

LEMMA RestUnverified ==
    ASSUME NEW done, NEW all, Fills(done, all)
    PROVE  Filled(done, all)
  <1> DEFINE n == Len(done) un == Unverified(n + 1)
  <1>1. n \in 0..Tasks /\ n \in Nat /\ Tasks \in Nat /\ DOMAIN done = 1..n
        /\ done \in Seq(Results)
    BY Constants DEF Fills
  <1>2. all = done \o un
    BY DEF Fills
  <1> HIDE DEF n
  <1>3. /\ un \in Seq(Results) /\ Len(un) = Tasks - n
        /\ \A i \in 1..(Tasks - n) :
               un[i] = [task |-> n + i, status |-> "unverified", evidence |-> {}]
    BY <1>1, UnverifiedResults
  <1> HIDE DEF un
  <1>4. /\ Len(all) = n + Len(un) /\ all \in Seq(Results)
        /\ \A i \in 1..(n + Len(un)) : all[i] = IF i <= n THEN done[i] ELSE un[i - n]
    <2>1. /\ Len(done \o un) = Len(done) + Len(un) /\ done \o un \in Seq(Results)
          /\ \A i \in 1..(Len(done) + Len(un)) :
                 (done \o un)[i] = IF i <= Len(done) THEN done[i] ELSE un[i - Len(done)]
      BY <1>1, <1>3, ConcatProperties
    <2>2. n = Len(done)
      BY DEF n
    <2> QED
      BY <1>2, <2>1, <2>2
  <1>5. Len(all) = Tasks /\ DOMAIN all = 1..Tasks
    BY <1>1, <1>3, <1>4
  <1>6. \A k \in 1..n : k \in 1..Tasks /\ all[k] = done[k]
    BY <1>1, <1>3, <1>4
  <1>7. ASSUME NEW k \in 1..Tasks, k \notin 1..n
        PROVE  all[k] = [task |-> k, status |-> "unverified", evidence |-> {}]
    <2>1. k - n \in 1..(Tasks - n) /\ n + (k - n) = k /\ ~(k <= n) /\ k \in 1..(n + Len(un))
      BY <1>1, <1>3, <1>7
    <2> QED
      BY <1>3, <1>4, <2>1
  <1> QED
    BY <1>1, <1>4, <1>5, <1>6, <1>7 DEF Filled

LEMMA InitIInv == Init => IInv
  <1> SUFFICES ASSUME Init PROVE IInv
    OBVIOUS
  <1>1. Typed
    <2>1. 1 \in 1..(Tasks + 1) /\ 1 \in 1..(Queries + 1) /\ 0 \in 0..MaxHits
      BY Constants
    <2>2. <<>> \in Seq(Evidence) /\ <<>> \in Seq(Results) /\ <<>> \in Seq(Searches)
          /\ Len(<<>>) = 0
      OBVIOUS
    <2>3. evidence \in Seq(Evidence) /\ results \in Seq(Results) /\ searched \in Seq(Searches)
          /\ Len(evidence) = 0
      BY <2>2 DEF Init
    <2> QED
      <3>1. Lists
        BY <2>3 DEF Lists
      <3>2. /\ task = 1 /\ query = 1 /\ before = 0 /\ found = {} /\ hits = 0 /\ stale = 0
            /\ queriesUsed = 0 /\ reasons = {} /\ pc = "start" /\ mode \in {"execute", "verify"}
            /\ limit \in Limits /\ configured \in BOOLEAN /\ late \in BOOLEAN
            /\ status = "completed"
        BY DEF Init
      <3>3. Places
        BY <2>1, <2>3, <3>2 DEF Places
      <3> QED
        BY <3>1, <3>3 DEF Typed
  <1>2. Modes /\ Ordered /\ Attributed /\ EvidenceOfItsTask /\ CompletedIsWhole
    BY <1>1, Limited DEF Init, Modes, Working, Ordered, Reported, Attributed,
       EvidenceOfItsTask, CompletedIsWhole
  <1>3. Stale /\ LimitsKept
    BY <1>1, Limited DEF Init, Stale, LimitsKept
  <1>4. Whole
    <2>1. \A t : SearchesOf(t) = {}
      BY DEF Init, SearchesOf
    <2>2. \A t \in 1..Tasks : Sent(t) = 0
      BY <1>1, Limited DEF Init, Sent
    <2> QED
      BY <2>1, <2>2, FS_EmptySet DEF Init, Whole
  <1> QED
    BY <1>1, <1>2, <1>3, <1>4 DEF IInv

LEMMA NextTyped == IInv /\ [Next]_vars => Typed'
  <1> SUFFICES ASSUME IInv, [Next]_vars PROVE Typed'
    OBVIOUS
  <1> USE DEF IInv, position
  <1>1. /\ Places /\ Lists /\ Len(evidence) \in Nat /\ Len(results) \in Nat
        /\ Tasks \in Nat \ {0} /\ Queries \in Nat \ {0} /\ MaxHits \in Nat
        /\ Working \/ pc = "start" => task \in 1..(Tasks + 1)
        /\ mode = "execute" => task \in 1..Tasks
        /\ found \subseteq Nat
        /\ \A e \in {"research_saturated", "google_search_configuration_missing",
                     "source_limit_reached"} : e \in Reason
    BY Constants DEF Typed, Lists, Places, Modes, Reason
  <1>2. CASE ExecuteUnconfigured
    <2>1. results' \in Seq(Results)
      <3> DEFINE un == Unverified(1)
      <3>1. results' = un
        BY <1>2 DEF ExecuteUnconfigured
      <3>2. un \in Seq(Results)
        BY AllUnverified
      <3> HIDE DEF un
      <3> QED
        BY <3>1, <3>2
    <2>2. Lists'
      BY <1>1, <1>2, <2>1 DEF ExecuteUnconfigured, Lists
    <2>3. Places'
      BY <1>1, <1>2 DEF ExecuteUnconfigured, Places, Reason
    <2> QED
      BY <2>2, <2>3 DEF Typed
  <1>3. CASE Execute \/ TimePasses \/ Save \/ VerifyUnconfigured \/ SourceMalformed
             \/ FinishSources \/ UNCHANGED vars
    <2>1. Lists'
      BY <1>1, <1>3 DEF Execute, TimePasses, Save, VerifyUnconfigured, SourceMalformed,
         FinishSources, vars, Lists
    <2>2. Places'
      BY <1>1, <1>3 DEF Execute, TimePasses, Save, VerifyUnconfigured, SourceMalformed,
         FinishSources, vars, Places, Reason
    <2> QED
      BY <2>1, <2>2 DEF Typed
  <1>4. CASE StopAtLimit
    <2>1. limitReached \in Reason
      BY <1>4 DEF StopAtLimit, limitReached, Reason
    <2>2. Lists'
      BY <1>1, <1>4 DEF StopAtLimit, Lists
    <2>3. Places'
      BY <1>1, <1>4, <2>1 DEF StopAtLimit, Places
    <2> QED
      BY <2>2, <2>3 DEF Typed
  <1>5. CASE SearchFails \/ Search
    <2>1. task \in 1..Tasks
      BY <1>1, <1>5 DEF SearchFails, Search, More, Modes, Working
    <2>2. PICK o \in {"failed", "nothing"} :
              searched' = Append(searched, [task |-> task, outcome |-> o])
      BY <1>5 DEF SearchFails, Search
    <2>3. [task |-> task, outcome |-> o] \in Searches
      BY <2>1 DEF Searches
    <2>4. Lists'
      BY <1>1, <1>5, <2>2, <2>3 DEF SearchFails, Search, Lists
    <2>5. Places'
      <3>1. CASE SearchFails
        <4>1. /\ queriesUsed' = queriesUsed + 1 /\ query' = query + 1 /\ query <= Queries
              /\ UNCHANGED <<pc, mode, limit, configured, late, task, before, found, hits, stale,
                             evidence, status>>
          BY <3>1 DEF SearchFails, More
        <4>2. reasons' \subseteq Reason
          BY <1>1, <3>1 DEF SearchFails, Places
        <4> QED
          BY <1>1, <4>1, <4>2 DEF Places
      <3>2. CASE Search
        BY <1>1, <3>2 DEF Search, Places
      <3> QED
        BY <1>5, <3>1, <3>2
    <2> QED
      BY <2>4, <2>5 DEF Typed
  <1>6. CASE FetchFails \/ SourceLimit
    <2>1. Lists'
      BY <1>1, <1>6 DEF FetchFails, SourceLimit, Lists
    <2>2. Places'
      <3>1. CASE FetchFails
        <4>1. /\ hits' = hits - 1 /\ hits > 0
              /\ UNCHANGED <<pc, mode, limit, configured, late, task, query, before, found, stale,
                             queriesUsed, reasons, evidence, status>>
          BY <3>1 DEF FetchFails
        <4> QED
          BY <1>1, <4>1 DEF Places
      <3>2. CASE SourceLimit
        <4>1. /\ hits' = 0
              /\ UNCHANGED <<pc, mode, limit, configured, late, task, query, before, found, stale,
                             queriesUsed, evidence, status>>
          BY <3>2 DEF SourceLimit
        <4>2. reasons' \subseteq Reason
          BY <1>1, <3>2 DEF SourceLimit, Places
        <4> QED
          BY <1>1, <4>1, <4>2 DEF Places
      <3> QED
        BY <1>6, <3>1, <3>2
    <2> QED
      BY <2>1, <2>2 DEF Typed
  <1>7. CASE Fetch
    <2>1. PICK primary \in BOOLEAN :
              evidence' = Append(evidence, [task |-> task, primary |-> primary])
      BY <1>7 DEF Fetch
    <2>2. [task |-> task, primary |-> primary] \in Evidence
      BY <1>1, <1>7 DEF Fetch, Modes, Working, Evidence
    <2>3. evidence' \in Seq(Evidence) /\ Len(evidence') = Len(evidence) + 1
      BY <1>1, <2>1, <2>2 DEF Lists
    <2>4. searched' \in Seq(Searches)
      <3>1. searched \in Seq(Searches)
            /\ searched' = [searched EXCEPT ![Len(searched)].outcome = "found"]
        BY <1>1, <1>7 DEF Fetch, Lists
      <3>2. \A s \in Searches : [s EXCEPT !.outcome = "found"] \in Searches
        BY DEF Searches
      <3> DEFINE n == Len(searched)
      <3>3. searched \in [1..n -> Searches] /\ n \in Nat
        BY <1>1 DEF Lists
      <3>4. searched' \in [1..n -> Searches]
        BY <3>1, <3>2, <3>3
      <3> QED
        BY <3>3, <3>4, SeqDef
    <2>5. Lists'
      BY <1>1, <1>7, <2>3, <2>4 DEF Fetch, Lists
    <2>6. Places'
      <3>1. found' = found \cup {Len(evidence) + 1} /\ hits' = hits - 1 /\ hits > 0
            /\ UNCHANGED <<pc, mode, limit, configured, late, task, query, before, stale,
                           queriesUsed, reasons, status>>
        BY <1>7 DEF Fetch
      <3>2. found' \subseteq 1..Len(evidence') /\ before' <= Len(evidence')
        <4> DEFINE n == Len(evidence)
        <4>1. Len(evidence') = n + 1 /\ n \in Nat /\ found \subseteq 1..n /\ before <= n
              /\ before \in Nat
          BY <1>1, <2>3 DEF Places
        <4> HIDE DEF n
        <4>2. found' = found \cup {n + 1} /\ before' = before
          BY <3>1 DEF n
        <4> QED
          BY <4>1, <4>2
      <3>3. hits' \in 0..MaxHits
        BY <1>1, <3>1 DEF Places
      <3> QED
        BY <1>1, <3>1, <3>2, <3>3 DEF Places
    <2> QED
      BY <2>5, <2>6 DEF Typed
  <1>8. CASE EndQuery
    <2>1. Lists'
      BY <1>1, <1>8 DEF EndQuery, Lists
    <2>2. query <= Queries
      BY <1>8 DEF EndQuery, Modes
    <2>3. Places'
      <3>1. /\ UNCHANGED <<mode, limit, configured, late, task, before, found, hits, queriesUsed,
                           evidence, status>>
            /\ stale' \in {stale + 1, 0} /\ pc' = "query" /\ query' \in {query + 1, Queries + 1}
        BY <1>8 DEF EndQuery, StaleAfter
      <3>2. reasons' \subseteq Reason
        BY <1>1, <1>8 DEF EndQuery, Places
      <3> QED
        BY <1>1, <2>2, <3>1, <3>2 DEF Places
    <2> QED
      BY <2>1, <2>3 DEF Typed
  <1>9. CASE FinishTask
    <2>1. task \in 1..Tasks
      BY <1>1, <1>9 DEF FinishTask, Modes, Working
    <2>2. \A verified \in BOOLEAN : Result(task, verified, found) \in Results
      BY <1>1, <2>1 DEF Result, Results
    <2>3. Lists'
      <3>1. PICK verified \in BOOLEAN :
                results' = Append(results, Result(task, verified, found))
        BY <1>9 DEF FinishTask
      <3>2. results' \in Seq(Results)
        BY <1>1, <2>2, <3>1 DEF Lists
      <3> QED
        BY <1>1, <1>9, <3>2 DEF FinishTask, Lists
    <2>4. Places'
      <3>1. UNCHANGED <<mode, limit, configured, late, hits, stale, queriesUsed, reasons, evidence,
                        status>>
        BY <1>9 DEF FinishTask
      <3>2. /\ pc' \in {"query", "finish"} /\ task' \in 1..Tasks
            /\ query' \in {query, 1} /\ before' \in {before, Len(evidence)} /\ found' \in {found, {}}
        BY <1>1, <1>9, <2>1 DEF FinishTask
      <3> QED
        BY <1>1, <3>1, <3>2 DEF Places
    <2> QED
      BY <2>3, <2>4 DEF Typed
  <1>10. CASE Finish
    <2>1. results' \in Seq(Results)
      <3>1. Len(results) <= Tasks /\ results \in Seq(Results)
        BY <1>1, <1>10 DEF Finish, Ordered, Modes, Lists
      <3>2. results' = results \o Unverified(Len(results) + 1)
        BY <1>10 DEF Finish
      <3>3. Filled(results, results')
        BY <3>1, <3>2, RestUnverified DEF Fills
      <3> QED
        BY <3>3 DEF Filled
    <2>2. Lists'
      BY <1>1, <1>10, <2>1 DEF Finish, Lists
    <2>3. Places'
      BY <1>1, <1>10 DEF Finish, Places
    <2> QED
      BY <2>2, <2>3 DEF Typed
  <1>11. CASE SourceFails
    <2>1. Lists'
      BY <1>1, <1>11 DEF SourceFails, Lists
    <2>2. Places'
      BY <1>1, <1>11 DEF SourceFails, Source, Places
    <2> QED
      BY <2>1, <2>2 DEF Typed
  <1>12. CASE VerifySource
    <2>1. PICK primary \in BOOLEAN :
              evidence' = Append(evidence, [task |-> task, primary |-> primary])
      BY <1>12 DEF VerifySource
    <2>2. task \in 1..Tasks /\ task' = task + 1
      BY <1>1, <1>12 DEF VerifySource, Source, Places
    <2>3. [task |-> task, primary |-> primary] \in Evidence
      BY <2>2 DEF Evidence
    <2>4. evidence' \in Seq(Evidence) /\ Len(evidence') = Len(evidence) + 1
      BY <1>1, <2>1, <2>3 DEF Lists
    <2>5. Result(task, TRUE, {Len(evidence) + 1}) \in Results
      BY <1>1, <2>2 DEF Result, Results
    <2>6. Lists'
      <3>1. results' \in Seq(Results) /\ searched' = searched
        <4> DEFINE added == Result(task, TRUE, {Len(evidence) + 1})
        <4>1. searched' = searched /\ results' = Append(results, added)
          BY <1>12 DEF VerifySource
        <4>2. results \in Seq(Results) /\ added \in Results
          BY <1>1, <2>5 DEF Lists
        <4> HIDE DEF added
        <4> QED
          BY <4>1, <4>2
      <3> QED
        BY <1>1, <2>4, <3>1 DEF Lists
    <2>7. Places'
      <3>1. UNCHANGED <<pc, mode, limit, configured, late, query, before, found, hits, stale,
                       queriesUsed, reasons, status>>
        BY <1>12 DEF VerifySource
      <3> QED
        BY <1>1, <2>2, <2>4, <3>1 DEF Places
    <2> QED
      BY <2>6, <2>7 DEF Typed
  <1> QED
    BY <1>2, <1>3, <1>4, <1>5, <1>6, <1>7, <1>8, <1>9, <1>10, <1>11, <1>12 DEF Next

LEMMA NextModes == IInv /\ [Next]_vars => Modes'
  <1> SUFFICES ASSUME IInv, [Next]_vars PROVE Modes'
    OBVIOUS
  <1> USE DEF IInv, position, Working
  <1>1. /\ Modes /\ Places /\ task \in Nat /\ query \in Nat /\ Tasks \in Nat /\ Queries \in Nat
    BY Constants DEF Typed, Places
  <1>2. CASE ExecuteUnconfigured \/ Execute
    <2>1. UNCHANGED <<mode, task, before>> /\ mode = "execute" /\ pc' \in {"query", "save"}
      BY <1>2 DEF ExecuteUnconfigured, Execute
    <2> QED
      BY <1>1, <2>1 DEF Modes
  <1>3. CASE TimePasses \/ StopAtLimit \/ SearchFails \/ Search \/ FetchFails \/ Fetch
             \/ SourceLimit \/ EndQuery
    <2>1. /\ UNCHANGED <<mode, task, before>> /\ pc \in {"query", "hits"}
          /\ pc' \in {"query", "hits"}
          /\ pc' = "hits" => query' = query /\ (pc = "hits" \/ query <= Queries)
      BY <1>3 DEF TimePasses, StopAtLimit, SearchFails, Search, More, FetchFails, Fetch,
         SourceLimit, EndQuery
    <2> QED
      BY <1>1, <2>1 DEF Modes
  <1>4. CASE FinishTask
    <2>1. /\ UNCHANGED mode /\ mode = "execute" /\ pc' \in {"query", "finish"}
          /\ task' = task \/ (task' = task + 1 /\ task < Tasks)
      BY <1>1, <1>4 DEF FinishTask, Modes
    <2> QED
      BY <1>1, <2>1 DEF Modes
  <1>5. CASE Finish \/ VerifyUnconfigured \/ SourceMalformed \/ FinishSources \/ Save
    <2>1. /\ UNCHANGED <<mode, task, before>> /\ pc' \in {"save", "saved", "error"}
      BY <1>5 DEF Finish, VerifyUnconfigured, SourceMalformed, FinishSources, Save
    <2> QED
      BY <1>1, <2>1 DEF Modes
  <1>6. CASE SourceFails \/ VerifySource
    <2>1. UNCHANGED <<mode, pc, configured, before>> /\ mode = "verify" /\ pc = "start" /\ configured
      BY <1>6 DEF SourceFails, VerifySource, Source
    <2> QED
      BY <1>1, <2>1 DEF Modes
  <1>7. CASE UNCHANGED vars
    BY <1>1, <1>7 DEF vars, Modes
  <1> QED
    BY <1>2, <1>3, <1>4, <1>5, <1>6, <1>7 DEF Next

LEMMA NextStale == IInv /\ [Next]_vars => Stale'
  <1> SUFFICES ASSUME IInv, [Next]_vars PROVE Stale'
    OBVIOUS
  <1> USE DEF IInv, position
  <1>1. /\ Stale /\ stale \in Nat /\ query \in Nat /\ Queries \in Nat /\ Modes
        /\ limit.saturation \in Nat \ {0}
    BY Limited DEF Typed, Places
  <1>2. CASE EndQuery
    <2>1. stale < limit.saturation /\ "research_saturated" \notin reasons /\ limit' = limit
          /\ pc' = "query"
      BY <1>1, <1>2 DEF EndQuery, Stale
    <2>2. /\ stale' \in {stale + 1, 0}
          /\ \/ /\ stale' >= limit.saturation /\ query' = Queries + 1
                /\ reasons' = reasons \cup {"research_saturated"}
             \/ /\ ~(stale' >= limit.saturation) /\ reasons' = reasons
      BY <1>2 DEF EndQuery, Saturated, StaleAfter
    <2> QED
      BY <1>1, <2>1, <2>2 DEF Stale
  <1>3. CASE StopAtLimit
    <2>1. limitReached # "research_saturated"
      BY DEF limitReached
    <2>2. /\ reasons' = reasons \cup {limitReached} /\ UNCHANGED <<pc, stale, limit>>
          /\ query' = Queries + 1 /\ pc = "query"
      BY <1>3 DEF StopAtLimit, More
    <2> QED
      BY <1>1, <2>1, <2>2 DEF Stale
  <1>4. CASE SearchFails \/ Search \/ FetchFails \/ Fetch \/ SourceLimit
    BY <1>1, <1>4 DEF SearchFails, Search, More, FetchFails, Fetch, SourceLimit, Stale
  <1>5. CASE ExecuteUnconfigured \/ Execute \/ TimePasses
    BY <1>1, <1>5 DEF ExecuteUnconfigured, Execute, TimePasses, Stale
  <1>6. CASE FinishTask
    BY <1>1, <1>6 DEF FinishTask, Stale
  <1>7. CASE Finish \/ VerifyUnconfigured \/ SourceMalformed \/ FinishSources \/ Save
    BY <1>1, <1>7 DEF Finish, VerifyUnconfigured, SourceMalformed, FinishSources, Save, Stale
  <1>8. CASE SourceFails \/ VerifySource \/ UNCHANGED vars
    BY <1>1, <1>8 DEF SourceFails, VerifySource, vars, Stale
  <1> QED
    BY <1>2, <1>3, <1>4, <1>5, <1>6, <1>7, <1>8 DEF Next

LEMMA NextLimits == IInv /\ [Next]_vars => LimitsKept'
  <1> SUFFICES ASSUME IInv, [Next]_vars PROVE LimitsKept'
    OBVIOUS
  <1> USE DEF IInv, position
  <1>1. /\ LimitsKept /\ Modes /\ Lists /\ queriesUsed \in Nat
        /\ limit.queries \in Nat /\ limit.sources \in Nat /\ limit.cost \in Nat
        /\ Len(evidence) \in Nat /\ Len(searched) \in Nat
    BY Limited DEF Typed, Places, Lists
  <1>2. CASE SearchFails \/ Search
    <2>1. /\ UNCHANGED <<mode, limit, evidence>> /\ queriesUsed' = queriesUsed + 1
          /\ Len(searched') = Len(searched) + 1 /\ limitReached = "none"
      BY <1>1, <1>2 DEF SearchFails, Search, Lists
    <2>2. ~(queriesUsed >= limit.queries) /\ ~(limit.cost > 0 /\ queriesUsed >= limit.cost)
      BY <2>1 DEF limitReached
    <2> QED
      BY <1>1, <2>1, <2>2 DEF LimitsKept
  <1>3. CASE Fetch
    <2>1. /\ UNCHANGED <<mode, limit, queriesUsed>> /\ Len(evidence') = Len(evidence) + 1
          /\ Len(searched') = Len(searched) /\ Len(evidence) < limit.sources
      <3>1. /\ UNCHANGED <<mode, limit, queriesUsed>> /\ Len(evidence) < limit.sources
            /\ \E e : evidence' = Append(evidence, e)
            /\ searched' = [searched EXCEPT ![Len(searched)].outcome = "found"]
        BY <1>3 DEF Fetch
      <3>2. Len(evidence') = Len(evidence) + 1 /\ Len(searched') = Len(searched)
        BY <1>1, <3>1 DEF Lists
      <3> QED
        BY <3>1, <3>2
    <2> QED
      BY <1>1, <2>1 DEF LimitsKept
  <1>4. CASE StopAtLimit \/ FetchFails \/ SourceLimit \/ EndQuery \/ FinishTask
    <2>1. UNCHANGED <<mode, limit, queriesUsed, evidence, searched>>
      BY <1>4 DEF StopAtLimit, FetchFails, SourceLimit, EndQuery, FinishTask
    <2> QED
      BY <1>1, <2>1 DEF LimitsKept
  <1>5. CASE ExecuteUnconfigured \/ Execute \/ TimePasses \/ Finish \/ Save \/ UNCHANGED vars
    <2>1. UNCHANGED <<mode, limit, queriesUsed, evidence, searched>>
      BY <1>5 DEF ExecuteUnconfigured, Execute, TimePasses, Finish, Save, vars
    <2> QED
      BY <1>1, <2>1 DEF LimitsKept
  <1>6. CASE VerifyUnconfigured \/ SourceMalformed \/ SourceFails \/ VerifySource \/ FinishSources
    <2>1. mode' = "verify"
      BY <1>6 DEF VerifyUnconfigured, SourceMalformed, SourceFails, VerifySource, FinishSources,
         Source
    <2> QED
      BY <2>1 DEF LimitsKept
  <1> QED
    BY <1>2, <1>3, <1>4, <1>5, <1>6 DEF Next

LEMMA NextOrdered == IInv /\ [Next]_vars => Ordered'
  <1> SUFFICES ASSUME IInv, [Next]_vars PROVE Ordered'
    OBVIOUS
  <1> USE DEF IInv, position, Working, Reported
  <1>1. /\ Ordered /\ Modes /\ Lists /\ results \in Seq(Results) /\ Len(results) \in Nat
        /\ task \in Nat /\ Tasks \in Nat
    BY Constants DEF Typed, Places, Lists
  <1>2. CASE ExecuteUnconfigured
    <2> DEFINE un == Unverified(1)
    <2>1. results' = un /\ pc' = "save"
      BY <1>2 DEF ExecuteUnconfigured
    <2>2. Len(un) = Tasks /\ DOMAIN un = 1..Tasks /\ \A i \in 1..Tasks : un[i].task = i
      <3>1. \A i \in 1..Tasks : un[i] = [task |-> i, status |-> "unverified", evidence |-> {}]
        BY AllUnverified
      <3>2. Len(un) = Tasks /\ DOMAIN un = 1..Tasks
        BY AllUnverified
      <3> HIDE DEF un
      <3> QED
        BY <3>1, <3>2
    <2> HIDE DEF un
    <2> QED
      BY <2>1, <2>2 DEF Ordered
  <1>3. CASE Execute
    BY <1>1, <1>3 DEF Execute, Ordered, Modes
  <1>4. CASE TimePasses \/ StopAtLimit \/ SearchFails \/ Search \/ FetchFails \/ Fetch
             \/ SourceLimit \/ EndQuery
    <2>1. Working /\ Working' /\ UNCHANGED <<mode, task, results>>
      BY <1>4 DEF TimePasses, StopAtLimit, SearchFails, Search, FetchFails, Fetch, SourceLimit,
         EndQuery, More
    <2> QED
      BY <1>1, <2>1 DEF Ordered
  <1>5. CASE FinishTask
    <2>1. PICK r : results' = Append(results, r) /\ r.task = task
      BY <1>5 DEF FinishTask, Result
    <2>2. /\ mode' = mode /\ mode = "execute" /\ task <= Tasks
          /\ pc' \in {"query", "finish"} /\ task' = IF pc' = "query" THEN task + 1 ELSE task
      BY <1>1, <1>5 DEF FinishTask, Modes
    <2>3. /\ Len(results') = Len(results) + 1 /\ results'[Len(results) + 1] = r
          /\ DOMAIN results' = 1..(Len(results) + 1) /\ DOMAIN results = 1..Len(results)
          /\ \A k \in DOMAIN results : results'[k] = results[k]
      BY <1>1, <2>1
    <2>4. Len(results) = task - 1 /\ \A k \in DOMAIN results : results[k].task = k
      BY <1>1, <1>5, <2>2 DEF FinishTask, Ordered
    <2> QED
      BY <1>1, <2>1, <2>2, <2>3, <2>4 DEF Ordered
  <1>6. CASE Finish
    <2>1. /\ mode' = mode /\ mode = "execute" /\ pc' = "save"
          /\ results' = results \o Unverified(Len(results) + 1)
          /\ Len(results) <= Tasks /\ \A k \in DOMAIN results : results[k].task = k
      BY <1>1, <1>6 DEF Finish, Ordered, Modes
    <2>2. Fills(results, results')
      BY <1>1, <2>1 DEF Fills
    <2>3. Filled(results, results')
      BY <2>2, RestUnverified
    <2>4. ASSUME NEW k \in 1..Tasks PROVE results'[k].task = k
      <3>1. CASE k \in DOMAIN results
        <4>1. results'[k] = results[k] /\ results[k].task = k
          BY <2>1, <2>3, <3>1 DEF Filled
        <4> QED
          BY <4>1
      <3>2. CASE k \notin DOMAIN results
        <4>1. results'[k] = [task |-> k, status |-> "unverified", evidence |-> {}]
          BY <2>3, <3>2 DEF Filled
        <4> QED
          BY <4>1
      <3> QED
        BY <3>1, <3>2
    <2>5. Len(results') = Tasks /\ DOMAIN results' = 1..Tasks
      BY <2>3 DEF Filled
    <2> QED
      BY <2>1, <2>4, <2>5 DEF Ordered
  <1>7. CASE VerifyUnconfigured \/ SourceMalformed \/ SourceFails \/ VerifySource \/ FinishSources
    <2>1. mode' = "verify"
      BY <1>7 DEF VerifyUnconfigured, SourceMalformed, SourceFails, VerifySource, FinishSources,
         Source
    <2> QED
      BY <2>1 DEF Ordered
  <1>8. CASE Save \/ UNCHANGED vars
    BY <1>1, <1>8 DEF Save, vars, Ordered
  <1> QED
    BY <1>2, <1>3, <1>4, <1>5, <1>6, <1>7, <1>8 DEF Next

-----------------------------------------------------------------------------
(* Evidence and the results that name it.                                  *)

EvidenceOf(ev, t) == {i \in DOMAIN ev : ev[i].task = t}

\* A result r that agrees with the evidence.
Agrees(r, ev, m) ==
    /\ r.evidence = EvidenceOf(ev, r.task)
    /\ m = "execute" =>
           (r.status = "partially_verified" <=> \E i \in r.evidence : ev[i].primary)

LEMMA Agreement ==
    /\ EvidenceOfItsTask <=> \A k \in DOMAIN results : Agrees(results[k], evidence, mode)
    /\ EvidenceOfItsTask' <=> \A k \in DOMAIN results' : Agrees(results'[k], evidence', mode')
  BY DEF EvidenceOfItsTask, Agrees, EvidenceOf, Primary

\* One more piece of evidence belongs to its own task only.
LEMMA EvidenceAdded ==
    ASSUME NEW ev \in Seq(Evidence), NEW e \in Evidence, NEW new, new = Append(ev, e)
    PROVE  /\ new \in Seq(Evidence) /\ Len(new) = Len(ev) + 1 /\ Len(ev) \in Nat
           /\ DOMAIN ev = 1..Len(ev) /\ DOMAIN new = 1..(Len(ev) + 1)
           /\ \A i \in DOMAIN ev : i \in DOMAIN new /\ new[i] = ev[i]
           /\ new[Len(ev) + 1] = e
           /\ EvidenceOf(new, e.task) = EvidenceOf(ev, e.task) \cup {Len(ev) + 1}
  <1>1. /\ new \in Seq(Evidence) /\ Len(new) = Len(ev) + 1 /\ Len(ev) \in Nat
        /\ DOMAIN ev = 1..Len(ev) /\ DOMAIN new = 1..(Len(ev) + 1)
        /\ \A i \in DOMAIN ev : i \in DOMAIN new /\ new[i] = ev[i]
        /\ new[Len(ev) + 1] = e
    OBVIOUS
  <1>2. EvidenceOf(new, e.task) = EvidenceOf(ev, e.task) \cup {Len(ev) + 1}
    BY <1>1 DEF EvidenceOf
  <1> QED
    BY <1>1, <1>2

\* A result stays true when evidence for another task is found.
LEMMA StillAgrees ==
    ASSUME NEW ev \in Seq(Evidence), NEW e \in Evidence, NEW new, new = Append(ev, e),
           NEW r, NEW m, r.task # e.task, Agrees(r, ev, m)
    PROVE  Agrees(r, new, m)
  <1>1. EvidenceOf(new, r.task) = EvidenceOf(ev, r.task)
        /\ \A i \in DOMAIN ev : new[i] = ev[i]
    <2>1. /\ DOMAIN ev = 1..Len(ev) /\ DOMAIN new = 1..(Len(ev) + 1) /\ Len(ev) \in Nat
          /\ \A i \in DOMAIN ev : new[i] = ev[i]
          /\ new[Len(ev) + 1] = e
      BY EvidenceAdded
    <2> QED
      BY <2>1 DEF EvidenceOf
  <1>2. r.evidence = EvidenceOf(ev, r.task) /\ r.evidence \subseteq DOMAIN ev
    BY DEF Agrees, EvidenceOf
  <1>3. (\E i \in r.evidence : new[i].primary) <=> (\E i \in r.evidence : ev[i].primary)
    BY <1>1, <1>2
  <1> QED
    BY <1>1, <1>2, <1>3 DEF Agrees

LEMMA NextAttributed == IInv /\ [Next]_vars => Attributed' /\ EvidenceOfItsTask'
  <1> SUFFICES ASSUME IInv, [Next]_vars PROVE Attributed' /\ EvidenceOfItsTask'
    OBVIOUS
  <1> USE DEF IInv, position, Working
  <1>1. /\ Attributed /\ Modes /\ Ordered /\ Lists /\ results \in Seq(Results)
        /\ evidence \in Seq(Evidence) /\ Len(results) \in Nat /\ Len(evidence) \in Nat
        /\ DOMAIN evidence = 1..Len(evidence) /\ DOMAIN results = 1..Len(results)
        /\ mode \in {"execute", "verify"} /\ task \in Nat /\ Tasks \in Nat /\ before \in Nat
        /\ before <= Len(evidence)
        /\ \A i \in DOMAIN evidence : evidence[i] \in Evidence /\ evidence[i].task \in Nat
        /\ \A k \in DOMAIN results : results[k] \in Results /\ results[k].task \in Nat
        /\ \A k \in DOMAIN results : Agrees(results[k], evidence, mode)
    <2>1. /\ evidence \in Seq(Evidence) /\ results \in Seq(Results)
          /\ \A e \in Evidence : e.task \in Nat
          /\ \A r \in Results : r.task \in Nat
      BY Constants DEF Typed, Lists, Evidence, Results
    <2>2. /\ Len(results) \in Nat /\ Len(evidence) \in Nat
          /\ DOMAIN evidence = 1..Len(evidence) /\ DOMAIN results = 1..Len(results)
          /\ \A i \in DOMAIN evidence : evidence[i] \in Evidence
          /\ \A k \in DOMAIN results : results[k] \in Results
      BY <2>1
    <2>3. /\ mode \in {"execute", "verify"} /\ task \in Nat /\ Tasks \in Nat /\ before \in Nat
          /\ before <= Len(evidence)
      BY Constants DEF Typed, Places
    <2>4. /\ \A i \in DOMAIN evidence : evidence[i] \in Evidence /\ evidence[i].task \in Nat
          /\ \A k \in DOMAIN results : results[k] \in Results /\ results[k].task \in Nat
      BY <2>1, <2>2
    <2> QED
      BY <2>1, <2>2, <2>3, <2>4, Agreement DEF Typed
  <1>2. CASE ExecuteUnconfigured
    <2> DEFINE un == Unverified(1)
    <2>1. /\ results' = un /\ pc' = "save" /\ mode' = mode /\ mode = "execute"
          /\ evidence' = evidence /\ evidence = <<>> /\ task' = task
      BY <1>1, <1>2 DEF ExecuteUnconfigured, Modes
    <2>2. ASSUME NEW k \in DOMAIN un PROVE Agrees(un[k], evidence, mode)
      <3>1. /\ un[k] = [task |-> k, status |-> "unverified", evidence |-> {}]
        BY AllUnverified
      <3>2. EvidenceOf(evidence, k) = {}
        BY <2>1 DEF EvidenceOf
      <3> HIDE DEF un
      <3>3. un[k].evidence = {} /\ un[k].task = k /\ un[k].status = "unverified"
        BY <3>1
      <3> QED
        BY <3>2, <3>3 DEF Agrees
    <2> HIDE DEF un
    <2>3. EvidenceOfItsTask'
      BY <2>1, <2>2, Agreement
    <2>4. Attributed'
      BY <1>1, <2>1 DEF Attributed
    <2> QED
      BY <2>3, <2>4
  <1>3. CASE Execute
    <2>1. /\ UNCHANGED <<mode, evidence, results, task, before, found>> /\ mode = "execute"
          /\ evidence = <<>> /\ results = <<>> /\ before = 0 /\ found = {}
      BY <1>1, <1>3 DEF Execute, Modes
    <2>2. found = (before + 1)..Len(evidence)
      BY <2>1
    <2> QED
      BY <1>1, <2>1, <2>2, Agreement DEF Attributed
  <1>4. CASE TimePasses \/ StopAtLimit \/ SearchFails \/ Search \/ FetchFails \/ SourceLimit
             \/ EndQuery \/ VerifyUnconfigured \/ SourceMalformed \/ FinishSources \/ Save
             \/ UNCHANGED vars
    <2>1. UNCHANGED <<mode, evidence, results, task, before, found>> /\ (Working' => Working)
      BY <1>4 DEF TimePasses, StopAtLimit, SearchFails, Search, More, FetchFails, SourceLimit,
         EndQuery, VerifyUnconfigured, SourceMalformed, FinishSources, Save, vars
    <2> QED
      BY <1>1, <2>1, Agreement DEF Attributed
  <1>5. CASE Fetch
    <2>1. PICK primary \in BOOLEAN :
              evidence' = Append(evidence, [task |-> task, primary |-> primary])
      BY <1>5 DEF Fetch
    <2> DEFINE e == [task |-> task, primary |-> primary]
               n == Len(evidence)
    <2>2. /\ UNCHANGED <<mode, results, task, before, pc>> /\ found' = found \cup {n + 1}
          /\ mode = "execute" /\ pc = "hits" /\ evidence' = Append(evidence, e)
          /\ task \in 1..Tasks
      BY <1>1, <1>5, <2>1 DEF Fetch, Modes, Typed, Places
    <2>3. e \in Evidence /\ e.task = task
      BY <2>2 DEF Evidence
    <2> HIDE DEF e
    <2>4. /\ Len(evidence') = n + 1 /\ DOMAIN evidence' = 1..(n + 1)
          /\ \A i \in DOMAIN evidence : evidence'[i] = evidence[i]
          /\ evidence'[n + 1] = e
      BY <1>1, <2>2, <2>3, EvidenceAdded
    <2>5. /\ \A i \in DOMAIN evidence : evidence[i].task <= task
          /\ \A i \in DOMAIN evidence : evidence[i].task = task <=> i > before
          /\ found = (before + 1)..n
      BY <1>1, <2>2 DEF Attributed
    <2>6. Attributed'
      <3> HIDE DEF n
      <3>1. n \in Nat /\ DOMAIN evidence = 1..n /\ before <= n
        BY <1>1 DEF n
      <3>2. ASSUME NEW i \in 1..(n + 1)
            PROVE  evidence'[i].task <= task /\ (evidence'[i].task = task <=> i > before)
        <4>1. CASE i = n + 1
          BY <1>1, <2>3, <2>4, <3>1, <4>1
        <4>2. CASE i # n + 1
          <5>1. i \in DOMAIN evidence
            BY <3>1, <4>2
          <5> QED
            BY <2>4, <2>5, <5>1
        <4> QED
          BY <4>1, <4>2
      <3>3. found' = (before + 1)..(n + 1)
        BY <1>1, <2>2, <2>5, <3>1
      <3> QED
        BY <2>2, <2>4, <3>2, <3>3 DEF Attributed
    <2>7. ASSUME NEW k \in DOMAIN results PROVE Agrees(results[k], evidence', mode)
      <3>1. results[k].task # e.task
        <4>1. results[k].task = k /\ Len(results) = task - 1
          BY <1>1, <2>2 DEF Ordered
        <4>2. k < task
          BY <1>1, <4>1
        <4> QED
          BY <1>1, <2>3, <4>1, <4>2
      <3> QED
        BY <1>1, <2>2, <2>3, <3>1, StillAgrees
    <2> QED
      BY <2>2, <2>6, <2>7, Agreement
  <1>6. CASE FinishTask
    <2> DEFINE v == \E i \in OfTask : Primary(i)
               r == Result(task, v, found)
    <2>1. /\ UNCHANGED <<mode, evidence>> /\ mode = "execute" /\ pc = "query"
          /\ results' = Append(results, r)
          /\ \/ pc' = "query" /\ task' = task + 1 /\ before' = Len(evidence) /\ found' = {}
             \/ pc' = "finish" /\ task' = task
      BY <1>1, <1>6 DEF FinishTask, Modes
    <2>2. /\ \A i \in DOMAIN evidence : evidence[i].task <= task
          /\ \A i \in DOMAIN evidence : evidence[i].task = task <=> i > before
          /\ found = (before + 1)..Len(evidence)
      BY <1>1, <2>1 DEF Attributed
    <2>3. found = EvidenceOf(evidence, task)
      BY <1>1, <2>2 DEF EvidenceOf
    <2>4. v <=> \E i \in found : evidence[i].primary
      BY <2>2 DEF OfTask, Primary
    <2>5. r.task = task /\ r.evidence = found /\ (r.status = "partially_verified" <=> v)
      BY DEF Result
    <2> HIDE DEF v, r
    <2>6. Agrees(r, evidence, mode)
      BY <2>3, <2>4, <2>5 DEF Agrees
    <2>7. /\ DOMAIN results' = 1..(Len(results) + 1) /\ results'[Len(results) + 1] = r
          /\ \A k \in DOMAIN results : results'[k] = results[k]
      BY <1>1, <2>1
    <2>8. \A k \in DOMAIN results' : Agrees(results'[k], evidence, mode)
      BY <1>1, <2>6, <2>7
    <2>9. EvidenceOfItsTask'
      BY <2>1, <2>8, Agreement
    <2>10. Attributed'
      <3>1. CASE pc' = "finish"
        BY <1>1, <2>1, <2>2, <3>1 DEF Attributed
      <3>2. CASE pc' = "query"
        <4> DEFINE n == Len(evidence)
        <4>1. /\ task' = task + 1 /\ before' = n /\ found' = {} /\ evidence' = evidence
              /\ mode' = "execute" /\ n \in Nat /\ DOMAIN evidence = 1..n
          BY <1>1, <2>1, <3>2
        <4>2. ASSUME NEW i \in DOMAIN evidence
              PROVE  evidence[i].task <= task + 1 /\ evidence[i].task # task + 1 /\ ~(i > n)
          BY <1>1, <2>2, <4>1
        <4>3. {} = (n + 1)..n
          BY <4>1
        <4> QED
          BY <4>1, <4>2, <4>3 DEF Attributed
      <3> QED
        BY <2>1, <3>1, <3>2
    <2> QED
      BY <2>9, <2>10
  <1>7. CASE Finish
    <2>1. /\ UNCHANGED <<mode, evidence, task>> /\ mode = "execute" /\ pc = "finish"
          /\ pc' = "save" /\ results' = results \o Unverified(Len(results) + 1)
          /\ Len(results) = task /\ task <= Tasks
      BY <1>1, <1>7 DEF Finish, Modes, Ordered
    <2>2. Fills(results, results')
      BY <1>1, <2>1 DEF Fills
    <2>3. Filled(results, results')
      BY <2>2, RestUnverified
    <2>4. ASSUME NEW k \in DOMAIN results' PROVE Agrees(results'[k], evidence, mode)
      <3>1. k \in 1..Tasks
        BY <2>3 DEF Filled
      <3>2. CASE k \in DOMAIN results
        BY <1>1, <2>3, <3>2 DEF Filled
      <3>3. CASE k \notin DOMAIN results
        <4>1. results'[k] = [task |-> k, status |-> "unverified", evidence |-> {}]
          BY <2>3, <3>1, <3>3 DEF Filled
        <4>2. k > task
          BY <1>1, <2>1, <3>1, <3>3
        <4>3. \A i \in DOMAIN evidence : evidence[i].task <= task
          BY <1>1, <2>1 DEF Attributed
        <4>4. EvidenceOf(evidence, k) = {}
          BY <1>1, <3>1, <4>2, <4>3 DEF EvidenceOf
        <4>5. results'[k].task = k /\ results'[k].evidence = {}
              /\ results'[k].status = "unverified"
          BY <4>1
        <4> QED
          BY <4>4, <4>5 DEF Agrees
      <3> QED
        BY <3>2, <3>3
    <2>5. EvidenceOfItsTask'
      BY <2>1, <2>4, Agreement
    <2>6. Attributed'
      BY <1>1, <2>1 DEF Attributed
    <2> QED
      BY <2>5, <2>6
  <1>8. CASE SourceFails
    <2>1. UNCHANGED <<mode, pc, evidence, results>> /\ mode = "verify" /\ task' = task + 1
      BY <1>8 DEF SourceFails, Source
    <2>2. /\ \A i \in DOMAIN evidence : evidence[i].task < task
          /\ \A k \in DOMAIN results : results[k].task < task
      BY <1>1, <2>1 DEF Attributed
    <2>3. Attributed'
      BY <1>1, <2>1, <2>2 DEF Attributed
    <2> QED
      BY <1>1, <2>1, <2>3, Agreement
  <1>9. CASE VerifySource
    <2>1. PICK primary \in BOOLEAN :
              evidence' = Append(evidence, [task |-> task, primary |-> primary])
      BY <1>9 DEF VerifySource
    <2> DEFINE e == [task |-> task, primary |-> primary]
               n == Len(evidence)
               r == Result(task, TRUE, {n + 1})
    <2>2. /\ UNCHANGED <<mode, pc>> /\ task' = task + 1 /\ results' = Append(results, r)
          /\ mode = "verify" /\ evidence' = Append(evidence, e)
      BY <1>9, <2>1 DEF VerifySource, Source
    <2>3. task \in 1..Tasks /\ e \in Evidence /\ e.task = task
      BY <1>1, <1>9 DEF VerifySource, Source, Evidence, Typed, Places
    <2>4. r.task = task /\ r.evidence = {n + 1}
      BY DEF Result
    <2> HIDE DEF e, n, r
    <2>5. n = Len(evidence) /\ n \in Nat /\ DOMAIN evidence = 1..n
      BY <1>1 DEF n
    <2>6. /\ DOMAIN evidence' = 1..(n + 1)
          /\ \A i \in DOMAIN evidence : evidence'[i] = evidence[i]
          /\ evidence'[n + 1] = e
          /\ EvidenceOf(evidence', task) = EvidenceOf(evidence, task) \cup {n + 1}
      <3>1. evidence \in Seq(Evidence) /\ e \in Evidence /\ evidence' = Append(evidence, e)
        BY <1>1, <2>2, <2>3
      <3>2. /\ DOMAIN evidence' = 1..(Len(evidence) + 1)
            /\ \A i \in DOMAIN evidence : evidence'[i] = evidence[i]
            /\ evidence'[Len(evidence) + 1] = e
        BY <3>1, EvidenceAdded
      <3>3. EvidenceOf(evidence', e.task) = EvidenceOf(evidence, e.task) \cup {Len(evidence) + 1}
        BY <3>1, EvidenceAdded
      <3> QED
        BY <2>3, <2>5, <3>2, <3>3
    <2>7. /\ \A i \in DOMAIN evidence : evidence[i].task < task
          /\ \A k \in DOMAIN results : results[k].task < task
      BY <1>1, <2>2 DEF Attributed
    <2>8. /\ DOMAIN results' = 1..(Len(results) + 1) /\ results'[Len(results) + 1] = r
          /\ \A k \in DOMAIN results : results'[k] = results[k]
      BY <1>1, <2>2
    <2>9. EvidenceOf(evidence, task) = {}
      BY <1>1, <2>7 DEF EvidenceOf
    <2>10. Agrees(r, evidence', mode)
      BY <2>2, <2>4, <2>6, <2>9 DEF Agrees
    <2>11. ASSUME NEW k \in DOMAIN results PROVE Agrees(results[k], evidence', mode)
      <3>1. results[k].task # e.task
        BY <1>1, <2>3, <2>7
      <3> QED
        BY <1>1, <2>2, <2>3, <3>1, StillAgrees
    <2>12. \A k \in DOMAIN results' : Agrees(results'[k], evidence', mode)
      BY <1>1, <2>8, <2>10, <2>11
    <2>13. EvidenceOfItsTask'
      BY <2>2, <2>12, Agreement
    <2>14. Attributed'
      <3>1. \A i \in DOMAIN evidence' : evidence'[i].task < task + 1
        <4>1. ASSUME NEW i \in 1..(n + 1) PROVE evidence'[i].task < task + 1
          <5>1. CASE i = n + 1
            BY <1>1, <2>3, <2>6, <5>1
          <5>2. CASE i # n + 1
            <6>1. i \in DOMAIN evidence
              BY <2>5, <5>2
            <6> QED
              BY <1>1, <2>6, <2>7, <6>1
          <5> QED
            BY <5>1, <5>2
        <4> QED
          BY <2>6, <4>1
      <3>2. \A k \in DOMAIN results' : results'[k].task < task + 1
        <4>1. ASSUME NEW k \in 1..(Len(results) + 1) PROVE results'[k].task < task + 1
          <5>1. CASE k = Len(results) + 1
            BY <1>1, <2>4, <2>8, <5>1
          <5>2. CASE k # Len(results) + 1
            <6>1. k \in DOMAIN results
              BY <1>1, <5>2
            <6> QED
              BY <1>1, <2>7, <2>8, <6>1
          <5> QED
            BY <5>1, <5>2
        <4> QED
          BY <2>8, <4>1
      <3> QED
        BY <2>2, <3>1, <3>2 DEF Attributed
    <2> QED
      BY <2>13, <2>14
  <1> QED
    BY <1>2, <1>3, <1>4, <1>5, <1>6, <1>7, <1>8, <1>9 DEF Next

-----------------------------------------------------------------------------
(* How much was searched.                                                  *)

Looking == pc \in {"start", "query", "hits", "finish"}

AllSent == \A t \in 1..Tasks : Cardinality(SearchesOf(t)) = Sent(t)

\* As long as the request works: its status, and the searches that were sent.
LEMMA WholeWhileLooking ==
    ASSUME Looking',
           status' = "completed",
           mode' = "execute" /\ reasons' = {} => AllSent',
           pc' = "finish" /\ reasons' = {} => task' = Tasks
    PROVE  Whole' /\ CompletedIsWhole'
  <1>1. ~Reported'
    BY DEF Looking, Reported
  <1> QED
    BY <1>1 DEF Whole, AllSent, CompletedIsWhole, Looking

LEMMA NextWhole == IInv /\ [Next]_vars => Whole' /\ CompletedIsWhole'
  <1> SUFFICES ASSUME IInv, [Next]_vars PROVE Whole' /\ CompletedIsWhole'
    OBVIOUS
  <1> USE DEF IInv, position
  <1>1. /\ Whole /\ CompletedIsWhole /\ Modes /\ Typed
        /\ mode \in {"execute", "verify"} /\ Tasks \in Nat \ {0} /\ Queries \in Nat \ {0}
        /\ task \in Nat /\ query \in 1..(Queries + 1) /\ status \in {"completed", "limited"}
        /\ mode = "execute" => task \in 1..Tasks
        /\ \A t : Cardinality(SearchesOf(t)) \in Nat
        /\ Looking => status = "completed"
        /\ Looking /\ mode = "execute" /\ reasons = {} => AllSent
    BY Constants, SearchesFinite DEF Typed, Places, Lists, Modes, Whole, Looking, AllSent
  <1>2. CASE ExecuteUnconfigured
    <2>1. reasons' # {} /\ status' = "limited" /\ mode' = "execute" /\ pc' = "save"
      BY <1>2 DEF ExecuteUnconfigured
    <2> QED
      BY <2>1 DEF Whole, CompletedIsWhole
  <1>3. CASE Execute \/ TimePasses \/ FetchFails
    <2>1. /\ Looking /\ Looking' /\ mode = "execute"
          /\ UNCHANGED <<mode, status, reasons, searched, task, query>>
          /\ pc' = "hits" <=> pc = "hits"
          /\ pc' # "finish" /\ pc # "finish"
      BY <1>1, <1>3 DEF Execute, TimePasses, FetchFails, Modes, Working, Looking
    <2>2. ASSUME AllSent PROVE AllSent'
      BY <2>1, <2>2 DEF AllSent, Sent, SearchesOf
    <2> QED
      BY <1>1, <2>1, <2>2, WholeWhileLooking
  <1>4. CASE StopAtLimit \/ SourceLimit
    <2>1. /\ Looking /\ Looking' /\ UNCHANGED status /\ reasons' # {} /\ pc' # "finish"
      BY <1>4 DEF StopAtLimit, More, SourceLimit, Looking
    <2> QED
      BY <1>1, <2>1, WholeWhileLooking
  <1>5. CASE SearchFails \/ Search
    <2>1. PICK o \in {"failed", "nothing"} :
              searched' = Append(searched, [task |-> task, outcome |-> o])
      BY <1>5 DEF SearchFails, Search
    <2>2. /\ Looking /\ Looking' /\ mode = "execute" /\ UNCHANGED <<mode, status, task>>
          /\ pc' # "finish" /\ pc = "query" /\ (reasons' = {} => reasons = {})
          /\ \/ pc' = "query" /\ query' = query + 1
             \/ pc' = "hits" /\ query' = query
      BY <1>1, <1>5 DEF SearchFails, Search, More, Modes, Working, Looking
    <2>3. \A t : Cardinality(SearchesOf(t)') = Cardinality(SearchesOf(t)) + IF t = task THEN 1 ELSE 0
      BY <1>1, <2>1, SearchAdded
    <2>4. ASSUME AllSent PROVE AllSent'
      <3>1. SUFFICES ASSUME NEW t \in 1..Tasks PROVE Cardinality(SearchesOf(t)') = Sent(t)'
        BY DEF AllSent
      <3>2. /\ Cardinality(SearchesOf(t)) = Sent(t) /\ Sent(t) \in Nat
            /\ Cardinality(SearchesOf(t)') = Cardinality(SearchesOf(t)) + IF t = task THEN 1 ELSE 0
        BY <1>1, <2>3, <2>4 DEF AllSent
      <3>3. Sent(t)' = Sent(t) + IF t = task THEN 1 ELSE 0
        BY <1>1, <2>2, <3>2 DEF Sent
      <3> QED
        BY <3>2, <3>3
    <2> QED
      BY <1>1, <2>2, <2>4, WholeWhileLooking
  <1>6. CASE Fetch
    <2>1. /\ Looking /\ Looking' /\ mode = "execute"
          /\ UNCHANGED <<mode, status, reasons, task, query, pc>> /\ pc = "hits"
          /\ searched' = [searched EXCEPT ![Len(searched)].outcome = "found"]
      BY <1>1, <1>6 DEF Fetch, Modes, Working, Looking
    <2>2. ASSUME NEW t PROVE SearchesOf(t)' = SearchesOf(t)
      <3>1. searched \in Seq(Searches)
        BY <1>1 DEF Typed, Lists
      <3>2. /\ DOMAIN searched' = DOMAIN searched
            /\ \A i \in DOMAIN searched : searched'[i].task = searched[i].task
        BY <2>1, <3>1 DEF Searches
      <3> QED
        BY <3>2 DEF SearchesOf
    <2>3. ASSUME AllSent PROVE AllSent'
      BY <2>1, <2>2, <2>3 DEF AllSent, Sent
    <2> QED
      BY <1>1, <2>1, <2>3, WholeWhileLooking
  <1>7. CASE EndQuery
    <2>1. /\ Looking /\ Looking' /\ mode = "execute" /\ UNCHANGED <<mode, status, task, searched>>
          /\ pc = "hits" /\ pc' = "query"
          /\ reasons' # {} \/ (reasons' = reasons /\ query' = query + 1)
      BY <1>1, <1>7 DEF EndQuery, Modes, Working, Looking
    <2>2. ASSUME AllSent, query' = query + 1 PROVE AllSent'
      <3>1. \A t \in 1..Tasks : SearchesOf(t)' = SearchesOf(t) /\ Sent(t)' = Sent(t)
        BY <1>1, <2>1, <2>2 DEF Sent, SearchesOf
      <3> QED
        BY <2>2, <3>1 DEF AllSent
    <2> QED
      BY <1>1, <2>1, <2>2, WholeWhileLooking
  <1>8. CASE FinishTask
    <2>1. /\ Looking /\ Looking' /\ mode = "execute" /\ UNCHANGED <<mode, status, searched, reasons>>
          /\ pc = "query" /\ query = Queries + 1
          /\ \/ pc' = "query" /\ task' = task + 1 /\ query' = 1
             \/ pc' = "finish" /\ task' = task /\ (reasons # {} \/ task = Tasks)
      BY <1>1, <1>8 DEF FinishTask, Modes, Working, Looking
    <2>2. ASSUME AllSent PROVE AllSent'
      <3>1. \A t \in 1..Tasks : SearchesOf(t)' = SearchesOf(t) /\ Sent(t)' = Sent(t)
        BY <1>1, <2>1 DEF Sent, SearchesOf
      <3> QED
        BY <2>2, <3>1 DEF AllSent
    <2> QED
      BY <1>1, <2>1, <2>2, WholeWhileLooking
  <1>9. CASE Finish
    <2>1. /\ Looking /\ pc = "finish" /\ pc' = "save" /\ mode = "execute"
          /\ UNCHANGED <<mode, reasons, searched, task>>
          /\ status' = IF reasons # {} THEN "limited" ELSE "completed"
      BY <1>1, <1>9 DEF Finish, Modes, Looking
    <2>2. ASSUME reasons = {} PROVE \A t \in 1..Tasks : Cardinality(SearchesOf(t)') = Queries
      <3>1. AllSent /\ task = Tasks
        BY <1>1, <2>1, <2>2 DEF Whole
      <3>2. \A t \in 1..Tasks : SearchesOf(t)' = SearchesOf(t) /\ Sent(t) = Queries
        BY <1>1, <2>1, <3>1 DEF Sent, SearchesOf
      <3> QED
        BY <3>1, <3>2 DEF AllSent
    <2> QED
      BY <2>1, <2>2 DEF Whole, CompletedIsWhole
  <1>10. CASE VerifyUnconfigured \/ FinishSources
    <2>1. /\ mode' = "verify" /\ pc' = "save" /\ UNCHANGED evidence
          /\ status' = "limited" <=> evidence = <<>>
      <3>1. CASE VerifyUnconfigured
        BY <1>1, <3>1 DEF VerifyUnconfigured, Modes
      <3>2. CASE FinishSources
        <4>1. status = "completed"
          BY <1>1, <3>2 DEF FinishSources, Looking
        <4> QED
          BY <3>2, <4>1 DEF FinishSources
      <3> QED
        BY <1>10, <3>1, <3>2
    <2> QED
      BY <2>1 DEF Whole, CompletedIsWhole
  <1>11. CASE SourceMalformed
    BY <1>11 DEF SourceMalformed, Whole, CompletedIsWhole, Reported
  <1>12. CASE SourceFails \/ VerifySource
    <2>1. Looking /\ Looking' /\ mode' = "verify" /\ UNCHANGED status /\ pc' = "start"
      BY <1>12 DEF SourceFails, VerifySource, Source, Looking
    <2> QED
      BY <1>1, <2>1, WholeWhileLooking
  <1>13. CASE Save
    <2>1. /\ pc = "save" /\ pc' \in {"saved", "error"}
          /\ UNCHANGED <<mode, status, reasons, searched, evidence>>
      BY <1>13 DEF Save
    <2> QED
      BY <1>1, <2>1 DEF Whole, CompletedIsWhole, Reported, SearchesOf
  <1>14. CASE UNCHANGED vars
    BY <1>1, <1>14 DEF vars, Whole, CompletedIsWhole, Reported, SearchesOf, Sent
  <1> QED
    BY <1>2, <1>3, <1>4, <1>5, <1>6, <1>7, <1>8, <1>9, <1>10, <1>11, <1>12, <1>13, <1>14
       DEF Next

-----------------------------------------------------------------------------
(* How often in a row nothing was found.                                   *)

\* The searches whose pages are not being read any more.
Ended == IF pc = "hits" THEN Len(searched) - 1 ELSE Len(searched)

AnsweredIn(first, last) == {i \in first..last : searched[i].outcome # "failed"}

Fruitless(first, last) == \A i \in first..last : searched[i].outcome # "found"

\* The stale queries are the last ones that ended, but for those that failed,
\* and none of them has found a page; what the query under way has found is
\* evidence of its task.
Counted ==
    /\ \E n \in 1..(Ended + 1) :
           Fruitless(n, Ended) /\ Cardinality(AnsweredIn(n, Ended)) = stale
    /\ pc = "hits" =>
           /\ Len(searched) > 0 /\ searched[Len(searched)].outcome # "failed"
           /\ searched[Len(searched)].outcome = "found" => Len(evidence) > before
    /\ "research_saturated" \in reasons => stale >= limit.saturation

\* One more search that has ended, after the last n.
LEMMA OneMore ==
    ASSUME NEW n \in Nat \ {0}, NEW m \in Nat, n <= m + 1, searched \in Seq(Searches),
           m + 1 <= Len(searched)
    PROVE  /\ AnsweredIn(n, m + 1) =
                  IF searched[m + 1].outcome = "failed" THEN AnsweredIn(n, m)
                  ELSE AnsweredIn(n, m) \cup {m + 1}
           /\ m + 1 \notin AnsweredIn(n, m)
           /\ IsFiniteSet(AnsweredIn(n, m)) /\ Cardinality(AnsweredIn(n, m)) \in Nat
           /\ Fruitless(n, m + 1) <=> Fruitless(n, m) /\ searched[m + 1].outcome # "found"
  <1>1. n..(m + 1) = (n..m) \cup {m + 1} /\ m + 1 \notin n..m
    OBVIOUS
  <1>2. IsFiniteSet(n..m) /\ AnsweredIn(n, m) \subseteq n..m
    <2>1. n \in Int /\ m \in Int
      OBVIOUS
    <2>2. IsFiniteSet(n..m)
      BY <2>1, FS_Interval
    <2>3. AnsweredIn(n, m) \subseteq n..m
      BY DEF AnsweredIn
    <2> QED
      BY <2>2, <2>3
  <1>3. IsFiniteSet(AnsweredIn(n, m))
    BY <1>2, FS_Subset
  <1> QED
    BY <1>1, <1>3, FS_CardinalityType DEF AnsweredIn, Fruitless

\* Where the searches up to the one under way stand, so does the count.
LEMMA SameSearches ==
    ASSUME Counted, Ended' = Ended, Ended \in Nat, stale' = stale,
           \A i \in 1..Ended : searched'[i] = searched[i]
    PROVE  \E n \in 1..(Ended' + 1) :
               Fruitless(n, Ended)' /\ Cardinality(AnsweredIn(n, Ended)') = stale'
  <1>1. PICK n \in 1..(Ended + 1) :
            Fruitless(n, Ended) /\ Cardinality(AnsweredIn(n, Ended)) = stale
    BY DEF Counted
  <1>2. \A i \in n..Ended : searched'[i] = searched[i]
    BY <1>1
  <1>3. AnsweredIn(n, Ended)' = AnsweredIn(n, Ended) /\ Fruitless(n, Ended)'
    BY <1>1, <1>2 DEF AnsweredIn, Fruitless
  <1> QED
    BY <1>1, <1>3

LEMMA InitCounted == Init => Counted
  <1> SUFFICES ASSUME Init PROVE Counted
    OBVIOUS
  <1>1. Ended = 0 /\ stale = 0 /\ pc = "start" /\ reasons = {}
    BY DEF Init, Ended
  <1>2. AnsweredIn(1, Ended) = {} /\ Fruitless(1, Ended)
    BY <1>1 DEF AnsweredIn, Fruitless
  <1>3. 1 \in 1..(Ended + 1)
    BY <1>1
  <1> QED
    BY <1>1, <1>2, <1>3, FS_EmptySet DEF Counted

LEMMA NextCounted == IInv /\ Counted /\ [Next]_vars => Counted'
  <1> SUFFICES ASSUME IInv, Counted, [Next]_vars PROVE Counted'
    OBVIOUS
  <1> USE DEF position
  <1>1. /\ searched \in Seq(Searches) /\ Len(searched) \in Nat /\ before \in Nat
        /\ Len(evidence) \in Nat /\ Len(evidence) >= before /\ stale \in Nat
        /\ evidence \in Seq(Evidence) /\ task \in 1..(Tasks + 1) /\ Ended \in Nat
        /\ limit.saturation \in Nat \ {0}
    BY Limited, SMTT(30) DEF IInv, Typed, Places, Lists, Counted, Ended
  <1>2. "research_saturated" \in reasons => pc # "hits" /\ (pc = "query" => query > Queries)
    BY DEF IInv, Stale
  <1>0. /\ mode = "execute" => task \in 1..Tasks
        /\ pc = "query" => mode = "execute"
        /\ More => "research_saturated" \notin reasons
    <2>1. query \in 1..(Queries + 1) /\ Queries \in Nat /\ Tasks \in Nat
      BY Constants DEF IInv, Typed, Places
    <2>2. /\ mode = "execute" => task \in 1..Tasks
          /\ pc = "query" => mode = "execute"
      BY <1>1, <2>1 DEF IInv, Modes, Working
    <2> QED
      BY <1>2, <2>1, <2>2 DEF More
  <1>3. CASE SearchFails
    <2>1. /\ pc = "query" /\ pc' = "query" /\ stale' = stale /\ limit' = limit
          /\ searched' = Append(searched, [task |-> task, outcome |-> "failed"])
          /\ task \in 1..Tasks /\ "research_saturated" \notin reasons'
      BY <1>0, <1>3 DEF SearchFails, More
    <2>2. /\ Ended = Len(searched) /\ Ended' = Ended + 1
          /\ searched' \in Seq(Searches) /\ Len(searched') = Ended + 1
          /\ \A i \in 1..Ended : searched'[i] = searched[i]
          /\ searched'[Ended + 1].outcome = "failed"
      BY <1>1, <2>1 DEF Ended, Searches
    <2>3. PICK n \in 1..(Ended + 1) :
              Fruitless(n, Ended) /\ Cardinality(AnsweredIn(n, Ended)) = stale
      BY DEF Counted
    <2>4. n..(Ended + 1) = (n..Ended) \cup {Ended + 1} /\ \A i \in n..Ended : i \in 1..Ended
      BY <1>1, <2>3
    <2>5. AnsweredIn(n, Ended)' = AnsweredIn(n, Ended) /\ Fruitless(n, Ended)'
      BY <2>2, <2>3, <2>4 DEF AnsweredIn, Fruitless
    <2>6. n \in 1..(Ended' + 1)
      BY <1>1, <2>2, <2>3
    <2> QED
      BY <2>1, <2>3, <2>5, <2>6 DEF Counted
  <1>4. CASE Search
    <2>1. /\ pc = "query" /\ pc' = "hits" /\ stale' = stale /\ limit' = limit
          /\ searched' = Append(searched, [task |-> task, outcome |-> "nothing"])
          /\ task \in 1..Tasks /\ "research_saturated" \notin reasons'
      BY <1>0, <1>4 DEF Search, More
    <2>2. /\ Ended = Len(searched) /\ Ended' = Ended
          /\ searched' \in Seq(Searches) /\ Len(searched') = Ended + 1
          /\ \A i \in 1..Ended : searched'[i] = searched[i]
          /\ searched'[Ended + 1].outcome = "nothing"
      BY <1>1, <2>1 DEF Ended, Searches
    <2> QED
      BY <1>1, <2>1, <2>2, SameSearches DEF Counted
  <1>5. CASE Fetch
    <2>1. /\ pc = "hits" /\ pc' = "hits" /\ stale' = stale /\ limit' = limit /\ reasons' = reasons
          /\ searched' = [searched EXCEPT ![Len(searched)].outcome = "found"]
          /\ before' = before
      BY <1>5 DEF Fetch
    <2>2. Len(evidence') = Len(evidence) + 1
      <3>1. PICK primary \in BOOLEAN :
                evidence' = Append(evidence, [task |-> task, primary |-> primary])
        BY <1>5 DEF Fetch
      <3> QED
        BY <1>1, <3>1
    <2>3. Len(searched) > 0 /\ Ended = Len(searched) - 1
      BY <2>1 DEF Counted, Ended
    <2>4. /\ searched' \in Seq(Searches) /\ Len(searched') = Len(searched)
          /\ \A i \in 1..Ended : searched'[i] = searched[i]
          /\ searched'[Len(searched)].outcome = "found"
      <3> DEFINE last == Len(searched)
                 e == [searched[last] EXCEPT !.outcome = "found"]
      <3>1. last \in 1..Len(searched) /\ searched[last] \in Searches /\ Ended = last - 1
        BY <1>1, <2>3
      <3>2. e \in Searches /\ e.outcome = "found" /\ searched' = [searched EXCEPT ![last] = e]
        BY <2>1, <3>1 DEF Searches
      <3> HIDE DEF e, last
      <3>3. /\ [searched EXCEPT ![last] = e] \in Seq(Searches)
            /\ Len([searched EXCEPT ![last] = e]) = Len(searched)
            /\ \A j \in 1..Len(searched) :
                   [searched EXCEPT ![last] = e][j] = IF j = last THEN e ELSE searched[j]
        BY <1>1, <3>1, <3>2, ExceptSeq
      <3>4. /\ searched' \in Seq(Searches) /\ Len(searched') = Len(searched)
            /\ \A i \in 1..Ended : searched'[i] = searched[i]
            /\ searched'[last].outcome = "found"
        BY <1>1, <3>1, <3>2, <3>3
      <3> QED
        BY <3>4 DEF last
    <2>5. Ended' = Ended
      BY <2>1, <2>3, <2>4 DEF Ended
    <2>6. \E n \in 1..(Ended' + 1) :
              Fruitless(n, Ended)' /\ Cardinality(AnsweredIn(n, Ended)') = stale'
      BY <1>1, <2>1, <2>4, <2>5, SameSearches
    <2>7. Len(evidence') > before'
      BY <1>1, <2>1, <2>2
    <2> QED
      BY <1>2, <2>1, <2>3, <2>4, <2>6, <2>7 DEF Counted
  <1>6. CASE EndQuery
    <2>1. /\ pc = "hits" /\ pc' = "query" /\ stale' = StaleAfter /\ limit' = limit
          /\ searched' = searched
          /\ "research_saturated" \in reasons' => stale' >= limit.saturation
      BY <1>2, <1>6 DEF EndQuery, Saturated
    <2>2. /\ Len(searched) = Ended + 1 /\ Ended' = Ended + 1
          /\ searched[Ended + 1].outcome # "failed"
          /\ searched[Ended + 1].outcome = "found" => Len(evidence) > before
      BY <1>1, <2>1 DEF Counted, Ended
    <2>3. \E n \in 1..(Ended + 2) :
              Fruitless(n, Ended + 1) /\ Cardinality(AnsweredIn(n, Ended + 1)) = StaleAfter
      <3>1. CASE Len(evidence) = before
        <4>1. PICK n \in 1..(Ended + 1) :
                  Fruitless(n, Ended) /\ Cardinality(AnsweredIn(n, Ended)) = stale
          BY DEF Counted
        <4>2. /\ AnsweredIn(n, Ended + 1) = AnsweredIn(n, Ended) \cup {Ended + 1}
              /\ Ended + 1 \notin AnsweredIn(n, Ended) /\ IsFiniteSet(AnsweredIn(n, Ended))
              /\ Fruitless(n, Ended + 1)
          <5>1. /\ n \in Nat \ {0} /\ Ended \in Nat /\ n <= Ended + 1 /\ searched \in Seq(Searches)
                /\ Ended + 1 <= Len(searched)
            BY <1>1, <2>2, <4>1
          <5>2. /\ AnsweredIn(n, Ended + 1) =
                      IF searched[Ended + 1].outcome = "failed" THEN AnsweredIn(n, Ended)
                      ELSE AnsweredIn(n, Ended) \cup {Ended + 1}
                /\ Ended + 1 \notin AnsweredIn(n, Ended)
                /\ IsFiniteSet(AnsweredIn(n, Ended))
                /\ Fruitless(n, Ended + 1)
                      <=> Fruitless(n, Ended) /\ searched[Ended + 1].outcome # "found"
            BY <5>1, OneMore
          <5>3. searched[Ended + 1].outcome # "found"
            BY <1>1, <2>2, <3>1
          <5> QED
            BY <2>2, <4>1, <5>2, <5>3
        <4>3. Cardinality(AnsweredIn(n, Ended + 1)) = stale + 1
          BY <4>1, <4>2, FS_AddElement
        <4>4. StaleAfter = stale + 1 /\ n \in 1..(Ended + 2)
          BY <1>1, <3>1, <4>1 DEF StaleAfter
        <4> QED
          BY <4>2, <4>3, <4>4
      <3>2. CASE Len(evidence) # before
        <4>1. AnsweredIn(Ended + 2, Ended + 1) = {} /\ Fruitless(Ended + 2, Ended + 1)
          BY <1>1 DEF AnsweredIn, Fruitless
        <4>2. StaleAfter = 0 /\ Ended + 2 \in 1..(Ended + 2)
          BY <1>1, <3>2 DEF StaleAfter
        <4> QED
          BY <4>1, <4>2, FS_EmptySet
      <3> QED
        BY <3>1, <3>2
    <2>4. PICK n \in 1..(Ended + 2) :
              Fruitless(n, Ended + 1) /\ Cardinality(AnsweredIn(n, Ended + 1)) = StaleAfter
      BY <2>3
    <2>5. Fruitless(n, Ended)' /\ AnsweredIn(n, Ended)' = AnsweredIn(n, Ended + 1)
      BY <2>1, <2>2, <2>4 DEF Fruitless, AnsweredIn
    <2>6. n \in 1..(Ended' + 1)
      BY <1>1, <2>2, <2>4
    <2> QED
      BY <2>1, <2>4, <2>5, <2>6 DEF Counted
  <1>7. CASE FetchFails \/ SourceLimit
    <2>1. /\ pc = "hits" /\ UNCHANGED <<pc, searched, stale, limit, evidence, before>>
          /\ "research_saturated" \in reasons' => "research_saturated" \in reasons
      BY <1>7 DEF FetchFails, SourceLimit
    <2>2. Ended' = Ended
      BY <2>1 DEF Ended
    <2>3. \E n \in 1..(Ended' + 1) :
              Fruitless(n, Ended)' /\ Cardinality(AnsweredIn(n, Ended)') = stale'
      BY <1>1, <2>1, <2>2, SameSearches
    <2> QED
      BY <2>1, <2>3 DEF Counted
  <1>8. CASE \/ ExecuteUnconfigured \/ Execute \/ StopAtLimit \/ FinishTask \/ Finish
             \/ VerifyUnconfigured \/ SourceMalformed \/ SourceFails \/ VerifySource
             \/ FinishSources \/ Save
    <2>1. /\ pc # "hits" /\ pc' # "hits" /\ UNCHANGED <<searched, stale, limit>>
          /\ "research_saturated" \in reasons' => "research_saturated" \in reasons
      BY <1>8 DEF ExecuteUnconfigured, Execute, StopAtLimit, More, limitReached, FinishTask,
         Finish, VerifyUnconfigured, SourceMalformed, SourceFails, Source, VerifySource,
         FinishSources, Save
    <2>2. Ended' = Ended
      BY <2>1 DEF Ended
    <2>3. \E n \in 1..(Ended' + 1) :
              Fruitless(n, Ended)' /\ Cardinality(AnsweredIn(n, Ended)') = stale'
      BY <1>1, <2>1, <2>2, SameSearches
    <2> QED
      BY <2>1, <2>3 DEF Counted
  <1>9. CASE TimePasses \/ UNCHANGED vars
    <2>1. UNCHANGED <<pc, searched, stale, limit, evidence, before, reasons>>
      BY <1>9 DEF TimePasses, vars
    <2>2. Ended' = Ended
      BY <2>1 DEF Ended
    <2>3. \E n \in 1..(Ended' + 1) :
              Fruitless(n, Ended)' /\ Cardinality(AnsweredIn(n, Ended)') = stale'
      BY <1>1, <2>1, <2>2, SameSearches
    <2> QED
      BY <2>1, <2>3 DEF Counted
  <1> QED
    BY <1>3, <1>4, <1>5, <1>6, <1>7, <1>8, <1>9 DEF Next

-----------------------------------------------------------------------------
(* The theorems.                                                           *)

LEMMA Inductive == Spec => []IInv
  <1>1. IInv /\ [Next]_vars => IInv'
    BY NextTyped, NextModes, NextStale, NextLimits, NextOrdered, NextAttributed, NextWhole
       DEF IInv
  <1> QED
    BY InitIInv, <1>1, PTL DEF Spec

\* Every variable of a request has its type; in particular a result names only
\* evidence of the report, and the stale queries never pass their limit.
THEOREM ResearchTyped == Spec => []TypeOK
  <1>1. IInv => TypeOK
    <2> SUFFICES ASSUME IInv PROVE TypeOK
      OBVIOUS
    <2>1. /\ Typed /\ LimitsKept /\ Stale /\ Modes /\ EvidenceOfItsTask
          /\ limit.sources \in Nat /\ limit.saturation \in Nat
      BY Limited DEF IInv
    <2>2. before \in 0..limit.sources
      BY <2>1 DEF Typed, Places, LimitsKept, Modes, Lists
    <2>3. stale \in 0..limit.saturation
      BY <2>1 DEF Typed, Places, Stale
    <2>4. results \in Seq([task : 1..Tasks, status : {"partially_verified", "unverified"},
                           evidence : SUBSET (1..Len(evidence))])
      <3> DEFINE R == [task : 1..Tasks, status : {"partially_verified", "unverified"},
                       evidence : SUBSET (1..Len(evidence))]
                 n == Len(results)
      <3>1. results \in [1..n -> Results] /\ n \in Nat /\ DOMAIN results = 1..n
        BY <2>1 DEF Typed, Lists
      <3>2. ASSUME NEW k \in 1..n PROVE results[k] \in R
        <4>1. results[k] \in Results
          BY <3>1
        <4>2. results[k].evidence \subseteq DOMAIN evidence
          BY <2>1, <3>1 DEF EvidenceOfItsTask
        <4>3. DOMAIN evidence = 1..Len(evidence)
          BY <2>1 DEF Typed, Lists
        <4> QED
          BY <4>1, <4>2, <4>3 DEF Results
      <3> HIDE DEF R
      <3>3. results \in [1..n -> R]
        BY <3>1, <3>2
      <3>4. results \in Seq(R)
        BY <3>1, <3>3, SeqDef
      <3> QED
        BY <3>4 DEF R
    <2> QED
      BY <2>1, <2>2, <2>3, <2>4 DEF Typed, Places, Lists, TypeOK, Evidence, Searches
  <1> QED
    BY Inductive, <1>1, PTL

\* Whatever the web answers and whatever fails, ExecuteResearch never searches
\* or fetches beyond the limits of its plan.
THEOREM LimitsAreKept == Spec => []LimitsKept
  <1>1. IInv => LimitsKept
    BY DEF IInv
  <1> QED
    BY Inductive, <1>1, PTL

\* A report has a result for every task, in the plan's order and with all of
\* the task's own evidence, and a status that says how far the research came.
THEOREM ReportsAreSound == Spec => []ReportSound
  <1>1. IInv => ReportSound
    BY DEF IInv, Ordered, ReportSound, OneResultPerTask, Typed, Lists
  <1> QED
    BY Inductive, <1>1, PTL

\* A research is only called saturated after as many searches in a row as its
\* limit says were answered without a single page, whatever tasks they were of.
THEOREM SaturationIsSound == Spec => []SaturationSound
  <1>1. IInv /\ Counted => SaturationSound
    <2> SUFFICES ASSUME IInv, Counted, "research_saturated" \in reasons
                 PROVE  \E n \in DOMAIN searched :
                            /\ \A i \in n..Len(searched) : searched[i].outcome # "found"
                            /\ Cardinality(AnsweredFrom(n)) >= limit.saturation
      BY DEF SaturationSound
    <2>1. /\ pc # "hits" /\ Ended = Len(searched) /\ Len(searched) \in Nat
          /\ searched \in Seq(Searches) /\ limit.saturation \in Nat \ {0} /\ stale \in Nat
      BY Limited DEF IInv, Stale, Ended, Typed, Places, Lists
    <2>2. PICK n \in 1..(Ended + 1) :
              Fruitless(n, Ended) /\ Cardinality(AnsweredIn(n, Ended)) = stale
      BY DEF Counted
    <2>3. stale >= limit.saturation
      BY DEF Counted
    <2>4. n # Ended + 1
      <3>1. SUFFICES ASSUME n = Ended + 1 PROVE FALSE
        OBVIOUS
      <3>2. AnsweredIn(n, Ended) = {}
        BY <2>1, <3>1 DEF AnsweredIn
      <3> QED
        BY <2>1, <2>2, <2>3, <3>2, FS_EmptySet
    <2>5. n \in DOMAIN searched /\ AnsweredFrom(n) = AnsweredIn(n, Ended)
      BY <2>1, <2>2, <2>4 DEF AnsweredFrom, AnsweredIn
    <2> QED
      BY <2>1, <2>2, <2>3, <2>5 DEF Fruitless
  <1>2. IInv /\ Counted /\ [Next]_vars => Counted'
    BY NextCounted
  <1> QED
    BY Inductive, InitCounted, <1>1, <1>2, PTL DEF Spec
=============================================================================
