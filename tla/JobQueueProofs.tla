--------------------------- MODULE JobQueueProofs ---------------------------
(***************************************************************************)
(* Proofs about JobQueue for any number of requests, keys, owners, gateway *)
(* processes, crashes, failed Redis calls and expiries; and, for a single  *)
(* gateway whose Redis answers, about its work and what it implements.     *)
(***************************************************************************)
EXTENDS JobQueue, SequenceTheorems, WellFoundedInduction, TLAPS

-----------------------------------------------------------------------------
(* Redis lists: what the list commands keep in and take out.               *)

LEMMA MinInSet ==
  ASSUME NEW I, I \subseteq Nat, I # {}
  PROVE  Min(I) \in I
  <1> DEFINE R == {ss \in Nat \X Nat : ss[1] < ss[2]}
  <1>1. OpToRel(<, Nat) = R
    BY Zenon DEF OpToRel
  <1>2. IsWellFoundedOn(R, Nat)
    BY Zenon, <1>1, NatLessThanWellFounded
  <1>3. \A x, y \in Nat : x < y => <<x, y>> \in R
    OBVIOUS
  <1> HIDE DEF R
  <1>4. PICK x \in I : \A y \in I : ~(<<y, x>> \in R)
    BY <1>2, WFMin
  <1>5. ASSUME NEW y \in I
        PROVE  x =< y
    <2>1. x \in Nat /\ y \in Nat
      OBVIOUS
    <2>2. ~(y < x)
      BY <2>1, <1>3, <1>4
    <2> QED
      BY <2>1, <2>2
  <1> QED
    BY <1>5 DEF Min

\* LREM leaves only elements that were there.
LEMMA RemoveFirstInSeq ==
  ASSUME NEW S, NEW s \in Seq(S), NEW e
  PROVE  RemoveFirst(s, e) \in Seq(S)
  <1>1. CASE \E i \in 1..Len(s) : s[i] = e
    <2> DEFINE I == {i \in 1..Len(s) : s[i] = e}
               m == Min(I)
    <2>1. m \in 1..Len(s)
      <3>1. I \subseteq Nat /\ I # {}
        BY <1>1
      <3> QED
        BY <3>1, MinInSet
    <2>2. RemoveFirst(s, e) = SubSeq(s, 1, m - 1) \o SubSeq(s, m + 1, Len(s))
      BY <1>1 DEF RemoveFirst, RemoveAt, SelectInSeq
    <2> HIDE DEF m
    <2>3. SubSeq(s, 1, m - 1) \in Seq(S) /\ SubSeq(s, m + 1, Len(s)) \in Seq(S)
      BY <2>1, LenProperties, ElementOfSeq, SubSeqProperties
    <2> QED
      BY <2>2, <2>3
  <1>2. CASE ~\E i \in 1..Len(s) : s[i] = e
    BY <1>2 DEF RemoveFirst
  <1> QED
    BY <1>1, <1>2

\* BLMOVE takes an element that was there and leaves the others.
LEMMA FrontLastInSeq ==
  ASSUME NEW S, NEW s \in Seq(S), s # <<>>
  PROVE  Front(s) \in Seq(S) /\ Last(s) \in S
  <1>1. Len(s) \in Nat \ {0}
    BY EmptySeq
  <1>2. SubSeq(s, 1, Len(s) - 1) \in Seq(S)
    BY <1>1, ElementOfSeq, SubSeqProperties
  <1> QED
    BY <1>1, <1>2, ElementOfSeq DEF Front, Last

LEMMA ConsInSeq ==
  ASSUME NEW S, NEW s \in Seq(S), NEW e \in S
  PROVE  Cons(e, s) \in Seq(S)
  BY DEF Cons

-----------------------------------------------------------------------------
(* Types.  They need to know that a busy worker has an id at hand and that *)
(* recover only goes on while it has ids left.                             *)

BusyHasId == \A w \in Worker :
    pc[w] \in {"load", "saveStart", "run", "report", "save", "unlist", "requeue"}
        => cur[w] \in Request
RecoverHasNext == \A w \in Worker : pc[w] = "recover" => todo[w] # <<>>

Typed == TypeOK /\ BusyHasId /\ RecoverHasNext

LEMMA JobRecords ==
  /\ Absent \in Job /\ NewJob \in Job
  /\ \A job \in Job : Interrupted(job) \in Job /\ Exhausted(job) \in Job
  /\ \A job \in Job : job.attempts < MaxAttempts => Begun(job) \in Job
  /\ \A job \in Job, s \in Status : [job EXCEPT !.status = s] \in Job
  <1> USE Constants
  <1>1. Absent \in Job /\ NewJob \in Job
    BY DEF Job, Status, Absent, NewJob
  <1>2. ASSUME NEW job \in Job, NEW s \in Status
        PROVE  [job EXCEPT !.status = s] \in Job
    BY DEF Job
  <1>3. ASSUME NEW job \in Job
        PROVE  Interrupted(job) \in Job /\ Exhausted(job) \in Job
    BY <1>2 DEF Interrupted, Exhausted, Status
  <1>4. ASSUME NEW job \in Job, job.attempts < MaxAttempts
        PROVE  Begun(job) \in Job
    <2>1. job.attempts + 1 \in 0..MaxAttempts
      BY <1>4 DEF Job
    <2> QED
      BY <2>1 DEF Job, Begun, Status
  <1> QED
    BY <1>1, <1>2, <1>3, <1>4

LEMMA InitTyped == Init => Typed
  <1> SUFFICES ASSUME Init PROVE Typed
    OBVIOUS
  <1>1. TypeOK
    <2>1. /\ pending \in Seq(Request) /\ processing \in Seq(Request)
          /\ store \in [Request -> Job] /\ idem \in [Key -> Request \cup {None}]
          /\ ask \in [Request -> [key : Key, owner : Owner]]
          /\ phase \in [Request -> Phase] /\ found \in [Request -> Request \cup {None}]
      BY JobRecords, EmptySeq DEF Init, Phase
    <2>2. /\ pc \in [Worker -> Pc] /\ cur \in [Worker -> Request \cup {None}]
          /\ copy \in [Worker -> Job] /\ seen \in [Worker -> Job]
          /\ reports \in [Worker -> 0..Reports] /\ todo \in [Worker -> Seq(Request)]
      BY JobRecords, Constants, EmptySeq DEF Init, Pc
    <2>3. /\ crashes \in 0..MaxCrashes /\ faults \in 0..MaxFaults
          /\ expiries \in 0..MaxExpiries /\ runs \in [Request -> 0..MaxAttempts + 1]
      BY Constants DEF Init
    <2>4. together \in BOOLEAN
      BY Zenon DEF Init
    <2> QED
      BY <2>1, <2>2, <2>3, <2>4 DEF TypeOK
  <1>2. BusyHasId /\ RecoverHasNext
    BY DEF Init, BusyHasId, RecoverHasNext
  <1> QED
    BY <1>1, <1>2 DEF Typed

LEMMA RequestTyped ==
  ASSUME Typed, NEW r \in Request, RequestStep(r)
  PROVE  Typed'
  <1> USE DEF Typed, TypeOK, Phase
  <1>1. UNCHANGED workers /\ UNCHANGED <<processing, crashes, faults, expiries, runs>>
    BY DEF RequestStep, Lookup, Claim, Reread, Fetch, Publish, RequestFails, bounds,
       redis, workers
  <1>2. BusyHasId' /\ RecoverHasNext'
    BY <1>1 DEF BusyHasId, RecoverHasNext, workers
  <1>3. CASE Publish(r)
    <2>1. Cons(r, pending) \in Seq(Request)
      BY ConsInSeq
    <2> QED
      BY <1>1, <1>2, <1>3, <2>1, JobRecords DEF Publish, workers
  <1>4. CASE Lookup(r) \/ Claim(r) \/ Reread(r) \/ Fetch(r) \/ RequestFails(r)
    BY <1>1, <1>2, <1>4 DEF Lookup, Claim, Reread, Fetch, RequestFails, workers, redis
  <1> QED
    BY <1>3, <1>4 DEF RequestStep

LEMMA FaultTyped ==
  ASSUME TypeOK, RedisFault
  PROVE  faults' \in 0..MaxFaults
  BY Constants DEF RedisFault, TypeOK

LEMMA SaveTyped ==
  ASSUME TypeOK, NEW j, NEW job \in Job, Save(j, job)
  PROVE  store' \in [Request -> Job] /\ faults' \in 0..MaxFaults
  BY FaultTyped DEF Save, TypeOK

LEMMA WorkerTyped ==
  ASSUME Typed, NEW w \in Worker, WorkerStep(w)
  PROVE  Typed'
  <1> USE DEF Typed, bounds, redis, requests, Resume
  <1>1. CASE Boot(w)
    BY <1>1 DEF Boot, TypeOK, Pc, BusyHasId, RecoverHasNext
  <1>2. CASE RecoverScan(w)
    BY <1>2, FaultTyped DEF RecoverScan, TypeOK, Pc, BusyHasId, RecoverHasNext
  <1>3. CASE RecoverNext(w)
    <2>1. todo[w] \in Seq(Request) /\ todo[w] # <<>>
      BY <1>3 DEF RecoverNext, TypeOK, RecoverHasNext
    <2>2. Head(todo[w]) \in Request /\ Tail(todo[w]) \in Seq(Request)
      BY <2>1
    <2>3. Interrupted(store[Head(todo[w])]) \in Job
      BY <2>2, JobRecords DEF TypeOK
    <2>4. faults' \in 0..MaxFaults
      BY <1>3, FaultTyped DEF RecoverNext, TypeOK
    <2> QED
      BY <1>3, <2>2, <2>3, <2>4, ZenonT(30)
         DEF RecoverNext, TypeOK, Pc, BusyHasId, RecoverHasNext
  <1>4. CASE Take(w)
    <2>1. Front(pending) \in Seq(Request) /\ Last(pending) \in Request
      BY <1>4, FrontLastInSeq DEF Take, TypeOK
    <2>2. Cons(Last(pending), processing) \in Seq(Request)
      BY <2>1, ConsInSeq DEF TypeOK
    <2> QED
      BY <1>4, <2>1, <2>2, FaultTyped DEF Take, TypeOK, Pc, BusyHasId, RecoverHasNext
  <1>5. CASE Load(w)
    <2>1. cur[w] \in Request /\ store[cur[w]] \in Job
      BY <1>5 DEF Load, TypeOK, BusyHasId
    <2>2. store[cur[w]].attempts \in Nat /\ MaxAttempts \in Nat
      BY <2>1, Constants DEF Job
    <2>3. /\ Exhausted(store[cur[w]]) \in Job
          /\ ~(store[cur[w]].attempts >= MaxAttempts) => Begun(store[cur[w]]) \in Job
      BY <2>1, <2>2, JobRecords
    <2>4. faults' \in 0..MaxFaults
      BY <1>5, FaultTyped DEF Load, TypeOK
    <2> QED
      BY <1>5, <2>1, <2>3, <2>4, ZenonT(30) DEF Load, TypeOK, Pc, BusyHasId, RecoverHasNext
  <1>6. CASE SaveStart(w)
    <2>1. store' \in [Request -> Job] /\ faults' \in 0..MaxFaults
      BY <1>6, SaveTyped DEF SaveStart, TypeOK
    <2>2. runs' \in [Request -> 0..MaxAttempts + 1]
      <3>1. cur[w] \in Request /\ MaxAttempts \in Nat
        BY <1>6, Constants DEF SaveStart, BusyHasId
      <3>2. (IF runs[cur[w]] > MaxAttempts THEN runs[cur[w]] ELSE runs[cur[w]] + 1)
              \in 0..MaxAttempts + 1
        BY <3>1 DEF TypeOK
      <3> QED
        BY <1>6, <3>2 DEF SaveStart, TypeOK
    <2> QED
      BY <1>6, <2>1, <2>2, Constants DEF SaveStart, TypeOK, Pc, BusyHasId, RecoverHasNext
  <1>7. CASE ReportRead(w)
    <2>1. cur[w] \in Request
      BY <1>7 DEF ReportRead, BusyHasId
    <2>2. reports' \in [Worker -> 0..Reports] /\ faults' \in 0..MaxFaults
      BY <1>7, FaultTyped, Constants DEF ReportRead, TypeOK
    <2> QED
      BY <1>7, <2>1, <2>2 DEF ReportRead, TypeOK, Pc, BusyHasId, RecoverHasNext
  <1>8. CASE ReportWrite(w)
    <2>1. [seen[w] EXCEPT !.status = "running"] \in Job
      BY JobRecords DEF TypeOK, Status
    <2>2. store' \in [Request -> Job] /\ faults' \in 0..MaxFaults
      BY <1>8, <2>1, SaveTyped DEF ReportWrite
    <2> QED
      BY <1>8, <2>2, JobRecords DEF ReportWrite, TypeOK, Pc, BusyHasId, RecoverHasNext
  <1>9. CASE Succeed(w)
    <2>1. copy' \in [Worker -> Job]
      BY <1>9, ZenonT(30) DEF Succeed, TypeOK, Job, Status
    <2> QED
      BY <1>9, <2>1 DEF Succeed, TypeOK, Pc, BusyHasId, RecoverHasNext
  <1>10. CASE Fail(w)
    <2>1. copy' \in [Worker -> Job]
      BY <1>10, ZenonT(30) DEF Fail, TypeOK, Job, Status
    <2> QED
      BY <1>10, <2>1 DEF Fail, TypeOK, Pc, BusyHasId, RecoverHasNext
  <1>11. CASE SaveOutcome(w)
    <2>1. store' \in [Request -> Job] /\ faults' \in 0..MaxFaults
      BY <1>11, SaveTyped DEF SaveOutcome, TypeOK
    <2> QED
      BY <1>11, <2>1 DEF SaveOutcome, Disposal, TypeOK, Pc, BusyHasId, RecoverHasNext
  <1>12. CASE Unlist(w)
    <2>1. RemoveFirst(processing, cur[w]) \in Seq(Request)
      BY RemoveFirstInSeq DEF TypeOK
    <2>2. processing' \in Seq(Request) /\ faults' \in 0..MaxFaults
      BY <1>12, <2>1, FaultTyped DEF Unlist, TypeOK
    <2> QED
      BY <1>12, <2>2, JobRecords DEF Unlist, Release, TypeOK, Pc, BusyHasId,
         RecoverHasNext
  <1>13. CASE Requeue(w)
    <2>1. RemoveFirst(processing, cur[w]) \in Seq(Request)
      BY RemoveFirstInSeq DEF TypeOK
    <2>2. Cons(cur[w], pending) \in Seq(Request)
      BY <1>13, ConsInSeq DEF Requeue, TypeOK, BusyHasId
    <2>3. /\ processing' \in Seq(Request) /\ pending' \in Seq(Request)
          /\ faults' \in 0..MaxFaults
      BY <1>13, <2>1, <2>2, FaultTyped DEF Requeue, TypeOK
    <2> QED
      BY <1>13, <2>3, JobRecords DEF Requeue, Release, TypeOK, Pc, BusyHasId,
         RecoverHasNext
  <1> QED
    BY <1>1, <1>2, <1>3, <1>4, <1>5, <1>6, <1>7, <1>8, <1>9, <1>10, <1>11, <1>12,
       <1>13 DEF WorkerStep

LEMMA EnvironmentTyped ==
  ASSUME Typed,
         \/ \E w \in Worker : Crash(w)
         \/ \E k \in Key : IdemExpires(k)
         \/ \E j \in Request : JobExpires(j)
  PROVE  Typed'
  <1> USE DEF Typed, redis, requests, workers
  <1>1. ASSUME NEW w \in Worker, Crash(w) PROVE Typed'
    <2>1. crashes' \in 0..MaxCrashes /\ <<>> \in Seq(Request)
      BY <1>1, Constants DEF Crash, TypeOK
    <2> QED
      BY <1>1, <2>1, JobRecords, Constants, SMTT(30) DEF Crash, TypeOK, Pc, BusyHasId,
         RecoverHasNext
  <1>2. ASSUME NEW k \in Key, IdemExpires(k) PROVE Typed'
    BY <1>2, Constants DEF IdemExpires, Expiry, TypeOK, BusyHasId, RecoverHasNext
  <1>3. ASSUME NEW j \in Request, JobExpires(j) PROVE Typed'
    BY <1>3, JobRecords, Constants, SMTT(30) DEF JobExpires, Expiry, TypeOK, BusyHasId,
       RecoverHasNext
  <1> QED
    BY <1>1, <1>2, <1>3

LEMMA StepTyped == Typed /\ [Next]_vars => Typed'
  <1>1. CASE UNCHANGED vars
    BY <1>1 DEF vars, redis, requests, workers, bounds, Typed, TypeOK, BusyHasId,
       RecoverHasNext
  <1> QED
    BY <1>1, RequestTyped, WorkerTyped, EnvironmentTyped DEF Next

LEMMA AlwaysTyped == Spec => []Typed
  BY InitTyped, StepTyped, PTL DEF Spec

\* Type correctness of the queue, and with it the attempt limit of the saved
\* jobs (queue.go, execute and recover), for any number of gateways.
THEOREM QueueTyped == Spec => []TypeOK
  <1>1. Typed => TypeOK
    BY DEF Typed
  <1> QED
    BY <1>1, AlwaysTyped, PTL

-----------------------------------------------------------------------------
(* Enqueue answers with a job of the caller.  The key of a claim is the    *)
(* key of the request that made it, and what a request has found has the   *)
(* request's own key: expiries only ever forget a claim.                   *)

ClaimKeepsKey == \A k \in Key : idem[k] # None => ask[idem[k]].key = k

FoundUnderKey == \A r \in Request :
    /\ phase[r] \in {"fetch", "publish", "ok"} =>
          found[r] # None /\ ask[found[r]].key = ask[r].key
    /\ phase[r] = "publish" => found[r] = r
    /\ phase[r] = "ok" => ask[found[r]].owner = ask[r].owner

Answering == Typed /\ ClaimKeepsKey /\ FoundUnderKey

LEMMA InitAnswering == Init => Answering
  <1>1. Init => ClaimKeepsKey /\ FoundUnderKey
    BY DEF Init, ClaimKeepsKey, FoundUnderKey
  <1> QED
    BY <1>1, InitTyped DEF Answering

LEMMA RequestAnswers ==
  ASSUME Answering, NEW r \in Request, RequestStep(r)
  PROVE  ClaimKeepsKey' /\ FoundUnderKey'
  <1> USE DEF Answering, Typed, TypeOK, ClaimKeepsKey, FoundUnderKey, redis
  <1>1. ask' = ask /\ ask[r].key \in Key /\ r # None
    BY Constants DEF RequestStep, Lookup, Claim, Reread, Fetch, Publish, RequestFails
  <1>2. CASE Lookup(r)
    BY <1>1, <1>2 DEF Lookup
  <1>3. CASE Claim(r)
    <2>1. CASE idem[ask[r].key] = None
      <3>1. /\ idem' = [idem EXCEPT ![ask[r].key] = r]
            /\ phase' = [phase EXCEPT ![r] = "publish"]
            /\ found' = [found EXCEPT ![r] = r]
        BY <1>3, <2>1 DEF Claim
      <3>2. ClaimKeepsKey'
        BY <1>1, <3>1
      <3>3. FoundUnderKey'
        BY <1>1, <3>1
      <3> QED
        BY <3>2, <3>3
    <2>2. CASE idem[ask[r].key] # None
      BY <1>1, <1>3, <2>2, ZenonT(30) DEF Claim
    <2> QED
      BY <2>1, <2>2
  <1>4. CASE Reread(r)
    BY <1>1, <1>4 DEF Reread
  <1>5. CASE Fetch(r)
    BY <1>1, <1>5 DEF Fetch
  <1>6. CASE Publish(r)
    BY <1>1, <1>6 DEF Publish
  <1>7. CASE RequestFails(r)
    BY <1>1, <1>7 DEF RequestFails
  <1> QED
    BY <1>2, <1>3, <1>4, <1>5, <1>6, <1>7 DEF RequestStep

LEMMA StepAnswering == Answering /\ [Next]_vars => Answering'
  <1> SUFFICES ASSUME Answering, [Next]_vars PROVE Answering'
    OBVIOUS
  <1>1. Typed'
    BY StepTyped DEF Answering
  <1>2. CASE UNCHANGED <<ask, phase, found, idem>>
    BY <1>1, <1>2 DEF Answering, ClaimKeepsKey, FoundUnderKey
  <1>3. CASE \E r \in Request : RequestStep(r)
    BY <1>1, <1>3, RequestAnswers DEF Answering
  <1>4. CASE \E k \in Key : IdemExpires(k)
    <2>1. UNCHANGED <<ask, phase, found>>
      BY <1>4 DEF IdemExpires, requests
    <2>2. \A k \in Key : idem'[k] = idem[k] \/ idem'[k] = None
      BY <1>4 DEF IdemExpires, Answering, Typed, TypeOK
    <2>3. ClaimKeepsKey'
      BY <2>1, <2>2 DEF Answering, ClaimKeepsKey
    <2> QED
      BY <1>1, <2>1, <2>3 DEF Answering, FoundUnderKey
  <1>5. CASE \E w \in Worker : WorkerStep(w) \/ Crash(w)
    BY <1>2, <1>5 DEF WorkerStep, Boot, RecoverScan, RecoverNext, Take, Load, SaveStart,
       ReportRead, ReportWrite, Succeed, Fail, SaveOutcome, Unlist, Requeue, Crash,
       redis, requests
  <1>6. CASE \E j \in Request : JobExpires(j)
    BY <1>2, <1>6 DEF JobExpires, requests
  <1>7. CASE UNCHANGED vars
    BY <1>2, <1>7 DEF vars, redis, requests
  <1> QED
    BY <1>3, <1>4, <1>5, <1>6, <1>7 DEF Next

\* However the round trips of the requests interleave, and whatever crashes,
\* fails or expires meanwhile, an accepted request is answered with a job
\* of its own key and owner (queue.go, Enqueue and Get).
THEOREM AnswersAreOwn == Spec => []AnswersOwnJob
  <1>1. Answering => AnswersOwnJob
    <2> SUFFICES ASSUME Answering, NEW r \in Request, phase[r] = "ok"
                 PROVE  found[r] # None /\ ask[found[r]] = ask[r]
      BY DEF AnswersOwnJob
    <2>1. /\ found[r] # None
          /\ ask[found[r]].key = ask[r].key
          /\ ask[found[r]].owner = ask[r].owner
      BY DEF Answering, FoundUnderKey
    <2>2. found[r] \in Request
      BY <2>1 DEF Answering, Typed, TypeOK
    <2>3. ask[found[r]] \in [key : Key, owner : Owner] /\ ask[r] \in [key : Key, owner : Owner]
      BY <2>2 DEF Answering, Typed, TypeOK
    <2> QED
      BY <2>1, <2>3
  <1> QED
    BY <1>1, InitAnswering, StepAnswering, PTL DEF Spec

-----------------------------------------------------------------------------
(* Enqueue is idempotent.  Until a key expires a claim is never taken      *)
(* back, and only the job of a claimant is ever published, queued, taken   *)
(* or saved; one key has one claimant.                                     *)

Claimed == {r \in Request : idem[ask[r].key] = r}

OnlyClaimed ==
    /\ pending \in Seq(Claimed)
    /\ \A w \in Worker : cur[w] # None => cur[w] \in Claimed
    /\ \A j \in Request : Stored(j) \/ phase[j] = "publish" => j \in Claimed

OnePerKey == Typed /\ (expiries = 0 => OnlyClaimed)

LEMMA InitOnePerKey == Init => OnePerKey
  <1>1. Init => OnlyClaimed
    BY EmptySeq DEF Init, OnlyClaimed, Stored, Absent
  <1> QED
    BY <1>1, InitTyped DEF OnePerKey

\* A list over a set is a list over every larger one.
LEMMA SeqGrows ==
  ASSUME NEW S, NEW T, S \subseteq T, NEW s \in Seq(S)
  PROVE  s \in Seq(T)
  OBVIOUS

LEMMA RequestClaims ==
  ASSUME Typed, OnlyClaimed, NEW r \in Request, RequestStep(r)
  PROVE  OnlyClaimed'
  <1> USE DEF Typed, TypeOK, redis
  <1>1. /\ ask' = ask /\ cur' = cur
        /\ ask[r].key \in Key /\ None \notin Request
    BY Constants DEF RequestStep, Lookup, Claim, Reread, Fetch, Publish, RequestFails,
       workers
  <1>2. CASE Claim(r) /\ idem[ask[r].key] = None
    <2>1. /\ idem' = [idem EXCEPT ![ask[r].key] = r]
          /\ phase' = [phase EXCEPT ![r] = "publish"]
          /\ UNCHANGED <<pending, store>>
      BY <1>2 DEF Claim
    <2>2. Claimed \subseteq Claimed' /\ r \in Claimed'
      BY <1>1, <1>2, <2>1 DEF Claimed
    <2>3. pending' \in Seq(Claimed')
      BY <2>1, <2>2, SeqGrows DEF OnlyClaimed
    <2>4. \A j \in Request : Stored(j)' \/ phase'[j] = "publish" => j \in Claimed'
      BY <2>1, <2>2 DEF OnlyClaimed, Stored
    <2> QED
      BY <1>1, <2>2, <2>3, <2>4 DEF OnlyClaimed
  <1>3. CASE Publish(r)
    <2>1. /\ UNCHANGED idem
          /\ phase[r] = "publish"
          /\ \A j \in Request : phase'[j] = "publish" => phase[j] = "publish"
          /\ pending' = Cons(r, pending)
          /\ \A j \in Request : j # r => store'[j] = store[j]
      BY <1>3 DEF Publish
    <2>2. Claimed' = Claimed /\ r \in Claimed
      BY <1>1, <2>1 DEF Claimed, OnlyClaimed
    <2>3. pending' \in Seq(Claimed')
      BY <2>1, <2>2, ConsInSeq DEF OnlyClaimed
    <2>4. \A j \in Request : Stored(j)' \/ phase'[j] = "publish" => j \in Claimed'
      BY <2>1, <2>2 DEF OnlyClaimed, Stored
    <2> QED
      BY <1>1, <2>2, <2>3, <2>4 DEF OnlyClaimed
  <1>4. CASE \/ Lookup(r) \/ Reread(r) \/ Fetch(r) \/ RequestFails(r)
             \/ Claim(r) /\ idem[ask[r].key] # None
    <2>1. /\ UNCHANGED <<idem, pending, store>>
          /\ \A j \in Request : phase'[j] = "publish" => phase[j] = "publish"
      BY <1>4 DEF Lookup, Reread, Fetch, RequestFails, Claim
    <2>2. Claimed' = Claimed
      BY <1>1, <2>1 DEF Claimed
    <2> QED
      BY <1>1, <2>1, <2>2 DEF OnlyClaimed, Stored
  <1> QED
    BY <1>2, <1>3, <1>4 DEF RequestStep

LEMMA WorkerClaims ==
  ASSUME Typed, OnlyClaimed, NEW w \in Worker, WorkerStep(w) \/ Crash(w)
  PROVE  OnlyClaimed'
  <1>1. /\ UNCHANGED <<idem, ask, phase>>
        /\ Claimed' = Claimed
    BY DEF WorkerStep, Boot, RecoverScan, RecoverNext, Take, Load, SaveStart,
       ReportRead, ReportWrite, Succeed, Fail, SaveOutcome, Unlist, Requeue, Crash,
       redis, requests, Claimed
  \* What the worker takes up is claimed.
  <1>2. \A v \in Worker : cur'[v] # None => cur'[v] \in Claimed
    <2>1. CASE Take(w)
      <3>1. Last(pending) \in Claimed
        BY <2>1, FrontLastInSeq DEF Take, OnlyClaimed
      <3> QED
        BY <2>1, <3>1 DEF Take, OnlyClaimed, Typed, TypeOK
    <2>2. CASE RecoverNext(w)
      <3>1. Head(todo[w]) \in Request
        BY <2>2 DEF RecoverNext, Typed, TypeOK, RecoverHasNext
      <3> QED
        BY <2>2, <3>1 DEF RecoverNext, OnlyClaimed, Typed, TypeOK
    <2>3. CASE ~Take(w) /\ ~RecoverNext(w)
      <3>1. \A v \in Worker : cur'[v] = cur[v] \/ cur'[v] = None
        BY <2>3 DEF WorkerStep, Boot, RecoverScan, Load, SaveStart, ReportRead,
           ReportWrite, Succeed, Fail, SaveOutcome, Unlist, Requeue, Release, Crash,
           Typed, TypeOK
      <3> QED
        BY <3>1 DEF OnlyClaimed
    <2> QED
      BY <2>1, <2>2, <2>3
  \* What it saves is what it has taken up.
  <1>3. \A j \in Request : Stored(j)' => j \in Claimed
    <2>1. CASE \E job : Save(cur[w], job) /\ pc[w] \in {"saveStart", "report", "save"}
      <3>1. cur[w] \in Claimed
        BY <2>1, Constants DEF Typed, BusyHasId, OnlyClaimed
      <3>2. \A j \in Request : j # cur[w] => store'[j] = store[j]
        BY <2>1 DEF Save, Typed, TypeOK
      <3> QED
        BY <3>1, <3>2 DEF OnlyClaimed, Stored
    <2>2. CASE UNCHANGED store
      BY <2>2 DEF OnlyClaimed, Stored
    <2>3. SaveStart(w) \/ ReportWrite(w) \/ SaveOutcome(w) \/ UNCHANGED store
      BY DEF WorkerStep, Boot, RecoverScan, RecoverNext, Take, Load, ReportRead,
         Succeed, Fail, Unlist, Requeue, Crash, redis
    <2> QED
      BY <2>1, <2>2, <2>3 DEF SaveStart, ReportWrite, SaveOutcome
  <1>4. pending' \in Seq(Claimed)
    <2>1. CASE Take(w)
      BY <2>1, FrontLastInSeq DEF Take, OnlyClaimed
    <2>2. CASE Requeue(w)
      <3>1. cur[w] \in Claimed
        BY <2>2, Constants DEF Requeue, Typed, BusyHasId, OnlyClaimed
      <3> QED
        BY <2>2, <3>1, ConsInSeq DEF Requeue, OnlyClaimed
    <2>3. Take(w) \/ Requeue(w) \/ UNCHANGED pending
      BY DEF WorkerStep, Boot, RecoverScan, RecoverNext, Load, SaveStart, ReportRead,
         ReportWrite, Succeed, Fail, SaveOutcome, Unlist, Crash, redis
    <2> QED
      BY <2>1, <2>2, <2>3 DEF OnlyClaimed
  <1> QED
    BY <1>1, <1>2, <1>3, <1>4 DEF OnlyClaimed

LEMMA StepOnePerKey == OnePerKey /\ [Next]_vars => OnePerKey'
  <1> SUFFICES ASSUME OnePerKey, [Next]_vars PROVE OnePerKey'
    OBVIOUS
  <1> USE DEF OnePerKey
  <1>1. Typed'
    BY StepTyped
  <1>2. CASE \E r \in Request : RequestStep(r)
    <2>1. UNCHANGED expiries
      BY <1>2 DEF RequestStep, Lookup, Claim, Reread, Fetch, Publish, RequestFails, bounds
    <2> QED
      BY <1>1, <1>2, <2>1, RequestClaims
  <1>3. CASE \E w \in Worker : WorkerStep(w) \/ Crash(w)
    <2>1. UNCHANGED expiries
      BY <1>3 DEF WorkerStep, Boot, RecoverScan, RecoverNext, Take, Load, SaveStart,
         ReportRead, ReportWrite, Succeed, Fail, SaveOutcome, Unlist, Requeue, Crash,
         bounds
    <2> QED
      BY <1>1, <1>3, <2>1, WorkerClaims
  <1>4. CASE (\E k \in Key : IdemExpires(k)) \/ (\E j \in Request : JobExpires(j))
    <2>1. expiries \in Nat /\ expiries' = expiries + 1
      BY <1>4 DEF IdemExpires, JobExpires, Expiry, Typed, TypeOK
    <2> QED
      BY <1>1, <2>1
  <1>5. CASE UNCHANGED vars
    BY <1>1, <1>5 DEF vars, redis, requests, workers, bounds, OnlyClaimed, Claimed, Stored
  <1> QED
    BY <1>2, <1>3, <1>4, <1>5 DEF Next

\* Two requests with one idempotency key never create two jobs while no key
\* has expired: any number of requests and gateways, in any interleaving of
\* their round trips, with crashes and failed calls (queue.go, Enqueue).
THEOREM EnqueueIsIdempotent == Spec => []OneJobPerKey
  <1>1. OnePerKey => OneJobPerKey
    BY DEF OnePerKey, OnlyClaimed, Claimed, OneJobPerKey
  <1> QED
    BY <1>1, InitOnePerKey, StepOnePerKey, PTL DEF Spec

-----------------------------------------------------------------------------
(* The work of a single gateway with a Redis that answers and keys that do *)
(* not expire.  What is on a list, and how the list commands change it.    *)

Alone ==
    /\ \A v, w \in Worker : v = w
    /\ MaxFaults = 0 /\ MaxExpiries = 0

Once(s) == \A i, k \in DOMAIN s : s[i] = s[k] => i = k
On(s, j) == \E i \in DOMAIN s : s[i] = j

LEMMA Pushed ==
  ASSUME NEW s \in Seq(Request), NEW e \in Request
  PROVE  /\ \A j : On(Cons(e, s), j) <=> j = e \/ On(s, j)
         /\ Once(s) /\ ~On(s, e) => Once(Cons(e, s))
  <1> DEFINE c == Cons(e, s)
  <1>1. /\ Len(s) \in Nat /\ DOMAIN s = 1..Len(s) /\ DOMAIN c = 1..(Len(s) + 1)
        /\ c[1] = e /\ \A i \in 1..Len(s) : c[i + 1] = s[i]
    BY DEF Cons
  <1> HIDE DEF c
  <1>2. \A i \in DOMAIN c : i = 1 \/ (i - 1 \in DOMAIN s /\ c[i] = s[i - 1])
    <2>1. ASSUME NEW i \in DOMAIN c, i # 1 PROVE i - 1 \in 1..Len(s) /\ i = (i - 1) + 1
      BY <1>1, <2>1
    <2> QED
      BY <1>1, <2>1
  <1>3. \A i \in DOMAIN s : i + 1 \in DOMAIN c /\ c[i + 1] = s[i]
    BY <1>1
  <1>4. \A j : On(c, j) <=> j = e \/ On(s, j)
    BY <1>1, <1>2, <1>3 DEF On
  <1>5. ASSUME Once(s), ~On(s, e), NEW i \in DOMAIN c, NEW k \in DOMAIN c, c[i] = c[k]
        PROVE  i = k
    <2>1. CASE i = 1 /\ k = 1
      BY <2>1
    <2>2. CASE i = 1 /\ k # 1
      BY <1>1, <1>2, <1>5, <2>2 DEF On
    <2>3. CASE i # 1 /\ k = 1
      BY <1>1, <1>2, <1>5, <2>3 DEF On
    <2>4. CASE i # 1 /\ k # 1
      <3>1. i - 1 = k - 1
        BY <1>2, <1>5, <2>4 DEF Once
      <3> QED
        BY <1>1, <3>1
    <2> QED
      BY <2>1, <2>2, <2>3, <2>4
  <1> QED
    BY <1>4, <1>5 DEF c, Once

LEMMA Popped ==
  ASSUME NEW s \in Seq(Request), s # <<>>, Once(s)
  PROVE  /\ On(s, Last(s)) /\ Last(s) \in Request
         /\ \A j : On(Front(s), j) <=> On(s, j) /\ j # Last(s)
         /\ Once(Front(s))
  <1> DEFINE n == Len(s) f == Front(s)
  <1>1. n \in Nat /\ n > 0 /\ DOMAIN s = 1..n /\ Last(s) = s[n] /\ s[n] \in Request
    BY EmptySeq, ElementOfSeq DEF Last
  <1>2. f = [i \in 1..(n - 1) |-> s[i]]
    BY <1>1 DEF Front
  <1>3. DOMAIN f = 1..(n - 1) /\ \A i \in 1..(n - 1) : f[i] = s[i]
    BY <1>2
  <1> HIDE DEF n, f
  <1>4. \A i \in DOMAIN s : i = n \/ i \in DOMAIN f
    BY <1>1, <1>3
  <1>5. \A i \in DOMAIN f : i \in DOMAIN s /\ i # n /\ f[i] = s[i]
    BY <1>1, <1>3
  <1>6. On(s, s[n]) /\ n \in DOMAIN s
    BY <1>1 DEF On
  <1>7. \A j : On(f, j) <=> On(s, j) /\ j # s[n]
    BY <1>4, <1>5, <1>6 DEF On, Once
  <1>8. Once(f)
    BY <1>5 DEF Once
  <1> QED
    BY <1>1, <1>6, <1>7, <1>8 DEF f

LEMMA RemoveOnly ==
  ASSUME NEW e \in Request
  PROVE  RemoveFirst(<<e>>, e) = <<>>
  <1> DEFINE s == <<e>>
             I == {i \in 1..Len(s) : s[i] = e}
             m == Min(I)
  <1>1. Len(s) = 1 /\ s[1] = e
    OBVIOUS
  <1>2. m = 1
    <2>1. I = {1} /\ I \subseteq Nat /\ I # {}
      BY <1>1
    <2> QED
      BY <2>1, MinInSet
  <1>3. RemoveFirst(s, e) = SubSeq(s, 1, m - 1) \o SubSeq(s, m + 1, Len(s))
    <2>1. \E i \in 1..Len(s) : s[i] = e
      BY <1>1
    <2> QED
      BY <2>1 DEF RemoveFirst, RemoveAt, SelectInSeq
  <1> HIDE DEF s, m
  <1>4. SubSeq(s, 1, 0) = <<>> /\ SubSeq(s, 2, 1) = <<>>
    BY SubSeqEmpty
  <1>5. RemoveFirst(s, e) = <<>>
    BY <1>1, <1>2, <1>3, <1>4
  <1> QED
    BY <1>5 DEF s

LEMMA Single ==
  ASSUME NEW e \in Request
  PROVE  /\ \A j : On(<<e>>, j) <=> j = e
         /\ \A j : ~On(<<>>, j)
         /\ Once(<<e>>) /\ Once(<<>>)
         /\ Cons(e, <<>>) = <<e>>
         /\ RemoveFirst(<<e>>, e) = <<>>
         /\ Head(<<e>>) = e /\ Tail(<<e>>) = <<>> /\ <<e>> # <<>>
  <1>1. (\A j : On(<<e>>, j) <=> j = e) /\ \A j : ~On(<<>>, j)
    BY DEF On
  <1>2. Cons(e, <<>>) = <<e>>
    BY DEF Cons
  <1>3. RemoveFirst(<<e>>, e) = <<>>
    BY RemoveOnly
  <1>4. Head(<<e>>) = e /\ Tail(<<e>>) = <<>> /\ <<e>> # <<>>
    OBVIOUS
  <1>5. Once(<<e>>) /\ Once(<<>>)
    BY DEF Once
  <1> QED
    BY <1>1, <1>2, <1>3, <1>4, <1>5

(* What holds at each step of that gateway.  It has at most one job on the *)
(* processing list, and that is the job it is busy with.                   *)

Busy == {"load", "saveStart", "run", "report", "save", "unlist", "requeue"}

Listed ==
    /\ Once(pending) /\ Once(processing)
    /\ \A j \in Request : On(pending, j) => store[j].status = "queued" /\ ~On(processing, j)
    /\ \A j \in Request : On(processing, j) => Stored(j)
    /\ \A j \in Request : Stored(j) /\ ~Terminal(j) => On(pending, j) \/ On(processing, j)

Unpublished == \A r \in Request :
    phase[r] \in {"lookup", "claim", "publish"} => store[r] = Absent

Place(w) ==
    /\ pc[w] \in {"down", "scan"} => processing = <<>> \/ \E j \in Request : processing = <<j>>
    /\ pc[w] \in {"down", "scan"} /\ crashes = 0 => processing = <<>>
    /\ pc[w] = "recover" =>
          crashes > 0 /\ \E j \in Request : processing = <<j>> /\ todo[w] = <<j>>
    /\ pc[w] = "idle" => processing = <<>> /\ todo[w] = <<>>
    /\ pc[w] \in Busy => processing = <<cur[w]>> /\ todo[w] = <<>>

AtWork(w) ==
    LET job == store[cur[w]] IN
    /\ pc[w] \in {"load", "saveStart", "requeue"} => job.status = "queued"
    /\ pc[w] = "saveStart" => copy[w] = Begun(job)
    /\ pc[w] \in {"run", "report"} => job.status = "running" /\ copy[w].attempts = job.attempts
    /\ pc[w] = "report" => seen[w].attempts = job.attempts
    /\ pc[w] = "save" =>
          /\ copy[w].attempts = job.attempts
          /\ \/ copy[w].status = "completed" /\ job.status = "running"
             \/ copy[w].status = IF job.attempts < MaxAttempts THEN "queued" ELSE "failed"
          /\ crashes = 0 => job.status \in {"queued", "running"}
    /\ pc[w] = "unlist" => Terminal(cur[w])

Working ==
    /\ Typed /\ Listed /\ Unpublished /\ RunsBounded
    /\ \A w \in Worker : Place(w) /\ AtWork(w)

LEMMA InitWorking == Init => Working
  <1> SUFFICES ASSUME Init PROVE Working
    OBVIOUS
  <1>1. Typed
    BY InitTyped
  <1>2. Listed /\ Unpublished /\ RunsBounded
    BY DEF Init, Listed, Unpublished, RunsBounded, Once, On, Stored, Absent
  <1>3. \A w \in Worker : Place(w) /\ AtWork(w)
    BY DEF Init, Place, AtWork, Busy
  <1> QED
    BY <1>1, <1>2, <1>3 DEF Working

LEMMA NothingFails ==
  ASSUME Alone, Typed
  PROVE  ~RedisFault /\ ~Expiry
  BY Constants DEF Alone, Typed, TypeOK, RedisFault, Expiry

LEMMA RequestWorks ==
  ASSUME Working, NEW r \in Request, RequestStep(r)
  PROVE  Working'
  <1> USE DEF Working
  <1>1. Typed'
    BY RequestTyped
  <1>2. UNCHANGED <<workers, runs, crashes, processing>>
    BY DEF RequestStep, Lookup, Claim, Reread, Fetch, Publish, RequestFails, bounds, redis
  <1>3. CASE Publish(r)
    <2>1. /\ phase[r] = "publish" /\ store[r] = Absent /\ pending \in Seq(Request)
          /\ pending' = Cons(r, pending)
          /\ store' = [store EXCEPT ![r] = NewJob]
          /\ \A q \in Request : q # r => phase'[q] = phase[q]
          /\ phase'[r] \in {"ok", "error"}
      BY <1>3 DEF Publish, Unpublished, Typed, TypeOK
    <2>2. /\ store'[r] = NewJob
          /\ \A q \in Request : q # r => store'[q] = store[q]
      BY <2>1 DEF Typed, TypeOK
    <2>3. ~On(pending, r) /\ ~On(processing, r)
      BY <2>1 DEF Listed, Stored, Absent
    <2>4. Listed'
      BY <1>2, <2>1, <2>2, <2>3, Pushed DEF Listed, Stored, Terminal, NewJob
    <2>5. Unpublished' /\ RunsBounded'
      BY <1>2, <2>1, <2>2 DEF Unpublished, RunsBounded, NewJob, Absent
    <2>6. \A w \in Worker : Place(w)'
      BY <1>2 DEF Place, workers
    <2>7. ASSUME NEW w \in Worker PROVE AtWork(w)'
      <3>1. CASE pc[w] \in Busy
        <4>1. cur[w] \in Request /\ processing = <<cur[w]>>
          BY <3>1 DEF Place, Busy, Typed, BusyHasId
        <4>2. cur[w] # r
          BY <4>1, <2>3, Single
        <4> QED
          BY <1>2, <2>2, <4>1, <4>2 DEF AtWork, workers, Terminal
      <3>2. CASE pc[w] \notin Busy
        BY <1>2, <3>2 DEF AtWork, workers, Busy
      <3> QED
        BY <3>1, <3>2
    <2> QED
      BY <1>1, <2>4, <2>5, <2>6, <2>7
  <1>4. CASE Lookup(r) \/ Claim(r) \/ Reread(r) \/ Fetch(r) \/ RequestFails(r)
    <2>1. UNCHANGED <<pending, store>>
      BY <1>4 DEF Lookup, Claim, Reread, Fetch, RequestFails, redis
    <2>2. \A q \in Request : phase'[q] \in {"lookup", "claim", "publish"} =>
             phase[q] \in {"lookup", "claim", "publish"}
      BY <1>4 DEF Lookup, Claim, Reread, Fetch, RequestFails, Typed, TypeOK
    <2>3. Listed' /\ Unpublished' /\ RunsBounded'
      BY <1>2, <2>1, <2>2 DEF Listed, Unpublished, RunsBounded, Stored, Terminal
    <2>4. \A w \in Worker : Place(w)' /\ AtWork(w)'
      BY <1>2, <2>1 DEF Place, AtWork, workers, Terminal
    <2> QED
      BY <1>1, <2>3, <2>4
  <1> QED
    BY <1>3, <1>4 DEF RequestStep

\* The gateway that is busy has its one job on the processing list.
LEMMA AtHand ==
  ASSUME Working, NEW w \in Worker, pc[w] \in Busy
  PROVE  /\ cur[w] \in Request /\ processing = <<cur[w]>> /\ todo[w] = <<>>
         /\ Stored(cur[w]) /\ ~On(pending, cur[w])
         /\ store[cur[w]] \in Job /\ copy[w] \in Job /\ seen[w] \in Job
         /\ runs[cur[w]] =< store[cur[w]].attempts
  <1>1. cur[w] \in Request /\ processing = <<cur[w]>> /\ todo[w] = <<>>
    BY DEF Working, Place, Busy, Typed, BusyHasId
  <1>2. On(processing, cur[w])
    BY <1>1, Single
  <1> QED
    BY <1>1, <1>2 DEF Working, Listed, RunsBounded, Typed, TypeOK

\* Saving that job moves nothing from list to list.
LEMMA SavedStaysListed ==
  ASSUME Working, NEW w \in Worker, pc[w] \in Busy, NEW job, job.status # "absent",
         store' = [store EXCEPT ![cur[w]] = job],
         UNCHANGED <<pending, processing, phase>>
  PROVE  Listed' /\ Unpublished'
  <1>1. cur[w] \in Request /\ Stored(cur[w]) /\ ~On(pending, cur[w]) /\ On(processing, cur[w])
    BY AtHand, Single
  <1>2. /\ store'[cur[w]] = job
        /\ \A j \in Request : j # cur[w] => store'[j] = store[j]
    BY <1>1 DEF Working, Typed, TypeOK
  <1>3. Listed'
    BY <1>1, <1>2 DEF Working, Listed, Stored, Terminal
  <1>4. Unpublished'
    BY <1>1, <1>2 DEF Working, Unpublished, Stored, Absent
  <1> QED
    BY <1>3, <1>4

LEMMA SameListed ==
  ASSUME Working, UNCHANGED <<pending, processing, store, phase, runs>>
  PROVE  Listed' /\ Unpublished' /\ RunsBounded'
  BY DEF Working, Listed, Unpublished, RunsBounded, Stored, Terminal

LEMMA RecoveryWorks ==
  ASSUME Alone, Working, NEW w \in Worker,
         Boot(w) \/ RecoverScan(w) \/ RecoverNext(w) \/ Crash(w)
  PROVE  /\ Listed' /\ Unpublished' /\ RunsBounded'
         /\ Place(w)' /\ AtWork(w)'
  <1>1. ~RedisFault /\ crashes \in Nat
    BY NothingFails, Constants DEF Working, Typed, TypeOK
  <1>2. Listed' /\ Unpublished' /\ RunsBounded'
    BY SameListed DEF Boot, RecoverScan, RecoverNext, Crash, redis, requests
  <1>3. Place(w) /\ AtWork(w) /\ w \in DOMAIN pc
    BY DEF Working, Typed, TypeOK
  <1>4. CASE Boot(w)
    <2>1. pc[w] = "down" /\ pc'[w] = "scan" /\ UNCHANGED <<processing, crashes>>
      BY <1>3, <1>4 DEF Boot, redis, bounds, Working, Typed, TypeOK
    <2> QED
      BY <1>2, <1>3, <2>1 DEF Place, AtWork, Busy
  <1>5. CASE RecoverScan(w)
    <2>1. /\ pc[w] = "scan" /\ pc'[w] = Resume(processing) /\ todo'[w] = processing
          /\ UNCHANGED <<processing, crashes>>
      BY <1>1, <1>3, <1>5 DEF RecoverScan, redis, Working, Typed, TypeOK
    <2>2. CASE processing = <<>>
      BY <1>2, <2>1, <2>2 DEF Place, AtWork, Busy, Resume
    <2>3. CASE processing # <<>>
      <3>1. crashes > 0 /\ \E j \in Request : processing = <<j>>
        BY <1>1, <1>3, <2>1, <2>3 DEF Place
      <3>2. pc'[w] = "recover"
        BY <2>1, <2>3 DEF Resume
      <3> QED
        BY <1>2, <2>1, <3>1, <3>2 DEF Place, AtWork, Busy
    <2> QED
      BY <2>2, <2>3
  <1>6. CASE RecoverNext(w)
    <2>1. PICK j \in Request : processing = <<j>> /\ todo[w] = <<j>> /\ crashes > 0
      BY <1>3, <1>6 DEF Place, RecoverNext
    <2>2. /\ Head(todo[w]) = j /\ Tail(todo[w]) = <<>> /\ Stored(j)
          /\ store[j] \in Job
      BY <2>1, Single DEF Working, Listed, Typed, TypeOK
    <2>3. /\ pc'[w] = "save" /\ cur'[w] = j /\ copy'[w] = Interrupted(store[j])
          /\ todo'[w] = <<>> /\ UNCHANGED <<store, processing, crashes>>
      BY <1>1, <1>3, <1>6, <2>2 DEF RecoverNext, redis, Working, Typed, TypeOK
    <2>4. /\ copy'[w].attempts = store[j].attempts
          /\ copy'[w].status = IF store[j].attempts < MaxAttempts THEN "queued" ELSE "failed"
      BY <2>2, <2>3, Constants DEF Interrupted, Job
    <2> QED
      BY <1>2, <2>1, <2>3, <2>4 DEF Place, AtWork, Busy
  <1>7. CASE Crash(w)
    <2>1. pc'[w] = "down" /\ crashes' > 0 /\ UNCHANGED processing
      BY <1>1, <1>3, <1>7 DEF Crash, redis, Working, Typed, TypeOK
    <2>2. processing = <<>> \/ \E j \in Request : processing = <<j>>
      <3>1. CASE pc[w] \in Busy
        BY <3>1, AtHand
      <3>2. CASE pc[w] \notin Busy
        <4>1. pc[w] \in {"down", "scan", "recover", "idle"}
          BY <3>2 DEF Working, Typed, TypeOK, Pc, Busy
        <4> QED
          BY <1>3, <4>1 DEF Place
      <3> QED
        BY <3>1, <3>2
    <2> QED
      BY <1>2, <2>1, <2>2 DEF Place, AtWork, Busy
  <1> QED
    BY <1>4, <1>5, <1>6, <1>7

LEMMA TakeWorks ==
  ASSUME Alone, Working, NEW w \in Worker, Take(w)
  PROVE  /\ Listed' /\ Unpublished' /\ RunsBounded'
         /\ Place(w)' /\ AtWork(w)'
  <1> DEFINE id == Last(pending)
  <1>1. ~RedisFault /\ pending \in Seq(Request) /\ pending # <<>> /\ Once(pending)
    BY NothingFails DEF Working, Typed, TypeOK, Take, Listed
  <1>2. /\ On(pending, id) /\ id \in Request
        /\ \A j : On(Front(pending), j) <=> On(pending, j) /\ j # id
        /\ Once(Front(pending))
    BY <1>1, Popped
  <1>3. store[id].status = "queued" /\ processing = <<>> /\ todo[w] = <<>>
    BY <1>2 DEF Working, Listed, Place, Take
  <1>4. Cons(id, processing) = <<id>>
    BY <1>2, <1>3, Single
  <1> HIDE DEF id
  <1>5. /\ pending' = Front(pending) /\ processing' = <<id>>
        /\ pc'[w] = "load" /\ cur'[w] = id
        /\ UNCHANGED <<store, phase, runs, todo, crashes>>
    BY <1>1, <1>4 DEF Take, id, requests, Working, Typed, TypeOK
  <1>6. Once(processing') /\ \A j : On(processing', j) <=> j = id
    BY <1>2, <1>5, Single
  <1>7. \A j : ~On(processing, j)
    BY <1>2, <1>3, Single
  <1>8. Listed'
    BY <1>2, <1>3, <1>5, <1>6, <1>7 DEF Working, Listed, Stored, Terminal
  <1>9. Unpublished' /\ RunsBounded'
    BY <1>5 DEF Working, Unpublished, RunsBounded
  <1> QED
    BY <1>3, <1>5, <1>8, <1>9 DEF Place, AtWork, Busy

LEMMA BeginWorks ==
  ASSUME Alone, Working, NEW w \in Worker, Load(w) \/ SaveStart(w)
  PROVE  /\ Listed' /\ Unpublished' /\ RunsBounded'
         /\ Place(w)' /\ AtWork(w)'
  <1> DEFINE j == cur[w]
  <1>1. ~RedisFault /\ Place(w) /\ AtWork(w) /\ pc[w] \in {"load", "saveStart"}
    BY NothingFails DEF Working, Load, SaveStart
  <1>2. /\ j \in Request /\ processing = <<j>> /\ todo[w] = <<>> /\ Stored(j)
        /\ store[j] \in Job /\ store[j].status = "queued" /\ pc[w] \in Busy
        /\ runs[j] =< store[j].attempts
    BY <1>1, AtHand DEF AtWork, Busy
  <1>3. CASE Load(w)
    <2>1. UNCHANGED <<pending, processing, store, phase, runs, cur, todo, crashes>>
      BY <1>3 DEF Load, redis, requests
    <2>2. Listed' /\ Unpublished' /\ RunsBounded'
      BY <2>1, SameListed
    <2>3. CASE store[j].attempts >= MaxAttempts
      <3>1. pc'[w] = "save" /\ copy'[w] = Exhausted(store[j])
        BY <1>1, <1>2, <1>3, <2>3 DEF Load, Working, Typed, TypeOK
      <3>2. copy'[w].attempts = store[j].attempts /\ copy'[w].status = "failed"
        BY <1>2, <3>1 DEF Exhausted, Job
      <3>3. ~(store[j].attempts < MaxAttempts)
        BY <1>2, <2>3, Constants DEF Job
      <3> QED
        BY <1>2, <2>1, <2>2, <3>1, <3>2, <3>3 DEF Place, AtWork, Busy
    <2>4. CASE ~(store[j].attempts >= MaxAttempts)
      <3>1. pc'[w] = "saveStart" /\ copy'[w] = Begun(store[j])
        BY <1>1, <1>2, <1>3, <2>4 DEF Load, Working, Typed, TypeOK
      <3> QED
        BY <1>2, <2>1, <2>2, <3>1 DEF Place, AtWork, Busy
    <2> QED
      BY <2>3, <2>4
  <1>4. CASE SaveStart(w)
    <2>1. /\ store' = [store EXCEPT ![j] = Begun(store[j])]
          /\ pc'[w] = "run"
          /\ UNCHANGED <<pending, processing, phase, cur, copy, todo, crashes>>
          /\ copy[w] = Begun(store[j])
      BY <1>1, <1>4 DEF SaveStart, Save, AtWork, requests, Working, Typed, TypeOK
    <2>2. Begun(store[j]).status = "running"
          /\ Begun(store[j]).attempts = store[j].attempts + 1
      BY <1>2 DEF Begun, Job
    <2>3. Listed' /\ Unpublished'
      BY <1>2, <2>1, <2>2, SavedStaysListed
    <2>4. /\ store'[j] = Begun(store[j])
          /\ \A i \in Request : i # j => store'[i] = store[i]
      BY <1>2, <2>1 DEF Working, Typed, TypeOK
    <2>5. RunsBounded'
      <3>1. runs'[j] =< store[j].attempts + 1
        BY <1>2, <1>4, Constants DEF SaveStart, Working, Typed, TypeOK, Job
      <3>2. \A i \in Request : i # j => runs'[i] = runs[i]
        BY <1>2, <1>4 DEF SaveStart, Working, Typed, TypeOK
      <3> QED
        BY <2>2, <2>4, <3>1, <3>2 DEF Working, RunsBounded
    <2> QED
      BY <1>2, <2>1, <2>2, <2>3, <2>4, <2>5 DEF Place, AtWork, Busy
  <1> QED
    BY <1>3, <1>4

LEMMA HandlerWorks ==
  ASSUME Alone, Working, NEW w \in Worker,
         ReportRead(w) \/ ReportWrite(w) \/ Succeed(w) \/ Fail(w)
  PROVE  /\ Listed' /\ Unpublished' /\ RunsBounded'
         /\ Place(w)' /\ AtWork(w)'
  <1> DEFINE j == cur[w]
  <1>1. ~RedisFault /\ Place(w) /\ AtWork(w) /\ pc[w] \in {"run", "report"}
    BY NothingFails DEF Working, ReportRead, ReportWrite, Succeed, Fail
  <1>2. /\ j \in Request /\ processing = <<j>> /\ todo[w] = <<>> /\ Stored(j)
        /\ store[j] \in Job /\ store[j].status = "running" /\ pc[w] \in Busy
        /\ copy[w].attempts = store[j].attempts /\ copy[w] \in Job /\ seen[w] \in Job
    BY <1>1, AtHand DEF AtWork, Busy
  <1>3. UNCHANGED <<pending, processing, phase, runs, cur, todo, crashes>>
    BY DEF ReportRead, ReportWrite, Succeed, Fail, redis, requests, bounds
  <1>4. CASE ReportRead(w)
    <2>1. /\ UNCHANGED <<store, copy>>
          /\ pc'[w] = "report" /\ seen'[w] = store[j]
      BY <1>1, <1>2, <1>4 DEF ReportRead, redis, Working, Typed, TypeOK
    <2>2. Listed' /\ Unpublished' /\ RunsBounded'
      BY <1>3, <2>1, SameListed
    <2> QED
      BY <1>2, <1>3, <2>1, <2>2 DEF Place, AtWork, Busy
  <1>5. CASE ReportWrite(w)
    <2> DEFINE job == [seen[w] EXCEPT !.status = "running"]
    <2>1. job.status = "running" /\ job.attempts = store[j].attempts
      BY <1>1, <1>2, <1>5 DEF AtWork, ReportWrite, Job
    <2>2. /\ store' = [store EXCEPT ![j] = job] /\ UNCHANGED copy
          /\ pc'[w] = "run"
      BY <1>1, <1>5 DEF ReportWrite, Save, Working, Typed, TypeOK
    <2> HIDE DEF job
    <2>3. Listed' /\ Unpublished'
      BY <1>2, <1>3, <2>1, <2>2, SavedStaysListed
    <2>4. /\ store'[j] = job
          /\ \A i \in Request : i # j => store'[i] = store[i]
      BY <1>2, <2>2 DEF Working, Typed, TypeOK
    <2>5. RunsBounded'
      BY <1>2, <1>3, <2>1, <2>4 DEF Working, RunsBounded
    <2> QED
      BY <1>2, <1>3, <2>1, <2>2, <2>3, <2>4, <2>5 DEF Place, AtWork, Busy
  <1>6. CASE Succeed(w)
    <2>1. /\ UNCHANGED store /\ pc'[w] = "save"
          /\ copy'[w].status = "completed" /\ copy'[w].attempts = copy[w].attempts
      BY <1>6 DEF Succeed, redis, Working, Typed, TypeOK, Job
    <2>2. Listed' /\ Unpublished' /\ RunsBounded'
      BY <1>3, <2>1, SameListed
    <2> QED
      BY <1>2, <1>3, <2>1, <2>2 DEF Place, AtWork, Busy
  <1>7. CASE Fail(w)
    <2>1. /\ UNCHANGED store /\ pc'[w] = "save"
          /\ copy'[w].status = IF copy[w].attempts < MaxAttempts THEN "queued" ELSE "failed"
          /\ copy'[w].attempts = copy[w].attempts
      BY <1>7 DEF Fail, redis, Working, Typed, TypeOK, Job
    <2>2. Listed' /\ Unpublished' /\ RunsBounded'
      BY <1>3, <2>1, SameListed
    <2> QED
      BY <1>2, <1>3, <2>1, <2>2 DEF Place, AtWork, Busy
  <1> QED
    BY <1>4, <1>5, <1>6, <1>7

LEMMA OutcomeWorks ==
  ASSUME Alone, Working, NEW w \in Worker,
         SaveOutcome(w) \/ Unlist(w) \/ Requeue(w)
  PROVE  /\ Listed' /\ Unpublished' /\ RunsBounded'
         /\ Place(w)' /\ AtWork(w)'
  <1> DEFINE j == cur[w]
  <1>1. ~RedisFault /\ Place(w) /\ AtWork(w) /\ pc[w] \in {"save", "unlist", "requeue"}
    BY NothingFails DEF Working, SaveOutcome, Unlist, Requeue
  <1>2. /\ j \in Request /\ processing = <<j>> /\ todo[w] = <<>> /\ Stored(j)
        /\ store[j] \in Job /\ pc[w] \in Busy /\ ~On(pending, j)
    BY <1>1, AtHand DEF Busy
  <1>3. UNCHANGED <<phase, runs, todo, crashes>>
    BY DEF SaveOutcome, Unlist, Requeue, Release, requests
  <1>4. CASE SaveOutcome(w)
    <2> DEFINE job == copy[w]
    <2>1. /\ store' = [store EXCEPT ![j] = job]
          /\ UNCHANGED <<pending, processing, cur, copy>>
          /\ pc'[w] = Disposal(job)
      BY <1>1, <1>4 DEF SaveOutcome, Save, Working, Typed, TypeOK
    <2>2. job.status \in {"queued", "completed", "failed"} /\ job.attempts = store[j].attempts
      BY <1>1, <1>4 DEF AtWork, SaveOutcome
    <2> HIDE DEF job
    <2>3. Listed' /\ Unpublished'
      BY <1>2, <1>3, <2>1, <2>2, SavedStaysListed
    <2>4. /\ store'[j] = job
          /\ \A i \in Request : i # j => store'[i] = store[i]
      BY <1>2, <2>1 DEF Working, Typed, TypeOK
    <2>5. RunsBounded'
      BY <1>2, <1>3, <2>2, <2>4 DEF Working, RunsBounded
    <2> QED
      BY <1>2, <1>3, <2>1, <2>2, <2>3, <2>4, <2>5 DEF Place, AtWork, Busy, Disposal, Terminal
  <1>5. CASE Unlist(w)
    <2>1. processing' = <<>> /\ pc'[w] = "idle" /\ UNCHANGED <<pending, store>>
      BY <1>1, <1>2, <1>5, Single DEF Unlist, Release, Resume, Working, Typed, TypeOK
    <2>2. Terminal(j)
      BY <1>1, <1>5 DEF AtWork, Unlist
    <2>3. Once(processing') /\ \A i : (On(processing, i) <=> i = j) /\ ~On(processing', i)
      BY <1>2, <2>1, Single
    <2>4. Listed'
      BY <2>1, <2>2, <2>3 DEF Working, Listed, Stored, Terminal
    <2>5. Unpublished' /\ RunsBounded'
      BY <1>3, <2>1 DEF Working, Unpublished, RunsBounded
    <2> QED
      BY <1>2, <1>3, <2>1, <2>4, <2>5 DEF Place, AtWork, Busy
  <1>6. CASE Requeue(w)
    <2>1. /\ processing' = <<>> /\ pending' = Cons(j, pending) /\ pc'[w] = "idle"
          /\ UNCHANGED store
      BY <1>1, <1>2, <1>6, Single DEF Requeue, Release, Resume, Working, Typed, TypeOK
    <2>2. store[j].status = "queued" /\ pending \in Seq(Request)
      BY <1>1, <1>6 DEF AtWork, Requeue, Working, Typed, TypeOK
    <2>3. Once(processing') /\ \A i : (On(processing, i) <=> i = j) /\ ~On(processing', i)
      BY <1>2, <2>1, Single
    <2>4. Listed'
      BY <1>2, <2>1, <2>2, <2>3, Pushed DEF Working, Listed, Stored, Terminal
    <2>5. Unpublished' /\ RunsBounded'
      BY <1>3, <2>1 DEF Working, Unpublished, RunsBounded
    <2> QED
      BY <1>2, <1>3, <2>1, <2>4, <2>5 DEF Place, AtWork, Busy
  <1> QED
    BY <1>4, <1>5, <1>6

LEMMA StepWorking ==
  ASSUME Alone
  PROVE  Working /\ [Next]_vars => Working'
  <1> SUFFICES ASSUME Working, [Next]_vars PROVE Working'
    OBVIOUS
  <1>1. Typed'
    BY StepTyped DEF Working
  <1>2. CASE \E r \in Request : RequestStep(r)
    BY <1>2, RequestWorks
  <1>3. ASSUME NEW w \in Worker, WorkerStep(w) \/ Crash(w) PROVE Working'
    <2>1. /\ Listed' /\ Unpublished' /\ RunsBounded'
          /\ Place(w)' /\ AtWork(w)'
      BY <1>3, RecoveryWorks, TakeWorks, BeginWorks, HandlerWorks, OutcomeWorks
         DEF WorkerStep
    <2>2. \A v \in Worker : v = w
      BY DEF Alone
    <2> QED
      BY <1>1, <2>1, <2>2 DEF Working
  <1>4. ~((\E k \in Key : IdemExpires(k)) \/ (\E j \in Request : JobExpires(j)))
    BY NothingFails DEF Working, IdemExpires, JobExpires
  <1>5. CASE UNCHANGED vars
    <2>1. UNCHANGED <<workers, crashes>> /\ UNCHANGED redis
      BY <1>5 DEF vars, bounds
    <2>2. Listed' /\ Unpublished' /\ RunsBounded'
      BY <1>5, SameListed DEF vars, redis, requests
    <2>3. \A w \in Worker : Place(w)' /\ AtWork(w)'
      BY <2>1 DEF Working, Place, AtWork, Terminal, workers, redis
    <2> QED
      BY <1>1, <2>2, <2>3 DEF Working
  <1> QED
    BY <1>2, <1>3, <1>4, <1>5 DEF Next

LEMMA AlwaysWorking ==
  ASSUME Alone
  PROVE  Spec => []Working
  BY InitWorking, StepWorking, PTL DEF Spec

\* One gateway whose Redis answers loses no job, doubles none, leaves none
\* behind and starts none too often: for any number of requests and any
\* number of crashes between any two round trips (queue.go, Run, execute and
\* recover).
THEOREM WorkIsSound ==
  ASSUME Alone
  PROVE  Spec => []WorkSound
  <1>1. Working => WorkSound
    <2> SUFFICES ASSUME Working PROVE WorkSound
      OBVIOUS
    <2>1. ASSUME NEW j \in Request
          PROVE  /\ Contains(pending, j) <=> On(pending, j)
                 /\ Contains(processing, j) <=> On(processing, j)
      <3>1. ASSUME NEW s \in Seq(Request) PROVE Contains(s, j) <=> On(s, j)
        BY SMTT(30) DEF Contains, On
      <3> QED
        BY <3>1 DEF Working, Typed, TypeOK
    <2>2. ASSUME NEW s, Once(s), NEW j PROVE \A a, b \in Occurrences(s, j) : a = b
      BY <2>2 DEF Once, Occurrences
    <2>3. ListedOnce
      <3>1. ASSUME NEW j \in Request PROVE ~(Contains(pending, j) /\ Contains(processing, j))
        BY <2>1 DEF Working, Listed
      <3> QED
        BY <2>2, <3>1 DEF Working, Listed, ListedOnce
    <2>4. UnfinishedListed
      <3>1. ASSUME NEW j \in Request, Stored(j), ~Terminal(j)
            PROVE  Contains(pending, j) \/ Contains(processing, j)
        BY <2>1, <3>1 DEF Working, Listed
      <3> QED
        BY <3>1 DEF UnfinishedListed
    <2>5. NothingStranded
      BY DEF Working, Place, NothingStranded
    <2> QED
      BY <2>3, <2>4, <2>5 DEF Working, WorkSound
  <1> QED
    BY <1>1, AlwaysWorking, PTL

\* Who writes a job, and over what: the request that publishes it, and the
\* gateway that is busy with it.
LEMMA WhoWrites ==
  ASSUME Alone, Working, [Next]_vars
  PROVE  \/ UNCHANGED store
         \/ \E r \in Request : store[r] = Absent /\ store' = [store EXCEPT ![r] = NewJob]
         \/ \E w \in Worker, j \in Request, job \in Job :
               /\ store' = [store EXCEPT ![j] = job]
               /\ \/ /\ store[j].status = "queued" /\ store[j].attempts < MaxAttempts
                     /\ job = Begun(store[j])
                  \/ /\ store[j].status = "running"
                     /\ job.status = "running" /\ job.attempts = store[j].attempts
                  \/ /\ pc[w] = "save" /\ cur[w] = j /\ job = copy[w] /\ Stored(j)
  <1>1. ~RedisFault /\ ~Expiry
    BY NothingFails DEF Working
  <1>2. ASSUME NEW r \in Request, Publish(r)
        PROVE  store[r] = Absent /\ store' = [store EXCEPT ![r] = NewJob]
    BY <1>2 DEF Publish, Working, Unpublished
  <1>3. ASSUME NEW w \in Worker, pc[w] \in Busy
        PROVE  /\ cur[w] \in Request /\ Stored(cur[w]) /\ AtWork(w)
               /\ store[cur[w]] \in Job /\ copy[w] \in Job /\ seen[w] \in Job
    BY <1>3, AtHand DEF Working
  <1>4. ASSUME NEW w \in Worker, SaveStart(w)
        PROVE  /\ store[cur[w]].status = "queued" /\ store[cur[w]].attempts < MaxAttempts
               /\ copy[w] = Begun(store[cur[w]])
               /\ cur[w] \in Request /\ copy[w] \in Job
               /\ store' = [store EXCEPT ![cur[w]] = copy[w]]
    <2>1. /\ cur[w] \in Request /\ AtWork(w) /\ copy[w] \in Job /\ store[cur[w]] \in Job
          /\ pc[w] = "saveStart" /\ store' = [store EXCEPT ![cur[w]] = copy[w]]
      BY <1>1, <1>3, <1>4 DEF SaveStart, Save, Busy
    <2>2. store[cur[w]].status = "queued" /\ copy[w] = Begun(store[cur[w]])
      BY <2>1 DEF AtWork
    <2>3. copy[w].attempts = store[cur[w]].attempts + 1
      BY <2>1, <2>2 DEF Begun, Job
    <2> QED
      BY <2>1, <2>2, <2>3, Constants DEF Job
  <1>5. ASSUME NEW w \in Worker, ReportWrite(w)
        PROVE  \E job \in Job :
                 /\ cur[w] \in Request /\ store' = [store EXCEPT ![cur[w]] = job]
                 /\ store[cur[w]].status = "running"
                 /\ job.status = "running" /\ job.attempts = store[cur[w]].attempts
    <2>1. /\ cur[w] \in Request /\ AtWork(w) /\ seen[w] \in Job /\ pc[w] = "report"
          /\ store' = [store EXCEPT ![cur[w]] = [seen[w] EXCEPT !.status = "running"]]
      BY <1>1, <1>3, <1>5 DEF ReportWrite, Save, Busy
    <2>2. /\ store[cur[w]].status = "running"
          /\ seen[w].attempts = store[cur[w]].attempts
      BY <2>1 DEF AtWork
    <2>3. /\ [seen[w] EXCEPT !.status = "running"] \in Job
          /\ [seen[w] EXCEPT !.status = "running"].status = "running"
          /\ [seen[w] EXCEPT !.status = "running"].attempts = seen[w].attempts
      BY <2>1 DEF Job, Status
    <2> QED
      BY <2>1, <2>2, <2>3
  <1>6. ASSUME NEW w \in Worker, SaveOutcome(w)
        PROVE  /\ pc[w] = "save" /\ cur[w] \in Request /\ copy[w] \in Job /\ Stored(cur[w])
               /\ store' = [store EXCEPT ![cur[w]] = copy[w]]
    BY <1>1, <1>3, <1>6 DEF SaveOutcome, Save, Busy
  <1>7. \/ UNCHANGED store
        \/ \E r \in Request : Publish(r)
        \/ \E w \in Worker : SaveStart(w) \/ ReportWrite(w) \/ SaveOutcome(w)
    <2>1. ASSUME NEW r \in Request, RequestStep(r) PROVE Publish(r) \/ UNCHANGED store
      BY <2>1 DEF RequestStep, Lookup, Claim, Reread, Fetch, RequestFails, redis
    <2>2. ASSUME NEW w \in Worker, WorkerStep(w) \/ Crash(w)
          PROVE  SaveStart(w) \/ ReportWrite(w) \/ SaveOutcome(w) \/ UNCHANGED store
      BY <2>2 DEF WorkerStep, Boot, RecoverScan, RecoverNext, Take, Load, ReportRead,
         Succeed, Fail, Unlist, Requeue, Crash, redis
    <2>3. ~((\E k \in Key : IdemExpires(k)) \/ (\E j \in Request : JobExpires(j)))
      BY <1>1 DEF IdemExpires, JobExpires
    <2> QED
      BY <2>1, <2>2, <2>3 DEF Next, vars, redis
  <1> QED
    <2>1. CASE \E r \in Request : Publish(r)
      BY <1>2, <2>1
    <2>2. ASSUME NEW w \in Worker, SaveStart(w) PROVE
             \E j \in Request, job \in Job :
               /\ store' = [store EXCEPT ![j] = job]
               /\ store[j].status = "queued" /\ store[j].attempts < MaxAttempts
               /\ job = Begun(store[j])
      BY <1>4, <2>2
    <2>3. ASSUME NEW w \in Worker, ReportWrite(w) PROVE
             \E j \in Request, job \in Job :
               /\ store' = [store EXCEPT ![j] = job]
               /\ store[j].status = "running"
               /\ job.status = "running" /\ job.attempts = store[j].attempts
      BY <1>5, <2>3
    <2>4. ASSUME NEW w \in Worker, SaveOutcome(w) PROVE
             \E j \in Request, job \in Job :
               /\ store' = [store EXCEPT ![j] = job]
               /\ pc[w] = "save" /\ cur[w] = j /\ job = copy[w] /\ Stored(j)
      BY <1>6, <2>4
    <2> QED
      BY <1>7, <2>1, <2>2, <2>3, <2>4

\* While one gateway works with a Redis that answers, a published outcome is
\* taken back only by its recovery from a crash: no late report, no second
\* execution and no request of a client does it (queue.go, Progress, execute
\* and recover).
THEOREM OutcomesStay ==
  ASSUME Alone
  PROVE  Spec => OutcomeOnlyReopenedByRecovery
  <1> DEFINE Kept == \A j \in Request :
                        (Terminal(j) /\ store'[j] # store[j]) =>
                          \E w \in Worker : pc[w] = "save" /\ cur[w] = j /\ crashes > 0
  <1>1. ASSUME Working, [Next]_vars, NEW i \in Request, Terminal(i), store'[i] # store[i]
        PROVE  \E w \in Worker : pc[w] = "save" /\ cur[w] = i /\ crashes > 0
    <2>1. store \in [Request -> Job] /\ crashes \in Nat
      BY <1>1, Constants DEF Working, Typed, TypeOK
    <2>2. ~(\E r \in Request : store[r] = Absent /\ store' = [store EXCEPT ![r] = NewJob])
      BY <1>1, <2>1 DEF Terminal, Absent
    <2>3. PICK w \in Worker, j \in Request, job \in Job :
               /\ store' = [store EXCEPT ![j] = job]
               /\ \/ store[j].status \in {"queued", "running"}
                  \/ pc[w] = "save" /\ cur[w] = j
      BY <1>1, <2>2, WhoWrites
    <2>4. i = j
      BY <1>1, <2>1, <2>3
    <2>5. pc[w] = "save" /\ cur[w] = i
      BY <1>1, <2>3, <2>4 DEF Terminal
    <2>6. crashes # 0
      BY <1>1, <2>5 DEF Working, AtWork, Terminal
    <2> QED
      BY <2>1, <2>5, <2>6
  <1>2. Working /\ [Next]_vars => [Kept]_vars
    BY <1>1
  <1> QED
    BY <1>2, AlwaysWorking, PTL DEF Spec, OutcomeOnlyReopenedByRecovery

\* What one gateway does with its jobs, lists, keys, retries and recoveries
\* hidden, is the abstract lifecycle: each job is published once, attempted
\* within the limit, completed only while it runs, and given back only to be
\* queued again or, with its attempts used up, to fail (queue.go).
THEOREM QueueImplementsLifecycle ==
  ASSUME Alone
  PROVE  Spec => ImplementsLifecycle
  <1> DEFINE state == [j \in Request |-> store[j].status]
             tries == [j \in Request |-> store[j].attempts]
  <1>1. Init => Lifecycle!Init
    BY DEF Init, Lifecycle!Init, Absent
  <1>2. ASSUME Working, NEW j \in Request, NEW job, store' = [store EXCEPT ![j] = job]
        PROVE  /\ state' = [state EXCEPT ![j] = job.status]
               /\ tries' = [tries EXCEPT ![j] = job.attempts]
    BY <1>2 DEF Working, Typed, TypeOK
  <1>3. ASSUME NEW j \in Request
        PROVE  state[j] = store[j].status /\ tries[j] = store[j].attempts
    OBVIOUS
  <1>4. ASSUME NEW j \in Request, NEW job, job.attempts = store[j].attempts
        PROVE  [tries EXCEPT ![j] = job.attempts] = tries
    BY <1>4
  <1>5. ASSUME NEW j \in Request, NEW job, job.status = store[j].status
        PROVE  [state EXCEPT ![j] = job.status] = state
    BY <1>5
  <1> HIDE DEF state, tries
  <1>6. ASSUME Working, [Next]_vars PROVE [Lifecycle!Next]_<<state, tries>>
    <2>1. CASE UNCHANGED store
      BY <2>1 DEF state, tries
    <2>2. CASE \E r \in Request : store[r] = Absent /\ store' = [store EXCEPT ![r] = NewJob]
      <3>1. PICK r \in Request : store[r] = Absent /\ store' = [store EXCEPT ![r] = NewJob]
        BY <2>2
      <3>2. /\ state' = [state EXCEPT ![r] = NewJob.status]
            /\ tries' = [tries EXCEPT ![r] = NewJob.attempts]
        BY <1>2, <1>6, <3>1
      <3>3. [tries EXCEPT ![r] = NewJob.attempts] = tries
        BY <1>4, <3>1 DEF NewJob, Absent
      <3>4. state[r] = "absent" /\ NewJob.status = "queued"
        BY <1>3, <3>1 DEF NewJob, Absent
      <3>5. Lifecycle!Publish(r)
        BY <3>2, <3>3, <3>4 DEF Lifecycle!Publish, state, tries
      <3> QED
        BY <3>5 DEF Lifecycle!Next
    <2>3. ASSUME NEW j \in Request, NEW job \in Job, store' = [store EXCEPT ![j] = job],
                 store[j].status = "queued", store[j].attempts < MaxAttempts,
                 job = Begun(store[j])
          PROVE  Lifecycle!Next
      <3>1. store[j] \in Job
        BY <1>6 DEF Working, Typed, TypeOK
      <3>2. job.status = "running" /\ job.attempts = store[j].attempts + 1
        BY <2>3, <3>1 DEF Begun, Job
      <3>3. /\ state' = [state EXCEPT ![j] = job.status]
            /\ tries' = [tries EXCEPT ![j] = job.attempts]
        BY <1>2, <1>6, <2>3
      <3>4. Lifecycle!Start(j)
        BY <1>3, <2>3, <3>2, <3>3 DEF Lifecycle!Start, state, tries
      <3> QED
        BY <3>4 DEF Lifecycle!Next
    <2>4. ASSUME NEW j \in Request, NEW job \in Job, store' = [store EXCEPT ![j] = job],
                 job.status = store[j].status, job.attempts = store[j].attempts
          PROVE  UNCHANGED <<state, tries>>
      <3>1. /\ state' = [state EXCEPT ![j] = job.status]
            /\ tries' = [tries EXCEPT ![j] = job.attempts]
        BY <1>2, <1>6, <2>4
      <3> QED
        BY <1>4, <1>5, <2>4, <3>1
    <2>5. ASSUME NEW w \in Worker, NEW j \in Request, NEW job \in Job,
                 store' = [store EXCEPT ![j] = job],
                 pc[w] = "save", cur[w] = j, job = copy[w], Stored(j)
          PROVE  Lifecycle!Next
      <3>1. /\ job.attempts = store[j].attempts
            /\ \/ job.status = "completed" /\ store[j].status = "running"
               \/ job.status = IF store[j].attempts < MaxAttempts THEN "queued" ELSE "failed"
        BY <1>6, <2>5 DEF Working, AtWork
      <3>2. /\ state' = [state EXCEPT ![j] = job.status]
            /\ tries' = [tries EXCEPT ![j] = job.attempts]
        BY <1>2, <1>6, <2>5
      <3>3. state[j] = store[j].status /\ tries[j] = store[j].attempts /\ tries' = tries
        BY <1>3, <1>4, <3>1, <3>2
      <3>4. CASE job.status = "completed" /\ store[j].status = "running"
        <4>1. Lifecycle!Complete(j)
          BY <3>2, <3>3, <3>4 DEF Lifecycle!Complete, state, tries
        <4> QED
          BY <4>1 DEF Lifecycle!Next
      <3>5. CASE job.status = IF store[j].attempts < MaxAttempts THEN "queued" ELSE "failed"
        <4>1. state[j] # "absent"
          BY <2>5, <3>3 DEF Stored
        <4>2. Lifecycle!GiveBack(j)
          BY <3>2, <3>3, <3>5, <4>1 DEF Lifecycle!GiveBack, state, tries
        <4> QED
          BY <4>2 DEF Lifecycle!Next
      <3> QED
        BY <3>1, <3>4, <3>5
    <2> QED
      BY <1>6, WhoWrites, <2>1, <2>2, <2>3, <2>4, <2>5
  <1>7. Working /\ [Next]_vars => [Lifecycle!Next]_<<state, tries>>
    BY <1>6
  <1> USE DEF state, tries
  <1> QED
    BY <1>1, <1>7, AlwaysWorking, PTL DEF Spec, ImplementsLifecycle, Lifecycle!Spec
=============================================================================
