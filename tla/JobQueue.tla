------------------------------ MODULE JobQueue ------------------------------
(***************************************************************************)
(* The Redis evaluation queue of the gateway                               *)
(* (backend-msa/gateway/modules/jobs/queue.go), the HTTP requests that     *)
(* enqueue into it and the worker goroutine of each gateway process that   *)
(* drains it.  One action is one Redis round trip: everything between two  *)
(* round trips is local to a goroutine and nobody can see it.              *)
(*                                                                         *)
(* The id of a job is a fresh UUID made by the request that publishes it,  *)
(* so a request and the job it may publish share one name: Request.        *)
(***************************************************************************)
EXTENDS Naturals, SequencesExt

CONSTANTS
    Request,      \* POST /api/evaluation-jobs calls, and the ids of their jobs
    Key,          \* idempotency keys
    Owner,        \* authenticated subjects
    Worker,       \* worker goroutines, one in each gateway process
    None,         \* "no id"
    MaxAttempts,  \* the field of Job, 3 in the code
    Reports,      \* progress reports of one execution, 5 in the code
    MaxCrashes,   \* bound on the gateway crashes of a behaviour
    MaxFaults,    \* bound on the failed Redis calls of the workers
    MaxExpiries   \* bound on the Redis keys that reach their time to live

ASSUME Constants ==
    /\ MaxAttempts \in Nat \ {0}
    /\ Reports \in Nat
    /\ MaxCrashes \in Nat
    /\ MaxFaults \in Nat
    /\ MaxExpiries \in Nat
    /\ None \notin Request

VARIABLES
    (* Redis *)
    pending,     \* list of ids, LPUSH at the left end, taken from the right
    processing,  \* list of the ids some worker has taken
    store,       \* the job hash: what is saved of each job
    idem,        \* the idempotency keys
    (* HTTP requests *)
    ask,         \* the key and the owner of each request
    phase,       \* the next step of each request, or its outcome
    found,       \* the id the request has read under its key, or created
    (* workers *)
    pc,          \* the next step of each worker
    cur,         \* the id the worker is busy with
    copy,        \* its local variable j, the job as it last decided to save it
    seen,        \* the job as Progress last read it
    reports,     \* progress reports made by the running execution
    todo,        \* the ids recover still has to look at
    (* environment bounds, and history variables *)
    crashes, faults, expiries,
    runs,        \* executions started for each job, saturated above the limit
    together     \* were two gateways up at the same time?

redis == <<pending, processing, store, idem>>
requests == <<ask, phase, found>>
workers == <<pc, cur, copy, seen, reports, todo>>
bounds == <<crashes, faults, expiries>>
vars == <<redis, requests, workers, bounds, runs, together>>

Status == {"absent", "queued", "running", "completed", "failed"}
Job == [status : Status, attempts : 0..MaxAttempts, report : BOOLEAN]
Absent == [status |-> "absent", attempts |-> 0, report |-> FALSE]
NewJob == [status |-> "queued", attempts |-> 0, report |-> FALSE]

Stored(j) == store[j].status # "absent"
Terminal(j) == store[j].status \in {"completed", "failed"}

Phase == {"lookup", "claim", "publish", "reread", "fetch", "ok", "error"}
Pc == {"down", "scan", "recover", "idle", "load", "saveStart", "run",
       "report", "save", "unlist", "requeue"}

Init ==
    /\ pending = <<>> /\ processing = <<>>
    /\ store = [j \in Request |-> Absent]
    /\ idem = [k \in Key |-> None]
    /\ ask \in [Request -> [key : Key, owner : Owner]]
    /\ phase = [r \in Request |-> "lookup"]
    /\ found = [r \in Request |-> None]
    /\ pc = [w \in Worker |-> "down"]
    /\ cur = [w \in Worker |-> None]
    /\ copy = [w \in Worker |-> Absent]
    /\ seen = [w \in Worker |-> Absent]
    /\ reports = [w \in Worker |-> 0]
    /\ todo = [w \in Worker |-> <<>>]
    /\ crashes = 0 /\ faults = 0 /\ expiries = 0
    /\ runs = [j \in Request |-> 0]
    /\ together = FALSE

-----------------------------------------------------------------------------
(* Enqueue, step by step.                                                  *)

\* The GET of the idempotency key: a hit goes on to read the job it names.
Lookup(r) ==
    LET id == idem[ask[r].key] IN
    /\ phase[r] = "lookup"
    /\ phase' = [phase EXCEPT ![r] = IF id = None THEN "claim" ELSE "fetch"]
    /\ found' = [found EXCEPT ![r] = id]
    /\ UNCHANGED <<ask, redis, workers, bounds, runs, together>>

Claim_Overwrite(r) ==
    /\ phase[r] = "claim"
    /\ idem' = [idem EXCEPT ![ask[r].key] = r]
    /\ phase' = [phase EXCEPT ![r] = "publish"]
    /\ found' = [found EXCEPT ![r] = r]
    /\ UNCHANGED <<ask, pending, processing, store, workers, bounds, runs, together>>

\* SETNX: exactly one request can own an unset key.
Claim(r) ==
    /\ phase[r] = "claim"
    /\ IF idem[ask[r].key] = None
       THEN /\ idem' = [idem EXCEPT ![ask[r].key] = r]
            /\ phase' = [phase EXCEPT ![r] = "publish"]
            /\ found' = [found EXCEPT ![r] = r]
       ELSE /\ phase' = [phase EXCEPT ![r] = "reread"]
            /\ UNCHANGED <<idem, found>>
    /\ UNCHANGED <<ask, pending, processing, store, workers, bounds, runs, together>>

\* The loser of SETNX reads who won; the key may have expired meanwhile.
Reread(r) ==
    LET id == idem[ask[r].key] IN
    /\ phase[r] = "reread"
    /\ phase' = [phase EXCEPT ![r] = IF id = None THEN "error" ELSE "fetch"]
    /\ found' = [found EXCEPT ![r] = id]
    /\ UNCHANGED <<ask, redis, workers, bounds, runs, together>>

Fetch_AnyOwner(r) ==
    /\ phase[r] = "fetch"
    /\ phase' = [phase EXCEPT ![r] = IF Stored(found[r]) THEN "ok" ELSE "error"]
    /\ UNCHANGED <<ask, found, redis, workers, bounds, runs, together>>

\* Get with an owner: the job must be there and belong to the caller.
Fetch(r) ==
    LET mine == ask[found[r]].owner = ask[r].owner IN
    /\ phase[r] = "fetch"
    /\ phase' = [phase EXCEPT ![r] =
                    IF Stored(found[r]) /\ mine THEN "ok" ELSE "error"]
    /\ UNCHANGED <<ask, found, redis, workers, bounds, runs, together>>

\* The MULTI of SET and LPUSH that makes the job exist, even when its reply
\* is lost on the way back.
Publish(r) ==
    /\ phase[r] = "publish"
    /\ store' = [store EXCEPT ![r] = NewJob]
    /\ pending' = Cons(r, pending)
    /\ \E reply \in {"ok", "error"} : phase' = [phase EXCEPT ![r] = reply]
    /\ UNCHANGED <<ask, found, processing, idem, workers, bounds, runs, together>>

\* Between any two round trips the client may hang up (Enqueue runs under the
\* context of the request), Redis may fail or the gateway may die.
RequestFails(r) ==
    /\ phase[r] \notin {"ok", "error"}
    /\ phase' = [phase EXCEPT ![r] = "error"]
    /\ UNCHANGED <<ask, found, redis, workers, bounds, runs, together>>

-----------------------------------------------------------------------------
(* Calls to Redis whose errors the worker ignores.                         *)

RedisFault == faults < MaxFaults /\ faults' = faults + 1

\* save: the write happens, or its error is dropped.
Save(j, job) ==
    \/ store' = [store EXCEPT ![j] = job] /\ UNCHANGED faults
    \/ RedisFault /\ UNCHANGED store

\* Recover's loop returns to its next id, or to the main loop after the last.
Resume(rest) == IF rest = <<>> THEN "idle" ELSE "recover"

\* The end of execute, or of one round of recover: the locals are dead.
Release(w) ==
    /\ pc' = [pc EXCEPT ![w] = Resume(todo[w])]
    /\ cur' = [cur EXCEPT ![w] = None]
    /\ copy' = [copy EXCEPT ![w] = Absent]
    /\ UNCHANGED <<seen, reports, todo>>

Disposal_Always(job) == "requeue"

\* Where a saved outcome goes: back to pending, or out of the queue.
Disposal(job) == IF job.status = "queued" THEN "requeue" ELSE "unlist"

-----------------------------------------------------------------------------
(* Run: recovery at the start of a gateway.                                *)

Boot(w) ==
    /\ pc[w] = "down"
    /\ pc' = [pc EXCEPT ![w] = "scan"]
    /\ together' = IF \A v \in Worker \ {w} : pc[v] = "down" THEN together ELSE TRUE
    /\ UNCHANGED <<redis, requests, cur, copy, seen, reports, todo, bounds, runs>>

\* LRANGE of the processing list; recover gives up when it fails.
RecoverScan(w) ==
    /\ pc[w] = "scan"
    /\ \/ /\ todo' = [todo EXCEPT ![w] = processing]
          /\ pc' = [pc EXCEPT ![w] = Resume(processing)]
          /\ UNCHANGED faults
       \/ /\ RedisFault
          /\ pc' = [pc EXCEPT ![w] = "idle"]
          /\ UNCHANGED todo
    /\ UNCHANGED <<redis, requests, cur, copy, seen, reports, crashes,
                   expiries, runs, together>>

Interrupted_NoLimit(job) == [job EXCEPT !.status = "queued"]

Interrupted_Counts(job) ==
    [job EXCEPT !.status = IF job.attempts >= MaxAttempts THEN "failed"
                                                          ELSE "queued",
                !.attempts = @ + 1]

\* What recover makes of a job: whatever its status was, it goes back to
\* queued, or to failed when its attempts are used up.
Interrupted(job) ==
    [job EXCEPT !.status = IF job.attempts >= MaxAttempts THEN "failed"
                                                          ELSE "queued"]

RecoverNext_SkipFinished(w) ==
    LET id == Head(todo[w]) IN
    /\ pc[w] = "recover"
    /\ todo' = [todo EXCEPT ![w] = Tail(@)]
    /\ IF Stored(id) /\ ~Terminal(id)
       THEN /\ cur' = [cur EXCEPT ![w] = id]
            /\ copy' = [copy EXCEPT ![w] = Interrupted(store[id])]
            /\ pc' = [pc EXCEPT ![w] = "save"]
       ELSE /\ pc' = [pc EXCEPT ![w] = Resume(Tail(todo[w]))]
            /\ UNCHANGED <<cur, copy>>
    /\ UNCHANGED <<redis, requests, seen, reports, bounds, runs, together>>

\* A job that cannot be read is left where it is.
RecoverNext(w) ==
    LET id == Head(todo[w]) IN
    /\ pc[w] = "recover"
    /\ todo' = [todo EXCEPT ![w] = Tail(@)]
    /\ \/ /\ Stored(id)
          /\ cur' = [cur EXCEPT ![w] = id]
          /\ copy' = [copy EXCEPT ![w] = Interrupted(store[id])]
          /\ pc' = [pc EXCEPT ![w] = "save"]
          /\ UNCHANGED faults
       \/ /\ IF Stored(id) THEN RedisFault ELSE UNCHANGED faults
          /\ pc' = [pc EXCEPT ![w] = Resume(Tail(todo[w]))]
          /\ UNCHANGED <<cur, copy>>
    /\ UNCHANGED <<redis, requests, seen, reports, crashes, expiries, runs, together>>

-----------------------------------------------------------------------------
(* Run and execute: one job from pending to its outcome.                   *)

Take_Pop(w) ==
    /\ pc[w] = "idle" /\ pending # <<>>
    /\ pending' = Front(pending)
    /\ pc' = [pc EXCEPT ![w] = "load"]
    /\ cur' = [cur EXCEPT ![w] = Last(pending)]
    /\ UNCHANGED <<processing, store, idem, requests, copy, seen, reports,
                   todo, bounds, runs, together>>

\* BLMOVE from the right end of pending to the left end of processing.  When
\* the reply is lost the move has happened and the worker does not know.
Take(w) ==
    /\ pc[w] = "idle" /\ pending # <<>>
    /\ pending' = Front(pending)
    /\ processing' = Cons(Last(pending), processing)
    /\ \/ /\ pc' = [pc EXCEPT ![w] = "load"]
          /\ cur' = [cur EXCEPT ![w] = Last(pending)]
          /\ UNCHANGED faults
       \/ RedisFault /\ UNCHANGED <<pc, cur>>
    /\ UNCHANGED <<store, idem, requests, copy, seen, reports, todo, crashes,
                   expiries, runs, together>>

Begun(job) == [job EXCEPT !.status = "running", !.attempts = @ + 1]
Exhausted(job) == [job EXCEPT !.status = "failed"]

Load_NoLimit(w) ==
    /\ pc[w] = "load"
    /\ copy' = [copy EXCEPT ![w] = Begun(store[cur[w]])]
    /\ pc' = [pc EXCEPT ![w] = "saveStart"]
    /\ UNCHANGED <<redis, requests, cur, seen, reports, todo, bounds, runs, together>>

\* GET of the job.  Any error, a missing job or a failed call, takes the id
\* off the processing list.
Load(w) ==
    /\ pc[w] = "load"
    /\ \/ /\ Stored(cur[w])
          /\ IF store[cur[w]].attempts >= MaxAttempts
             THEN /\ copy' = [copy EXCEPT ![w] = Exhausted(store[cur[w]])]
                  /\ pc' = [pc EXCEPT ![w] = "save"]
             ELSE /\ copy' = [copy EXCEPT ![w] = Begun(store[cur[w]])]
                  /\ pc' = [pc EXCEPT ![w] = "saveStart"]
          /\ UNCHANGED faults
       \/ /\ IF Stored(cur[w]) THEN RedisFault ELSE UNCHANGED faults
          /\ pc' = [pc EXCEPT ![w] = "unlist"]
          /\ UNCHANGED copy
    /\ UNCHANGED <<redis, requests, cur, seen, reports, todo, crashes,
                   expiries, runs, together>>

SaveStart_Unsaved(w) ==
    /\ pc[w] = "saveStart"
    /\ pc' = [pc EXCEPT ![w] = "run"]
    /\ reports' = [reports EXCEPT ![w] = 0]
    /\ runs' = [runs EXCEPT ![cur[w]] = IF @ > MaxAttempts THEN @ ELSE @ + 1]
    /\ UNCHANGED <<redis, requests, cur, copy, seen, todo, bounds, together>>

\* The attempt is recorded before the handler starts.
SaveStart(w) ==
    /\ pc[w] = "saveStart"
    /\ Save(cur[w], copy[w])
    /\ pc' = [pc EXCEPT ![w] = "run"]
    /\ reports' = [reports EXCEPT ![w] = 0]
    /\ runs' = [runs EXCEPT ![cur[w]] = IF @ > MaxAttempts THEN @ ELSE @ + 1]
    /\ UNCHANGED <<pending, processing, idem, requests, cur, copy, seen, todo,
                   crashes, expiries, together>>

\* Progress reads the job and later writes it back with its status set to
\* running: two round trips.  Its errors are ignored by the handler.
ReportRead(w) ==
    /\ pc[w] = "run" /\ reports[w] < Reports
    /\ reports' = [reports EXCEPT ![w] = @ + 1]
    /\ \/ /\ Stored(cur[w])
          /\ seen' = [seen EXCEPT ![w] = store[cur[w]]]
          /\ pc' = [pc EXCEPT ![w] = "report"]
          /\ UNCHANGED faults
       \/ /\ IF Stored(cur[w]) THEN RedisFault ELSE UNCHANGED faults
          /\ UNCHANGED <<seen, pc>>
    /\ UNCHANGED <<redis, requests, cur, copy, todo, crashes, expiries, runs, together>>

ReportWrite(w) ==
    /\ pc[w] = "report"
    /\ Save(cur[w], [seen[w] EXCEPT !.status = "running"])
    /\ seen' = [seen EXCEPT ![w] = Absent]
    /\ pc' = [pc EXCEPT ![w] = "run"]
    /\ UNCHANGED <<pending, processing, idem, requests, cur, copy, reports,
                   todo, crashes, expiries, runs, together>>

\* The handler returns a report id: it has made all its progress reports.
Succeed(w) ==
    /\ pc[w] = "run" /\ reports[w] = Reports
    /\ copy' = [copy EXCEPT ![w].status = "completed", ![w].report = TRUE]
    /\ pc' = [pc EXCEPT ![w] = "save"]
    /\ UNCHANGED <<redis, requests, cur, seen, reports, todo, bounds, runs, together>>

\* The handler returns an error, at any point of the pipeline.
Fail(w) ==
    /\ pc[w] = "run"
    /\ copy' = [copy EXCEPT ![w].status =
                   IF copy[w].attempts < MaxAttempts THEN "queued" ELSE "failed"]
    /\ pc' = [pc EXCEPT ![w] = "save"]
    /\ UNCHANGED <<redis, requests, cur, seen, reports, todo, bounds, runs, together>>

\* Save of the outcome, of execute and of recover alike.
SaveOutcome(w) ==
    /\ pc[w] = "save"
    /\ Save(cur[w], copy[w])
    /\ pc' = [pc EXCEPT ![w] = Disposal(copy[w])]
    /\ UNCHANGED <<pending, processing, idem, requests, cur, copy, seen,
                   reports, todo, crashes, expiries, runs, together>>

\* LREM count 1: the leftmost occurrence leaves the processing list.
Unlist(w) ==
    /\ pc[w] = "unlist"
    /\ \/ processing' = RemoveFirst(processing, cur[w]) /\ UNCHANGED faults
       \/ RedisFault /\ UNCHANGED processing
    /\ Release(w)
    /\ UNCHANGED <<pending, store, idem, requests, crashes, expiries, runs, together>>

Requeue_PushOnly(w) ==
    /\ pc[w] = "requeue"
    /\ pending' = Cons(cur[w], pending)
    /\ Release(w)
    /\ UNCHANGED <<processing, store, idem, requests, bounds, runs, together>>

Requeue_TwoCalls(w) ==
    /\ pc[w] = "requeue"
    /\ pending' = Cons(cur[w], pending)
    /\ \/ processing' = RemoveFirst(processing, cur[w]) /\ UNCHANGED faults
       \/ RedisFault /\ UNCHANGED processing
    /\ Release(w)
    /\ UNCHANGED <<store, idem, requests, crashes, expiries, runs, together>>

\* The MULTI of LREM and LPUSH.
Requeue(w) ==
    /\ pc[w] = "requeue"
    /\ \/ /\ processing' = RemoveFirst(processing, cur[w])
          /\ pending' = Cons(cur[w], pending)
          /\ UNCHANGED faults
       \/ RedisFault /\ UNCHANGED <<processing, pending>>
    /\ Release(w)
    /\ UNCHANGED <<store, idem, requests, crashes, expiries, runs, together>>

-----------------------------------------------------------------------------
(* The environment.                                                        *)

\* A gateway process dies: its locals are gone, Redis keeps what it has.
Crash(w) ==
    /\ pc[w] # "down" /\ crashes < MaxCrashes
    /\ crashes' = crashes + 1
    /\ pc' = [pc EXCEPT ![w] = "down"]
    /\ cur' = [cur EXCEPT ![w] = None]
    /\ copy' = [copy EXCEPT ![w] = Absent]
    /\ seen' = [seen EXCEPT ![w] = Absent]
    /\ todo' = [todo EXCEPT ![w] = <<>>]
    /\ reports' = [reports EXCEPT ![w] = 0]
    /\ UNCHANGED <<redis, requests, faults, expiries, runs, together>>

Expiry == expiries < MaxExpiries /\ expiries' = expiries + 1

\* The idempotency key lives for a day, a job for a week after its last save.
IdemExpires(k) ==
    /\ idem[k] # None /\ Expiry
    /\ idem' = [idem EXCEPT ![k] = None]
    /\ UNCHANGED <<pending, processing, store, requests, workers, crashes,
                   faults, runs, together>>

JobExpires(j) ==
    /\ Stored(j) /\ Expiry
    /\ store' = [store EXCEPT ![j] = Absent]
    /\ UNCHANGED <<pending, processing, idem, requests, workers, crashes,
                   faults, runs, together>>

-----------------------------------------------------------------------------
RequestStep(r) ==
    \/ Lookup(r) \/ Claim(r) \/ Reread(r) \/ Fetch(r) \/ Publish(r)
    \/ RequestFails(r)

WorkerStep(w) ==
    \/ Boot(w) \/ RecoverScan(w) \/ RecoverNext(w)
    \/ Take(w) \/ Load(w) \/ SaveStart(w)
    \/ ReportRead(w) \/ ReportWrite(w) \/ Succeed(w) \/ Fail(w)
    \/ SaveOutcome(w) \/ Unlist(w) \/ Requeue(w)

Next ==
    \/ \E r \in Request : RequestStep(r)
    \/ \E w \in Worker : WorkerStep(w) \/ Crash(w)
    \/ \E k \in Key : IdemExpires(k)
    \/ \E j \in Request : JobExpires(j)

Spec == Init /\ [][Next]_vars

\* Every worker keeps taking steps, a crashed gateway is started again, and
\* the handler returns.  Nothing is assumed of the clients.
Fairness == \A w \in Worker : WF_vars(WorkerStep(w))

FairSpec == Spec /\ Fairness

-----------------------------------------------------------------------------
(* Invariants.                                                             *)

\* The types of the state, and the attempt limit: no execution and no
\* recovery ever records more than MaxAttempts attempts of a job.
TypeOK ==
    /\ pending \in Seq(Request) /\ processing \in Seq(Request)
    /\ store \in [Request -> Job]
    /\ idem \in [Key -> Request \cup {None}]
    /\ ask \in [Request -> [key : Key, owner : Owner]]
    /\ phase \in [Request -> Phase]
    /\ found \in [Request -> Request \cup {None}]
    /\ pc \in [Worker -> Pc]
    /\ cur \in [Worker -> Request \cup {None}]
    /\ copy \in [Worker -> Job]
    /\ seen \in [Worker -> Job]
    /\ reports \in [Worker -> 0..Reports]
    /\ todo \in [Worker -> Seq(Request)]
    /\ crashes \in 0..MaxCrashes
    /\ faults \in 0..MaxFaults
    /\ expiries \in 0..MaxExpiries
    /\ runs \in [Request -> 0..MaxAttempts + 1]
    /\ together \in BOOLEAN

\* Enqueue is idempotent under concurrency: while no key has expired, two
\* requests with the same idempotency key never create two jobs, whichever
\* way their GET, SETNX and MULTI interleave (queue.go, Enqueue).
OneJobPerKey ==
    expiries = 0 =>
        \A r1, r2 \in Request :
            /\ Stored(r1) /\ Stored(r2) /\ ask[r1].key = ask[r2].key
            => r1 = r2

\* An accepted request is answered with one job for its key, its own or an
\* earlier one of the same owner: nobody is ever given the job of another
\* subject (queue.go, Enqueue and Get).
AnswersOwnJob ==
    \A r \in Request :
        phase[r] = "ok" => found[r] # None /\ ask[found[r]] = ask[r]

Occurrences(s, j) == {i \in DOMAIN s : s[i] = j}

\* With one gateway and a Redis that answers, a job is on the queue lists at
\* most once, so it is never executed twice at the same time.
ListedOnce ==
    \A j \in Request :
        /\ \A a, b \in Occurrences(pending, j) : a = b
        /\ \A a, b \in Occurrences(processing, j) : a = b
        /\ ~(Contains(pending, j) /\ Contains(processing, j))

\* With one gateway and a Redis that answers, no crash loses a job: one whose
\* outcome is not saved stays on a list that a worker or recover reads.
UnfinishedListed ==
    \A j \in Request :
        Stored(j) /\ ~Terminal(j) =>
            Contains(pending, j) \/ Contains(processing, j)

\* With one gateway, a worker that waits for work has left nothing behind on
\* the processing list: what a crash interrupted has been taken up again.
NothingStranded ==
    \A w \in Worker : pc[w] = "idle" => processing = <<>>

\* Crashes included, the handler of a job is never started more often than
\* the limit allows, because an attempt is saved before it begins.
RunsBounded == \A j \in Request : runs[j] <= store[j].attempts

\* With one gateway and a Redis that answers, crashes lose no job, double
\* none, leave none behind and let none run too often (queue.go, Run, execute
\* and recover).
WorkSound == ListedOnce /\ UnfinishedListed /\ NothingStranded /\ RunsBounded

\* Jobs without an outcome on no list: nothing will ever run them.
Lost == {j \in Request :
            /\ Stored(j) /\ ~Terminal(j)
            /\ ~Contains(pending, j) /\ ~Contains(processing, j)}

\* While gateways follow each other, an error the worker ignores (of GET, SET,
\* LREM, LPUSH or BLMOVE in Run, execute and recover) or a record that expires
\* costs one job at most: each lost job and each id left behind on the
\* processing list has a cause of its own, no job is ever listed twice, and an
\* attempt that is not counted has its error too.
ErrorsContained ==
    ~together =>
        /\ ListedOnce
        /\ \A w \in Worker : pc[w] = "idle" =>
              Len(processing) + Cardinality(Lost) <= faults + expiries
        /\ \A j \in Request : Stored(j) => runs[j] <= store[j].attempts + faults

(* Action properties.                                                      *)

\* A published outcome is taken back only by a gateway that recovers from a
\* crash: no execution, report or second request of a client does it.
OutcomeOnlyReopenedByRecovery ==
    [][\A j \in Request :
         Terminal(j) /\ store'[j] # store[j] =>
            \E w \in Worker : pc[w] = "save" /\ cur[w] = j /\ crashes > 0]_vars

(* Liveness.                                                               *)

\* Crashes end and handlers return, so every stored job reaches an outcome
\* and keeps it for good.
EveryJobSettles == \A j \in Request : Stored(j) ~> [](Terminal(j))

-----------------------------------------------------------------------------
(* The queue implements the abstract lifecycle of its jobs.                *)

Lifecycle == INSTANCE JobLifecycle WITH
    Jobs <- Request,
    state <- [j \in Request |-> store[j].status],
    tries <- [j \in Request |-> store[j].attempts]

ImplementsLifecycle == Lifecycle!Spec
=============================================================================
