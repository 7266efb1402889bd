--------------------------- MODULE ProjectMembers ---------------------------
(***************************************************************************)
(* One project and its members, as PostgreSQLStore keeps them              *)
(* (backend-msa/project/domains/project/repository.go).  Projects share no *)
(* rows, so one is enough.  A call is one RPC; its transaction runs under  *)
(* READ COMMITTED and one action is one SQL statement of it.  A row is     *)
(* locked from the statement that locks or writes it until the end of the  *)
(* transaction, and a write is visible to others from its commit.          *)
(***************************************************************************)
EXTENDS Naturals, FiniteSets

CONSTANTS
    Subject,  \* authenticated subjects
    Call,     \* RPCs, each made at most once
    None      \* "no call"

ASSUME Constants == Subject # {} /\ None \notin Call

VARIABLES
    created,  \* the project exists
    role,     \* the committed rows of project_members, "none" for no row
    name,     \* the call that last renamed the project
    lock,     \* the transaction that holds the row of a member
    pc,       \* the next statement of a call, or its outcome
    args,     \* actor, subject and role of a call
    overlap   \* history: two owners were stepping down at the same time

vars == <<created, role, name, lock, pc, args, overlap>>

Role == {"owner", "editor", "viewer"}
Valid_Unchecked(r) == TRUE
Valid(r) == r \in Role
CanEdit(r) == r \in {"owner", "editor"}
CanManageMembers_Editor(r) == r \in {"owner", "editor"}
CanManageMembers(r) == r = "owner"

\* The role of a request may be one the service has no name for.
Args == [actor : Subject, subject : Subject, role : Role \cup {"unspecified"}]
NoArgs == CHOOSE a \in Args : TRUE
Outcome == {"ok", "invalid", "forbidden", "lastOwner", "aborted"}
Pc == {"new", "select", "count", "upsert", "commit", "readRole", "update"}
          \cup Outcome

Owners == {s \in Subject : role[s] = "owner"}

\* An owner gives up ownership: the case SetMemberRole counts the owners for.
StepsDown(c) == args[c].actor = args[c].subject /\ args[c].role # "owner"

Init ==
    /\ created = FALSE
    /\ role = [s \in Subject |-> "none"]
    /\ name = None
    /\ lock = [s \in Subject |-> None]
    /\ pc = [c \in Call |-> "new"]
    /\ args = [c \in Call |-> NoArgs]
    /\ overlap = FALSE

-----------------------------------------------------------------------------
\* Create: the project and its owner are inserted in one transaction.
Create(s) ==
    /\ ~created
    /\ created' = TRUE
    /\ role' = [role EXCEPT ![s] = "owner"]
    /\ UNCHANGED <<name, lock, pc, args, overlap>>

Finish_KeepLocks(c, outcome) ==
    /\ pc' = [pc EXCEPT ![c] = outcome]
    /\ args' = [args EXCEPT ![c] = NoArgs]
    /\ UNCHANGED lock

\* The end of a call: COMMIT or ROLLBACK releases what its transaction holds,
\* and the arguments are dead.
Finish(c, outcome) ==
    /\ pc' = [pc EXCEPT ![c] = outcome]
    /\ args' = [args EXCEPT ![c] = NoArgs]
    /\ lock' = [s \in Subject |-> IF lock[s] = c THEN None ELSE lock[s]]

\* SetMemberRole arrives: anyone may name any member and role.
BeginSetMemberRole(c, a) ==
    /\ created /\ pc[c] = "new"
    /\ IF Valid(a.role)
       THEN /\ args' = [args EXCEPT ![c] = a]
            /\ pc' = [pc EXCEPT ![c] = "select"]
            /\ UNCHANGED lock
       ELSE Finish(c, "invalid")
    /\ UNCHANGED <<created, role, name, overlap>>

\* Update or UpdateOutputLanguage arrives.
BeginUpdate(c, s) ==
    /\ created /\ pc[c] = "new"
    /\ args' = [args EXCEPT ![c] = [NoArgs EXCEPT !.actor = s]]
    /\ pc' = [pc EXCEPT ![c] = "readRole"]
    /\ UNCHANGED <<created, role, name, lock, overlap>>

Available(c, s) == lock[s] \in {None, c}

SelectActor_Unlocked(c) ==
    LET a == args[c].actor IN
    /\ pc[c] = "select"
    /\ pc' = [pc EXCEPT ![c] =
                 IF ~CanManageMembers(role[a]) THEN "forbidden"
                 ELSE IF StepsDown(c) THEN "count" ELSE "upsert"]
    /\ UNCHANGED <<created, role, name, lock, args, overlap>>

\* SELECT role ... FOR UPDATE of the actor's own row.  Without a row there is
\* nothing to lock; otherwise the statement waits for the row.
SelectActor(c) ==
    LET a == args[c].actor IN
    /\ pc[c] = "select"
    /\ \/ /\ role[a] = "none"
          /\ Finish(c, "forbidden")
       \/ /\ role[a] # "none" /\ Available(c, a)
          /\ IF CanManageMembers(role[a])
             THEN /\ lock' = [lock EXCEPT ![a] = c]
                  /\ pc' = [pc EXCEPT ![c] =
                               IF StepsDown(c) THEN "count" ELSE "upsert"]
                  /\ UNCHANGED args
             ELSE Finish(c, "forbidden")
    /\ UNCHANGED <<created, role, name, overlap>>

CountOwners_Skipped(c) ==
    /\ pc[c] = "count"
    /\ pc' = [pc EXCEPT ![c] = "upsert"]
    /\ UNCHANGED <<created, role, name, lock, args, overlap>>

\* SELECT COUNT(*) of the owners: it locks nothing and sees what is committed.
CountOwners(c) ==
    /\ pc[c] = "count"
    /\ IF Cardinality(Owners) = 1
       THEN Finish(c, "lastOwner") /\ UNCHANGED overlap
       ELSE /\ pc' = [pc EXCEPT ![c] = "upsert"]
            /\ overlap' = (overlap \/ \E d \in Call \ {c} :
                              StepsDown(d) /\ pc[d] \in {"upsert", "commit"})
            /\ UNCHANGED <<lock, args>>
    /\ UNCHANGED <<created, role, name>>

\* INSERT ... ON CONFLICT DO UPDATE: waits for the row of the subject.
Upsert(c) ==
    /\ pc[c] = "upsert" /\ Available(c, args[c].subject)
    /\ lock' = [lock EXCEPT ![args[c].subject] = c]
    /\ pc' = [pc EXCEPT ![c] = "commit"]
    /\ UNCHANGED <<created, role, name, args, overlap>>

Commit(c) ==
    /\ pc[c] = "commit"
    /\ role' = [role EXCEPT ![args[c].subject] = args[c].role]
    /\ Finish(c, "ok")
    /\ UNCHANGED <<created, name, overlap>>

\* Update and UpdateOutputLanguage: a role check and a write, each a
\* transaction of its own.
ReadRole(c) ==
    /\ pc[c] = "readRole"
    /\ IF CanEdit(role[args[c].actor])
       THEN pc' = [pc EXCEPT ![c] = "update"] /\ UNCHANGED <<lock, args>>
       ELSE Finish(c, "forbidden")
    /\ UNCHANGED <<created, role, name, overlap>>

UpdateProject(c) ==
    /\ pc[c] = "update"
    /\ name' = c
    /\ Finish(c, "ok")
    /\ UNCHANGED <<created, role, overlap>>

-----------------------------------------------------------------------------
(* What PostgreSQL and the network add.                                    *)

\* The client goes away or the connection breaks: the deferred Rollback.
Abort(c) ==
    /\ pc[c] \in {"select", "count", "upsert", "commit", "readRole", "update"}
    /\ Finish(c, "aborted")
    /\ UNCHANGED <<created, role, name, overlap>>

\* c waits for a row that d holds.
WaitsFor(c, d) ==
    /\ c # d
    /\ \/ pc[c] = "select" /\ role[args[c].actor] # "none"
                           /\ lock[args[c].actor] = d
       \/ pc[c] = "upsert" /\ lock[args[c].subject] = d

\* A call waits for at most one other, so a set in which everyone waits and
\* everyone is waited for is made of cycles.
Deadlocked(c) ==
    \E S \in SUBSET Call :
        /\ c \in S
        /\ \A d \in S : (\E e \in S : WaitsFor(d, e)) /\ \E e \in S : WaitsFor(e, d)

\* The deadlock detector rolls back one transaction of a cycle.
DeadlockVictim(c) ==
    /\ Deadlocked(c)
    /\ Finish(c, "aborted")
    /\ UNCHANGED <<created, role, name, overlap>>

-----------------------------------------------------------------------------
Statement(c) ==
    \/ SelectActor(c) \/ CountOwners(c) \/ Upsert(c) \/ Commit(c)
    \/ ReadRole(c) \/ UpdateProject(c)

Next ==
    \/ \E s \in Subject : Create(s)
    \/ \E c \in Call, a \in Args : BeginSetMemberRole(c, a)
    \/ \E c \in Call, s \in Subject : BeginUpdate(c, s)
    \/ \E c \in Call : Statement(c) \/ Abort(c) \/ DeadlockVictim(c)

Spec == Init /\ [][Next]_vars

\* The server executes the statements it was sent and the detector runs.
Fairness == \A c \in Call : WF_vars(Statement(c)) /\ WF_vars(DeadlockVictim(c))

FairSpec == Spec /\ Fairness

-----------------------------------------------------------------------------
TypeOK ==
    /\ created \in BOOLEAN
    /\ role \in [Subject -> Role \cup {"none"}]
    /\ name \in Call \cup {None}
    /\ lock \in [Subject -> Call \cup {None}]
    /\ pc \in [Call -> Pc]
    /\ args \in [Call -> Args]
    /\ overlap \in BOOLEAN

\* From the moment SetMemberRole has checked its actor until it commits, the
\* actor stays an owner: FOR UPDATE keeps every other transaction from taking
\* the role away in between, so no one is managed by a former owner.
AuthorityHeld ==
    \A c \in Call :
        pc[c] \in {"count", "upsert", "commit"} => role[args[c].actor] = "owner"

\* The only way a project can be left without an owner is that two owners
\* step down at the same time, each counting the other (errors.go,
\* ErrLastOwner).  Any other interleaving of role changes keeps an owner.
OwnerRetained == created /\ ~overlap => Owners # {}

\* A project that has lost its last owner never gets one back: nobody is
\* left who may appoint one, not even a transaction already under way.
OwnerlessForever == [][created /\ Owners = {} => Owners' = {}]_vars

\* Owners who change each other's roles wait for each other's rows, and still
\* every call returns.
EveryCallReturns ==
    \A c \in Call : pc[c] # "new" ~> pc[c] \in Outcome

\* errors.go: "project must retain an owner".
AlwaysOwned == created => Owners # {}
=============================================================================
