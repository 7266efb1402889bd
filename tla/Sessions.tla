------------------------------ MODULE Sessions ------------------------------
(***************************************************************************)
(* Signing in and staying signed in.  The user service keeps the logins    *)
(* that were begun and issues a token for an identity Google confirms;     *)
(* the gateway checks the token of each request; each tab of a browser has *)
(* an auth store of its own over one local storage.  Requests and answers  *)
(* of a tab overtake each other, tabs do not hear of what other tabs do,   *)
(* and the user service may restart.  Browser, gateway and user service    *)
(* share one clock.                                                        *)
(***************************************************************************)
EXTENDS Naturals, Sequences

CONSTANTS
    Tabs,                \* tabs of one browser
    Slots,               \* requests of a tab that can be under way
    StateTTL, TokenTTL,  \* how long a login may take, a token is valid
    MaxLogins, MaxTime,  \* bounds
    None                 \* nothing

ASSUME Constants ==
    /\ StateTTL \in Nat \ {0} /\ TokenTTL \in Nat \ {0}
    /\ MaxLogins \in Nat /\ MaxTime \in Nat
    /\ None \notin Tabs \cup {"served", "unauthorized"}

VARIABLES
    now,            \* the time
    begun,          \* when each login was begun
    transactions,   \* the logins the user service waits for, with their ends
    callback,       \* the login a tab has begun or completes, and how far it is
    codes,          \* logins for which Google has given a code
    status, session, \* the auth store of each tab
    storage,        \* the session in the local storage
    flight,         \* the requests of each tab
    served,         \* history: when each login was let through to Google
    stranger,       \* history: did another tab use the storage since t did?
    ended           \* history: how the session ended whose end t shows

server == <<begun, transactions, codes, served>>
browser == <<status, session, storage, stranger, ended>>
vars == <<now, server, browser, callback, flight>>

Init ==
    /\ now = 0
    /\ begun = <<>> /\ served = <<>>
    /\ transactions = {} /\ codes = {}
    /\ callback = [t \in Tabs |-> None]
    /\ status = [t \in Tabs |-> "anonymous"]
    /\ session = [t \in Tabs |-> None]
    /\ storage = None
    /\ flight = [t \in Tabs |-> [s \in Slots |-> None]]
    /\ stranger = [t \in Tabs |-> FALSE]
    /\ ended = [t \in Tabs |-> None]

-----------------------------------------------------------------------------
(* The user service.  A login stands for its state, verifier and challenge. *)

Before_Inclusive(deadline) == now <= deadline

\* now().Before(deadline)
Before(deadline) == now < deadline

Token(login) == [login |-> login, expires |-> now + TokenTTL]

\* The page is left for that of Google.
BeginLogin(t) ==
    /\ callback[t] = None /\ Len(begun) < MaxLogins
    /\ begun' = Append(begun, now) /\ served' = Append(served, <<>>)
    /\ transactions' = {x \in transactions : Before(x.expires)}
                       \cup {[login |-> Len(begun) + 1, expires |-> now + StateTTL]}
    /\ callback' = [callback EXCEPT ![t] = [login |-> Len(begun) + 1, at |-> "away"]]
    /\ UNCHANGED <<now, codes, browser, flight>>

\* Somebody signs in at Google, which sends a code with the state: once, or
\* again when its page is visited again.
Grant(l) ==
    /\ l \in DOMAIN begun \ codes
    /\ codes' = codes \cup {l}
    /\ UNCHANGED <<now, begun, transactions, served, browser, callback, flight>>

Advance(t, l) == callback' = [callback EXCEPT ![t].at = l]
Drop(t) == callback' = [callback EXCEPT ![t] = None]

Consume_Kept(t) ==
    LET l == callback[t].login
        open == {x \in transactions : x.login = l /\ Before(x.expires)}
    IN  /\ callback[t] # None /\ callback[t].at = "consume"
        /\ IF open # {} THEN Advance(t, "exchange") /\ served' = [served EXCEPT ![l] = Append(@, now)]
           ELSE Drop(t) /\ UNCHANGED served
        /\ UNCHANGED <<now, begun, transactions, codes, browser, flight>>

\* Whatever comes of it, the login is taken out.
Consume(t) ==
    LET l == callback[t].login
        open == {x \in transactions : x.login = l /\ Before(x.expires)}
    IN  /\ callback[t] # None /\ callback[t].at = "consume"
        /\ transactions' = {x \in transactions : x.login # l}
        /\ IF open # {} THEN Advance(t, "exchange") /\ served' = [served EXCEPT ![l] = Append(@, now)]
           ELSE Drop(t) /\ UNCHANGED served
        /\ UNCHANGED <<now, begun, codes, browser, flight>>

\* Google confirms an identity, and the token is issued.
ExchangeAndIssue(t) ==
    LET l == callback[t].login IN
    /\ callback[t] # None /\ callback[t].at = "exchange"
    /\ callback' = [callback EXCEPT ![t] = [login |-> l, at |-> "reply", token |-> Token(l)]]
    /\ UNCHANGED <<now, server, browser, flight>>

\* Google refuses, or an answer does not arrive.
LoginFails(t) ==
    /\ callback[t] # None /\ callback[t].at # "away"
    /\ Drop(t)
    /\ UNCHANGED <<now, server, browser, flight>>

\* The user service restarts, and forgets the logins.
Restart ==
    /\ transactions' = {}
    /\ callback' = [t \in Tabs |-> IF callback[t] # None /\ callback[t].at = "exchange"
                                   THEN None ELSE callback[t]]
    /\ UNCHANGED <<now, begun, codes, served, browser, flight>>

-----------------------------------------------------------------------------
(* The auth store of a tab.                                                *)

tokenExpiresAfter_Early(token) == token.expires > now + 1
tokenExpiresAfter(token) == token.expires > now

setState(t, st, s) ==
    /\ status' = [status EXCEPT ![t] = st]
    /\ session' = [session EXCEPT ![t] = s]

\* localStorage: setItem, removeItem.
Store(t, s) ==
    /\ storage' = s
    /\ stranger' = [u \in Tabs |-> u # t /\ (stranger[u] \/ s # storage)]

expireSession_Unstored(t) ==
    IF status[t] = "expired" THEN UNCHANGED browser
    ELSE /\ UNCHANGED <<storage, stranger>>
         /\ setState(t, "expired", None)
         /\ ended' = [ended EXCEPT ![t] = IF status[t] # "authenticated" THEN None
                                          ELSE [token |-> session[t], at |-> now]]

expireSession(t) ==
    IF status[t] = "expired" THEN UNCHANGED browser
    ELSE /\ Store(t, None)
         /\ setState(t, "expired", None)
         /\ ended' = [ended EXCEPT ![t] = IF status[t] # "authenticated" THEN None
                                          ELSE [token |-> session[t], at |-> now]]

Away(t) == callback[t] # None /\ callback[t].at = "away"

login(t) ==
    /\ callback[t] # None /\ callback[t].at = "reply"
    /\ Drop(t)
    /\ IF tokenExpiresAfter(callback[t].token)
       THEN /\ Store(t, callback[t].token)
            /\ setState(t, "authenticated", callback[t].token)
            /\ ended' = [ended EXCEPT ![t] = None]
       ELSE expireSession(t)
    /\ UNCHANGED <<now, server, flight>>

acknowledgeExpiration(t) ==
    /\ status[t] = "expired" /\ ~Away(t)
    /\ setState(t, "anonymous", None)
    /\ ended' = [ended EXCEPT ![t] = None]
    /\ UNCHANGED <<now, server, storage, stranger, callback, flight>>

load_InFlight(t) ==
    /\ ended' = [ended EXCEPT ![t] = None]
    /\ IF storage # None /\ tokenExpiresAfter(storage)
       THEN /\ setState(t, "authenticated", storage)
            /\ stranger' = [stranger EXCEPT ![t] = FALSE]
            /\ UNCHANGED storage
       ELSE Store(t, None) /\ setState(t, "anonymous", None)
    /\ UNCHANGED flight

\* A page is loaded: the store is built from the storage, and requests that
\* were under way are gone.
load(t) ==
    /\ ended' = [ended EXCEPT ![t] = None]
    /\ IF storage # None /\ tokenExpiresAfter(storage)
       THEN /\ setState(t, "authenticated", storage)
            /\ stranger' = [stranger EXCEPT ![t] = FALSE]
            /\ UNCHANGED storage
       ELSE Store(t, None) /\ setState(t, "anonymous", None)
    /\ flight' = [flight EXCEPT ![t] = [s \in Slots |-> None]]

\* The page of Google sends the browser to the callback page, which asks to
\* complete the login; whoever opens its address again, asks again.
Callback(t) ==
    /\ load(t)
    /\ \E l \in codes : callback' = [callback EXCEPT ![t] = [login |-> l, at |-> "consume"]]
    /\ UNCHANGED <<now, server>>

\* Any other page is opened.
Open(t) ==
    /\ load(t) /\ Drop(t)
    /\ UNCHANGED <<now, server>>

-----------------------------------------------------------------------------
(* Requests: accessToken and request in the tab, auth in the gateway.      *)

request(t) ==
    /\ status[t] = "authenticated" /\ callback[t] = None
    /\ IF tokenExpiresAfter(session[t])
       THEN \E s \in Slots :
                /\ flight[t][s] = None
                /\ flight' = [flight EXCEPT ![t][s] = [token |-> session[t], answer |-> None]]
                /\ UNCHANGED browser
       ELSE expireSession(t) /\ UNCHANGED flight
    /\ UNCHANGED <<now, server, callback>>

\* Verify: the signature is that of the user service.
auth(t, s) ==
    /\ flight[t][s] # None /\ flight[t][s].answer = None
    /\ flight' = [flight EXCEPT ![t][s].answer =
                      IF Before(flight[t][s].token.expires) THEN "served" ELSE "unauthorized"]
    /\ UNCHANGED <<now, server, browser, callback>>

response(t, s) ==
    /\ flight[t][s] # None /\ flight[t][s].answer # None /\ ~Away(t)
    /\ flight' = [flight EXCEPT ![t][s] = None]
    /\ IF flight[t][s].answer = "unauthorized" THEN expireSession(t)
       ELSE UNCHANGED browser
    /\ UNCHANGED <<now, server, callback>>

Tick ==
    /\ now < MaxTime
    /\ now' = now + 1
    /\ UNCHANGED <<server, browser, callback, flight>>

Next ==
    \/ Restart \/ Tick
    \/ \E l \in 1..MaxLogins : Grant(l)
    \/ \E t \in Tabs :
        \/ BeginLogin(t) \/ Callback(t) \/ Consume(t) \/ ExchangeAndIssue(t) \/ LoginFails(t)
        \/ login(t) \/ acknowledgeExpiration(t) \/ Open(t) \/ request(t)
        \/ \E s \in Slots : auth(t, s) \/ response(t, s)

Spec == Init /\ [][Next]_vars

-----------------------------------------------------------------------------
Sessions == {session[t] : t \in Tabs} \cup {storage}
    \cup {flight[x[1]][x[2]].token : x \in {y \in Tabs \X Slots : flight[y[1]][y[2]] # None}}

(* Consume, CompleteGoogleLogin: however many callbacks come for a login,  *)
(* in whatever order with expiry, restarts and failures, it is let through *)
(* to Google at most once and before its end, and every token in the       *)
(* browser is of such a login.                                             *)
LoginSound ==
    /\ \A l \in DOMAIN served :
        Len(served[l]) <= 1 /\ \A i \in DOMAIN served[l] : served[l][i] < begun[l] + StateTTL
    /\ \A x \in Sessions \ {None} : served[x.login] # <<>>

(* AuthStore: unless another tab has used the storage meanwhile, loading   *)
(* the page again neither signs in, nor signs out, nor changes who is      *)
(* signed in: the storage has the session of the tab.                      *)
ReloadKeeps ==
    \A t \in Tabs : stranger[t] \/ storage = (IF status[t] = "authenticated" THEN session[t] ELSE None)

(* expireSession, request: a tab that shows that its session has ended had *)
(* one that was over, however late the answer was that ended it.  Of the   *)
(* storage, which other tabs clear as well, it says nothing.               *)
EndedForCause ==
    \A t \in Tabs : ended[t] # None => ended[t].at >= ended[t].token.expires

(* A tab goes on with its session until that is over, and over reloads as  *)
(* long as no other tab uses the storage: ReloadKeeps and EndedForCause.   *)
SessionSound == ReloadKeeps /\ EndedForCause
=============================================================================
