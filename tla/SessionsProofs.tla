---------------------------- MODULE SessionsProofs ----------------------------
(***************************************************************************)
(* Proofs about Sessions, for any tabs, requests, times and logins: each   *)
(* login is let through at most once and in time, no tab ends the session  *)
(* it shows before its end, and reloads show what was shown before.        *)
(***************************************************************************)
EXTENDS Sessions, TLAPS

Logins == 1..Len(begun)
Tokens == [login : Nat, expires : Nat]
Callbacks == [login : Nat, at : {"away", "consume", "exchange"}]
             \cup [login : Nat, at : {"reply"}, token : Tokens]
Flights == [token : Tokens, answer : {None, "served", "unauthorized"}]

Typed ==
    /\ now \in Nat /\ begun \in Seq(Nat)
    /\ served \in Seq(Seq(Nat)) /\ Len(served) = Len(begun)
    /\ transactions \subseteq [login : Logins, expires : Nat] /\ codes \subseteq Logins
    /\ callback \in [Tabs -> {None} \cup Callbacks]
    /\ status \in [Tabs -> {"anonymous", "authenticated", "expired"}]
    /\ session \in [Tabs -> {None} \cup Tokens]
    /\ storage \in {None} \cup Tokens
    /\ flight \in [Tabs -> [Slots -> {None} \cup Flights]]
    /\ stranger \in [Tabs -> BOOLEAN]
    /\ ended \in [Tabs -> {None} \cup [token : Tokens, at : Nat]]

\* A login that is waited for was not let through, one that was let through
\* was so once and in time.
LoginsOnce ==
    /\ \A x \in transactions :
           x.expires = begun[x.login] + StateTTL /\ served[x.login] = <<>>
    /\ \A l \in Logins :
           /\ Len(served[l]) <= 1
           /\ \A i \in DOMAIN served[l] : served[l][i] < begun[l] + StateTTL

\* A token of a login that was let through, which ends in time.
Issued(x) ==
    /\ x \in Tokens /\ x.login \in Logins /\ served[x.login] # <<>>
    /\ x.expires <= now + TokenTTL

\* A callback goes on only for a login that was let through; the requests of
\* the page before are gone, and its token ends no sooner than the session.
CallbacksServed == \A t \in Tabs : callback[t] # None =>
    /\ callback[t].login \in Logins
    /\ callback[t].at \in {"exchange", "reply"} => served[callback[t].login] # <<>>
    /\ callback[t].at # "away" => \A s \in Slots : flight[t][s] = None
    /\ callback[t].at = "reply" =>
           /\ Issued(callback[t].token)
           /\ status[t] = "authenticated" => session[t].expires <= callback[t].token.expires

\* Every session is of a token that was issued.
SessionsIssued ==
    /\ storage # None => Issued(storage)
    /\ \A t \in Tabs :
           /\ status[t] = "authenticated" => Issued(session[t])
           /\ status[t] # "authenticated" => session[t] = None

\* A request was sent with the session of its tab, and refused only when that
\* was over.
FlightsOwn == \A t \in Tabs, s \in Slots : flight[t][s] # None =>
    /\ Issued(flight[t][s].token)
    /\ status[t] = "authenticated" => session[t] = flight[t][s].token
    /\ flight[t][s].answer = "unauthorized" => flight[t][s].token.expires <= now

IInv == /\ Typed /\ LoginsOnce /\ CallbacksServed /\ SessionsIssued /\ FlightsOwn
        /\ ReloadKeeps /\ EndedForCause

-----------------------------------------------------------------------------
LEMMA InitIInv == Init => IInv
  <1> SUFFICES ASSUME Init PROVE IInv
    OBVIOUS
  <1>1. Typed
    BY DEF Init, Typed, Logins
  <1>2. LoginsOnce
    BY DEF Init, LoginsOnce, Logins
  <1>3. CallbacksServed /\ SessionsIssued /\ FlightsOwn /\ ReloadKeeps /\ EndedForCause
    BY DEF Init, CallbacksServed, SessionsIssued, FlightsOwn, ReloadKeeps, EndedForCause
  <1> QED
    BY <1>1, <1>2, <1>3 DEF IInv

LEMMA TokenIssued ==
    ASSUME Typed, NEW l \in Logins, served[l] # <<>>
    PROVE  Issued(Token(l))
  BY Constants DEF Typed, Issued, Token, Tokens, Logins

\* localStorage is written.
LEMMA Stored ==
    ASSUME NEW t \in Tabs, NEW s, Store(t, s)
    PROVE  /\ storage' = s /\ stranger' \in [Tabs -> BOOLEAN]
           /\ stranger'[t] = FALSE
           /\ \A u \in Tabs \ {t} : stranger'[u] \/ storage = s
  <1>1. \A u \in Tabs : (u # t /\ (stranger[u] \/ s # storage)) \in BOOLEAN
    BY Zenon
  <1>2. \A u \in Tabs : stranger'[u] = (u # t /\ (stranger[u] \/ s # storage))
    BY Zenon DEF Store
  <1>3. stranger' \in [Tabs -> BOOLEAN]
    BY <1>1, Zenon DEF Store
  <1>4. \A u \in Tabs \ {t} : stranger'[u] \/ storage = s
    BY <1>2, Zenon
  <1> QED
    BY <1>2, <1>3, <1>4, Zenon DEF Store

LEMMA FlightEnds ==
    ASSUME flight \in [Tabs -> [Slots -> {None} \cup Flights]], NEW t \in Tabs, NEW s \in Slots,
           flight' = [flight EXCEPT ![t][s] = None]
    PROVE  flight' \in [Tabs -> [Slots -> {None} \cup Flights]]
  <1>1. flight' = [flight EXCEPT ![t] = [flight[t] EXCEPT ![s] = None]]
    BY Zenon
  <1>2. [flight[t] EXCEPT ![s] = None] \in [Slots -> {None} \cup Flights]
    <2> HIDE DEF Flights
    <2> QED OBVIOUS
  <1> QED
    BY <1>1, <1>2

\* expireSession, of a session that is over or of none.
LEMMA ExpireIInv ==
    ASSUME IInv, NEW t \in Tabs, expireSession(t), UNCHANGED <<now, server>>,
           status[t] = "authenticated" => session[t].expires <= now,
           flight' = flight \/ \E s \in Slots : flight' = [flight EXCEPT ![t][s] = None],
           callback' = callback \/ callback' = [callback EXCEPT ![t] = None]
    PROVE  IInv'
  <1> USE DEF IInv, expireSession, setState, Store, browser, server
  <1>1. Typed'
    <2>1. status[t] = "authenticated" => session[t] \in Tokens
      BY DEF SessionsIssued, Issued
    <2>2. /\ status' \in [Tabs -> {"anonymous", "authenticated", "expired"}]
          /\ session' \in [Tabs -> {None} \cup Tokens]
          /\ storage' \in {None} \cup Tokens
          /\ stranger' \in [Tabs -> BOOLEAN]
      <3>1. stranger' \in [Tabs -> BOOLEAN]
        <4>1. CASE status[t] = "expired"
          BY <4>1 DEF Typed
        <4>2. CASE status[t] # "expired"
          <5> HIDE DEF Store, setState
          <5> QED
            BY <4>2, Stored
        <4> QED
          BY <4>1, <4>2
      <3> QED
        BY <3>1 DEF Typed
    <2>3. ended' \in [Tabs -> {None} \cup [token : Tokens, at : Nat]]
      <3>1. CASE status[t] = "authenticated"
        <4>1. [token |-> session[t], at |-> now] \in [token : Tokens, at : Nat]
          BY <2>1, <3>1 DEF Typed
        <4> QED
          BY <3>1, <4>1 DEF Typed
      <3>2. CASE status[t] # "authenticated"
        BY <3>2 DEF Typed
      <3> QED
        BY <3>1, <3>2
    <2>4. flight' \in [Tabs -> [Slots -> {None} \cup Flights]]
      BY FlightEnds DEF Typed
    <2>5. callback' \in [Tabs -> {None} \cup Callbacks]
      BY DEF Typed
    <2> QED
      BY <2>2, <2>3, <2>4, <2>5 DEF Typed, Logins
  <1>2. LoginsOnce'
    BY DEF LoginsOnce, Logins
  <1>3. \A u \in Tabs, s \in Slots : flight'[u][s] = flight[u][s] \/ flight'[u][s] = None
    BY DEF Typed
  <1>4. /\ \A u \in Tabs : callback'[u] = callback[u] \/ callback'[u] = None
        /\ \A u \in Tabs : \/ status'[u] = status[u] /\ session'[u] = session[u]
                           \/ status'[u] = "expired" /\ session'[u] = None
        /\ storage' = storage \/ storage' = None
    BY DEF Typed
  <1>5. CallbacksServed'
    BY <1>3, <1>4 DEF CallbacksServed, Issued, Logins
  <1>6. SessionsIssued'
    BY <1>4 DEF SessionsIssued, Issued, Logins
  <1>7. FlightsOwn'
    BY <1>3, <1>4 DEF FlightsOwn, Issued, Logins
  <1>8. ReloadKeeps'
    <2>1. CASE status[t] = "expired"
      BY <2>1 DEF ReloadKeeps
    <2>2. CASE status[t] # "expired"
      <3>1. storage' = None /\ status'[t] # "authenticated"
        BY <2>2 DEF Typed
      <3>2. \A u \in Tabs \ {t} : stranger'[u] \/ storage = None
        BY <2>2, Stored
      <3>3. \A u \in Tabs \ {t} : status'[u] = status[u] /\ session'[u] = session[u]
        BY <2>2 DEF Typed
      <3> QED
        BY <3>1, <3>2, <3>3 DEF ReloadKeeps
    <2> QED
      BY <2>1, <2>2
  <1>9. EndedForCause'
    BY DEF Typed, EndedForCause, SessionsIssued, Issued, Tokens
  <1> QED
    BY <1>1, <1>2, <1>5, <1>6, <1>7, <1>8, <1>9
\* A page is loaded.
LEMMA LoadIInv ==
    ASSUME IInv, NEW t \in Tabs, load(t), UNCHANGED <<now, server>>,
           NEW c, callback' = [callback EXCEPT ![t] = c],
           c = None \/ \E l \in codes : c = [login |-> l, at |-> "consume"]
    PROVE  IInv'
  <1> USE DEF IInv, load, setState, server
  <1>1. \/ /\ storage # None /\ UNCHANGED storage
           /\ status'[t] = "authenticated" /\ session'[t] = storage
           /\ stranger' = [stranger EXCEPT ![t] = FALSE]
        \/ Store(t, None) /\ status'[t] = "anonymous" /\ session'[t] = None
    BY DEF Typed
  <1>2. /\ \A u \in Tabs \ {t} : status'[u] = status[u] /\ session'[u] = session[u]
                               /\ callback'[u] = callback[u] /\ flight'[u] = flight[u]
                               /\ ended'[u] = ended[u]
        /\ callback'[t] = c /\ ended'[t] = None
        /\ \A s \in Slots : flight'[t][s] = None
    BY DEF Typed
  <1>3. c \in {None} \cup Callbacks /\ (c # None => c.login \in Logins /\ c.at = "consume")
    <2>1. ASSUME NEW l \in codes PROVE l \in Logins /\ [login |-> l, at |-> "consume"] \in Callbacks
      BY DEF Typed, Callbacks, Logins
    <2> QED
      BY <2>1
  <1>4. storage' = storage \/ storage' = None
    BY <1>1, Stored
  <1>5. Typed'
    <2>1. stranger' \in [Tabs -> BOOLEAN]
      BY <1>1, Stored DEF Typed
    <2>2. /\ flight' \in [Tabs -> [Slots -> {None} \cup Flights]]
          /\ ended' \in [Tabs -> {None} \cup [token : Tokens, at : Nat]]
          /\ callback' \in [Tabs -> {None} \cup Callbacks]
      BY <1>3 DEF Typed
    <2>3. /\ status' \in [Tabs -> {"anonymous", "authenticated", "expired"}]
          /\ session' \in [Tabs -> {None} \cup Tokens]
      BY DEF Typed
    <2> QED
      BY <1>4, <2>1, <2>2, <2>3 DEF Typed, Logins
  <1>6. LoginsOnce'
    BY DEF LoginsOnce, Logins
  <1>7. CallbacksServed'
    BY <1>2, <1>3 DEF CallbacksServed, Issued, Logins
  <1>8. SessionsIssued'
    BY <1>1, <1>2, <1>4 DEF SessionsIssued, Issued, Logins
  <1>9. FlightsOwn'
    BY <1>2 DEF FlightsOwn, Issued, Logins
  <1>10. ReloadKeeps'
    <2>1. CASE /\ storage # None /\ UNCHANGED storage
               /\ status'[t] = "authenticated" /\ session'[t] = storage
               /\ stranger' = [stranger EXCEPT ![t] = FALSE]
      BY <1>2, <2>1 DEF Typed, ReloadKeeps
    <2>2. CASE Store(t, None) /\ status'[t] = "anonymous" /\ session'[t] = None
      <3>1. /\ storage' = None /\ \A u \in Tabs \ {t} : stranger'[u] \/ storage = None
        BY <2>2, Stored
      <3>2. ASSUME NEW u \in Tabs, u # t, ~stranger'[u]
            PROVE  status[u] # "authenticated" \/ session[u] = None
        <4>1. ~stranger[u]
          BY <2>2, <3>2 DEF Store
        <4> QED
          BY <3>1, <3>2, <4>1 DEF ReloadKeeps
      <3> QED
        BY <1>2, <2>2, <3>1, <3>2 DEF ReloadKeeps
    <2> QED
      BY <1>1, <2>1, <2>2
  <1>11. EndedForCause'
    BY <1>2 DEF EndedForCause
  <1> QED
    BY <1>5, <1>6, <1>7, <1>8, <1>9, <1>10, <1>11
\* What leaves the browser alone, and takes no token back.
LEMMA ServerIInv ==
    ASSUME IInv, UNCHANGED <<browser, flight>>, Typed', LoginsOnce',
           now <= now', Len(begun) <= Len(begun'),
           \A l \in Logins : served[l] # <<>> => served'[l] # <<>>,
           \A t \in Tabs :
               \/ callback'[t] \in {callback[t], None}
               \/ /\ callback'[t].login \in Logins' /\ callback[t] = None
                  /\ callback'[t].at = "away"
               \/ /\ callback[t] # None /\ callback'[t].login = callback[t].login
                  /\ \/ callback[t].at = "consume" /\ callback'[t].at = "exchange"
                        /\ served'[callback[t].login] # <<>>
                     \/ callback[t].at = "exchange" /\ callback'[t].at = "reply"
                        /\ callback'[t].token = Token(callback[t].login)
    PROVE  IInv'
  <1> USE DEF IInv, browser
  <1> DEFINE IssuedNext(x) == /\ x \in Tokens /\ x.login \in Logins' /\ served'[x.login] # <<>>
                              /\ x.expires <= now' + TokenTTL
  <1>1. \A x : Issued(x) => IssuedNext(x)
    <2>1. Len(begun) \in Nat /\ Len(begun') \in Nat /\ now \in Nat /\ now' \in Nat
      BY DEF Typed
    <2>2. TokenTTL \in Nat /\ \A x \in Tokens : x.expires \in Nat
      BY Constants DEF Tokens
    <2>3. \A l : l \in Logins => l \in Logins'
      BY <2>1 DEF Logins
    <2> QED
      BY <2>1, <2>2, <2>3 DEF Issued
  <1> HIDE DEF IssuedNext
  <1>2. SessionsIssued' /\ FlightsOwn'
    <2>1. SessionsIssued'
      BY <1>1 DEF SessionsIssued, Issued, IssuedNext
    <2>2. \A t \in Tabs, s \in Slots : flight[t][s] # None => flight[t][s].token.expires \in Nat
      BY DEF FlightsOwn, Issued, Tokens
    <2>3. now \in Nat /\ now' \in Nat
      BY DEF Typed
    <2>4. FlightsOwn'
      BY <1>1, <2>2, <2>3 DEF FlightsOwn, Issued, IssuedNext
    <2> QED
      BY <2>1, <2>4
  <1>3. CallbacksServed'
    <2> SUFFICES ASSUME NEW t \in Tabs, callback'[t] # None
                 PROVE  /\ callback'[t].login \in Logins'
                        /\ callback'[t].at \in {"exchange", "reply"}
                               => served'[callback'[t].login] # <<>>
                        /\ callback'[t].at # "away" => \A s \in Slots : flight'[t][s] = None
                        /\ callback'[t].at = "reply" =>
                               /\ IssuedNext(callback'[t].token)
                               /\ status'[t] = "authenticated"
                                      => session'[t].expires <= callback'[t].token.expires
      BY DEF CallbacksServed, Issued, IssuedNext
    <2>1. callback[t] # None => callback[t].login \in Logins /\ callback[t].login \in Logins'
      BY DEF CallbacksServed, Logins, Typed
    <2>2. CASE callback'[t] = callback[t]
      BY <1>1, <2>1, <2>2 DEF CallbacksServed
    <2>3. CASE /\ callback'[t].login \in Logins' /\ callback[t] = None
               /\ callback'[t].at = "away"
      BY <2>3
    <2>4. CASE /\ callback[t] # None /\ callback'[t].login = callback[t].login
               /\ callback[t].at = "consume" /\ callback'[t].at = "exchange"
               /\ served'[callback[t].login] # <<>>
      BY <2>1, <2>4 DEF CallbacksServed
    <2>5. CASE /\ callback[t] # None /\ callback'[t].login = callback[t].login
               /\ callback[t].at = "exchange" /\ callback'[t].at = "reply"
               /\ callback'[t].token = Token(callback[t].login)
      <3>1. served[callback[t].login] # <<>> /\ \A s \in Slots : flight[t][s] = None
        BY <2>5 DEF CallbacksServed
      <3>2. IssuedNext(callback'[t].token)
        BY <1>1, <2>1, <2>5, <3>1, TokenIssued
      <3>3. status[t] = "authenticated" => session[t].expires <= Token(callback[t].login).expires
        BY DEF SessionsIssued, Issued, Token
      <3>4. served'[callback[t].login] # <<>>
        BY <2>1, <2>5, <3>1
      <3> QED
        BY <2>1, <2>5, <3>1, <3>2, <3>3, <3>4
    <2> QED
      BY <2>2, <2>3, <2>4, <2>5
  <1>4. ReloadKeeps' /\ EndedForCause'
    BY DEF ReloadKeeps, EndedForCause
  <1> QED
    BY <1>2, <1>3, <1>4
LEMMA LoginIInv ==
    ASSUME IInv, NEW t \in Tabs, login(t)
    PROVE  IInv'
  <1> USE DEF IInv, server
  <1>1. /\ callback[t] # None /\ callback[t].at = "reply"
        /\ Issued(callback[t].token) /\ \A s \in Slots : flight[t][s] = None
        /\ status[t] = "authenticated" => session[t].expires <= callback[t].token.expires
    BY DEF login, CallbacksServed
  <1>2. CASE ~tokenExpiresAfter(callback[t].token)
    <2>1. expireSession(t) /\ UNCHANGED <<now, server, flight>>
          /\ callback' = [callback EXCEPT ![t] = None]
      BY <1>2 DEF login, Drop
    <2>2. callback[t].token.expires <= now
      BY <1>1, <1>2 DEF tokenExpiresAfter, Issued, Tokens, Typed
    <2>3. status[t] = "authenticated" => session[t].expires <= now
      BY <1>1, <2>2 DEF SessionsIssued, Issued, Tokens, Typed
    <2> QED
      BY <2>1, <2>3, ExpireIInv
  <1>3. CASE tokenExpiresAfter(callback[t].token)
    <2> DEFINE token == callback[t].token
    <2>1. /\ Store(t, token) /\ status' = [status EXCEPT ![t] = "authenticated"]
          /\ session' = [session EXCEPT ![t] = token] /\ ended' = [ended EXCEPT ![t] = None]
          /\ callback' = [callback EXCEPT ![t] = None] /\ UNCHANGED <<now, server, flight>>
      BY <1>3 DEF login, Drop, setState
    <2> HIDE DEF token
    <2>2. /\ storage' = token /\ stranger' \in [Tabs -> BOOLEAN]
          /\ \A u \in Tabs \ {t} : stranger'[u] \/ storage = token
      BY <2>1, Stored
    <2>3. Issued(token) /\ token \in Tokens
      BY <1>1 DEF token, Issued
    <2>4. /\ status'[t] = "authenticated" /\ session'[t] = token /\ callback'[t] = None
          /\ ended'[t] = None
          /\ \A u \in Tabs \ {t} : status'[u] = status[u] /\ session'[u] = session[u]
                             /\ callback'[u] = callback[u] /\ ended'[u] = ended[u]
      BY <2>1 DEF Typed
    <2>5. Typed'
      BY <2>1, <2>2, <2>3 DEF Typed, Logins
    <2>6. LoginsOnce'
      BY <2>1 DEF LoginsOnce, Logins
    <2>7. CallbacksServed'
      BY <2>1, <2>4 DEF CallbacksServed, Issued, Logins
    <2>8. SessionsIssued'
      BY <2>1, <2>2, <2>3, <2>4 DEF SessionsIssued, Issued, Logins
    <2>9. FlightsOwn'
      BY <1>1, <2>1, <2>4 DEF FlightsOwn, Issued, Logins
    <2>10. ReloadKeeps'
      <3>1. ASSUME NEW u \in Tabs, u # t, ~stranger'[u]
            PROVE  storage' = IF status'[u] = "authenticated" THEN session'[u] ELSE None
        <4>1. ~stranger[u] /\ storage = token
          BY <2>1, <2>2, <3>1 DEF Store
        <4> QED
          BY <2>2, <2>4, <3>1, <4>1 DEF ReloadKeeps
      <3> QED
        BY <2>2, <2>4, <3>1 DEF ReloadKeeps
    <2>11. EndedForCause'
      BY <2>4 DEF EndedForCause
    <2> QED
      BY <2>5, <2>6, <2>7, <2>8, <2>9, <2>10, <2>11
  <1> QED
    BY <1>2, <1>3
\* A login begins, is let through, is completed or fails.
LEMMA BeginIInv ==
    ASSUME IInv, NEW t \in Tabs, BeginLogin(t)
    PROVE  IInv'
  <1> USE DEF IInv
  <1> DEFINE n == Len(begun) + 1
  <1>1. /\ begun' = Append(begun, now) /\ served' = Append(served, <<>>) /\ UNCHANGED now
        /\ transactions' = {x \in transactions : Before(x.expires)}
                           \cup {[login |-> n, expires |-> now + StateTTL]}
        /\ callback[t] = None /\ callback' = [callback EXCEPT ![t] = [login |-> n, at |-> "away"]]
        /\ UNCHANGED <<codes, browser, flight>>
    BY DEF BeginLogin
  <1>2. /\ n \in Nat \ {0} /\ Len(begun) = n - 1 /\ Len(served) = n - 1
        /\ Len(begun') = n /\ Len(served') = n
        /\ begun' \in Seq(Nat) /\ served' \in Seq(Seq(Nat))
        /\ \A l \in Logins : begun'[l] = begun[l] /\ served'[l] = served[l] /\ l # n
        /\ begun'[n] = now /\ served'[n] = <<>>
    BY <1>1 DEF Typed, Logins
  <1>3. Logins' = Logins \cup {n} /\ n \in Logins'
    BY <1>2, SMTT(30) DEF Logins
  <1> HIDE DEF n
  <1>4. Typed'
    <2>1. [login |-> n, expires |-> now + StateTTL] \in [login : Logins', expires : Nat]
      BY <1>3, Constants DEF Typed
    <2>2. transactions' \subseteq [login : Logins', expires : Nat] /\ codes' \subseteq Logins'
      BY <1>1, <1>3, <2>1 DEF Typed
    <2>3. [login |-> n, at |-> "away"] \in Callbacks
      BY <1>2 DEF Callbacks
    <2>4. callback' \in [Tabs -> {None} \cup Callbacks]
      BY <1>1, <2>3 DEF Typed
    <2> QED
      BY <1>1, <1>2, <2>2, <2>4 DEF Typed, browser
  <1>5. LoginsOnce'
    <2>1. ASSUME NEW x \in transactions'
          PROVE  x.expires = begun'[x.login] + StateTTL /\ served'[x.login] = <<>>
      <3>1. CASE x \in transactions
        BY <1>2, <3>1 DEF LoginsOnce, Typed
      <3>2. CASE x = [login |-> n, expires |-> now + StateTTL]
        BY <1>2, <3>2
      <3> QED
        BY <1>1, <3>1, <3>2
    <2>2. ASSUME NEW l \in Logins'
          PROVE  /\ Len(served'[l]) <= 1
                 /\ \A i \in DOMAIN served'[l] : served'[l][i] < begun'[l] + StateTTL
      <3>1. CASE l \in Logins
        BY <1>2, <3>1 DEF LoginsOnce
      <3>2. CASE l = n
        BY <1>2, <3>2
      <3> QED
        BY <1>3, <3>1, <3>2
    <2> QED
      BY <2>1, <2>2 DEF LoginsOnce
  <1>6. callback'[t] = [login |-> n, at |-> "away"]
        /\ \A u \in Tabs \ {t} : callback'[u] = callback[u]
    BY <1>1 DEF Typed
  <1>7. now <= now' /\ Len(begun) <= Len(begun')
    BY <1>1, <1>2 DEF Typed
  <1>8. \A l \in Logins : served[l] # <<>> => served'[l] # <<>>
    BY <1>2
  <1>9. \A u \in Tabs :
            \/ callback'[u] \in {callback[u], None}
            \/ /\ callback'[u].login \in Logins' /\ callback[u] = None
               /\ callback'[u].at = "away"
    BY <1>1, <1>3, <1>6
  <1> HIDE DEF IInv
  <1> QED
    BY <1>1, <1>4, <1>5, <1>7, <1>8, <1>9, ServerIInv

LEMMA ConsumeIInv ==
    ASSUME IInv, NEW t \in Tabs, Consume(t)
    PROVE  IInv'
  <1> USE DEF IInv
  <1> DEFINE l == callback[t].login
             open == {x \in transactions : x.login = l /\ Before(x.expires)}
  <1>1. /\ callback[t] # None /\ callback[t].at = "consume"
        /\ transactions' = {x \in transactions : x.login # l}
        /\ UNCHANGED <<now, begun, codes, browser, flight>>
    BY DEF Consume
  <1>2. l \in Logins /\ Logins' = Logins /\ Len(begun) = Len(served)
    BY <1>1 DEF CallbacksServed, Logins, Typed
  <1>3. CASE open = {}
    <2>1. callback' = [callback EXCEPT ![t] = None] /\ UNCHANGED served
      BY <1>3 DEF Consume, Drop
    <2>2. Typed'
      BY <1>1, <1>2, <2>1 DEF Typed, browser
    <2>3. LoginsOnce'
      BY <1>1, <1>2, <2>1 DEF LoginsOnce
    <2>4. \A u \in Tabs : callback'[u] \in {callback[u], None}
      BY <2>1 DEF Typed
    <2> QED
      BY <1>1, <2>1, <2>2, <2>3, <2>4, ServerIInv DEF Typed
  <1>4. CASE open # {}
    <2>1. /\ callback' = [callback EXCEPT ![t].at = "exchange"]
          /\ served' = [served EXCEPT ![l] = Append(@, now)]
      BY <1>4 DEF Consume, Advance
    <2>2. served[l] = <<>> /\ now < begun[l] + StateTTL
      BY <1>4 DEF LoginsOnce, Before
    <2>3. /\ served' \in Seq(Seq(Nat)) /\ Len(served') = Len(served)
          /\ served'[l] = <<now>> /\ \A k \in Logins \ {l} : served'[k] = served[k]
      <3>1. served' = [served EXCEPT ![l] = <<now>>]
        BY <2>1, <2>2
      <3>2. now \in Nat /\ <<now>> \in Seq(Nat) /\ l \in 1..Len(served)
        BY <1>2 DEF Typed, Logins
      <3>3. served \in Seq(Seq(Nat)) /\ Len(served) \in Nat /\ Logins = 1..Len(served)
        BY DEF Typed, Logins
      <3> HIDE DEF IInv, l
      <3> QED
        BY <3>1, <3>2, <3>3
    <2>4. /\ callback'[t].login = l /\ callback'[t].at = "exchange"
          /\ callback'[t] \in Callbacks /\ \A u \in Tabs \ {t} : callback'[u] = callback[u]
      BY <1>1, <2>1 DEF Typed, Callbacks
    <2> HIDE DEF l
    <2>5. Typed'
      BY <1>1, <1>2, <2>1, <2>3, <2>4 DEF Typed, browser
    <2>6. LoginsOnce'
      <3>1. ASSUME NEW x \in transactions'
            PROVE  x.expires = begun'[x.login] + StateTTL /\ served'[x.login] = <<>>
        BY <1>1, <2>3, <3>1 DEF LoginsOnce, Typed
      <3>2. ASSUME NEW k \in Logins'
            PROVE  /\ Len(served'[k]) <= 1
                   /\ \A i \in DOMAIN served'[k] : served'[k][i] < begun'[k] + StateTTL
        <4>1. CASE k = l
          <5>1. served'[k] = <<now>> /\ now < begun'[k] + StateTTL
            BY <1>1, <2>2, <2>3, <4>1
          <5>2. Len(<<now>>) = 1 /\ \A i \in DOMAIN <<now>> : <<now>>[i] = now
            OBVIOUS
          <5> QED
            BY <5>1, <5>2
        <4>2. CASE k # l
          BY <1>1, <1>2, <2>3, <4>2 DEF LoginsOnce
        <4> QED
          BY <4>1, <4>2
      <3> QED
        BY <3>1, <3>2 DEF LoginsOnce
    <2>7. \A k \in Logins : served[k] # <<>> => served'[k] # <<>>
      BY <2>2, <2>3
    <2>8. now <= now' /\ Len(begun) <= Len(begun')
      BY <1>1 DEF Typed
    <2>9. \A u \in Tabs :
              \/ callback'[u] \in {callback[u], None}
              \/ /\ callback[u] # None /\ callback'[u].login = callback[u].login
                 /\ callback[u].at = "consume" /\ callback'[u].at = "exchange"
                 /\ served'[callback[u].login] # <<>>
      <3>1. served'[l] # <<>>
        BY <2>3
      <3> QED
        BY <1>1, <2>4, <3>1 DEF l
    <2> HIDE DEF IInv
    <2> QED
      BY <1>1, <2>5, <2>6, <2>7, <2>8, <2>9, ServerIInv
  <1> QED
    BY <1>3, <1>4
\* The other steps of the servers.
LEMMA OutsideIInv ==
    ASSUME IInv,
           \/ Restart \/ Tick \/ \E l \in DOMAIN begun : Grant(l)
           \/ \E t \in Tabs : ExchangeAndIssue(t) \/ LoginFails(t)
    PROVE  IInv'
  <1>1. /\ UNCHANGED <<begun, served, browser, flight>> /\ transactions' \subseteq transactions
        /\ now' \in Nat /\ now <= now' /\ Len(begun) <= Len(begun')
    <2>1. now \in Nat /\ Len(begun) \in Nat
      BY DEF IInv, Typed
    <2> QED
      BY <2>1 DEF Restart, Tick, Grant, ExchangeAndIssue, LoginFails, server
  <1>2. codes' \subseteq Logins
    BY DEF IInv, Typed, Restart, Tick, Grant, ExchangeAndIssue, LoginFails, server, Logins
  <1>3. /\ callback' \in [Tabs -> {None} \cup Callbacks]
        /\ \A u \in Tabs :
               \/ callback'[u] \in {callback[u], None}
               \/ /\ callback[u] # None /\ callback'[u].login = callback[u].login
                  /\ callback[u].at = "exchange" /\ callback'[u].at = "reply"
                  /\ callback'[u].token = Token(callback[u].login)
    <2>1. CASE \/ Tick \/ \E l \in DOMAIN begun : Grant(l)
      BY <2>1 DEF Tick, Grant, IInv, Typed
    <2>2. CASE Restart
      BY <2>2 DEF Restart, IInv, Typed
    <2>3. ASSUME NEW t \in Tabs, LoginFails(t)
          PROVE  /\ callback' \in [Tabs -> {None} \cup Callbacks]
                 /\ \A u \in Tabs : callback'[u] \in {callback[u], None}
      BY <2>3 DEF LoginFails, Drop, IInv, Typed
    <2>4. ASSUME NEW t \in Tabs, ExchangeAndIssue(t)
          PROVE  /\ callback' \in [Tabs -> {None} \cup Callbacks]
                 /\ \A u \in Tabs :
                        \/ callback'[u] = callback[u]
                        \/ /\ callback[u] # None /\ callback'[u].login = callback[u].login
                           /\ callback[u].at = "exchange" /\ callback'[u].at = "reply"
                           /\ callback'[u].token = Token(callback[u].login)
      <3> DEFINE l == callback[t].login
      <3>1. l \in Logins /\ served[l] # <<>>
        BY <2>4 DEF ExchangeAndIssue, IInv, CallbacksServed
      <3>2. Token(l) \in Tokens /\ l \in Nat
        BY <3>1, TokenIssued DEF IInv, Issued, Logins
      <3>3. [login |-> l, at |-> "reply", token |-> Token(l)] \in Callbacks
        BY <3>2 DEF Callbacks
      <3>4. callback' = [callback EXCEPT ![t] = [login |-> l, at |-> "reply", token |-> Token(l)]]
        BY <2>4 DEF ExchangeAndIssue
      <3>5. callback[t] # None /\ callback[t].at = "exchange"
        BY <2>4 DEF ExchangeAndIssue
      <3>6. callback \in [Tabs -> {None} \cup Callbacks]
        BY DEF IInv, Typed
      <3> HIDE DEF l
      <3>7. /\ callback'[t] = [login |-> l, at |-> "reply", token |-> Token(l)]
            /\ \A u \in Tabs \ {t} : callback'[u] = callback[u]
            /\ callback' \in [Tabs -> {None} \cup Callbacks]
        BY <3>3, <3>4, <3>6
      <3> QED
        BY <3>5, <3>7 DEF l
    <2> QED
      BY <2>1, <2>2, <2>3, <2>4
  <1>4. Typed'
    BY <1>1, <1>2, <1>3 DEF IInv, Typed, Logins, browser
  <1>5. LoginsOnce'
    BY <1>1 DEF IInv, LoginsOnce, Logins
  <1> QED
    BY <1>1, <1>3, <1>4, <1>5, ServerIInv

\* The steps of a tab that loads no page.
LEMMA RequestIInv ==
    ASSUME IInv, NEW t \in Tabs, request(t)
    PROVE  IInv'
  <1>1. status[t] = "authenticated" /\ Issued(session[t])
    BY DEF request, IInv, SessionsIssued
  <1>2. session[t].expires \in Nat /\ now \in Nat /\ session[t] \in Tokens
    BY <1>1 DEF Issued, Tokens, IInv, Typed
  <1>3. CASE ~tokenExpiresAfter(session[t])
    <2>1. expireSession(t) /\ UNCHANGED <<now, server, callback, flight>>
      BY <1>3 DEF request
    <2>2. session[t].expires <= now
      BY <1>2, <1>3 DEF tokenExpiresAfter
    <2> QED
      BY <2>1, <2>2, ExpireIInv
  <1>4. CASE tokenExpiresAfter(session[t])
    <2>1. PICK s \in Slots :
              flight' = [flight EXCEPT ![t][s] = [token |-> session[t], answer |-> None]]
      BY <1>4 DEF request
    <2>2. callback[t] = None /\ UNCHANGED <<now, server, callback, browser>>
      BY <1>4 DEF request
    <2> DEFINE sent == [token |-> session[t], answer |-> None]
    <2>3. sent \in Flights /\ sent.token = session[t]
      BY <1>2 DEF Flights
    <2>4. flight \in [Tabs -> [Slots -> {None} \cup Flights]]
      BY DEF IInv, Typed
    <2>5. flight' = [flight EXCEPT ![t] = [flight[t] EXCEPT ![s] = sent]]
      BY <2>1, Zenon
    <2>6. sent.answer # "unauthorized"
      BY Constants
    <2> HIDE DEF sent
    <2>7. [flight[t] EXCEPT ![s] = sent] \in [Slots -> {None} \cup Flights]
      BY <2>3, <2>4
    <2>8. /\ flight' \in [Tabs -> [Slots -> {None} \cup Flights]]
          /\ flight'[t][s] = sent
          /\ \A u \in Tabs, r \in Slots : u # t \/ r # s => flight'[u][r] = flight[u][r]
      BY <2>3, <2>4, <2>5, <2>7
    <2>9. Typed' /\ LoginsOnce'
      BY <2>2, <2>8 DEF IInv, Typed, LoginsOnce, Logins, server, browser
    <2>10. CallbacksServed'
      BY <2>2, <2>8 DEF IInv, CallbacksServed, Issued, Logins, server, browser
    <2>11. FlightsOwn'
      BY <1>1, <2>2, <2>3, <2>6, <2>8 DEF IInv, FlightsOwn, Issued, Logins, server, browser
    <2>12. SessionsIssued' /\ ReloadKeeps' /\ EndedForCause'
      BY <2>2 DEF IInv, SessionsIssued, ReloadKeeps, EndedForCause, Issued, Logins, server, browser
    <2> QED
      BY <2>9, <2>10, <2>11, <2>12 DEF IInv
  <1> QED
    BY <1>3, <1>4
LEMMA AuthIInv ==
    ASSUME IInv, NEW t \in Tabs, NEW s \in Slots, auth(t, s)
    PROVE  IInv'
  <1> DEFINE answer == IF Before(flight[t][s].token.expires) THEN "served" ELSE "unauthorized"
  <1>1. /\ flight[t][s] # None /\ flight' = [flight EXCEPT ![t][s].answer = answer]
        /\ UNCHANGED <<now, server, browser, callback>>
    BY DEF auth
  <1>2. flight \in [Tabs -> [Slots -> {None} \cup Flights]] /\ flight[t][s] \in Flights
    BY <1>1 DEF IInv, Typed
  <1>3. answer \in {"served", "unauthorized"}
    OBVIOUS
  <1>4. answer = "unauthorized" => flight[t][s].token.expires <= now
    BY <1>2 DEF Before, Flights, Tokens, IInv, Typed
  <1> HIDE DEF answer
  <1> DEFINE sent == [flight[t][s] EXCEPT !.answer = answer]
  <1>5. sent \in Flights /\ sent.token = flight[t][s].token /\ sent.answer = answer
    BY <1>2, <1>3 DEF Flights
  <1>6. flight' = [flight EXCEPT ![t] = [flight[t] EXCEPT ![s] = sent]]
    BY <1>1, Zenon
  <1> HIDE DEF sent
  <1>7. [flight[t] EXCEPT ![s] = sent] \in [Slots -> {None} \cup Flights]
    BY <1>2, <1>5
  <1>8. /\ flight' \in [Tabs -> [Slots -> {None} \cup Flights]]
        /\ flight'[t][s] = sent
        /\ \A u \in Tabs, r \in Slots : u # t \/ r # s => flight'[u][r] = flight[u][r]
    BY <1>2, <1>6, <1>7
  <1>9. Typed' /\ LoginsOnce'
    BY <1>1, <1>8 DEF IInv, Typed, LoginsOnce, Logins, server, browser
  <1>10. CallbacksServed'
    BY <1>1, <1>8 DEF IInv, CallbacksServed, Issued, Logins, server, browser
  <1>11. FlightsOwn'
    BY <1>1, <1>4, <1>5, <1>8 DEF IInv, FlightsOwn, Issued, Logins, server, browser
  <1>12. SessionsIssued' /\ ReloadKeeps' /\ EndedForCause'
    BY <1>1 DEF IInv, SessionsIssued, ReloadKeeps, EndedForCause, Issued, Logins, server, browser
  <1> QED
    BY <1>9, <1>10, <1>11, <1>12 DEF IInv

LEMMA ResponseIInv ==
    ASSUME IInv, NEW t \in Tabs, NEW s \in Slots, response(t, s)
    PROVE  IInv'
  <1>1. /\ flight[t][s] # None /\ flight' = [flight EXCEPT ![t][s] = None]
        /\ UNCHANGED <<now, server, callback>>
    BY DEF response
  <1>2. CASE flight[t][s].answer = "unauthorized"
    <2>1. expireSession(t)
      BY <1>2 DEF response
    <2>2. status[t] = "authenticated" => session[t].expires <= now
      BY <1>1, <1>2 DEF IInv, FlightsOwn
    <2> QED
      BY <1>1, <2>1, <2>2, ExpireIInv
  <1>3. CASE flight[t][s].answer # "unauthorized"
    <2>1. UNCHANGED browser
      BY <1>3 DEF response
    <2>2. /\ flight' \in [Tabs -> [Slots -> {None} \cup Flights]]
          /\ \A u \in Tabs, r \in Slots : flight'[u][r] \in {flight[u][r], None}
      BY <1>1, FlightEnds DEF IInv, Typed
    <2>3. Typed' /\ LoginsOnce'
      BY <1>1, <2>1, <2>2 DEF IInv, Typed, LoginsOnce, Logins, server, browser
    <2>4. CallbacksServed'
      BY <1>1, <2>1, <2>2 DEF IInv, CallbacksServed, Issued, Logins, server, browser
    <2>5. FlightsOwn'
      BY <1>1, <2>1, <2>2 DEF IInv, FlightsOwn, Issued, Logins, server, browser
    <2>6. SessionsIssued' /\ ReloadKeeps' /\ EndedForCause'
      BY <1>1, <2>1 DEF IInv, SessionsIssued, ReloadKeeps, EndedForCause, Issued, Logins,
         server, browser
    <2> QED
      BY <2>3, <2>4, <2>5, <2>6 DEF IInv
  <1> QED
    BY <1>2, <1>3

LEMMA NextIInv == IInv /\ [Next]_vars => IInv'
  <1> SUFFICES ASSUME IInv, [Next]_vars PROVE IInv'
    OBVIOUS
  <1>1. CASE UNCHANGED vars
    BY <1>1 DEF vars, server, browser, IInv, Typed, LoginsOnce, CallbacksServed, SessionsIssued,
       FlightsOwn, ReloadKeeps, EndedForCause, Issued, Logins
  <1>2. ASSUME NEW t \in Tabs, acknowledgeExpiration(t) PROVE IInv'
    <2>1. /\ status[t] = "expired" /\ session[t] = None
          /\ UNCHANGED <<now, server, storage, stranger, callback, flight>>
      BY <1>2 DEF acknowledgeExpiration, IInv, SessionsIssued
    <2>2. /\ status'[t] = "anonymous" /\ session'[t] = None /\ ended'[t] = None
          /\ \A u \in Tabs \ {t} : status'[u] = status[u] /\ session'[u] = session[u]
                             /\ ended'[u] = ended[u]
      BY <1>2 DEF acknowledgeExpiration, setState, IInv, Typed
    <2>3. Typed'
      BY <1>2, <2>1 DEF acknowledgeExpiration, setState, IInv, Typed, Logins, server
    <2>4. LoginsOnce' /\ CallbacksServed'
      BY <2>1, <2>2 DEF IInv, LoginsOnce, CallbacksServed, Issued, Logins, server
    <2>5. SessionsIssued' /\ FlightsOwn'
      BY <2>1, <2>2 DEF IInv, SessionsIssued, FlightsOwn, Issued, Logins, server
    <2>6. ReloadKeeps' /\ EndedForCause'
      BY <2>1, <2>2 DEF IInv, ReloadKeeps, EndedForCause
    <2> QED
      BY <2>3, <2>4, <2>5, <2>6 DEF IInv
  <1>3. ASSUME NEW t \in Tabs, Callback(t) PROVE IInv'
    BY <1>3, LoadIInv DEF Callback
  <1>4. ASSUME NEW t \in Tabs, Open(t) PROVE IInv'
    BY <1>4, LoadIInv DEF Open, Drop
  <1>5. ASSUME NEW l \in 1..MaxLogins, Grant(l) PROVE IInv'
    BY <1>5, OutsideIInv DEF Grant
  <1> QED
    BY <1>1, <1>2, <1>3, <1>4, <1>5, OutsideIInv, BeginIInv, ConsumeIInv, LoginIInv, RequestIInv,
       AuthIInv, ResponseIInv DEF Next

LEMMA Invariant == Spec => []IInv
  BY InitIInv, NextIInv, PTL DEF Spec

-----------------------------------------------------------------------------
\* However callbacks, expiries, restarts and failures interleave, each login is
\* let through to Google at most once and in time, and no token is in the
\* browser but for such a login (consume, CompleteGoogleLogin).
THEOREM LoginsAreSound == Spec => []LoginSound
  <1>1. IInv => LoginSound
    <2> SUFFICES ASSUME IInv PROVE LoginSound
      OBVIOUS
    <2>1. DOMAIN served = Logins /\ DOMAIN served = 1..Len(served)
      BY DEF IInv, Typed, Logins
    <2>2. ASSUME NEW x \in Sessions, x # None PROVE Issued(x)
      BY <2>2 DEF Sessions, IInv, SessionsIssued, FlightsOwn
    <2> QED
      BY <2>1, <2>2 DEF LoginSound, IInv, LoginsOnce, Issued
  <1> QED
    BY <1>1, Invariant, PTL

\* No tab ends the session it shows before its end, however late answers come,
\* and it keeps it over reloads unless another tab has used the storage
\* (AuthStore).
THEOREM SessionsAreSound == Spec => []SessionSound
  <1>1. IInv => SessionSound
    BY DEF IInv, SessionSound
  <1> QED
    BY <1>1, Invariant, PTL
=============================================================================
