-------------------------------- MODULE Session --------------------------------
(***************************************************************************)
(* A login: the tabs of one browser, which share its refresh cookie, and   *)
(* the auth service that rotates it.  A tab keeps its access token in      *)
(* memory; a call refused with 401 waits for one refresh of the tab and is *)
(* sent once more (packages/api/src/apiClient.ts and refresh.ts).  The     *)
(* service keeps the refresh tokens of the user's devices in a Redis hash  *)
(* (service/user/auth.go), one command at a time.                          *)
(***************************************************************************)
EXTENDS Naturals, FiniteSets

CONSTANTS
    Apps,          \* the apps the browser may run: "vue", "react"
    Tabs,          \* tabs of the browser
    Others,        \* logins of the user's other devices
    Calls,         \* API calls
    TabOf,         \* the tab that makes a call, a function from Calls to Tabs
    Logouts,       \* the calls that are POST v3/logout
    MaxDevices,    \* MAX_REFRESH_DEVICES
    MaxTokens,     \* bound: refresh tokens issued
    MaxExpiries,   \* bound: access tokens that expire
    MaxFaults      \* bound: answers of the service lost and commands Redis fails

\* Devices are not tabs, a tab makes each call, and the limit is positive.
Setting ==
    /\ Tabs \cap Others = {}
    /\ TabOf \in [Calls -> Tabs]
    /\ Logouts \subseteq Calls
    /\ MaxDevices \in Nat \ {0}
    /\ MaxFaults \in Nat

ASSUME SessionAssumption == Setting

VARIABLES
    app,        \* the app the tabs run
    issued,     \* refresh tokens are numbered in the order they are issued
    stored,     \* the hash refresh:{uid}
    cookie,     \* refresh_token cookie of the browser, None when there is none
    access,     \* the access token of each tab
    user,       \* what the auth store of the tab knows
    cooling,    \* tabs whose last refresh began less than 500 ms ago
    req,        \* refresh or login under way, of a tab or another device
    call,       \* API calls, with the cookie a logout was sent with
    evicted,    \* tokens deleted for the device limit
    lost,       \* answers with a new token lost so far
    expiries,   \* access tokens that have expired
    faults,     \* commands that Redis has failed
    spared      \* history: tokens that a failed command kept from the eviction

trouble == <<faults, spared>>
service == <<issued, stored, evicted, trouble>>
sessionVars == <<app, issued, stored, cookie, access, user, cooling, req, call,
                 evicted, lost, expiries, faults, spared>>

None == 0
Tokens == 1..MaxTokens
Idle == [is |-> "none", at |-> "idle", old |-> None, new |-> None, out |-> {}]

SessionTypeOK ==
    /\ app \in Apps
    /\ issued \in Tokens
    /\ stored \subseteq 1..issued
    /\ cookie \in 0..issued
    /\ access \in [Tabs -> {"none", "good", "stale"}]
    /\ user \in [Tabs -> {"unknown", "in", "out"}]
    /\ cooling \subseteq Tabs
    /\ req \in [Tabs \cup Others ->
                  [is : {"none", "refresh", "login", "over"},
                   at : {"idle", "sent", "found", "stored", "evicting", "kept",
                         "done", "refused"},
                   old : 0..MaxTokens, new : 0..MaxTokens, out : SUBSET Tokens]]
    /\ call \in [Calls -> [at : {"new", "sent", "waiting", "leaving", "left", "done", "failed"},
                           old : 0..MaxTokens]]
    /\ evicted \subseteq Tokens /\ lost \in 0..MaxFaults
    /\ expiries \in 0..MaxExpiries
    /\ faults \in 0..MaxFaults /\ spared \subseteq Tokens

\* The browser holds the cookie of an earlier visit; its tabs are being opened.
SessionInit ==
    /\ app \in Apps
    /\ issued = 1 /\ stored = {1} /\ cookie = 1
    /\ access = [t \in Tabs |-> "none"]
    /\ user = [t \in Tabs |-> "unknown"]
    /\ cooling = {}
    /\ req = [r \in Tabs \cup Others |-> Idle]
    /\ call = [c \in Calls |-> [at |-> "new", old |-> None]]
    /\ evicted = {} /\ lost = 0 /\ expiries = 0
    /\ faults = 0 /\ spared = {}

-----------------------------------------------------------------------------
(* The tab *)

Refreshing(t) == req[t].is = "refresh"

SendAuth(r, what, jar) ==
    req' = [req EXCEPT ![r] = [Idle EXCEPT !.is = what, !.at = "sent", !.old = jar]]

\* The cooldown is the shared refresher's; the Vue app registers its own.
Cooled(t) == IF app = "react" THEN cooling \cup {t} ELSE cooling

\* refreshAccessToken: a refresh under way is joined.
Refresh(t) ==
    IF Refreshing(t) THEN UNCHANGED <<req, cooling>>
    ELSE SendAuth(t, "refresh", cookie) /\ cooling' = Cooled(t)

\* ... and one that has just ended is not repeated.
Throttled(t) == ~Refreshing(t) /\ t \in cooling

\* hydrateAuth: a page begins with a refresh, whatever cookie there is.
hydrateAuth(t) ==
    /\ user[t] = "unknown" /\ req[t] = Idle
    /\ Refresh(t)
    /\ UNCHANGED <<app, service, cookie, access, user, call, lost, expiries>>

\* The login form is used when no call of the tab is under way.
login(t) ==
    /\ user[t] = "out" /\ req[t] = Idle
    /\ \A c \in Calls : TabOf[c] = t => call[c].at \in {"new", "done", "failed"}
    /\ SendAuth(t, "login", cookie)
    /\ UNCHANGED <<app, service, cookie, access, user, cooling, call, lost, expiries>>

CallIs(c, at) == call' = [call EXCEPT ![c].at = at]

\* A logout that the service accepts carries the cookie of that moment.
Accepted(c, k, jar) ==
    IF c \in Logouts THEN [at |-> "leaving", old |-> jar]
    ELSE [at |-> "done", old |-> k.old]

\* The Vue store forgets the login when its logout ends, in any way; the React
\* store has cleared its token before, and forgets the user on success only.
LoggedOut(c, ok) ==
    LET t == TabOf[c] IN
    IF c \in Logouts
    THEN /\ access' = [access EXCEPT ![t] = "none"]
         /\ user' = IF app = "vue" \/ ok THEN [user EXCEPT ![t] = "out"] ELSE user
    ELSE UNCHANGED <<access, user>>

\* A call, with the token the tab has now: accepted, refused, or - without a
\* token, as every logout of the React app - refused for good.
Begin(c) ==
    LET t == TabOf[c]
        with == IF app = "react" /\ c \in Logouts THEN "none" ELSE access[t] IN
    /\ call[c].at = "new" /\ user[t] = "in"
    /\ \/ /\ with = "good"
          /\ call' = [call EXCEPT ![c] = Accepted(c, @, cookie)]
          /\ UNCHANGED <<access, user>>
       \/ /\ with = "stale"
          /\ CallIs(c, "sent")
          /\ UNCHANGED <<access, user>>
       \/ /\ with = "none"
          /\ call' = [call EXCEPT ![c] = [at |-> "failed", old |-> cookie]]
          /\ LoggedOut(c, FALSE)
    /\ UNCHANGED <<app, service, cookie, cooling, req, lost, expiries>>

\* The answer 401.
Refused(c) ==
    LET t == TabOf[c] IN
    /\ call[c].at = "sent"
    /\ \/ /\ ~Throttled(t) /\ req[t].is # "login"
          /\ CallIs(c, "waiting")
          /\ Refresh(t)
          /\ UNCHANGED <<access, user>>
       \/ /\ Throttled(t)
          /\ CallIs(c, "failed")
          /\ LoggedOut(c, FALSE)
          /\ UNCHANGED <<req, cooling>>
    /\ UNCHANGED <<app, service, cookie, lost, expiries>>

\* A logout is answered: the cookie goes.
Leaves(c) ==
    /\ call[c].at = "left"
    /\ CallIs(c, "done")
    /\ cookie' = None
    /\ LoggedOut(c, TRUE)
    /\ UNCHANGED <<app, service, cooling, req, lost, expiries>>

WaitingCalls(t) == {c \in Calls : TabOf[c] = t /\ call[c].at = "waiting"}

\* The refresh or login of a tab is answered; the promise settles and the calls
\* that waited for it are sent again, or fail with it.
Answered(t) ==
    /\ \/ /\ req[t].at = "done"
          /\ cookie' = req[t].new
          /\ access' = [access EXCEPT ![t] = "good"]
          /\ user' = [user EXCEPT ![t] =
                         IF req[t].is = "login" \/ @ = "unknown" THEN "in" ELSE @]
          /\ call' = [c \in Calls |-> IF c \in WaitingCalls(t)
                                      THEN Accepted(c, call[c], cookie') ELSE call[c]]
          /\ UNCHANGED lost
       \/ /\ req[t].at \in {"done", "refused"}
          /\ req[t].at = "done" => faults + lost < MaxFaults
          /\ lost' = IF req[t].at = "done" THEN lost + 1 ELSE lost
          /\ call' = [c \in Calls |-> IF c \in WaitingCalls(t)
                                      THEN [call[c] EXCEPT !.at = "failed"] ELSE call[c]]
          /\ user' = [user EXCEPT ![t] =
                IF @ = "unknown" \/ (app = "vue" /\ WaitingCalls(t) \cap Logouts # {}) THEN "out" ELSE @]
          /\ access' = [access EXCEPT ![t] =
                IF WaitingCalls(t) \cap Logouts # {} THEN "none" ELSE @]
          /\ UNCHANGED cookie
    /\ req' = [req EXCEPT ![t] = Idle]
    /\ UNCHANGED <<app, service, cooling, expiries>>

Cool(t) ==
    /\ t \in cooling
    /\ cooling' = cooling \ {t}
    /\ UNCHANGED <<app, service, cookie, access, user, req, call, lost, expiries>>

AccessExpires(t) ==
    /\ access[t] = "good" /\ expiries < MaxExpiries
    /\ access' = [access EXCEPT ![t] = "stale"]
    /\ expiries' = expiries + 1
    /\ UNCHANGED <<app, service, cookie, user, cooling, req, call, lost>>

-----------------------------------------------------------------------------
(* The service *)

Browser == <<app, cookie, access, user, cooling, lost, expiries>>

Step(r, from, to) == req[r].at = from /\ req' = [req EXCEPT ![r].at = to]

\* Another device of the user logs in.
LoginElsewhere(d) ==
    /\ req[d] = Idle
    /\ SendAuth(d, "login", None)
    /\ UNCHANGED <<Browser, service, call>>

\* Mutant: the old token is deleted as soon as it is found.
LookAndDelete(r) ==
    /\ req[r].is = "refresh"
    /\ Step(r, "sent", IF req[r].old \in stored THEN "found" ELSE "refused")
    /\ stored' = stored \ {req[r].old}
    /\ UNCHANGED <<Browser, issued, evicted, trouble, call>>

\* RefreshTokens: HGET.
Look(r) ==
    /\ req[r].is = "refresh"
    /\ Step(r, "sent", IF req[r].old \in stored THEN "found" ELSE "refused")
    /\ UNCHANGED <<Browser, service, call>>

\* CreateTokens, storeRefreshToken: HSET.
HSet(r) ==
    /\ req[r].at = IF req[r].is = "login" THEN "sent" ELSE "found"
    /\ issued < MaxTokens
    /\ issued' = issued + 1
    /\ stored' = stored \cup {issued'}

Store(r) ==
    /\ HSet(r)
    /\ req' = [req EXCEPT ![r].at = "stored", ![r].new = issued']
    /\ UNCHANGED <<Browser, evicted, trouble, call>>

\* Mutant: one device too many is kept.
OldestButOneMore(tokens) ==
    {k \in tokens : Cardinality({n \in tokens : n > k}) > MaxDevices}

\* evictOldest deletes all but the MaxDevices youngest.
Oldest(tokens) ==
    {k \in tokens : Cardinality({n \in tokens : n > k}) >= MaxDevices}

\* evictOldest: HGETALL, then an HDEL of each token that was too old.
Survey(r) ==
    /\ req[r].at = "stored"
    /\ req' = [req EXCEPT ![r].at = IF Oldest(stored) = {} THEN "kept" ELSE "evicting",
                          ![r].out = Oldest(stored)]
    /\ UNCHANGED <<Browser, service, call>>

\* The loop goes on to the next token that was too old.
Past(r, k) ==
    /\ req[r].at = "evicting" /\ k \in req[r].out
    /\ req' = [req EXCEPT ![r].out = @ \ {k},
                          ![r].at = IF req[r].out = {k} THEN "kept" ELSE @]

Evict(r) ==
    /\ \E k \in req[r].out :
          /\ Past(r, k)
          /\ stored' = stored \ {k}
          /\ evicted' = evicted \cup {k}
    /\ UNCHANGED <<Browser, issued, trouble, call>>

\* RefreshTokens deletes the old token after the new one is stored.
Rotate(r) ==
    /\ Step(r, "kept", "done")
    /\ stored' = IF req[r].is = "refresh" THEN stored \ {req[r].old} ELSE stored
    /\ UNCHANGED <<Browser, issued, evicted, trouble, call>>

\* Logout: HDEL of the token in the cookie.
Revoke(c) ==
    /\ call[c].at = "leaving"
    /\ CallIs(c, "left")
    /\ stored' = stored \ {call[c].old}
    /\ UNCHANGED <<Browser, issued, evicted, trouble, req>>

RedisFault == faults + lost < MaxFaults /\ faults' = faults + 1

\* Redis fails a command of a request.  HGET or HSET: the request is refused,
\* though the HSET may have taken effect.  The errors of HGETALL and HDEL are
\* not looked at: nothing is evicted, one token is not, or the old one stays.
RedisFails(r) ==
    /\ RedisFault
    /\ \/ /\ \E from \in {"sent", "found"} : Step(r, from, "refused")
          /\ UNCHANGED <<issued, stored, spared>>
       \/ /\ HSet(r)
          /\ req' = [req EXCEPT ![r].at = "refused"]
          /\ spared' = spared \cup {issued'}
       \/ /\ Step(r, "stored", "kept")
          /\ spared' = spared \cup {req[r].new}
          /\ UNCHANGED <<issued, stored>>
       \/ /\ \E k \in req[r].out : Past(r, k) /\ spared' = spared \cup {k}
          /\ UNCHANGED <<issued, stored>>
       \/ /\ req[r].is = "refresh" /\ Step(r, "kept", "done")
          /\ UNCHANGED <<issued, stored, spared>>
    /\ UNCHANGED <<Browser, evicted, call>>

\* ... or the HDEL of a logout, which is answered as if it had not.
RevokeFails(c) ==
    /\ RedisFault
    /\ call[c].at = "leaving"
    /\ CallIs(c, "left")
    /\ UNCHANGED <<Browser, issued, stored, evicted, spared, req>>

-----------------------------------------------------------------------------
Serve(r) ==
    Look(r) \/ Store(r) \/ Survey(r) \/ Evict(r) \/ Rotate(r) \/ RedisFails(r)

SessionNext ==
    \/ \E t \in Tabs : hydrateAuth(t) \/ login(t) \/ Answered(t) \/ Cool(t) \/ AccessExpires(t)
    \/ \E c \in Calls : Begin(c) \/ Refused(c) \/ Revoke(c) \/ RevokeFails(c) \/ Leaves(c)
    \/ \E d \in Others : LoginElsewhere(d)
    \/ \E r \in Tabs \cup Others : Serve(r)

SessionSpec == SessionInit /\ [][SessionNext]_sessionVars

-----------------------------------------------------------------------------
(* Properties *)

\* A browser that holds a cookie can refresh with it: the token is stored, or
\* the request that used it up is still to be answered - unless its answer was
\* lost, the device limit took the token, or a logout is taking it.
CookieAlive ==
    \/ cookie \in {None} \cup stored \cup evicted
    \/ lost > 0
    \/ \E t \in Tabs : req[t].at = "done" /\ req[t].old = cookie
    \/ \E c \in Logouts : call[c].at = "left" /\ call[c].old = cookie

\* When no token is being issued, the user has no more than MaxDevices, but for
\* one token for each command that failed before or while it would be evicted.
DeviceLimit ==
    (\A r \in Tabs \cup Others : req[r].at \notin {"stored", "evicting"})
        => Cardinality(stored \ spared) <= MaxDevices

\* docs/rules/auth.md:66: a logout deletes the refresh token of its device.
LogoutRevokes ==
    \A c \in Logouts : call[c].at \in {"done", "failed"} => call[c].old \notin stored
=============================================================================
