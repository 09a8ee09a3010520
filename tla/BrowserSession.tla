--------------------------- MODULE BrowserSession ---------------------------
(***************************************************************************)
(* One browser, its tabs, and the sessions the API keeps for it.  Both     *)
(* tokens are HttpOnly cookies of the API, so all tabs share them: the     *)
(* access token lasts 15 minutes, a refresh token is good for one refresh, *)
(* which revokes its session and opens a new one.  The admin's client      *)
(* refreshes once per tab however many requests wait for it; the reader's  *)
(* client refreshes once per request.                                      *)
(***************************************************************************)
EXTENDS Integers, FiniteSets

CONSTANTS
    Tabs,         \* open tabs of the browser
    Web,          \* those that show the reader's site; the others the admin's
    Requests,     \* slots for requests of pages
    Tab,          \* the tab a slot belongs to
    MaxStarts,    \* requests the pages start (bound)
    MaxFaults     \* answers that are lost or turn into a 500 (bound)

ASSUME TabAssumption == Web \subseteq Tabs /\ Tab \in [Requests -> Tabs]
ASSUME BoundsAssumption == MaxStarts \in Nat /\ MaxFaults \in Nat

NoToken == 0

(* The admin's module keeps refreshInFlight, so one refresh per tab; the    *)
(* interceptor of the reader's site starts one for each request.           *)
AdminCaller(t) == <<"tab", t>>
SiteCaller(r)  == <<"request", r>>
OnSite(r)      == Tab[r] \in Web
Caller(r)      == IF OnSite(r) THEN SiteCaller(r) ELSE AdminCaller(Tab[r])
Callers        == {Caller(r) : r \in Requests}
Admins         == {Tab[r] : r \in {r \in Requests : ~OnSite(r)}}

VARIABLES
    jar,        \* the cookies: is the access token good, which refresh token
    live,       \* refresh tokens whose session is not revoked
    issued,     \* refresh tokens issued so far
    req,        \* the request of each slot
    ref,        \* the refresh call of each caller
    user,       \* what each tab believes of the signed-in user
    started, faults,
    contested,  \* history: tokens two parties had under way at once
    spoiled     \* history: tokens whose refresh or logout was cut short

vars == <<jar, live, issued, req, ref, user, started, faults, contested, spoiled>>

Kinds    == {"profile", "call", "login", "logout"}
Idle     == [pc |-> "idle", kind |-> "call", access |-> FALSE, token |-> NoToken]
NoCall   == [pc |-> "idle", token |-> NoToken, fresh |-> NoToken]
SignedOut == [access |-> FALSE, refresh |-> NoToken]

Init ==
    /\ \/ jar = SignedOut /\ issued = 0 /\ user = [t \in Tabs |-> "new"]
       \/ \E a \in BOOLEAN : jar = [access |-> a, refresh |-> 1]
          /\ issued = 1 /\ user \in [Tabs -> {"new", "in"}]
    /\ live = 1..issued
    /\ req = [r \in Requests |-> Idle]
    /\ ref = [c \in Callers |-> NoCall]
    /\ started = 0 /\ faults = 0
    /\ contested = {} /\ spoiled = {}

-----------------------------------------------------------------------------
(* What a tab may still do, and how requests come and go.                  *)

Waiters(c) == {r \in Requests : Caller(r) = c /\ req[r].pc = "waiting"}

(* Who has a token under way: a refresh from its start to its end, or a    *)
(* logout in flight.  A second user of the token contests it.              *)
Refreshes(c, k) == ref[c].pc # "idle" /\ ref[c].token = k
LogsOut(r, k) ==
    /\ req[r].kind = "logout" /\ req[r].pc \in {"sent", "again", "revoked"}
    /\ req[r].token = k
InUse(k) == (\E c \in Callers : Refreshes(c, k)) \/ (\E r \in Requests : LogsOut(r, k))

Contested(kind) ==
    IF kind \in {"logout", "refresh"} /\ jar.refresh # NoToken /\ InUse(jar.refresh)
    THEN contested \cup {jar.refresh} ELSE contested

(* A logout alone says which session it is about.                          *)
With(pc, kind, cookies) ==
    [pc |-> pc, kind |-> kind, access |-> cookies.access,
     token |-> IF kind = "logout" THEN cookies.refresh ELSE NoToken]

(* fetch and axios attach the cookies as they are when the request leaves. *)
Send(r, kind) ==
    /\ req[r].pc = "idle" /\ started < MaxStarts
    /\ started' = started + 1
    /\ req' = [req EXCEPT ![r] = With("sent", kind, jar)]
    /\ contested' = Contested(kind)
    /\ UNCHANGED <<jar, live, issued, ref, faults, spoiled>>

(* AuthProvider asks for the profile when the admin's page is loaded,      *)
(* AuthInit when the site's is.                                            *)
CheckProfile(r) ==
    /\ user[Tab[r]] = "new"
    /\ user' = [user EXCEPT ![Tab[r]] = "checking"]
    /\ Send(r, "profile")

OpenAdmin(r) == ~OnSite(r) /\ CheckProfile(r)
OpenSite(r)  == OnSite(r) /\ CheckProfile(r)

(* Pages behind AuthGate, or ProtectedRoute, show nothing to anybody else. *)
PassesGate(t)  == t \notin Web /\ user[t] = "in"
PassesRoute(t) == t \in Web /\ user[t] = "in"

CallApi(r) ==
    /\ PassesGate(Tab[r]) \/ PassesRoute(Tab[r])
    /\ Send(r, "call") /\ UNCHANGED user

Submitting(t, kind) == \E r \in Requests : Tab[r] = t /\ req[r].pc # "idle" /\ req[r].kind = kind

(* Neither login form waits for the profile check; both wait for their own *)
(* submission.                                                             *)
LogInAdmin(r) ==
    /\ ~OnSite(r)
    /\ user[Tab[r]] \in {"checking", "out"} /\ ~Submitting(Tab[r], "login")
    /\ Send(r, "login") /\ UNCHANGED user

LogInSite(r) ==
    /\ OnSite(r)
    /\ user[Tab[r]] \in {"checking", "out"} /\ ~Submitting(Tab[r], "login")
    /\ Send(r, "login") /\ UNCHANGED user

LogOut(r) ==
    /\ user[Tab[r]] = "in" /\ ~Submitting(Tab[r], "logout")
    /\ Send(r, "logout") /\ UNCHANGED user

(* The page is loaded anew while nothing of it is under way.               *)
Reload(t) ==
    /\ user[t] \in {"in", "out"} /\ started < MaxStarts
    /\ \A r \in Requests : Tab[r] = t => req[r].pc = "idle"
    /\ user' = [user EXCEPT ![t] = "new"]
    /\ UNCHANGED <<jar, live, issued, req, ref, started, faults, contested, spoiled>>

(* Fifteen minutes pass: the token expires and the browser drops it.       *)
AccessLapses ==
    /\ jar.access
    /\ jar' = [jar EXCEPT !.access = FALSE]
    /\ UNCHANGED <<live, issued, req, ref, user, started, faults, contested, spoiled>>

(* A profile that cannot be had leaves nobody signed in, nor does a logout *)
(* of whatever outcome.                                                    *)
AfterFailure(r) ==
    IF req[r].kind \in {"profile", "logout"} THEN "out" ELSE user[Tab[r]]

Settle(r, belief) ==
    /\ req' = [req EXCEPT ![r] = Idle]
    /\ user' = [user EXCEPT ![Tab[r]] = belief]

-----------------------------------------------------------------------------
(* The API's answers to requests of pages.                                 *)

InFlight(r) == req[r].pc \in {"sent", "again"}
IsCall(r)   == req[r].kind \in {"profile", "call"}

(* A wrong password is a 401 as well.                                      *)
Refusable(r) == ~req[r].access \/ req[r].kind = "login"

(* A request is sent twice at most; the site does not refresh for the      *)
(* profile.                                                                *)
AdminGivesUp(r) == ~OnSite(r) /\ req[r].pc = "again"
SiteGivesUp(r)  == OnSite(r) /\ (req[r].pc = "again" \/ req[r].kind = "profile")
GivesUp(r)      == AdminGivesUp(r) \/ SiteGivesUp(r)

Served(r) ==
    /\ InFlight(r) /\ IsCall(r) /\ req[r].access
    /\ Settle(r, IF req[r].kind = "profile" THEN "in" ELSE user[Tab[r]])
    /\ UNCHANGED <<jar, live, issued, ref, started, faults, contested, spoiled>>

(* 401 for good: the caller gets the error.                                *)
Refused(r) ==
    /\ InFlight(r) /\ Refusable(r) /\ GivesUp(r)
    /\ Settle(r, AfterFailure(r))
    /\ UNCHANGED <<jar, live, issued, ref, started, faults, contested, spoiled>>

(* 401: POST /auth/refresh.  The site's call has no body, which the        *)
(* framework may refuse before the handler sees it.                        *)
Post(r, pcs) ==
    /\ InFlight(r) /\ Refusable(r) /\ ~GivesUp(r) /\ ref[Caller(r)].pc = "idle"
    /\ req' = [req EXCEPT ![r].pc = "waiting"]
    /\ \E pc \in pcs : ref' = [ref EXCEPT ![Caller(r)] =
                                [pc |-> pc, token |-> jar.refresh, fresh |-> NoToken]]
    /\ contested' = Contested("refresh")
    /\ UNCHANGED <<jar, live, issued, user, started, faults, spoiled>>

RefreshAdmin(r) == ~OnSite(r) /\ Post(r, {"sent"})
RefreshSite(r)  == OnSite(r) /\ Post(r, {"sent", "refused"})

(* A request of an admin tab waits for the refresh under way, if any.      *)
JoinRefresh(r) ==
    /\ InFlight(r) /\ Refusable(r) /\ ~GivesUp(r)
    /\ ~OnSite(r) /\ ref[Caller(r)].pc # "idle"
    /\ req' = [req EXCEPT ![r].pc = "waiting"]
    /\ UNCHANGED <<jar, live, issued, ref, user, started, faults, contested, spoiled>>

(* The password is right: a session is stored, and the answer sets both    *)
(* cookies.  The admin's page then asks for the profile, the site has it.  *)
OpenSession(r) ==
    /\ InFlight(r) /\ req[r].kind = "login"
    /\ issued' = issued + 1
    /\ live' = live \cup {issued + 1}
    /\ req' = [req EXCEPT ![r].pc = "granted", ![r].token = issued + 1]
    /\ UNCHANGED <<jar, ref, user, started, faults, contested, spoiled>>

AdminLoggedIn(r) ==
    /\ req[r].pc = "granted" /\ ~OnSite(r)
    /\ jar' = [access |-> TRUE, refresh |-> req[r].token]
    /\ req' = [req EXCEPT ![r] = With("sent", "profile", jar')]
    /\ UNCHANGED <<live, issued, ref, user, started, faults, contested, spoiled>>

SiteLoggedIn(r) ==
    /\ req[r].pc = "granted" /\ OnSite(r)
    /\ jar' = [access |-> TRUE, refresh |-> req[r].token]
    /\ Settle(r, "in")
    /\ UNCHANGED <<live, issued, ref, started, faults, contested, spoiled>>

(* The session of the token is revoked, whatever became of it, then the    *)
(* answer drops the cookies.                                               *)
RevokeSession(r) ==
    /\ InFlight(r) /\ req[r].kind = "logout" /\ req[r].access
    /\ live' = live \ {req[r].token}
    /\ req' = [req EXCEPT ![r].pc = "revoked"]
    /\ UNCHANGED <<jar, issued, ref, user, started, faults, contested, spoiled>>

LoggedOut(r) ==
    /\ req[r].pc = "revoked"
    /\ jar' = SignedOut
    /\ Settle(r, "out")
    /\ UNCHANGED <<live, issued, ref, started, faults, contested, spoiled>>

(* The answer is a 500 or does not arrive.                                 *)
RequestFails(r) ==
    /\ InFlight(r) \/ req[r].pc \in {"granted", "revoked"}
    /\ faults < MaxFaults /\ faults' = faults + 1
    /\ spoiled' = IF req[r].pc = "revoked" THEN spoiled \cup {req[r].token} ELSE spoiled
    /\ Settle(r, AfterFailure(r))
    /\ UNCHANGED <<jar, live, issued, ref, started, contested>>

-----------------------------------------------------------------------------
(* POST /auth/refresh, from its first read to its answer.                  *)

FindSession(c) ==
    /\ ref[c].pc = "sent"
    /\ ref' = [ref EXCEPT ![c].pc = IF ref[c].token \in live THEN "found" ELSE "refused"]
    /\ UNCHANGED <<jar, live, issued, req, user, started, faults, contested, spoiled>>

RevokeOld(c) ==
    /\ ref[c].pc = "found"
    /\ live' = live \ {ref[c].token}
    /\ ref' = [ref EXCEPT ![c].pc = "revoked"]
    /\ UNCHANGED <<jar, issued, req, user, started, faults, contested, spoiled>>

\* Mutant: the new session is answered but not stored.
AnswerNew(c) ==
    /\ ref[c].pc = "revoked"
    /\ issued' = issued + 1
    /\ ref' = [ref EXCEPT ![c].pc = "granted", ![c].fresh = issued + 1]
    /\ UNCHANGED <<jar, live, req, user, started, faults, contested, spoiled>>

InsertNew(c) ==
    /\ ref[c].pc = "revoked"
    /\ issued' = issued + 1
    /\ live' = live \cup {issued + 1}
    /\ ref' = [ref EXCEPT ![c].pc = "granted", ![c].fresh = issued + 1]
    /\ UNCHANGED <<jar, req, user, started, faults, contested, spoiled>>

\* Mutant: the answer sets the access token only.
RefreshedAccess(c) ==
    /\ ref[c].pc = "granted"
    /\ jar' = [jar EXCEPT !.access = TRUE]
    /\ ref' = [ref EXCEPT ![c] = NoCall]
    /\ req' = [r \in Requests |->
                 IF r \in Waiters(c) THEN With("again", req[r].kind, jar') ELSE req[r]]
    /\ UNCHANGED <<live, issued, user, started, faults, contested, spoiled>>

(* The answer sets both cookies and every request that waited is sent      *)
(* again, with them.                                                       *)
Refreshed(c) ==
    /\ ref[c].pc = "granted"
    /\ jar' = [access |-> TRUE, refresh |-> ref[c].fresh]
    /\ ref' = [ref EXCEPT ![c] = NoCall]
    /\ req' = [r \in Requests |->
                 IF r \in Waiters(c) THEN With("again", req[r].kind, jar') ELSE req[r]]
    /\ UNCHANGED <<live, issued, user, started, faults, contested, spoiled>>

\* Mutant: those who waited are not told.
FailsSilently(c) ==
    /\ ref[c].pc = "refused"
    /\ ref' = [ref EXCEPT ![c] = NoCall]
    /\ UNCHANGED <<jar, live, issued, req, started, faults, contested, spoiled>>

(* Every request that waited fails.  On the site the interceptor also      *)
(* fires session-expired, and the store forgets the user.                  *)
Fails(c) ==
    /\ ref[c].pc = "refused"
    /\ ref' = [ref EXCEPT ![c] = NoCall]
    /\ req' = [r \in Requests |-> IF r \in Waiters(c) THEN Idle ELSE req[r]]
    /\ UNCHANGED <<jar, live, issued, started, faults, contested, spoiled>>

AdminNotRefreshed(t) ==
    /\ Fails(AdminCaller(t))
    /\ user' = IF \E r \in Waiters(AdminCaller(t)) : AfterFailure(r) = "out"
               THEN [user EXCEPT ![t] = "out"] ELSE user

SessionExpired(r) ==
    /\ Fails(SiteCaller(r))
    /\ user' = [user EXCEPT ![Tab[r]] = "out"]

(* The handler throws, or its answer is lost: the client sees a failure.   *)
RefreshFails(c) ==
    /\ ref[c].pc \in {"sent", "found", "revoked", "granted"}
    /\ faults < MaxFaults /\ faults' = faults + 1
    /\ spoiled' = spoiled \cup {ref[c].token}
    /\ ref' = [ref EXCEPT ![c].pc = "refused"]
    /\ UNCHANGED <<jar, live, issued, req, user, started, contested>>

-----------------------------------------------------------------------------

Answer(r) ==
    \/ Served(r) \/ Refused(r) \/ RefreshAdmin(r) \/ RefreshSite(r) \/ JoinRefresh(r)
    \/ OpenSession(r) \/ AdminLoggedIn(r) \/ SiteLoggedIn(r) \/ RevokeSession(r) \/ LoggedOut(r)

Refresh(c) ==
    \/ FindSession(c) \/ RevokeOld(c) \/ InsertNew(c) \/ Refreshed(c)
    \/ \E t \in Admins : c = AdminCaller(t) /\ AdminNotRefreshed(t)
    \/ \E r \in Requests : c = SiteCaller(r) /\ SessionExpired(r)

Next ==
    \/ \E r \in Requests :
          OpenAdmin(r) \/ OpenSite(r) \/ CallApi(r) \/ LogInAdmin(r) \/ LogInSite(r) \/ LogOut(r)
    \/ \E t \in Tabs : Reload(t)
    \/ AccessLapses
    \/ \E r \in Requests : Answer(r) \/ RequestFails(r)
    \/ \E c \in Callers : Refresh(c) \/ RefreshFails(c)

Spec == Init /\ [][Next]_vars

(***************************************************************************)
(* Every request is answered and every handler runs on; nobody has to use  *)
(* a page, and no cookie has to lapse.                                     *)
(***************************************************************************)
Fairness ==
    /\ \A r \in Requests : WF_vars(Answer(r))
    /\ \A c \in Callers : WF_vars(Refresh(c))

FairSpec == Spec /\ Fairness

-----------------------------------------------------------------------------
Tokens == 0..issued

Req == [pc : {"idle", "sent", "again", "waiting", "granted", "revoked"},
        kind : Kinds, access : BOOLEAN, token : Tokens]
Ref == [pc : {"idle", "sent", "found", "revoked", "granted", "refused"},
        token : Tokens, fresh : Tokens]

TypeOK ==
    /\ issued \in Nat /\ started \in Nat /\ faults \in Nat
    /\ jar \in [access : BOOLEAN, refresh : Tokens]
    /\ live \subseteq Tokens \ {NoToken}
    /\ req \in [Requests -> Req] /\ ref \in [Callers -> Ref]
    /\ user \in [Tabs -> {"new", "checking", "in", "out"}]
    /\ contested \subseteq Tokens /\ spoiled \subseteq Tokens

(***************************************************************************)
(* A request that waits for a refresh waits for one that is under way: no  *)
(* page waits for ever because the refresh it joined had just finished     *)
(* (refreshInFlight is cleared in finally).                                *)
(***************************************************************************)
NobodyWaitsInVain ==
    \A r \in Requests : req[r].pc = "waiting" => ref[Caller(r)].pc # "idle"

(***************************************************************************)
(* Rotation keeps the browser's refresh token good: the one in the jar has *)
(* a live session, unless the call that spent it is still under way or was *)
(* cut short between the revocation and its answer.                        *)
(***************************************************************************)
UnderWay(k) ==
    \/ \E c \in Callers : ref[c].token = k /\ ref[c].pc \in {"revoked", "granted"}
    \/ \E r \in Requests : req[r].token = k /\ req[r].kind = "logout" /\ req[r].pc = "revoked"

HeldTokenIsGood ==
    jar.refresh \in live \cup {NoToken} \cup spoiled \/ UnderWay(jar.refresh)

(***************************************************************************)
(* The refresh of an admin tab is refused only to a browser without a      *)
(* token, after a failure, or when two parties used the token at once (two *)
(* tabs, a logout): the requests of one tab never sign each other out.     *)
(***************************************************************************)
RefusedForCause ==
    \A t \in Admins :
        ref[AdminCaller(t)].pc = "refused" =>
            ref[AdminCaller(t)].token \in {NoToken} \cup contested \cup spoiled

(***************************************************************************)
(* The inductive invariant.  Two users of a token have contested it; what  *)
(* a refresh was sent with was good then; a token not yet delivered is     *)
(* good, unknown to everybody, and no two of them are the same.            *)
(***************************************************************************)
TwoUsersContest ==
    /\ \A c, d \in Callers : \A k \in Tokens \ {NoToken} :
          c # d /\ Refreshes(c, k) /\ Refreshes(d, k) => k \in contested
    /\ \A c \in Callers : \A r \in Requests : \A k \in Tokens \ {NoToken} :
          Refreshes(c, k) /\ LogsOut(r, k) => k \in contested

SentWasGood ==
    \A c \in Callers :
        ref[c].pc = "sent" => ref[c].token \in {NoToken} \cup live \cup contested \cup spoiled

Secret(k) == k \in live /\ k # jar.refresh /\ ~InUse(k)

Undelivered ==
    /\ \A c \in Callers : ref[c].pc = "granted" => Secret(ref[c].fresh)
    /\ \A r \in Requests : req[r].pc = "granted" => Secret(req[r].token)
    /\ \A c, d \in Callers :
          c # d /\ ref[c].pc = "granted" /\ ref[d].pc = "granted" => ref[c].fresh # ref[d].fresh
    /\ \A r, q \in Requests :
          r # q /\ req[r].pc = "granted" /\ req[q].pc = "granted" => req[r].token # req[q].token
    /\ \A c \in Callers : \A r \in Requests :
          ref[c].pc = "granted" /\ req[r].pc = "granted" => ref[c].fresh # req[r].token

SessionInv ==
    /\ TypeOK
    /\ NobodyWaitsInVain
    /\ HeldTokenIsGood
    /\ RefusedForCause
    /\ TwoUsersContest
    /\ SentWasGood
    /\ Undelivered

(* Every request of a page comes to an end: the page stops loading.        *)
RequestsSettle == \A r \in Requests : req[r].pc # "idle" ~> req[r].pc = "idle"

(***************************************************************************)
(* "No valid session (401 even after refresh attempt) - stay logged out":  *)
(* the profile check of an admin page ends with nobody signed in only when *)
(* the browser holds no valid session.                                     *)
(***************************************************************************)
OutOnlyWithoutSession ==
    [][\A t \in Admins :
          user[t] = "checking" /\ user'[t] = "out" => jar'.refresh \notin live']_vars
=============================================================================
