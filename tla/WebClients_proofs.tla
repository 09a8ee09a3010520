------------------------- MODULE WebClients_proofs -------------------------
(***************************************************************************)
(* Proofs about the web clients.  First BrowserSession, for any number of  *)
(* tabs and requests and any bounds: the inductive invariant SessionInv    *)
(* and what follows.  Then FormPages, for any pages whose operations are   *)
(* well made, any rows, changes and bounds: the inductive invariant        *)
(* FormsKept and what follows.  The two share no variable.                 *)
(***************************************************************************)
EXTENDS BrowserSession, FormPages, TLAPS

(* A caller is a caller, and the two kinds of callers differ.              *)
LEMMA CallerTypes ==
    /\ \A r \in Requests : Caller(r) \in Callers /\ Tab[r] \in Tabs
    /\ \A t \in Admins : AdminCaller(t) \in Callers /\ t \in Tabs
    /\ \A t, r : AdminCaller(t) # SiteCaller(r)
BY TabAssumption DEF Callers, Caller, Admins, AdminCaller, SiteCaller, OnSite

-----------------------------------------------------------------------------
(* Types.                                                                  *)

LEMMA InitTypes == Init => TypeOK
<1> SUFFICES ASSUME Init PROVE TypeOK
  OBVIOUS
<1>1. issued \in Nat /\ NoToken \in Tokens /\ (issued = 0 \/ issued = 1)
  BY DEF Init, Tokens, NoToken
<1>2. jar \in [access : BOOLEAN, refresh : Tokens]
  <2>1. CASE jar = SignedOut
    BY <1>1, <2>1 DEF SignedOut
  <2>2. ASSUME NEW a \in BOOLEAN, jar = [access |-> a, refresh |-> 1], issued = 1
        PROVE  jar \in [access : BOOLEAN, refresh : Tokens]
    BY <2>2 DEF Tokens
  <2> QED
    BY <2>1, <2>2 DEF Init
<1>3. user \in [Tabs -> {"new", "checking", "in", "out"}]
  BY DEF Init
<1>4. Idle \in Req /\ NoCall \in Ref
  BY <1>1 DEF Idle, NoCall, Kinds, Req, Ref
<1>5. live \subseteq Tokens \ {NoToken}
  BY <1>1 DEF Init, Tokens, NoToken
<1> QED
  BY <1>1, <1>2, <1>3, <1>4, <1>5 DEF Init, TypeOK

LEMMA WithTypes ==
    ASSUME NEW pc \in {"sent", "again"}, NEW kind \in Kinds,
           NEW cookies \in [access : BOOLEAN, refresh : Tokens], issued \in Nat
    PROVE  With(pc, kind, cookies) \in Req
BY DEF With, Req, Tokens, NoToken

(* Sending a request keeps the types.                                      *)
LEMMA SendTypes ==
    ASSUME TypeOK, NEW r \in Requests, NEW kind \in Kinds, Send(r, kind),
           user' \in [Tabs -> {"new", "checking", "in", "out"}]
    PROVE  TypeOK'
<1>1. req' \in [Requests -> Req]
  BY WithTypes DEF Send, TypeOK
<1>2. contested' \subseteq Tokens
  BY DEF Send, Contested, TypeOK
<1> QED
  BY <1>1, <1>2 DEF Send, TypeOK, Req, Ref, Tokens

(* Settling a request keeps the types.                                     *)
LEMMA SettleTypes ==
    ASSUME TypeOK, NEW r \in Requests, Tab[r] \in Tabs,
           NEW belief \in {"new", "checking", "in", "out"}, Settle(r, belief)
    PROVE  /\ req' \in [Requests -> Req]
           /\ user' \in [Tabs -> {"new", "checking", "in", "out"}]
BY DEF Settle, Idle, Req, Kinds, Tokens, NoToken, TypeOK

LEMMA FailureTypes ==
    ASSUME TypeOK, NEW r \in Requests
    PROVE  AfterFailure(r) \in {"new", "checking", "in", "out"}
BY CallerTypes DEF AfterFailure, TypeOK

(* The types when no token is issued, and when one is.                     *)
LEMMA SameTokens ==
    ASSUME TypeOK, issued' = issued
    PROVE  Tokens' = Tokens /\ Req' = Req /\ Ref' = Ref
BY DEF Tokens, Req, Ref

LEMMA MoreTokens ==
    ASSUME TypeOK, issued' = issued + 1
    PROVE  /\ Tokens \subseteq Tokens' /\ Req \subseteq Req' /\ Ref \subseteq Ref'
           /\ issued + 1 \in Tokens' \ {NoToken} /\ issued + 1 \notin Tokens
           /\ issued' \in Nat
<1>1. Tokens \subseteq Tokens' /\ issued + 1 \in Tokens' \ {NoToken} /\ issued + 1 \notin Tokens
      /\ issued' \in Nat
  BY DEF Tokens, NoToken, TypeOK
<1>2. \A x \in Req : x \in Req'
  BY <1>1 DEF Req
<1>3. \A x \in Ref : x \in Ref'
  BY <1>1 DEF Ref
<1> QED
  BY <1>1, <1>2, <1>3

LEMMA PageTypes ==
    ASSUME TypeOK, NEW r \in Requests,
           \/ OpenAdmin(r) \/ OpenSite(r) \/ CallApi(r)
           \/ LogInAdmin(r) \/ LogInSite(r) \/ LogOut(r)
    PROVE  TypeOK'
<1>1. "profile" \in Kinds /\ "call" \in Kinds /\ "login" \in Kinds /\ "logout" \in Kinds
  BY DEF Kinds
<1>2. CASE CheckProfile(r)
  BY <1>1, <1>2, SendTypes, CallerTypes DEF CheckProfile, TypeOK
<1>3. CASE CallApi(r)
  BY <1>1, <1>3, SendTypes DEF CallApi, TypeOK
<1>4. CASE LogInAdmin(r) \/ LogInSite(r)
  BY <1>1, <1>4, SendTypes DEF LogInAdmin, LogInSite, TypeOK
<1>5. CASE LogOut(r)
  BY <1>1, <1>5, SendTypes DEF LogOut, TypeOK
<1> QED
  BY <1>2, <1>3, <1>4, <1>5 DEF OpenAdmin, OpenSite

LEMMA PostTypes ==
    ASSUME TypeOK, NEW r \in Requests, RefreshAdmin(r) \/ RefreshSite(r)
    PROVE  TypeOK'
<1>1. PICK pc \in {"sent", "refused"} :
          ref' = [ref EXCEPT ![Caller(r)] = [pc |-> pc, token |-> jar.refresh, fresh |-> NoToken]]
  BY DEF RefreshAdmin, RefreshSite, Post
<1>2. ref' \in [Callers -> Ref]
  BY <1>1, CallerTypes DEF TypeOK, Ref, Tokens, NoToken
<1>3. req' \in [Requests -> Req]
  BY DEF RefreshAdmin, RefreshSite, Post, TypeOK, Req
<1>4. contested' \subseteq Tokens
  BY DEF RefreshAdmin, RefreshSite, Post, Contested, TypeOK
<1>5. UNCHANGED <<jar, live, issued, user, started, faults, spoiled>>
  BY DEF RefreshAdmin, RefreshSite, Post
<1> QED
  BY <1>2, <1>3, <1>4, <1>5, SameTokens DEF TypeOK

LEMMA AnswerTypes ==
    ASSUME TypeOK, NEW r \in Requests, Answer(r)
    PROVE  TypeOK'
<1>1. CASE Served(r)
  BY <1>1, SettleTypes, CallerTypes, SameTokens DEF Served, TypeOK
<1>2. CASE Refused(r)
  BY <1>2, SettleTypes, CallerTypes, FailureTypes, SameTokens DEF Refused, TypeOK
<1>3. CASE JoinRefresh(r)
  BY <1>3, SameTokens DEF JoinRefresh, TypeOK, Req
<1>4. CASE OpenSession(r)
  <2>1. req' \in [Requests -> Req']
    BY <1>4, MoreTokens DEF OpenSession, TypeOK, Req
  <2>2. ref' \in [Callers -> Ref']
    BY <1>4, MoreTokens DEF OpenSession, TypeOK
  <2>3. jar' \in [access : BOOLEAN, refresh : Tokens']
    BY <1>4, MoreTokens DEF OpenSession, TypeOK
  <2> QED
    BY <1>4, <2>1, <2>2, <2>3, MoreTokens DEF OpenSession, TypeOK
<1>5. CASE AdminLoggedIn(r)
  <2>1. jar' \in [access : BOOLEAN, refresh : Tokens]
    BY <1>5 DEF AdminLoggedIn, TypeOK, Req
  <2>2. req' \in [Requests -> Req]
    BY <1>5, <2>1, WithTypes DEF AdminLoggedIn, TypeOK, Kinds
  <2> QED
    BY <1>5, <2>1, <2>2, SameTokens DEF AdminLoggedIn, TypeOK
<1>6. CASE SiteLoggedIn(r)
  <2>1. jar' \in [access : BOOLEAN, refresh : Tokens]
    BY <1>6 DEF SiteLoggedIn, TypeOK, Req
  <2> QED
    BY <1>6, <2>1, SettleTypes, CallerTypes, SameTokens DEF SiteLoggedIn, TypeOK
<1>7. CASE RevokeSession(r)
  <2>1. req' \in [Requests -> Req]
    BY <1>7 DEF RevokeSession, TypeOK, Req
  <2> QED
    BY <1>7, <2>1, SameTokens DEF RevokeSession, TypeOK
<1>8. CASE LoggedOut(r)
  <2>1. jar' \in [access : BOOLEAN, refresh : Tokens]
    BY <1>8 DEF LoggedOut, SignedOut, TypeOK, Tokens, NoToken
  <2> QED
    BY <1>8, <2>1, SettleTypes, CallerTypes, SameTokens DEF LoggedOut, TypeOK
<1> QED
  BY <1>1, <1>2, <1>3, <1>4, <1>5, <1>6, <1>7, <1>8, PostTypes DEF Answer

LEMMA RefreshTypes ==
    ASSUME TypeOK, NEW c \in Callers, Refresh(c)
    PROVE  TypeOK'
<1>1. CASE FindSession(c)
  BY <1>1, SameTokens DEF FindSession, TypeOK, Ref
<1>2. CASE RevokeOld(c)
  BY <1>2, SameTokens DEF RevokeOld, TypeOK, Ref
<1>3. CASE InsertNew(c)
  <2>1. ref' \in [Callers -> Ref']
    BY <1>3, MoreTokens DEF InsertNew, TypeOK, Ref
  <2>2. req' \in [Requests -> Req'] /\ jar' \in [access : BOOLEAN, refresh : Tokens']
    BY <1>3, MoreTokens DEF InsertNew, TypeOK
  <2> QED
    BY <1>3, <2>1, <2>2, MoreTokens DEF InsertNew, TypeOK
<1>4. CASE Refreshed(c)
  <2>1. jar' \in [access : BOOLEAN, refresh : Tokens]
    BY <1>4 DEF Refreshed, TypeOK, Ref
  <2>2. \A r \in Requests : req[r].kind \in Kinds
    BY DEF TypeOK, Req
  <2>3. req' \in [Requests -> Req]
    BY <1>4, <2>1, <2>2, WithTypes DEF Refreshed, TypeOK
  <2>4. ref' \in [Callers -> Ref]
    BY <1>4 DEF Refreshed, NoCall, TypeOK, Ref, Tokens, NoToken
  <2> QED
    BY <1>4, <2>1, <2>3, <2>4, SameTokens DEF Refreshed, TypeOK
<1>5. ASSUME Fails(c) PROVE req' \in [Requests -> Req] /\ ref' \in [Callers -> Ref]
  BY <1>5 DEF Fails, NoCall, Idle, Kinds, TypeOK, Req, Ref, Tokens, NoToken
<1>6. ASSUME NEW t \in Admins, c = AdminCaller(t), AdminNotRefreshed(t) PROVE TypeOK'
  <2>1. user' \in [Tabs -> {"new", "checking", "in", "out"}]
    BY <1>6, CallerTypes DEF AdminNotRefreshed, TypeOK
  <2> QED
    BY <1>5, <1>6, <2>1, SameTokens DEF AdminNotRefreshed, Fails, TypeOK
<1>7. ASSUME NEW r \in Requests, c = SiteCaller(r), SessionExpired(r) PROVE TypeOK'
  <2>1. user' \in [Tabs -> {"new", "checking", "in", "out"}]
    BY <1>7, CallerTypes DEF SessionExpired, TypeOK
  <2> QED
    BY <1>5, <1>7, <2>1, SameTokens DEF SessionExpired, Fails, TypeOK
<1> QED
  BY <1>1, <1>2, <1>3, <1>4, <1>6, <1>7 DEF Refresh

LEMMA TypeStep == TypeOK /\ [Next]_vars => TypeOK'
<1> SUFFICES ASSUME TypeOK, [Next]_vars PROVE TypeOK'
  OBVIOUS
<1>1. ASSUME NEW t \in Tabs, Reload(t) PROVE TypeOK'
  BY <1>1, SameTokens DEF Reload, TypeOK
<1>2. CASE AccessLapses
  BY <1>2, SameTokens DEF AccessLapses, TypeOK
<1>3. ASSUME NEW r \in Requests, RequestFails(r) PROVE TypeOK'
  <2>1. req[r].token \in Tokens
    BY DEF TypeOK, Req
  <2> QED
    BY <1>3, <2>1, SettleTypes, CallerTypes, FailureTypes, SameTokens DEF RequestFails, TypeOK
<1>4. ASSUME NEW c \in Callers, RefreshFails(c) PROVE TypeOK'
  <2>1. ref[c].token \in Tokens /\ ref' \in [Callers -> Ref]
    BY <1>4 DEF RefreshFails, TypeOK, Ref
  <2> QED
    BY <1>4, <2>1, SameTokens DEF RefreshFails, TypeOK
<1>5. CASE UNCHANGED vars
  BY <1>5, SameTokens DEF vars, TypeOK
<1> QED
  BY <1>1, <1>2, <1>3, <1>4, <1>5, PageTypes, AnswerTypes, RefreshTypes DEF Next

-----------------------------------------------------------------------------
(* The rest of the invariant.                                              *)

(***************************************************************************)
(* Most steps are calm: nothing new comes into use, nothing is granted or  *)
(* revoked, and the jar keeps its refresh token.                           *)
(***************************************************************************)
Calm ==
    /\ jar'.refresh = jar.refresh /\ live' = live /\ issued' = issued
    /\ contested \subseteq contested' /\ spoiled \subseteq spoiled'
    /\ \A c \in Callers : \A k \in Tokens : Refreshes(c, k)' => Refreshes(c, k)
    /\ \A r \in Requests : \A k \in Tokens : LogsOut(r, k)' => LogsOut(r, k)
    /\ \A c \in Callers : ref'[c].pc = "sent" => ref[c].pc = "sent" /\ ref'[c].token = ref[c].token
    /\ \A c \in Callers : ref'[c].pc = "granted" => ref[c].pc = "granted" /\ ref'[c].fresh = ref[c].fresh
    /\ \A r \in Requests : req'[r].pc = "granted" => req[r].pc = "granted" /\ req'[r].token = req[r].token
    /\ \A k \in Tokens : UnderWay(k) => UnderWay(k)' \/ k \in spoiled'

LEMMA CalmKeeps ==
    ASSUME SessionInv, TypeOK', Calm
    PROVE  HeldTokenIsGood' /\ TwoUsersContest' /\ SentWasGood' /\ Undelivered'
<1>0. Tokens' = Tokens
  BY DEF Calm, Tokens
<1>1. HeldTokenIsGood'
  <2>1. jar.refresh \in Tokens
    BY DEF SessionInv, TypeOK
  <2> QED
    BY <2>1 DEF SessionInv, HeldTokenIsGood, Calm
<1>2. TwoUsersContest'
  BY <1>0 DEF SessionInv, TwoUsersContest, Calm
<1>3. SentWasGood'
  BY DEF SessionInv, SentWasGood, Calm
<1>4. ASSUME NEW k \in Tokens, Secret(k) PROVE Secret(k)'
  BY <1>4 DEF Secret, InUse, Calm
<1>5. Undelivered'
  <2>1. \A c \in Callers : ref[c].fresh \in Tokens
    BY DEF SessionInv, TypeOK, Ref
  <2>2. \A r \in Requests : req[r].token \in Tokens
    BY DEF SessionInv, TypeOK, Req
  <2> QED
    BY <1>4, <2>1, <2>2 DEF SessionInv, Undelivered, Calm
<1> QED
  BY <1>1, <1>2, <1>3, <1>5

(* Sending anything but a logout is calm.                                  *)
LEMMA SendCalm ==
    ASSUME TypeOK, NEW r \in Requests, NEW kind \in Kinds \ {"logout"}, Send(r, kind)
    PROVE  Calm
<1>1. With("sent", kind, jar).kind = kind /\ With("sent", kind, jar).pc = "sent"
  BY DEF With
<1>2. \A q \in Requests : req'[q] = IF q = r THEN With("sent", kind, jar) ELSE req[q]
  BY DEF Send, TypeOK
<1>3. contested \subseteq contested'
  BY DEF Send, Contested
<1>4. req[r].pc = "idle"
  BY DEF Send
<1>5. \A q \in Requests : \A k \in Tokens : LogsOut(q, k)' => LogsOut(q, k)
  BY <1>1, <1>2 DEF LogsOut
<1>6. \A k \in Tokens : UnderWay(k) => UnderWay(k)'
  BY <1>1, <1>2, <1>4 DEF UnderWay, Send
<1>7. \A q \in Requests : req'[q].pc = "granted" => req[q].pc = "granted" /\ req'[q].token = req[q].token
  BY <1>1, <1>2
<1> QED
  BY <1>3, <1>5, <1>6, <1>7 DEF Calm, Send, Refreshes

(* So is settling a request that has revoked nothing.                      *)
LEMMA SettleCalm ==
    ASSUME TypeOK, NEW r \in Requests, NEW belief, Settle(r, belief),
           UNCHANGED <<live, issued, ref, contested>>, jar'.refresh = jar.refresh,
           spoiled \subseteq spoiled',
           req[r].pc # "revoked" \/ req[r].token \in spoiled'
    PROVE  Calm
<1>1. \A q \in Requests : req'[q] = IF q = r THEN Idle ELSE req[q]
  BY DEF Settle, TypeOK
<1>2. Idle.pc = "idle"
  BY DEF Idle
<1>3. \A q \in Requests : \A k \in Tokens : LogsOut(q, k)' => LogsOut(q, k)
  BY <1>1, <1>2 DEF LogsOut
<1>4. \A k \in Tokens : UnderWay(k) => UnderWay(k)' \/ k \in spoiled'
  BY <1>1, <1>2 DEF UnderWay
<1>5. \A q \in Requests : req'[q].pc = "granted" => req[q].pc = "granted" /\ req'[q].token = req[q].token
  BY <1>1, <1>2
<1> QED
  BY <1>3, <1>4, <1>5 DEF Calm, Refreshes

(* And a refresh that only moves on, or ends with nothing done.            *)
LEMMA FailsCalm ==
    ASSUME TypeOK, NEW c \in Callers, Fails(c)
    PROVE  Calm
<1>1. \A d \in Callers : ref'[d] = IF d = c THEN NoCall ELSE ref[d]
  BY DEF Fails, TypeOK
<1>2. \A q \in Requests : req'[q] = IF q \in Waiters(c) THEN Idle ELSE req[q]
  BY DEF Fails
<1>3. NoCall.pc = "idle" /\ Idle.pc = "idle"
  BY DEF NoCall, Idle
<1>4. \A q \in Waiters(c) : req[q].pc = "waiting"
  BY DEF Waiters
<1>5. ref[c].pc = "refused"
  BY DEF Fails
<1>6. \A d \in Callers : \A k \in Tokens : Refreshes(d, k)' => Refreshes(d, k)
  BY <1>1, <1>3 DEF Refreshes
<1>7. \A q \in Requests : \A k \in Tokens : LogsOut(q, k)' => LogsOut(q, k)
  BY <1>2, <1>3 DEF LogsOut
<1>8. \A k \in Tokens : UnderWay(k) => UnderWay(k)'
  BY <1>1, <1>2, <1>4, <1>5 DEF UnderWay
<1> QED
  BY <1>1, <1>2, <1>3, <1>6, <1>7, <1>8 DEF Calm, Fails

LEMMA OtherCalm ==
    ASSUME TypeOK,
           \/ \E t \in Tabs : Reload(t)
           \/ AccessLapses
           \/ \E r \in Requests : JoinRefresh(r)
           \/ \E c \in Callers : FindSession(c) \/ RefreshFails(c)
           \/ UNCHANGED vars
    PROVE  Calm
<1>1. ASSUME UNCHANGED <<live, issued, req, ref, contested, spoiled>>, jar'.refresh = jar.refresh
      PROVE  Calm
  BY <1>1 DEF Calm, Refreshes, LogsOut, UnderWay
<1>2. ASSUME NEW r \in Requests, JoinRefresh(r) PROVE Calm
  <2>1. \A q \in Requests : req'[q] = IF q = r THEN [req[r] EXCEPT !.pc = "waiting"] ELSE req[q]
    BY <1>2 DEF JoinRefresh, TypeOK
  <2>2. [req[r] EXCEPT !.pc = "waiting"].pc = "waiting"
    BY DEF TypeOK, Req
  <2>3. req[r].pc \in {"sent", "again"}
    BY <1>2 DEF JoinRefresh, InFlight
  <2>4. \A q \in Requests : \A k \in Tokens : LogsOut(q, k)' => LogsOut(q, k)
    BY <2>1, <2>2 DEF LogsOut
  <2>5. \A k \in Tokens : UnderWay(k) => UnderWay(k)'
    BY <1>2, <2>1, <2>3 DEF UnderWay, JoinRefresh
  <2> QED
    BY <1>2, <2>1, <2>2, <2>4, <2>5 DEF Calm, JoinRefresh, Refreshes
<1>3. ASSUME NEW c \in Callers, NEW pc, ref' = [ref EXCEPT ![c].pc = pc],
             pc # "sent", pc # "granted", pc # "idle", ref[c].pc # "idle",
             UNCHANGED <<jar, live, issued, req, contested>>, spoiled \subseteq spoiled',
             ref[c].pc \in {"revoked", "granted"} => ref[c].token \in spoiled'
      PROVE  Calm
  <2>1. \A d \in Callers : d # c => ref'[d] = ref[d]
    BY <1>3 DEF TypeOK
  <2>2. ref'[c].pc = pc /\ ref'[c].token = ref[c].token
    BY <1>3 DEF TypeOK, Ref
  <2>3. \A d \in Callers : \A k \in Tokens : Refreshes(d, k)' => Refreshes(d, k)
    BY <1>3, <2>1, <2>2 DEF Refreshes
  <2>4. \A k \in Tokens : UnderWay(k) => UnderWay(k)' \/ k \in spoiled'
    BY <1>3, <2>1, <2>2 DEF UnderWay
  <2> QED
    BY <1>3, <2>1, <2>2, <2>3, <2>4 DEF Calm, LogsOut
<1>4. ASSUME NEW c \in Callers, FindSession(c) PROVE Calm
  <2>1. CASE ref[c].token \in live
    BY <1>3, <1>4, <2>1 DEF FindSession
  <2>2. CASE ref[c].token \notin live
    BY <1>3, <1>4, <2>2 DEF FindSession
  <2> QED
    BY <2>1, <2>2
<1>5. ASSUME NEW c \in Callers, RefreshFails(c) PROVE Calm
  BY <1>3, <1>5 DEF RefreshFails
<1> QED
  BY <1>1, <1>2, <1>4, <1>5 DEF Reload, AccessLapses, vars, TypeOK

(***************************************************************************)
(* The steps that are not calm.                                            *)
(***************************************************************************)
Rest == HeldTokenIsGood /\ TwoUsersContest /\ SentWasGood /\ Undelivered

(* A token that somebody is spending is in use.                            *)
LEMMA UnderWayInUse == ASSUME NEW k, UnderWay(k) PROVE InUse(k)
BY DEF UnderWay, InUse, Refreshes, LogsOut

(* What the types say of the tokens in the calls and in the jar.           *)
LEMMA TokenTypes ==
    ASSUME TypeOK
    PROVE  /\ jar.refresh \in Tokens
           /\ \A c \in Callers : ref[c].token \in Tokens /\ ref[c].fresh \in Tokens
           /\ \A r \in Requests : req[r].token \in Tokens /\ req[r].kind \in Kinds
           /\ issued + 1 \notin Tokens /\ NoToken \notin live
BY DEF TypeOK, Req, Ref, Tokens, NoToken

LEMMA LogOutRest ==
    ASSUME SessionInv, NEW r \in Requests, LogOut(r)
    PROVE  Rest'
<1>1. \A q \in Requests : req'[q] = IF q = r THEN With("sent", "logout", jar) ELSE req[q]
  BY DEF LogOut, Send, SessionInv, TypeOK
<1>2. /\ With("sent", "logout", jar).kind = "logout" /\ With("sent", "logout", jar).pc = "sent"
      /\ With("sent", "logout", jar).token = jar.refresh
  BY DEF With
<1>3. /\ UNCHANGED <<jar, live, issued, ref, spoiled>> /\ req[r].pc = "idle"
      /\ contested \subseteq contested'
      /\ jar.refresh # NoToken /\ InUse(jar.refresh) => jar.refresh \in contested'
  BY DEF LogOut, Send, Contested
<1>4. \A c \in Callers : \A k : Refreshes(c, k)' <=> Refreshes(c, k)
  BY <1>3 DEF Refreshes
<1>5. \A q \in Requests : \A k : LogsOut(q, k)' => LogsOut(q, k) \/ (q = r /\ k = jar.refresh)
  BY <1>1, <1>2 DEF LogsOut
<1>6. HeldTokenIsGood'
  BY <1>1, <1>2, <1>3 DEF SessionInv, HeldTokenIsGood, UnderWay
<1>7. TwoUsersContest'
  BY <1>3, <1>4, <1>5 DEF SessionInv, TwoUsersContest, InUse, Tokens
<1>8. SentWasGood'
  BY <1>3 DEF SessionInv, SentWasGood
<1>9. Undelivered'
  <2>1. \A k : Secret(k) => Secret(k)'
    BY <1>3, <1>4, <1>5 DEF Secret, InUse
  <2> QED
    BY <1>1, <1>2, <1>3, <2>1 DEF SessionInv, Undelivered
<1> QED
  BY <1>6, <1>7, <1>8, <1>9 DEF Rest

LEMMA PostRest ==
    ASSUME SessionInv, NEW r \in Requests, RefreshAdmin(r) \/ RefreshSite(r)
    PROVE  Rest'
<1> DEFINE C == Caller(r)
<1>0. C \in Callers
  BY CallerTypes
<1> HIDE DEF C
<1>1. PICK pc \in {"sent", "refused"} :
          ref' = [ref EXCEPT ![C] = [pc |-> pc, token |-> jar.refresh, fresh |-> NoToken]]
  BY DEF RefreshAdmin, RefreshSite, Post, C
<1>2. /\ ref[C].pc = "idle" /\ InFlight(r)
      /\ UNCHANGED <<jar, live, issued, spoiled>> /\ contested \subseteq contested'
      /\ jar.refresh # NoToken /\ InUse(jar.refresh) => jar.refresh \in contested'
      /\ req' = [req EXCEPT ![r].pc = "waiting"]
  BY DEF RefreshAdmin, RefreshSite, Post, Contested, C
<1>3. \A d \in Callers : d # C => ref'[d] = ref[d]
  BY <1>1 DEF SessionInv, TypeOK
<1>4. ref'[C].pc = pc /\ ref'[C].token = jar.refresh
  BY <1>0, <1>1 DEF SessionInv, TypeOK
<1>5. /\ \A q \in Requests : q # r => req'[q] = req[q]
      /\ req'[r].pc = "waiting"
  BY <1>2 DEF SessionInv, TypeOK, Req
<1>6. \A q \in Requests : \A k : LogsOut(q, k)' => LogsOut(q, k)
  BY <1>5 DEF LogsOut
<1>7. \A d \in Callers : \A k : Refreshes(d, k)' => Refreshes(d, k) \/ (d = C /\ k = jar.refresh)
  BY <1>3, <1>4 DEF Refreshes
<1>8. \A k : UnderWay(k) => UnderWay(k)'
  BY <1>2, <1>3, <1>5 DEF UnderWay, InFlight
<1>9. HeldTokenIsGood'
  BY <1>2, <1>8 DEF SessionInv, HeldTokenIsGood
<1>10. TwoUsersContest'
  BY <1>2, <1>6, <1>7 DEF SessionInv, TwoUsersContest, InUse, Tokens
<1>11. SentWasGood'
  <2>1. jar.refresh \in {NoToken} \cup live \cup contested' \cup spoiled
    BY <1>2, UnderWayInUse DEF SessionInv, HeldTokenIsGood
  <2> QED
    BY <1>2, <1>3, <1>4, <2>1 DEF SessionInv, SentWasGood
<1>12. Undelivered'
  <2>1. \A k : Secret(k) => Secret(k)'
    BY <1>2, <1>6, <1>7 DEF Secret, InUse
  <2> QED
    BY <1>2, <1>3, <1>4, <1>5, <2>1 DEF SessionInv, Undelivered
<1> QED
  BY <1>9, <1>10, <1>11, <1>12 DEF Rest

(* A session opened by a login.                                            *)
LEMMA OpenSessionRest ==
    ASSUME SessionInv, NEW r \in Requests, OpenSession(r)
    PROVE  Rest'
<1>0. /\ issued' = issued + 1 /\ live' = live \cup {issued + 1} /\ req[r].kind = "login" /\ InFlight(r)
      /\ UNCHANGED <<jar, ref, contested, spoiled>>
  BY DEF OpenSession
<1>1. /\ \A q \in Requests : q # r => req'[q] = req[q]
      /\ req'[r].pc = "granted" /\ req'[r].token = issued + 1 /\ req'[r].kind = "login"
  BY DEF OpenSession, SessionInv, TypeOK, Req
<1>2. \A q \in Requests : \A k : LogsOut(q, k)' => LogsOut(q, k)
  BY <1>1 DEF LogsOut
<1>3. \A c \in Callers : \A k : Refreshes(c, k)' <=> Refreshes(c, k)
  BY <1>0 DEF Refreshes
<1>4. \A k : InUse(k)' => InUse(k) /\ k \in Tokens
  BY <1>2, <1>3, TokenTypes DEF InUse, Refreshes, LogsOut, SessionInv
<1>5. HeldTokenIsGood'
  BY <1>0, <1>1 DEF SessionInv, HeldTokenIsGood, UnderWay
<1>6. TwoUsersContest'
  BY <1>0, <1>2, <1>3, TokenTypes DEF SessionInv, TwoUsersContest, Refreshes
<1>7. SentWasGood'
  BY <1>0 DEF SessionInv, SentWasGood
<1>8. Undelivered'
  <2>1. \A k : Secret(k) => Secret(k)'
    BY <1>0, <1>4 DEF Secret
  <2>2. \A k : k = issued + 1 => Secret(k)'
    BY <1>0, <1>4, TokenTypes DEF Secret, SessionInv
  <2> QED
    BY <1>0, <1>1, <2>1, <2>2, TokenTypes DEF SessionInv, Undelivered
<1> QED
  BY <1>5, <1>6, <1>7, <1>8 DEF Rest

LEMMA InsertNewRest ==
    ASSUME SessionInv, NEW c \in Callers, InsertNew(c)
    PROVE  Rest'
<1>0. /\ issued' = issued + 1 /\ live' = live \cup {issued + 1} /\ ref[c].pc = "revoked"
      /\ UNCHANGED <<jar, req, contested, spoiled>>
  BY DEF InsertNew
<1>1. /\ \A d \in Callers : d # c => ref'[d] = ref[d]
      /\ ref'[c].pc = "granted" /\ ref'[c].fresh = issued + 1 /\ ref'[c].token = ref[c].token
  BY DEF InsertNew, SessionInv, TypeOK, Ref
<1>2. \A q \in Requests : \A k : LogsOut(q, k)' <=> LogsOut(q, k)
  BY <1>0 DEF LogsOut
<1>3. \A d \in Callers : \A k : Refreshes(d, k)' <=> Refreshes(d, k)
  BY <1>0, <1>1 DEF Refreshes
<1>4. \A k : InUse(k)' => InUse(k) /\ k \in Tokens
  BY <1>2, <1>3, TokenTypes DEF InUse, Refreshes, LogsOut, SessionInv
<1>5. HeldTokenIsGood'
  BY <1>0, <1>1 DEF SessionInv, HeldTokenIsGood, UnderWay
<1>6. TwoUsersContest'
  BY <1>0, <1>2, <1>3, TokenTypes DEF SessionInv, TwoUsersContest, Refreshes
<1>7. SentWasGood'
  BY <1>0, <1>1 DEF SessionInv, SentWasGood
<1>8. Undelivered'
  <2>1. \A k : Secret(k) => Secret(k)'
    BY <1>0, <1>4 DEF Secret
  <2>2. \A k : k = issued + 1 => Secret(k)'
    BY <1>0, <1>4, TokenTypes DEF Secret, SessionInv
  <2> QED
    BY <1>0, <1>1, <2>1, <2>2, TokenTypes DEF SessionInv, Undelivered
<1> QED
  BY <1>5, <1>6, <1>7, <1>8 DEF Rest

(* A login's answer reaches the browser.                                   *)
LEMMA LoggedInRest ==
    ASSUME SessionInv, NEW r \in Requests, AdminLoggedIn(r) \/ SiteLoggedIn(r)
    PROVE  Rest'
<1>0. /\ req[r].pc = "granted" /\ jar'.refresh = req[r].token
      /\ UNCHANGED <<live, issued, ref, contested, spoiled>>
  BY DEF AdminLoggedIn, SiteLoggedIn
<1>1. \A q \in Requests : q # r => req'[q] = req[q]
  BY DEF AdminLoggedIn, SiteLoggedIn, Settle, SessionInv, TypeOK
<1>2. req'[r].kind # "logout" /\ req'[r].pc # "granted"
  BY DEF AdminLoggedIn, SiteLoggedIn, Settle, With, Idle, SessionInv, TypeOK
<1>3. \A q \in Requests : \A k : LogsOut(q, k)' => LogsOut(q, k)
  BY <1>1, <1>2 DEF LogsOut
<1>4. \A d \in Callers : \A k : Refreshes(d, k)' <=> Refreshes(d, k)
  BY <1>0 DEF Refreshes
<1>5. Secret(req[r].token)
  BY <1>0 DEF SessionInv, Undelivered
<1>6. HeldTokenIsGood'
  BY <1>0, <1>5 DEF HeldTokenIsGood, Secret
<1>7. TwoUsersContest'
  BY <1>0, <1>3, <1>4 DEF SessionInv, TwoUsersContest, Tokens
<1>8. SentWasGood'
  BY <1>0 DEF SessionInv, SentWasGood
<1>9. Undelivered'
  <2>1. \A k : Secret(k) /\ k # req[r].token => Secret(k)'
    BY <1>0, <1>3, <1>4 DEF Secret, InUse
  <2> QED
    BY <1>0, <1>1, <1>2, <2>1 DEF SessionInv, Undelivered
<1> QED
  BY <1>6, <1>7, <1>8, <1>9 DEF Rest

LEMMA RevokeSessionRest ==
    ASSUME SessionInv, NEW r \in Requests, RevokeSession(r)
    PROVE  Rest'
<1> DEFINE K == req[r].token
<1>0. /\ live' = live \ {K} /\ InFlight(r) /\ req[r].kind = "logout"
      /\ UNCHANGED <<jar, issued, ref, contested, spoiled>>
  BY DEF RevokeSession
<1>1. /\ \A q \in Requests : q # r => req'[q] = req[q]
      /\ req'[r].pc = "revoked" /\ req'[r].token = K /\ req'[r].kind = "logout"
  BY <1>0 DEF RevokeSession, SessionInv, TypeOK, Req
<1>2. \A q \in Requests : \A k : LogsOut(q, k)' <=> LogsOut(q, k)
  BY <1>0, <1>1 DEF LogsOut, InFlight
<1>3. \A d \in Callers : \A k : Refreshes(d, k)' <=> Refreshes(d, k)
  BY <1>0 DEF Refreshes
<1>4. LogsOut(r, K) /\ InUse(K)
  BY <1>0 DEF LogsOut, InFlight, InUse
<1>5. HeldTokenIsGood'
  <2>1. \A k : k = K => UnderWay(k)'
    BY <1>1 DEF UnderWay
  <2>2. \A k : UnderWay(k) => UnderWay(k)'
    BY <1>0, <1>1 DEF UnderWay, InFlight
  <2> QED
    BY <1>0, <2>1, <2>2 DEF SessionInv, HeldTokenIsGood
<1>6. TwoUsersContest'
  BY <1>0, <1>2, <1>3 DEF SessionInv, TwoUsersContest, Tokens
<1>7. SentWasGood'
  <2>1. ASSUME NEW c \in Callers, ref[c].pc = "sent", ref[c].token = K
        PROVE  K \in {NoToken} \cup contested
    BY <1>4, <2>1, TokenTypes DEF SessionInv, TwoUsersContest, Refreshes
  <2> QED
    BY <1>0, <2>1 DEF SessionInv, SentWasGood
<1>8. Undelivered'
  <2>1. \A k : Secret(k) => Secret(k)'
    BY <1>0, <1>2, <1>3, <1>4 DEF Secret, InUse
  <2> QED
    BY <1>0, <1>1, <2>1 DEF SessionInv, Undelivered
<1> QED
  BY <1>5, <1>6, <1>7, <1>8 DEF Rest

LEMMA RevokeOldRest ==
    ASSUME SessionInv, NEW c \in Callers, RevokeOld(c)
    PROVE  Rest'
<1> DEFINE K == ref[c].token
<1>0. /\ live' = live \ {K} /\ ref[c].pc = "found"
      /\ UNCHANGED <<jar, issued, req, contested, spoiled>>
  BY DEF RevokeOld
<1>1. /\ \A d \in Callers : d # c => ref'[d] = ref[d]
      /\ ref'[c].pc = "revoked" /\ ref'[c].token = K
  BY <1>0 DEF RevokeOld, SessionInv, TypeOK, Ref
<1>2. \A q \in Requests : \A k : LogsOut(q, k)' <=> LogsOut(q, k)
  BY <1>0 DEF LogsOut
<1>3. \A d \in Callers : \A k : Refreshes(d, k)' <=> Refreshes(d, k)
  BY <1>0, <1>1 DEF Refreshes
<1>4. Refreshes(c, K) /\ InUse(K)
  BY <1>0 DEF Refreshes, InUse
<1>5. HeldTokenIsGood'
  <2>1. \A k : k = K => UnderWay(k)'
    BY <1>1 DEF UnderWay
  <2>2. \A k : UnderWay(k) => UnderWay(k)'
    BY <1>0, <1>1 DEF UnderWay
  <2> QED
    BY <1>0, <2>1, <2>2 DEF SessionInv, HeldTokenIsGood
<1>6. TwoUsersContest'
  BY <1>0, <1>2, <1>3 DEF SessionInv, TwoUsersContest, Tokens
<1>7. SentWasGood'
  <2>1. ASSUME NEW d \in Callers, d # c, ref[d].pc = "sent", ref[d].token = K
        PROVE  K \in {NoToken} \cup contested
    BY <1>4, <2>1, TokenTypes DEF SessionInv, TwoUsersContest, Refreshes
  <2> QED
    BY <1>0, <1>1, <2>1 DEF SessionInv, SentWasGood
<1>8. Undelivered'
  <2>1. \A k : Secret(k) => Secret(k)'
    BY <1>0, <1>2, <1>3, <1>4 DEF Secret, InUse
  <2> QED
    BY <1>0, <1>1, <2>1 DEF SessionInv, Undelivered
<1> QED
  BY <1>5, <1>6, <1>7, <1>8 DEF Rest

LEMMA LoggedOutRest ==
    ASSUME SessionInv, NEW r \in Requests, LoggedOut(r)
    PROVE  Rest'
<1>0. jar'.refresh = NoToken /\ UNCHANGED <<live, issued, ref, contested, spoiled>>
  BY DEF LoggedOut, SignedOut
<1>1. \A q \in Requests : req'[q] = IF q = r THEN Idle ELSE req[q]
  BY DEF LoggedOut, Settle, SessionInv, TypeOK
<1>2. Idle.pc = "idle"
  BY DEF Idle
<1>3. \A q \in Requests : \A k : LogsOut(q, k)' => LogsOut(q, k)
  BY <1>1, <1>2 DEF LogsOut
<1>4. \A d \in Callers : \A k : Refreshes(d, k)' <=> Refreshes(d, k)
  BY <1>0 DEF Refreshes
<1>5. HeldTokenIsGood'
  BY <1>0 DEF HeldTokenIsGood
<1>6. TwoUsersContest'
  BY <1>0, <1>3, <1>4 DEF SessionInv, TwoUsersContest, Tokens
<1>7. SentWasGood'
  BY <1>0 DEF SessionInv, SentWasGood
<1>8. Undelivered'
  <2>1. \A k : Secret(k) => Secret(k)'
    BY <1>0, <1>3, <1>4, TokenTypes DEF Secret, InUse, SessionInv
  <2> QED
    BY <1>0, <1>1, <1>2, <2>1 DEF SessionInv, Undelivered
<1> QED
  BY <1>5, <1>6, <1>7, <1>8 DEF Rest

(* The answer of a refresh: who waited is sent again with the new cookies. *)
LEMMA RefreshedRest ==
    ASSUME SessionInv, NEW c \in Callers, Refreshed(c)
    PROVE  Rest'
<1> DEFINE F == ref[c].fresh
<1>0. /\ ref[c].pc = "granted" /\ jar'.refresh = F
      /\ UNCHANGED <<live, issued, contested, spoiled>>
  BY DEF Refreshed
<1>1. /\ \A d \in Callers : d # c => ref'[d] = ref[d]
      /\ ref'[c].pc = "idle"
  BY DEF Refreshed, NoCall, SessionInv, TypeOK
<1>2. \A q \in Requests : req'[q] = IF q \in Waiters(c) THEN With("again", req[q].kind, jar') ELSE req[q]
  BY DEF Refreshed
<1>3. \A kind : /\ With("again", kind, jar').pc = "again" /\ With("again", kind, jar').kind = kind
                /\ With("again", kind, jar').token = IF kind = "logout" THEN F ELSE NoToken
  BY <1>0 DEF With
<1>4. \A q \in Requests : \A k : LogsOut(q, k)' => LogsOut(q, k) \/ k = F
  BY <1>2, <1>3 DEF LogsOut
<1>5. \A d \in Callers : \A k : Refreshes(d, k)' => Refreshes(d, k)
  BY <1>1 DEF Refreshes
<1>6. Secret(F)
  BY <1>0 DEF SessionInv, Undelivered
<1>7. HeldTokenIsGood'
  BY <1>0, <1>6 DEF HeldTokenIsGood, Secret
<1>8. TwoUsersContest'
  BY <1>0, <1>4, <1>5, <1>6 DEF SessionInv, TwoUsersContest, Tokens, Secret, InUse
<1>9. SentWasGood'
  BY <1>0, <1>1 DEF SessionInv, SentWasGood
<1>10. Undelivered'
  <2>1. \A k : Secret(k) /\ k # F => Secret(k)'
    BY <1>0, <1>4, <1>5 DEF Secret, InUse
  <2>2. \A q \in Requests : req'[q].pc = "granted" => req'[q] = req[q]
    BY <1>2, <1>3
  <2> QED
    BY <1>0, <1>1, <2>1, <2>2 DEF SessionInv, Undelivered
<1> QED
  BY <1>7, <1>8, <1>9, <1>10 DEF Rest

LEMMA RestStep ==
    ASSUME SessionInv, TypeOK', [Next]_vars
    PROVE  Rest'
<1>1. ASSUME Calm PROVE Rest'
  BY <1>1, CalmKeeps DEF Rest
<1>2. SessionInv => TypeOK
  BY DEF SessionInv
<1>3. ASSUME NEW r \in Requests, NEW kind \in Kinds \ {"logout"}, Send(r, kind) PROVE Rest'
  BY <1>1, <1>2, <1>3, SendCalm
<1>4. "profile" \in Kinds \ {"logout"} /\ "call" \in Kinds \ {"logout"} /\ "login" \in Kinds \ {"logout"}
  BY DEF Kinds
<1>5. ASSUME NEW r \in Requests,
             \/ OpenAdmin(r) \/ OpenSite(r) \/ CallApi(r) \/ LogInAdmin(r) \/ LogInSite(r)
      PROVE  Rest'
  BY <1>3, <1>4, <1>5 DEF OpenAdmin, OpenSite, CheckProfile, CallApi, LogInAdmin, LogInSite
<1>6. ASSUME NEW r \in Requests, Served(r) \/ Refused(r) \/ RequestFails(r) PROVE Rest'
  <2>1. CASE Served(r)
    BY <1>1, <1>2, <2>1, SettleCalm DEF Served, InFlight
  <2>2. CASE Refused(r)
    BY <1>1, <1>2, <2>2, SettleCalm DEF Refused, InFlight
  <2>3. CASE RequestFails(r)
    BY <1>1, <1>2, <2>3, SettleCalm DEF RequestFails
  <2> QED
    BY <1>6, <2>1, <2>2, <2>3
<1>7. ASSUME NEW r \in Requests, Answer(r) PROVE Rest'
  BY <1>1, <1>2, <1>6, <1>7, OtherCalm, PostRest, OpenSessionRest, LoggedInRest,
     RevokeSessionRest, LoggedOutRest DEF Answer
<1>8. ASSUME NEW c \in Callers, Refresh(c) PROVE Rest'
  <2>1. CASE Fails(c)
    BY <1>1, <1>2, <2>1, FailsCalm
  <2> QED
    BY <1>1, <1>2, <1>8, <2>1, OtherCalm, RevokeOldRest, InsertNewRest, RefreshedRest
       DEF Refresh, AdminNotRefreshed, SessionExpired
<1>9. ASSUME \/ \E t \in Tabs : Reload(t)
             \/ AccessLapses
             \/ \E c \in Callers : RefreshFails(c)
             \/ UNCHANGED vars
      PROVE  Rest'
  BY <1>1, <1>2, <1>9, OtherCalm
<1> QED
  BY <1>5, <1>6, <1>7, <1>8, <1>9, LogOutRest DEF Next

-----------------------------------------------------------------------------
(* A request that begins to wait finds a refresh under way, and a refresh  *)
(* ends for everybody who waits.                                           *)
LEMMA WaitStep ==
    ASSUME SessionInv, [Next]_vars
    PROVE  NobodyWaitsInVain'
<1>1. \A r \in Requests : req[r].pc = "waiting" => ref[Caller(r)].pc # "idle"
  BY DEF SessionInv, NobodyWaitsInVain
<1>2. req \in [Requests -> Req] /\ ref \in [Callers -> Ref]
  BY DEF SessionInv, TypeOK
<1>3. ASSUME \A r \in Requests : req'[r].pc = "waiting" => req[r].pc = "waiting",
             \A c \in Callers : ref[c].pc # "idle" => ref'[c].pc # "idle"
      PROVE  NobodyWaitsInVain'
  BY <1>1, <1>3, CallerTypes DEF NobodyWaitsInVain, Caller, SiteCaller, AdminCaller, OnSite
<1>4. ASSUME NEW r \in Requests, NEW kind, Send(r, kind) PROVE NobodyWaitsInVain'
  <2>1. With("sent", kind, jar).pc # "waiting"
    BY DEF With
  <2> QED
    BY <1>2, <1>3, <1>4, <2>1 DEF Send
<1>5. ASSUME NEW r \in Requests, NEW belief, Settle(r, belief), ref' = ref PROVE NobodyWaitsInVain'
  BY <1>2, <1>3, <1>5 DEF Settle, Idle
<1>6. ASSUME NEW r \in Requests, RefreshAdmin(r) \/ RefreshSite(r) PROVE NobodyWaitsInVain'
  <2>1. PICK pc \in {"sent", "refused"} :
          ref' = [ref EXCEPT ![Caller(r)] = [pc |-> pc, token |-> jar.refresh, fresh |-> NoToken]]
    BY <1>6 DEF RefreshAdmin, RefreshSite, Post
  <2>2. \A q \in Requests : Caller(q)' = Caller(q)
    BY DEF Caller, SiteCaller, AdminCaller, OnSite
  <2>3. \A q \in Requests : q # r => req'[q] = req[q]
    BY <1>2, <1>6 DEF RefreshAdmin, RefreshSite, Post
  <2>4. /\ ref'[Caller(r)].pc # "idle"
        /\ \A c \in Callers : c # Caller(r) => ref'[c] = ref[c]
    BY <1>2, <2>1, CallerTypes
  <2> QED
    BY <1>1, <2>2, <2>3, <2>4, CallerTypes DEF NobodyWaitsInVain
<1>7. ASSUME NEW r \in Requests, JoinRefresh(r) PROVE NobodyWaitsInVain'
  <2>1. \A q \in Requests : q # r => req'[q] = req[q]
    BY <1>2, <1>7 DEF JoinRefresh
  <2> QED
    BY <1>1, <1>7, <2>1 DEF JoinRefresh, NobodyWaitsInVain, Caller, SiteCaller, AdminCaller, OnSite
<1>8. ASSUME NEW r \in Requests, OpenSession(r) \/ AdminLoggedIn(r) \/ RevokeSession(r)
      PROVE  NobodyWaitsInVain'
  <2>1. With("sent", "profile", jar').pc # "waiting"
    BY DEF With
  <2>2. \A q \in Requests : q # r => req'[q] = req[q]
    BY <1>2, <1>8 DEF OpenSession, AdminLoggedIn, RevokeSession
  <2>3. req'[r].pc # "waiting"
    BY <1>2, <1>8, <2>1 DEF OpenSession, AdminLoggedIn, RevokeSession, Req
  <2> QED
    BY <1>3, <1>8, <2>2, <2>3 DEF OpenSession, AdminLoggedIn, RevokeSession
<1>9. ASSUME NEW c \in Callers, FindSession(c) \/ RevokeOld(c) \/ InsertNew(c) \/ RefreshFails(c)
      PROVE  NobodyWaitsInVain'
  <2>1. req' = req
    BY <1>9 DEF FindSession, RevokeOld, InsertNew, RefreshFails
  <2>2. \A d \in Callers : d # c => ref'[d] = ref[d]
    BY <1>2, <1>9 DEF FindSession, RevokeOld, InsertNew, RefreshFails
  <2>3. ref'[c].pc # "idle"
    BY <1>2, <1>9 DEF FindSession, RevokeOld, InsertNew, RefreshFails, Ref
  <2> QED
    BY <1>3, <2>1, <2>2, <2>3
<1>10. ASSUME NEW c \in Callers, Refreshed(c) \/ Fails(c) PROVE NobodyWaitsInVain'
  <2>1. \A d \in Callers : d # c => ref'[d] = ref[d]
    BY <1>2, <1>10 DEF Refreshed, Fails
  <2>2. \A kind : With("again", kind, jar').pc # "waiting"
    BY DEF With
  <2>3. \A q \in Requests : IF q \in Waiters(c) THEN req'[q].pc # "waiting" ELSE req'[q] = req[q]
    BY <1>10, <2>2 DEF Refreshed, Fails, Idle
  <2>4. \A q \in Requests : req'[q].pc = "waiting" => req[q].pc = "waiting" /\ Caller(q) # c
    BY <2>3 DEF Waiters
  <2> QED
    BY <1>1, <2>1, <2>4, CallerTypes DEF NobodyWaitsInVain, Caller, SiteCaller, AdminCaller, OnSite
<1>11. ASSUME NEW r \in Requests,
              \/ OpenAdmin(r) \/ OpenSite(r) \/ CallApi(r)
              \/ LogInAdmin(r) \/ LogInSite(r) \/ LogOut(r)
       PROVE  NobodyWaitsInVain'
  BY <1>4, <1>11 DEF OpenAdmin, OpenSite, CheckProfile, CallApi, LogInAdmin, LogInSite, LogOut
<1>12. ASSUME NEW r \in Requests, Answer(r) \/ RequestFails(r) PROVE NobodyWaitsInVain'
  BY <1>5, <1>6, <1>7, <1>8, <1>12 DEF Answer, Served, Refused, SiteLoggedIn, LoggedOut, RequestFails
<1>13. ASSUME NEW c \in Callers, Refresh(c) PROVE NobodyWaitsInVain'
  BY <1>9, <1>10, <1>13 DEF Refresh, AdminNotRefreshed, SessionExpired
<1>14. ASSUME \/ \E t \in Tabs : Reload(t)
              \/ AccessLapses
              \/ UNCHANGED vars
       PROVE  NobodyWaitsInVain'
  BY <1>3, <1>14 DEF Reload, AccessLapses, vars
<1> QED
  BY <1>9, <1>11, <1>12, <1>13, <1>14 DEF Next

(* An admin tab's refresh is refused by FindSession, whose token was good  *)
(* when it was sent, or after a failure.                                   *)
LEMMA CauseStep ==
    ASSUME SessionInv, [Next]_vars
    PROVE  RefusedForCause'
<1>1. \A t \in Admins : ref[AdminCaller(t)].pc = "refused" =>
          ref[AdminCaller(t)].token \in {NoToken} \cup contested \cup spoiled
  BY DEF SessionInv, RefusedForCause
<1>2. ref \in [Callers -> Ref]
  BY DEF SessionInv, TypeOK
<1>3. ASSUME contested \subseteq contested', spoiled \subseteq spoiled',
             \A t \in Admins : ref'[AdminCaller(t)].pc = "refused" =>
                \/ ref'[AdminCaller(t)].token = ref[AdminCaller(t)].token /\ ref[AdminCaller(t)].pc = "refused"
                \/ ref'[AdminCaller(t)].token \in {NoToken} \cup contested \cup spoiled'
      PROVE  RefusedForCause'
  BY <1>1, <1>3 DEF RefusedForCause, AdminCaller, Admins, OnSite
<1>4. ASSUME ref' = ref, contested \subseteq contested', spoiled \subseteq spoiled'
      PROVE  RefusedForCause'
  BY <1>3, <1>4
<1>5. ASSUME NEW c \in Callers, \A d \in Callers : d # c => ref'[d] = ref[d],
             contested \subseteq contested', spoiled \subseteq spoiled',
             ref'[c].pc # "refused" \/ ref'[c].token \in {NoToken} \cup contested \cup spoiled'
      PROVE  RefusedForCause'
  BY <1>3, <1>5, CallerTypes
<1>6. ASSUME NEW r \in Requests, RefreshAdmin(r) PROVE RefusedForCause'
  <2>1. ref' = [ref EXCEPT ![Caller(r)] = [pc |-> "sent", token |-> jar.refresh, fresh |-> NoToken]]
    BY <1>6 DEF RefreshAdmin, Post
  <2>2. contested \subseteq contested' /\ spoiled' = spoiled
    BY <1>6 DEF RefreshAdmin, Post, Contested
  <2> QED
    BY <1>2, <1>5, <2>1, <2>2, CallerTypes
<1>7. ASSUME NEW r \in Requests, RefreshSite(r) PROVE RefusedForCause'
  <2>1. PICK pc \in {"sent", "refused"} :
          ref' = [ref EXCEPT ![Caller(r)] = [pc |-> pc, token |-> jar.refresh, fresh |-> NoToken]]
    BY <1>7 DEF RefreshSite, Post
  <2>2. contested \subseteq contested' /\ spoiled' = spoiled
    BY <1>7 DEF RefreshSite, Post, Contested
  <2>3. \A t \in Admins : AdminCaller(t) # Caller(r)
    BY <1>7, CallerTypes DEF RefreshSite, Caller
  <2>4. \A t \in Admins : ref'[AdminCaller(t)] = ref[AdminCaller(t)]
    BY <1>2, <2>1, <2>3, CallerTypes
  <2> QED
    BY <1>3, <2>2, <2>4
<1>8. ASSUME NEW c \in Callers, FindSession(c) PROVE RefusedForCause'
  <2>1. /\ \A d \in Callers : d # c => ref'[d] = ref[d]
        /\ ref'[c].token = ref[c].token /\ ref[c].pc = "sent"
        /\ ref'[c].pc = "refused" => ref[c].token \notin live
        /\ contested' = contested /\ spoiled' = spoiled
    BY <1>2, <1>8 DEF FindSession, Ref
  <2>2. ref'[c].pc = "refused" => ref'[c].token \in {NoToken} \cup contested \cup spoiled'
    BY <2>1 DEF SessionInv, SentWasGood
  <2> QED
    BY <1>5, <2>1, <2>2
<1>9. ASSUME NEW c \in Callers, RevokeOld(c) \/ InsertNew(c) PROVE RefusedForCause'
  <2>1. /\ \A d \in Callers : d # c => ref'[d] = ref[d]
        /\ ref'[c].pc # "refused"
        /\ contested' = contested /\ spoiled' = spoiled
    BY <1>2, <1>9 DEF RevokeOld, InsertNew, Ref
  <2> QED
    BY <1>5, <2>1
<1>10. ASSUME NEW c \in Callers, RefreshFails(c) PROVE RefusedForCause'
  <2>1. /\ \A d \in Callers : d # c => ref'[d] = ref[d]
        /\ ref'[c].token = ref[c].token
        /\ contested' = contested /\ spoiled' = spoiled \cup {ref[c].token}
    BY <1>2, <1>10 DEF RefreshFails, Ref
  <2> QED
    BY <1>5, <2>1
<1>11. ASSUME NEW c \in Callers, Refreshed(c) \/ Fails(c) PROVE RefusedForCause'
  <2>1. /\ \A d \in Callers : d # c => ref'[d] = ref[d]
        /\ ref'[c].pc # "refused"
        /\ contested' = contested /\ spoiled' = spoiled
    BY <1>2, <1>11 DEF Refreshed, Fails, NoCall
  <2> QED
    BY <1>5, <2>1
<1>12. ASSUME NEW r \in Requests,
              \/ OpenAdmin(r) \/ OpenSite(r) \/ CallApi(r)
              \/ LogInAdmin(r) \/ LogInSite(r) \/ LogOut(r)
       PROVE  RefusedForCause'
  BY <1>4, <1>12 DEF OpenAdmin, OpenSite, CheckProfile, CallApi, LogInAdmin, LogInSite, LogOut, Send, Contested
<1>13. ASSUME NEW r \in Requests, Answer(r) \/ RequestFails(r) PROVE RefusedForCause'
  BY <1>4, <1>6, <1>7, <1>13 DEF Answer, Served, Refused, JoinRefresh, OpenSession, AdminLoggedIn,
     SiteLoggedIn, RevokeSession, LoggedOut, RequestFails
<1>14. ASSUME NEW c \in Callers, Refresh(c) PROVE RefusedForCause'
  BY <1>8, <1>9, <1>11, <1>14 DEF Refresh, AdminNotRefreshed, SessionExpired
<1>15. ASSUME \/ \E t \in Tabs : Reload(t)
              \/ AccessLapses
              \/ UNCHANGED vars
       PROVE  RefusedForCause'
  BY <1>4, <1>15 DEF Reload, AccessLapses, vars
<1> QED
  BY <1>10, <1>12, <1>13, <1>14, <1>15 DEF Next

-----------------------------------------------------------------------------
(***************************************************************************)
(* The invariant is inductive: the types, that nobody waits in vain, that  *)
(* the browser's token is good, and that a refresh is refused for cause.   *)
(***************************************************************************)
THEOREM SessionInvariance == Spec => []SessionInv
<1>1. Init => SessionInv
  <2> SUFFICES ASSUME Init PROVE SessionInv
    OBVIOUS
  <2>1. \A r \in Requests : req[r].pc = "idle" /\ ~(req[r].kind = "logout")
    BY DEF Init, Idle
  <2>2. \A c \in Callers : ref[c].pc = "idle"
    BY DEF Init, NoCall
  <2>3. jar.refresh \in live \cup {NoToken}
    BY DEF Init, SignedOut, NoToken
  <2> QED
    BY <2>1, <2>2, <2>3, InitTypes, CallerTypes DEF SessionInv, NobodyWaitsInVain, HeldTokenIsGood,
       RefusedForCause, TwoUsersContest, SentWasGood, Undelivered, Refreshes 
<1>2. SessionInv /\ [Next]_vars => SessionInv'
  BY TypeStep, RestStep, WaitStep, CauseStep DEF SessionInv, Rest
<1> QED
  BY <1>1, <1>2, PTL DEF Spec

(* Every variable keeps its type.                                          *)
THEOREM SessionTypes == Spec => []TypeOK
<1>1. SessionInv => TypeOK
  BY DEF SessionInv
<1> QED
  BY <1>1, SessionInvariance, PTL

(* A request that waits for a refresh waits for one that is under way.     *)
THEOREM NobodyWaitsInVainHolds == Spec => []NobodyWaitsInVain
<1>1. SessionInv => NobodyWaitsInVain
  BY DEF SessionInv
<1> QED
  BY <1>1, SessionInvariance, PTL

(* The token in the jar has a live session unless its spending is under    *)
(* way or was cut short.                                                   *)
THEOREM HeldTokenIsGoodHolds == Spec => []HeldTokenIsGood
<1>1. SessionInv => HeldTokenIsGood
  BY DEF SessionInv
<1> QED
  BY <1>1, SessionInvariance, PTL

(* The requests of one admin tab never sign each other out.                *)
THEOREM RefusedForCauseHolds == Spec => []RefusedForCause
<1>1. SessionInv => RefusedForCause
  BY DEF SessionInv
<1> QED
  BY <1>1, SessionInvariance, PTL
-----------------------------------------------------------------------------
(* The pages.                                                              *)
USE RowsAssumption, FormBounds, PagesAssumption

(* An operation under way, and the parts of one.                           *)
Operations ==
    [id : 1..MaxOperations, kind : page, row : Rows, sent : SUBSET Changes,
     before : Copies, at : {"sent", "created", "answered", "asked", "listed"},
     answer : Copies]

(* The parts of an operation, and of one that has moved on.                *)
LEMMA OperationShape ==
  ASSUME NEW u \in Operations
  PROVE  /\ u.id \in 1..MaxOperations /\ u.kind \in page /\ u.row \in Rows
         /\ u.sent \in SUBSET Changes /\ u.before \in Copies /\ u.answer \in Copies
         /\ u.at \in {"sent", "created", "answered", "asked", "listed"}
         /\ \A at \in {"sent", "created", "answered", "asked", "listed"}, answer \in Copies :
               LET w == [u EXCEPT !.at = at, !.answer = answer]
               IN  /\ w \in Operations
                   /\ w.id = u.id /\ w.kind = u.kind /\ w.row = u.row /\ w.sent = u.sent
                   /\ w.before = u.before /\ w.at = at /\ w.answer = answer
         /\ \A at \in {"sent", "created", "answered", "asked", "listed"} :
               LET w == [u EXCEPT !.at = at]
               IN  /\ w \in Operations
                   /\ w.id = u.id /\ w.kind = u.kind /\ w.row = u.row /\ w.sent = u.sent
                   /\ w.before = u.before /\ w.at = at /\ w.answer = u.answer
  BY DEF Operations

(* What the page shows is a copy, its own one if it has one.               *)
LEMMA ShownIsACopy ==
  ASSUME FormTypeOK
  PROVE  /\ Shown \in Copies
         /\ own = {} => Shown = fetched
         /\ \A copy : own = {copy} => Shown = copy
<1>1. ASSUME NEW copy, own = {copy}
      PROVE  Shown = copy
  <2>1. \A c \in own : c = copy
    BY <1>1
  <2>2. Shown \in own
    BY <1>1 DEF Shown
  <2> QED
    BY <2>1, <2>2
<1>2. own = {} => Shown = fetched
  BY DEF Shown
<1> QED
  BY <1>1, <1>2 DEF FormTypeOK

(* A copy with one row changed is a copy.                                  *)
LEMMA CopyChanged ==
  ASSUME NEW copy \in Copies, NEW r \in Rows
  PROVE  /\ Nothing \in Copies
         /\ \A n \in 1..MaxOperations : [copy EXCEPT ![r] = @ \cup {n}] \in Copies
         /\ \A c \in Copies : [copy EXCEPT ![r] = c[r]] \in Copies
  BY DEF Copies, Nothing

-----------------------------------------------------------------------------
(* TypeOK in four parts, and the page never changes.                       *)
FormTypes ==
    /\ page \in Pages /\ page \subseteq KindTypes
    /\ typed \in [page -> SUBSET Changes]
    /\ open \in [page -> Rows \cup {NoRow}] /\ busy \in [page -> Rows \cup {NoRow}]
    /\ uploads \subseteq [kind : page, change : Changes, before : SUBSET Changes]
    /\ used \subseteq Changes /\ late \subseteq Changes

OpsTypes == ops \subseteq Operations

ScreenTypes ==
    /\ own \in {{}} \cup {{copy} : copy \in Copies} /\ fetched \in Copies
    /\ {left, missed, crossed} \subseteq BOOLEAN /\ saves \subseteq 1..MaxOperations

ApiTypes ==
    /\ stored \in Copies /\ filed \subseteq Changes /\ doubled \subseteq filed
    /\ lost \in BOOLEAN

Counts == begun \in 0..MaxOperations /\ failures \in 0..MaxFailures

(* The four parts, and the counters, are TypeOK.                           *)
LEMMA TypesInParts ==
  /\ FormTypeOK <=> FormTypes /\ OpsTypes /\ ScreenTypes /\ ApiTypes /\ Counts
  /\ FormTypeOK' <=> FormTypes' /\ OpsTypes' /\ ScreenTypes' /\ ApiTypes' /\ Counts'
BY DEF FormTypeOK, FormTypes, OpsTypes, ScreenTypes, ApiTypes, Counts, Operations

(* The state stays well formed.                                            *)
LEMMA InitFormTypes == FormInit => FormTypeOK
<1> SUFFICES ASSUME FormInit PROVE FormTypeOK
  OBVIOUS
<1>1. Nothing \in Copies
  BY DEF Nothing, Copies
<1>2. page \in Pages /\ page \subseteq KindTypes
  BY DEF FormInit, WellMade
<1>3. FormTypes /\ OpsTypes
  BY <1>2 DEF FormInit, FormTypes, OpsTypes
<1>4. ScreenTypes
  BY <1>1 DEF FormInit, ScreenTypes
<1>5. ApiTypes
  BY <1>1 DEF FormInit, ApiTypes
<1>6. Counts
  BY DEF FormInit, Counts
<1> QED
  BY <1>3, <1>4, <1>5, <1>6, TypesInParts

(* Steps of the user.                                                      *)
LEMMA UserTypes ==
  ASSUME FormTypeOK, NEW k \in page,
         \/ \E r \in Rows : OpenDialog(k, r)
         \/ CloseDialog(k)
         \/ \E e \in Changes : Type(k, e) \/ ChoosePicture(k, e)
  PROVE  FormTypeOK'
<1> USE TypesInParts
<1>1. ASSUME NEW r \in Rows, OpenDialog(k, r)
      PROVE  FormTypeOK'
  BY <1>1 DEF OpenDialog, Api, Screen, FormTypes, OpsTypes, ScreenTypes, ApiTypes, Counts, Operations
<1>2. CASE CloseDialog(k)
  BY <1>2 DEF CloseDialog, Api, Screen, FormTypes, OpsTypes, ScreenTypes, ApiTypes, Counts, Operations
<1>3. ASSUME NEW e \in Changes, Type(k, e)
      PROVE  FormTypeOK'
  BY <1>3 DEF Type, Use, Api, Screen, FormTypes, OpsTypes, ScreenTypes, ApiTypes, Counts, Operations
<1>4. ASSUME NEW e \in Changes, ChoosePicture(k, e)
      PROVE  FormTypeOK'
  BY <1>4 DEF ChoosePicture, Use, Api, Screen, FormTypes, OpsTypes, ScreenTypes, ApiTypes, Counts, Operations
<1> QED
  BY <1>1, <1>2, <1>3, <1>4

(* A picture that arrives, or does not, keeps the types.                   *)
LEMMA PictureTypes ==
  ASSUME FormTypeOK, NEW p \in uploads, PictureUploaded(p) \/ PictureFails(p)
  PROVE  FormTypeOK'
BY TypesInParts DEF PictureUploaded, PictureFails, Api, Screen, FormTypes, OpsTypes, ScreenTypes,
   ApiTypes, Counts, Operations

(* So does sending, which numbers the operation.                           *)
LEMMA SubmitTypes ==
  ASSUME FormTypeOK, NEW k \in page, NEW r \in Rows, Submit(k, r)
  PROVE  FormTypeOK'
<1> USE TypesInParts
<1>1. Shown \in Copies /\ Nothing \in Copies
  BY ShownIsACopy, CopyChanged DEF Copies, Nothing
<1>2. FormTypes' /\ ScreenTypes' /\ ApiTypes' /\ Counts' /\ page' = page
  BY DEF Submit, Api, FormTypes, ScreenTypes, ApiTypes, Counts
<1>3. [id |-> begun + 1, kind |-> k, row |-> r, sent |-> typed[k],
       before |-> Shown, at |-> "sent", answer |-> Nothing] \in Operations
  <2>1. begun + 1 \in 1..MaxOperations
    BY DEF Counts, Submit
  <2>2. typed[k] \in SUBSET Changes
    BY DEF FormTypes
  <2> QED
    BY <1>1, <2>1, <2>2 DEF Operations
<1>4. OpsTypes'
  BY <1>2, <1>3 DEF OpsTypes, Operations, Submit
<1> QED
  BY <1>2, <1>4

-----------------------------------------------------------------------------
(* So do the steps of the API.                                             *)
LEMMA ApiStepTypes ==
  ASSUME FormTypeOK, NEW u \in ops, Store(u) \/ CoverUploaded(u) \/ CoverFails(u) \/ List(u)
  PROVE  FormTypeOK'
<1> USE TypesInParts
<1>u. u \in Operations
  BY DEF OpsTypes
<1>1. FormTypes' /\ Counts' /\ page' = page
  BY DEF Store, CoverUploaded, CoverFails, List, Client, FormTypes, Counts
<1>2. ApiTypes' /\ ScreenTypes'
  <2>1. \A n \in 1..MaxOperations, r \in Rows : [stored EXCEPT ![r] = @ \cup {n}] \in Copies
    BY CopyChanged DEF ApiTypes
  <2>2. u.id \in 1..MaxOperations /\ u.row \in Rows /\ u.sent \subseteq Changes
    BY <1>u, OperationShape
  <2>3. CASE Store(u)
    <3>1. stored' \in Copies
      BY <2>1, <2>2, <2>3 DEF Store, ApiTypes
    <3>2. filed' \subseteq Changes /\ doubled' \subseteq filed'
      BY <2>2, <2>3 DEF Store, ApiTypes
    <3> QED
      BY <2>3, <3>1, <3>2 DEF Store, ApiTypes, ScreenTypes, Screen
  <2> QED
    BY <2>3 DEF CoverUploaded, CoverFails, List, Api, Screen, ApiTypes, ScreenTypes
<1>3. OpsTypes'
  <2>1. \A at \in {"sent", "created", "answered", "asked", "listed"}, answer \in Copies :
            [u EXCEPT !.at = at, !.answer = answer] \in Operations
    BY <1>u DEF Operations
  <2>2. u.answer \in Copies /\ stored \in Copies /\ stored' \in Copies
    BY <1>u, <1>2, OperationShape DEF ApiTypes
  <2>3. \E at \in {"sent", "created", "answered", "asked", "listed"}, answer \in Copies :
            Becomes(u, at, answer)
    BY <2>2 DEF Store, CoverUploaded, CoverFails, List
  <2>4. Operations' = Operations
    BY <1>1 DEF Operations
  <2>5. PICK w \in Operations : ops' = (ops \ {u}) \cup {w}
    BY <2>1, <2>3 DEF Becomes
  <2> QED
    BY <2>4, <2>5 DEF OpsTypes
<1> QED
  BY <1>1, <1>2, <1>3

(* Steps of a handler: what is left of the operations is as it was, or     *)
(* waits for a list now.                                                   *)
LEMMA HandlerOps ==
  ASSUME FormTypeOK, NEW u \in ops, Handle(u) \/ SendFails(u) \/ ListFails(u)
  PROVE  /\ OpsTypes'
         /\ \/ ops' = ops \ {u}
            \/ AskAgain(u) /\ [u EXCEPT !.at = "asked"] \in Operations
<1> USE TypesInParts
<1>u. u \in Operations
  BY DEF OpsTypes
<1>1. page' = page
  BY DEF Handle, Left, Replaced, Merged, Spread, AskAgain, Listed, SendFails, ListFails, Handled, Shell
<1>2. Operations' = Operations
  BY <1>1 DEF Operations
<1>3. CASE AskAgain(u)
  <2>1. [u EXCEPT !.at = "asked"] \in Operations
    BY <1>u, OperationShape
  <2> QED
    BY <1>2, <1>3, <2>1 DEF AskAgain, OpsTypes
<1>4. CASE ops' = ops \ {u}
  BY <1>2, <1>4 DEF OpsTypes
<1> QED
  BY <1>3, <1>4
     DEF Handle, Left, Replaced, Merged, Spread, Listed, SendFails, ListFails, Ended

(* Each handler shows a copy, and clears forms only.                       *)
LEMMA HandlerScreen ==
  ASSUME FormTypeOK, NEW u \in ops, Handle(u) \/ SendFails(u) \/ ListFails(u)
  PROVE  ScreenTypes'
<1> USE TypesInParts
<1>u. u \in Operations
  BY DEF OpsTypes
<1>1. /\ u.answer \in Copies /\ u.before \in Copies /\ Shown \in Copies
      /\ u.row \in Rows /\ u.id \in 1..MaxOperations
  BY <1>u, OperationShape, ShownIsACopy
<1>2. /\ [u.before EXCEPT ![u.row] = @ \cup {u.id}] \in Copies
      /\ [Shown EXCEPT ![u.row] = u.answer[u.row]] \in Copies
  BY <1>1, CopyChanged
<1>3. CASE Left(u) \/ Replaced(u) \/ AskAgain(u)
  BY <1>1, <1>3 DEF Left, Replaced, AskAgain, Handled, Shell, ScreenTypes
<1>4. CASE Merged(u) \/ Spread(u)
  BY <1>2, <1>4 DEF Merged, Spread, Handled, Shell, ScreenTypes
<1>5. CASE Listed(u) \/ SendFails(u) \/ ListFails(u)
  BY <1>1, <1>5 DEF Listed, SendFails, ListFails, ScreenTypes
<1> QED
  BY <1>3, <1>4, <1>5 DEF Handle

(* A handler keeps the types.                                              *)
LEMMA HandlerTypes ==
  ASSUME FormTypeOK, NEW u \in ops, Handle(u) \/ SendFails(u) \/ ListFails(u)
  PROVE  FormTypeOK'
<1> USE TypesInParts
<1>1. u.kind \in page
  BY OperationShape DEF OpsTypes
<1>2. FormTypes'
  BY <1>1 DEF Handle, Left, Replaced, Merged, Spread, AskAgain, Listed, SendFails, ListFails, Handled, Shell,
              Ended, TurnOn, Follow, Cleared, FormTypes
<1>3. ApiTypes' /\ Counts'
  <2>1. CASE Left(u) \/ Replaced(u) \/ Merged(u) \/ Spread(u) \/ AskAgain(u)
    BY <2>1 DEF Left, Replaced, Merged, Spread, AskAgain, Handled, Shell, Api, ApiTypes, Counts
  <2>2. CASE Listed(u) \/ ListFails(u)
    BY <2>2 DEF Listed, ListFails, Fault, Api, ApiTypes, Counts
  <2>3. CASE SendFails(u)
    BY <2>3 DEF SendFails, Fault, ApiTypes, Counts
  <2> QED
    BY <2>1, <2>2, <2>3 DEF Handle
<1> QED
  BY <1>2, <1>3, HandlerOps, HandlerScreen

(* Every step does.                                                        *)
LEMMA NextTypes ==
  ASSUME FormTypeOK, [FormNext]_formVars
  PROVE  FormTypeOK'
<1>1. CASE UNCHANGED formVars
  BY <1>1 DEF formVars, FormTypeOK
<1> QED
  BY <1>1, UserTypes, SubmitTypes, PictureTypes, ApiStepTypes, HandlerTypes DEF FormNext

(* The pages, forms, operations and copies of FormPages stay well formed.  *)
THEOREM FormTypeCorrect == FormSpec => []FormTypeOK
<1>1. FormInit => FormTypeOK
  BY InitFormTypes
<1>2. FormTypeOK /\ [FormNext]_formVars => FormTypeOK'
  BY NextTypes
<1> QED
  BY <1>1, <1>2, PTL DEF FormSpec
-----------------------------------------------------------------------------
(* Where an operation goes.  w is u, further on.                           *)
Further(w, u) ==
    /\ w \in Operations
    /\ w.id = u.id /\ w.kind = u.kind /\ w.row = u.row /\ w.sent = u.sent /\ w.before = u.before

(* The API moves one operation on and starts none.                         *)
LEMMA ApiMoves ==
  ASSUME FormTypeOK, NEW u \in ops, Store(u) \/ CoverUploaded(u) \/ CoverFails(u) \/ List(u)
  PROVE  /\ page' = page /\ begun' = begun /\ typed' = typed /\ open' = open /\ busy' = busy
         /\ uploads' = uploads /\ used' = used /\ late' = late
         /\ own' = own /\ fetched' = fetched /\ missed' = missed /\ crossed' = crossed
         /\ saves' = saves
         /\ \E w : /\ Further(w, u) /\ ops' = (ops \ {u}) \cup {w}
                   /\ \/ /\ Store(u) /\ u.at = "sent" /\ w.at \in {"created", "answered"}
                         /\ w.answer = stored'
                      \/ /\ u.at = "created" /\ w.at = "answered" /\ w.answer = u.answer
                         /\ stored' = stored /\ filed' = filed /\ lost' = lost
                         /\ doubled' = doubled
                      \/ /\ u.at = "asked" /\ w.at = "listed" /\ w.answer = stored
                         /\ stored' = stored /\ filed' = filed /\ lost' = lost
                         /\ doubled' = doubled
<1>1. u \in Operations /\ u.answer \in Copies /\ stored \in Copies /\ stored' \in Copies
  BY TypesInParts, ApiStepTypes, OperationShape DEF OpsTypes, ApiTypes
<1>2. ASSUME NEW at \in {"created", "answered", "listed"}, NEW answer \in Copies,
             Becomes(u, at, answer)
      PROVE  \E w : /\ Further(w, u) /\ ops' = (ops \ {u}) \cup {w}
                    /\ w.at = at /\ w.answer = answer
  <2> DEFINE w == [u EXCEPT !.at = at, !.answer = answer]
  <2>1. Further(w, u) /\ w.at = at /\ w.answer = answer
    <3>1. at \in {"sent", "created", "answered", "asked", "listed"}
      OBVIOUS
    <3>2. w \in Operations
      BY <1>1, <3>1 DEF Operations
    <3>3. w.at = at /\ w.answer = answer
      BY <1>1 DEF Operations
    <3>4. w.id = u.id /\ w.kind = u.kind /\ w.row = u.row /\ w.sent = u.sent /\ w.before = u.before
      BY <1>1 DEF Operations
    <3> QED
      BY <3>2, <3>3, <3>4 DEF Further
  <2>2. ops' = (ops \ {u}) \cup {w}
    BY <1>2 DEF Becomes
  <2> HIDE DEF w
  <2> QED
    BY <2>1, <2>2
<1>3. CASE Store(u)
  <2>1. PICK at \in {"created", "answered"} : Becomes(u, at, stored')
    BY <1>3 DEF Store
  <2>2. \E w : /\ Further(w, u) /\ ops' = (ops \ {u}) \cup {w}
               /\ w.at = at /\ w.answer = stored'
    BY <1>1, <1>2, <2>1
  <2>3. u.at = "sent" /\ Client /\ Screen
    BY <1>3 DEF Store
  <2> QED
    BY <1>3, <2>2, <2>3 DEF Client, Screen
<1>4. CASE CoverUploaded(u) \/ CoverFails(u)
  <2>1. Becomes(u, "answered", u.answer) /\ u.at = "created" /\ Client /\ Screen /\ Api
    BY <1>4 DEF CoverUploaded, CoverFails
  <2>2. \E w : /\ Further(w, u) /\ ops' = (ops \ {u}) \cup {w}
               /\ w.at = "answered" /\ w.answer = u.answer
    BY <1>1, <1>2, <2>1
  <2> QED
    BY <2>1, <2>2 DEF Client, Screen, Api
<1>5. CASE List(u)
  <2>1. Becomes(u, "listed", stored) /\ u.at = "asked" /\ Client /\ Screen /\ Api
    BY <1>5 DEF List
  <2>2. \E w : /\ Further(w, u) /\ ops' = (ops \ {u}) \cup {w}
               /\ w.at = "listed" /\ w.answer = stored
    BY <1>1, <1>2, <2>1
  <2> QED
    BY <2>1, <2>2 DEF Client, Screen, Api
<1> QED
  BY <1>3, <1>4, <1>5

(* A handler is done with its operation, or waits for the list.            *)
LEMMA HandlerMoves ==
  ASSUME FormTypeOK, NEW u \in ops, Handle(u) \/ SendFails(u) \/ ListFails(u)
  PROVE  /\ page' = page /\ begun' = begun /\ uploads' = uploads /\ used' = used /\ late' = late
         /\ stored' = stored /\ filed' = filed /\ doubled' = doubled /\ crossed' = crossed
         /\ saves' = saves
         /\ ops' = ops \ {u} \/ AskAgain(u)
         /\ AskAgain(u) =>
              \E w : /\ Further(w, u) /\ w.at = "asked" /\ w.answer = u.answer
                     /\ ops' = {v \in ops \ {u} : u.kind.answer = "again"
                                                    => v.at \notin {"asked", "listed"}}
                                 \cup {w}
                     /\ ops' \subseteq (ops \ {u}) \cup {w}
<1>1. u \in Operations
  BY TypesInParts DEF OpsTypes
<1>2. LET w == [u EXCEPT !.at = "asked"]
      IN  Further(w, u) /\ w.at = "asked" /\ w.answer = u.answer
  BY <1>1, OperationShape DEF Further
<1>3. AskAgain(u) =>
        \E w : /\ Further(w, u) /\ w.at = "asked" /\ w.answer = u.answer
               /\ ops' = {v \in ops \ {u} : u.kind.answer = "again"
                                              => v.at \notin {"asked", "listed"}}
                           \cup {w}
               /\ ops' \subseteq (ops \ {u}) \cup {w}
  <2> SUFFICES ASSUME AskAgain(u)
               PROVE  \E w : /\ Further(w, u) /\ w.at = "asked" /\ w.answer = u.answer
                             /\ ops' = {v \in ops \ {u} : u.kind.answer = "again"
                                              => v.at \notin {"asked", "listed"}} \cup {w}
    OBVIOUS
  <2> DEFINE w == [u EXCEPT !.at = "asked"]
  <2>1. ops' = {v \in ops \ {u} : u.kind.answer = "again" => v.at \notin {"asked", "listed"}}
                 \cup {w}
    BY DEF AskAgain
  <2>2. Further(w, u) /\ w.at = "asked" /\ w.answer = u.answer
    BY <1>2
  <2> HIDE DEF w
  <2> QED
    BY <2>1, <2>2
<1>4. CASE Left(u) \/ Replaced(u) \/ Merged(u) \/ Spread(u) \/ AskAgain(u)
  BY <1>3, <1>4 DEF Left, Replaced, Merged, Spread, AskAgain, Handled, Shell, Ended, Api
<1>5. CASE Listed(u) \/ ListFails(u)
  BY <1>3, <1>5 DEF Listed, ListFails, Api
<1>6. CASE SendFails(u)
  BY <1>3, <1>6 DEF SendFails, Ended
<1> QED
  BY <1>4, <1>5, <1>6 DEF Handle

(* The user starts an operation, the record of what is sent.               *)
New(k, r) == [id |-> begun + 1, kind |-> k, row |-> r, sent |-> typed[k],
              before |-> Shown, at |-> "sent", answer |-> Nothing]

(* Submit adds one operation, with a number of its own.                    *)
LEMMA SubmitMoves ==
  ASSUME FormTypeOK, NEW k \in page, NEW r \in Rows, Submit(k, r)
  PROVE  /\ page' = page /\ begun' = begun + 1 /\ typed' = typed /\ uploads' = uploads
         /\ used' = used /\ late' = late /\ own' = own /\ fetched' = fetched
         /\ missed' = missed /\ stored' = stored /\ filed' = filed /\ lost' = lost
         /\ doubled' = doubled
         /\ saves' = IF k.follows THEN saves \cup {begun + 1} ELSE saves
         /\ \E n : /\ ops' = ops \cup {n} /\ n \in Operations
                   /\ n.id = begun + 1 /\ n.kind = k /\ n.row = r /\ n.sent = typed[k]
                   /\ n.before = Shown /\ n.at = "sent"
<1> DEFINE n == New(k, r)
<1>1. ops' = ops \cup {n}
  BY DEF Submit, New
<1>2. n.id = begun + 1 /\ n.kind = k /\ n.row = r /\ n.sent = typed[k] /\ n.before = Shown
      /\ n.at = "sent"
  BY DEF New
<1>3. n \in Operations
  <2>1. ops' \subseteq Operations' /\ Operations' = Operations
    BY SubmitTypes, TypesInParts DEF OpsTypes, Submit, Operations
  <2> QED
    BY <1>1, <2>1
<1>4. /\ page' = page /\ begun' = begun + 1 /\ typed' = typed /\ uploads' = uploads
      /\ used' = used /\ late' = late /\ own' = own /\ fetched' = fetched
      /\ missed' = missed /\ stored' = stored /\ filed' = filed /\ lost' = lost
      /\ doubled' = doubled
      /\ saves' = IF k.follows THEN saves \cup {begun + 1} ELSE saves
  BY DEF Submit, Api
<1> HIDE DEF n
<1> QED
  BY <1>1, <1>2, <1>3, <1>4

(* While the user types, opens and closes, and while pictures come, the    *)
(* operations go on as they are.                                           *)
Quiet ==
    \/ \E k \in page, r \in Rows : OpenDialog(k, r)
    \/ \E k \in page : CloseDialog(k)
    \/ \E k \in page, e \in Changes : Type(k, e) \/ ChoosePicture(k, e)
    \/ \E p \in uploads : PictureUploaded(p) \/ PictureFails(p)
    \/ UNCHANGED formVars

(* What a quiet step leaves alone.                                         *)
LEMMA QuietMoves ==
  ASSUME Quiet
  PROVE  /\ page' = page /\ begun' = begun /\ ops' = ops /\ filed' = filed /\ stored' = stored
         /\ lost' = lost /\ doubled' = doubled
         /\ own' = own /\ fetched' = fetched /\ missed' = missed /\ crossed' = crossed
         /\ saves' = saves
BY DEF Quiet, OpenDialog, CloseDialog, Type, ChoosePicture, Use, PictureUploaded, PictureFails,
       formVars, Api, Screen

(* Every step is quiet, sends, is of the API, or is of a handler.          *)
LEMMA FourKinds ==
  ASSUME [FormNext]_formVars
  PROVE  \/ Quiet
         \/ \E k \in page, r \in Rows : Submit(k, r)
         \/ \E u \in ops : Store(u) \/ CoverUploaded(u) \/ CoverFails(u) \/ List(u)
         \/ \E u \in ops : Handle(u) \/ SendFails(u) \/ ListFails(u)
BY DEF FormNext, Quiet

-----------------------------------------------------------------------------
(* The operations under way.                                               *)
LEMMA OneByOneKept ==
  ASSUME FormTypeOK, OneByOne, [FormNext]_formVars
  PROVE  OneByOne'
<1>0. ops \subseteq Operations /\ begun \in Nat
  BY TypesInParts DEF OpsTypes, Counts
<1>n. \A u \in Operations : u.id \in Nat
  BY DEF Operations
<1>1. CASE Quiet
  BY <1>1, QuietMoves DEF OneByOne
<1>2. ASSUME NEW k \in page, NEW r \in Rows, Submit(k, r)
      PROVE  OneByOne'
  <2>1. PICK n : /\ ops' = ops \cup {n} /\ n \in Operations
                 /\ n.id = begun + 1 /\ n.at = "sent"
    BY <1>2, SubmitMoves
  <2>2. begun' = begun + 1
    BY <1>2, SubmitMoves
  <2> QED
    BY <1>0, <1>n, <2>1, <2>2 DEF OneByOne
<1>3. ASSUME NEW u \in ops, Store(u) \/ CoverUploaded(u) \/ CoverFails(u) \/ List(u)
      PROVE  OneByOne'
  <2>1. PICK w : /\ Further(w, u) /\ ops' = (ops \ {u}) \cup {w}
                 /\ w.at \in {"asked", "listed"} => u.at = "asked"
    BY <1>3, ApiMoves
  <2>2. begun' = begun
    BY <1>3, ApiMoves
  <2> QED
    BY <1>0, <1>n, <2>1, <2>2 DEF OneByOne, Further
<1>4. ASSUME NEW u \in ops, Handle(u) \/ SendFails(u) \/ ListFails(u)
      PROVE  OneByOne'
  <2>1. begun' = begun
    BY <1>4, HandlerMoves
  <2>2. CASE ops' = ops \ {u}
    BY <2>1, <2>2 DEF OneByOne
  <2>3. ASSUME AskAgain(u), NEW w, Further(w, u), w.at = "asked",
               ops' \subseteq (ops \ {u}) \cup {w}
        PROVE  OneByOne'
    BY <1>0, <1>n, <2>1, <2>3 DEF OneByOne, Further, AskAgain
  <2> QED
    BY <1>4, <2>2, <2>3, HandlerMoves
<1> QED
  BY <1>1, <1>2, <1>3, <1>4, FourKinds

(* A button is turned on by its own handler, or with a dialog it frees.    *)
LEMMA HandlerTurnsOn ==
  ASSUME FormTypeOK, NEW u \in ops, Handle(u) \/ SendFails(u) \/ ListFails(u)
  PROVE  \/ /\ busy' = busy
            /\ AskAgain(u) => u.kind.answer = "load"
            /\ Running(u) => AskAgain(u)
         \/ busy' = [busy EXCEPT ![u.kind] = NoRow] /\ Running(u)
<1>1. CASE Left(u) \/ Replaced(u) \/ Merged(u) \/ Spread(u)
  BY <1>1 DEF Left, Replaced, Merged, Spread, Handled, Shell, Ended, TurnOn, Running
<1>2. CASE AskAgain(u)
  BY <1>2 DEF AskAgain, Handled, Shell, TurnOn, Running
<1>3. CASE Listed(u) \/ ListFails(u) \/ SendFails(u)
  BY <1>3 DEF Listed, ListFails, SendFails, Handled, Shell, Ended, TurnOn, Running, AskAgain
<1> QED
  BY <1>1, <1>2, <1>3 DEF Handle

(* A quiet step turns no button on, unless its dialog frees it.            *)
LEMMA QuietBusy ==
  ASSUME FormTypeOK, Quiet, NEW k \in page, ~k.frees
  PROVE  busy'[k] = busy[k]
BY DEF Quiet, OpenDialog, CloseDialog, Type, ChoosePicture, Use, PictureUploaded, PictureFails,
       formVars, FormTypeOK

(* An operation whose button is off stays alone.                           *)
LEMMA AloneWhileOffKept ==
  ASSUME FormTypeOK, OneByOne, AloneWhileOff, [FormNext]_formVars
  PROVE  AloneWhileOff'
<1>0. /\ ops \subseteq Operations /\ \A u \in Operations : u.kind \in page
      /\ busy \in [page -> Rows \cup {NoRow}]
  BY TypesInParts, OperationShape DEF OpsTypes, FormTypes
<1>1. CASE Quiet
  <2>1. ops' = ops
    BY <1>1, QuietMoves
  <2>2. \A u \in ops : ~u.kind.frees => busy'[u.kind] = busy[u.kind]
    BY <1>0, <1>1, QuietBusy
  <2> QED
    BY <2>1, <2>2 DEF AloneWhileOff, Running
<1>2. ASSUME NEW k \in page, NEW r \in Rows, Submit(k, r)
      PROVE  AloneWhileOff'
  <2>1. PICK n : ops' = ops \cup {n} /\ n.kind = k
    BY <1>2, SubmitMoves
  <2>2. k.guard = "alone" => busy[k] = NoRow /\ busy' = [busy EXCEPT ![k] = r]
    BY <1>2 DEF Submit, Free
  <2>3. \A j \in page \ {k} : busy'[j] = busy[j]
    BY <1>0, <1>2 DEF Submit
  <2>4. k.guard = "alone" => busy'[k] # NoRow
    BY <1>0, <2>2
  <2>5. ASSUME NEW u \in ops', u.kind.guard = "alone", ~u.kind.frees, Running(u)
        PROVE  /\ busy'[u.kind] # NoRow
               /\ \A v \in ops' : v.kind = u.kind /\ Running(v) => v = u
    BY <1>0, <2>1, <2>2, <2>3, <2>4, <2>5 DEF AloneWhileOff
  <2> QED
    BY <2>5 DEF AloneWhileOff, Running
<1>3. ASSUME NEW u \in ops, Store(u) \/ CoverUploaded(u) \/ CoverFails(u) \/ List(u)
      PROVE  AloneWhileOff'
  <2>1. PICK w : /\ Further(w, u) /\ ops' = (ops \ {u}) \cup {w}
                 /\ \/ u.at = "asked" /\ w.at = "listed"
                    \/ u.at \in {"sent", "created"} /\ w.at \in {"created", "answered"}
    BY <1>3, ApiMoves
  <2>2. busy' = busy
    BY <1>3, ApiMoves
  <2>3. Running(w) <=> Running(u)
    BY <2>1 DEF Running, Further
  <2> QED
    BY <2>1, <2>2, <2>3 DEF AloneWhileOff, Further, Running
<1>4. ASSUME NEW u \in ops, Handle(u) \/ SendFails(u) \/ ListFails(u)
      PROVE  AloneWhileOff'
  <2>1. \/ ops' = ops \ {u}
        \/ AskAgain(u) /\ \E w : /\ ops' \subseteq (ops \ {u}) \cup {w}
                                 /\ Further(w, u) /\ w.at = "asked"
    BY <1>4, HandlerMoves
  <2>2. \A v \in ops \ {u} : v.kind = u.kind /\ v.kind.guard = "alone" /\ ~v.kind.frees
                               /\ Running(v) => ~Running(u)
    BY DEF AloneWhileOff
  <2>3. AskAgain(u) => Running(u)
    BY DEF AskAgain, Handled, Shell, Running
  <2>4. CASE busy' = busy /\ (AskAgain(u) => u.kind.answer = "load")
    BY <2>1, <2>3, <2>4 DEF AloneWhileOff, Further, Running
  <2>5. CASE busy' = [busy EXCEPT ![u.kind] = NoRow] /\ Running(u) /\ ~AskAgain(u)
    <3>1. ops' \subseteq ops \ {u}
      BY <2>1, <2>5
    <3>2. \A v \in ops \ {u} : v.kind # u.kind => busy'[v.kind] = busy[v.kind]
      BY <1>0, <2>5
    <3> QED
      BY <2>2, <2>5, <3>1, <3>2 DEF AloneWhileOff, Running
  <2>6. CASE AskAgain(u) /\ u.kind.answer = "again"
    <3>1. busy' = [busy EXCEPT ![u.kind] = NoRow]
      BY <2>6 DEF AskAgain, TurnOn
    <3>2. PICK w : Further(w, u) /\ w.at = "asked" /\ ops' \subseteq (ops \ {u}) \cup {w}
      BY <1>4, <2>6, HandlerMoves
    <3>3. ~Running(w)
      BY <2>6, <3>2 DEF Further, Running
    <3>4. \A v \in ops \ {u} : v.kind # u.kind => busy'[v.kind] = busy[v.kind]
      BY <1>0, <3>1
    <3> QED
      BY <2>2, <2>3, <2>6, <3>2, <3>3, <3>4 DEF AloneWhileOff, Running
  <2> QED
    BY <1>4, <2>4, <2>5, <2>6, HandlerTurnsOn DEF AskAgain
<1> QED
  BY <1>1, <1>2, <1>3, <1>4, FourKinds

(* A button that is off waits for an operation.                            *)
LEMMA OffForCauseKept ==
  ASSUME FormTypeOK, OffForCause, [FormNext]_formVars
  PROVE  OffForCause'
<1>0. /\ page \in Pages /\ \A u \in ops : u.kind \in page
      /\ busy \in [page -> Rows \cup {NoRow}]
  BY TypesInParts, OperationShape DEF OpsTypes, FormTypes, FormTypeOK
<1>1. CASE Quiet
  <2>1. ops' = ops /\ page' = page
    BY <1>1, QuietMoves
  <2>2. \A k \in page : busy'[k] \in {busy[k], NoRow}
    BY <1>0, <1>1 DEF Quiet, OpenDialog, CloseDialog, Type, ChoosePicture, Use,
       PictureUploaded, PictureFails, formVars
  <2> QED
    BY <2>1, <2>2 DEF OffForCause, Running
<1>2. ASSUME NEW k \in page, NEW r \in Rows, Submit(k, r)
      PROVE  OffForCause'
  <2>1. PICK n : ops' = ops \cup {n} /\ n.kind = k /\ n.at = "sent"
    BY <1>2, SubmitMoves
  <2>2. page' = page
    BY <1>2, SubmitMoves
  <2>3. Running(n)
    BY <2>1 DEF Running
  <2>4. \A j \in page : j # k => busy'[j] = busy[j]
    BY <1>0, <1>2 DEF Submit
  <2> QED
    BY <2>1, <2>2, <2>3, <2>4 DEF OffForCause, Running
<1>3. ASSUME NEW u \in ops, Store(u) \/ CoverUploaded(u) \/ CoverFails(u) \/ List(u)
      PROVE  OffForCause'
  <2>1. PICK w : /\ Further(w, u) /\ ops' = (ops \ {u}) \cup {w}
                 /\ \/ u.at = "asked" /\ w.at = "listed"
                    \/ u.at \in {"sent", "created"} /\ w.at \in {"created", "answered"}
    BY <1>3, ApiMoves
  <2>2. busy' = busy /\ page' = page
    BY <1>3, ApiMoves
  <2>3. Running(u) => Running(w)
    BY <2>1 DEF Running, Further
  <2> QED
    BY <2>1, <2>2, <2>3 DEF OffForCause, Further, Running
<1>4. ASSUME NEW u \in ops, Handle(u) \/ SendFails(u) \/ ListFails(u)
      PROVE  OffForCause'
  <2>1. page' = page /\ (ops' = ops \ {u} \/ AskAgain(u))
    BY <1>4, HandlerMoves
  <2>2. CASE busy' = busy /\ AskAgain(u) /\ u.kind.answer = "load"
    <3>1. PICK w : /\ Further(w, u)
                   /\ ops' = {v \in ops \ {u} : u.kind.answer = "again"
                                                  => v.at \notin {"asked", "listed"}}
                               \cup {w}
      BY <1>4, <2>2, HandlerMoves
    <3>2. ops' = (ops \ {u}) \cup {w} /\ Running(w)
      BY <2>2, <3>1 DEF Running, Further
    <3> QED
      BY <2>1, <2>2, <3>1, <3>2 DEF OffForCause, Further, Running
  <2>3. CASE busy' = busy /\ ~AskAgain(u) /\ ~Running(u)
    BY <2>1, <2>3 DEF OffForCause, Running
  <2>4. CASE busy' = [busy EXCEPT ![u.kind] = NoRow]
    <3>1. ASSUME NEW v \in ops, v.kind # u.kind, Running(v)
          PROVE  v \in ops'
      <4>1. v # u
        BY <3>1
      <4>2. CASE ops' = ops \ {u}
        BY <4>1, <4>2
      <4>3. CASE AskAgain(u)
        <5>1. PICK w : ops' = {x \in ops \ {u} : u.kind.answer = "again"
                                                  => x.at \notin {"asked", "listed"}}
                                \cup {w}
          BY <1>4, <4>3, HandlerMoves
        <5>2. u.kind.answer = "again" => v.kind.answer # "load"
          BY <1>0
        <5> QED
          BY <3>1, <4>1, <5>1, <5>2 DEF Running
      <4> QED
        BY <2>1, <4>2, <4>3
    <3>2. \A k \in page : busy'[k] # NoRow => k # u.kind /\ busy'[k] = busy[k]
      BY <1>0, <2>4
    <3> QED
      BY <2>1, <3>1, <3>2 DEF OffForCause, Running
  <2> QED
    BY <1>4, <2>2, <2>3, <2>4, HandlerTurnsOn
<1> QED
  BY <1>1, <1>2, <1>3, <1>4, FourKinds

-----------------------------------------------------------------------------
(* Where a change goes: into one form, with what is sent from it, and, once *)
(* its picture is there, from the upload into its form.                    *)
Placed == OneForm /\ PicturesAreNew /\ filed \subseteq used

(* A handler empties its own form, on success or with a note; and a form   *)
(* that follows the screen when its fields change.                         *)
LEMMA HandlerForms ==
  ASSUME FormTypeOK, NEW u \in ops, Handle(u) \/ SendFails(u) \/ ListFails(u)
  PROVE  /\ \A k \in page : typed'[k] \subseteq typed[k]
         /\ \A k \in page : typed'[k] # typed[k] =>
              \/ k = u.kind /\ u.at = "answered" /\ failures' = failures
              \/ k = u.kind /\ u.at \in {"sent", "answered"} /\ k.wipes
              \/ Handle(u) /\ k.follows /\ FormFields' # FormFields
         /\ u.at = "answered" /\ u.kind.clears => typed'[u.kind] = {} \/ SendFails(u)
         /\ ~lost' => ~lost /\ (u.at = "answered" => ~SendFails(u))
<1>0. typed \in [page -> SUBSET Changes] /\ u.kind \in page
  BY TypesInParts, OperationShape DEF OpsTypes, FormTypes
<1>1. CASE Left(u) \/ Replaced(u) \/ Merged(u) \/ Spread(u) \/ AskAgain(u)
  <2>1. Handled(u)
    BY <1>1 DEF Left, Replaced, Merged, Spread, AskAgain
  <2>2. ~SendFails(u) \/ lost'
    BY <2>1 DEF Handled, SendFails
  <2>3. lost' = lost /\ u.at = "answered" /\ failures' = failures
    BY <2>1 DEF Handled, Api
  <2>4. /\ u.kind.clears => Follow([typed EXCEPT ![u.kind] = {}])
        /\ ~u.kind.clears => Follow(typed)
    BY <2>1 DEF Handled, Cleared
  <2>5. \A k \in page :
            /\ typed'[k] = {} \/ typed'[k] = typed[k]
            /\ typed'[k] # typed[k] =>
                  k = u.kind \/ (k.follows /\ FormFields' # FormFields)
    BY <1>0, <2>4 DEF Follow
  <2>6. u.kind.clears => typed'[u.kind] = {}
    BY <1>0, <2>4 DEF Follow
  <2>7. \A k \in page : typed'[k] # typed[k] => k = u.kind \/ (k.follows /\ FormFields' # FormFields)
    BY <2>5
  <2>8. Handle(u)
    BY <1>1 DEF Handle
  <2> HIDE DEF FormFields
  <2> QED
    BY <2>2, <2>3, <2>5, <2>6, <2>7, <2>8
<1>2. CASE Listed(u)
  <2>1. Follow(typed) /\ lost' = lost /\ u.at = "listed" /\ Handle(u)
    BY <1>2 DEF Listed, Api, Handle
  <2>2. \A k \in page :
            /\ typed'[k] = {} \/ typed'[k] = typed[k]
            /\ typed'[k] # typed[k] => k.follows /\ FormFields' # FormFields
    BY <1>0, <2>1 DEF Follow
  <2> QED
    BY <2>1, <2>2
<1>3. CASE ListFails(u)
  BY <1>3 DEF ListFails, Api
<1>4. CASE SendFails(u)
  BY <1>0, <1>4, TypesInParts DEF SendFails, ApiTypes, Cleared
<1> QED
  BY <1>1, <1>2, <1>3, <1>4 DEF Handle

(* Typing and pictures put new changes in one form.                        *)
LEMMA QuietForms ==
  ASSUME FormTypeOK, Placed, Quiet
  PROVE  \/ /\ \A k \in page : typed'[k] \subseteq typed[k]
            /\ used' = used /\ uploads' \subseteq uploads
         \/ \E k \in page, e \in Changes \ used :
               /\ Type(k, e) \/ ChoosePicture(k, e)
               /\ used' = used \cup {e}
               /\ Type(k, e) => /\ typed' = [typed EXCEPT ![k] = @ \cup {e}]
                                /\ uploads' = uploads
               /\ ChoosePicture(k, e) =>
                     /\ typed' = typed
                     /\ uploads' = {[kind |-> k, change |-> e, before |-> typed[k]]}
         \/ \E p \in uploads :
               /\ PictureUploaded(p)
               /\ typed' = [typed EXCEPT ![p.kind] = @ \cup {p.change}]
               /\ uploads' = {} /\ used' = used
<1>1. ASSUME NEW k \in page, NEW r \in Rows, OpenDialog(k, r)
      PROVE  /\ \A j \in page : typed'[j] \subseteq typed[j]
             /\ used' = used /\ uploads' \subseteq uploads
  BY <1>1 DEF OpenDialog
<1>2. ASSUME NEW k \in page, CloseDialog(k)
      PROVE  /\ \A j \in page : typed'[j] \subseteq typed[j]
             /\ used' = used /\ uploads' \subseteq uploads
  BY <1>2, TypesInParts DEF CloseDialog, FormTypes
<1>3. ASSUME NEW p \in uploads, PictureFails(p)
      PROVE  /\ \A j \in page : typed'[j] \subseteq typed[j]
             /\ used' = used /\ uploads' \subseteq uploads
  BY <1>3 DEF PictureFails
<1>4. ASSUME NEW p \in uploads, PictureUploaded(p)
      PROVE  /\ typed' = [typed EXCEPT ![p.kind] = @ \cup {p.change}]
             /\ uploads' = {} /\ used' = used
  BY <1>4 DEF PictureUploaded, Placed, PicturesAreNew
<1>5. ASSUME NEW k \in page, NEW e \in Changes, Type(k, e) \/ ChoosePicture(k, e)
      PROVE  /\ e \notin used /\ used' = used \cup {e}
             /\ Type(k, e) => /\ typed' = [typed EXCEPT ![k] = @ \cup {e}]
                              /\ uploads' = uploads
             /\ ChoosePicture(k, e) =>
                   /\ typed' = typed
                   /\ uploads' = {[kind |-> k, change |-> e, before |-> typed[k]]}
  BY <1>5 DEF Type, ChoosePicture, Use
<1>6. CASE UNCHANGED formVars
  BY <1>6 DEF formVars
<1> QED
  BY <1>1, <1>2, <1>3, <1>4, <1>5, <1>6 DEF Quiet

(* A change stays in one form, in every step.                              *)
LEMMA PlacedKept ==
  ASSUME FormTypeOK, Placed, [FormNext]_formVars
  PROVE  Placed'
<1>f. FormTypes /\ ops \subseteq Operations
  BY TypesInParts DEF OpsTypes
<1>u. \A u \in Operations : u.kind \in page
  BY OperationShape
<1>p. \A p \in uploads : p.kind \in page
  BY <1>f DEF FormTypes
<1>0. /\ ops \subseteq Operations /\ \A u \in Operations : u.kind \in page
      /\ typed \in [page -> SUBSET Changes]
      /\ \A p \in uploads : p.kind \in page
  BY <1>f, <1>u, <1>p DEF FormTypes
<1>1. CASE Quiet
  <2>1. ops' = ops /\ filed' = filed /\ page' = page
    BY <1>1, QuietMoves
  <2>2. CASE /\ \A k \in page : typed'[k] \subseteq typed[k]
             /\ used' = used /\ uploads' \subseteq uploads
    <3>1. OneForm'
      BY <2>1, <2>2 DEF Placed, OneForm
    <3>2. PicturesAreNew'
      BY <2>1, <2>2 DEF Placed, PicturesAreNew
    <3> QED
      BY <2>1, <2>2, <3>1, <3>2 DEF Placed
  <2>3. ASSUME NEW k \in page, NEW e \in Changes \ used, used' = used \cup {e},
               typed' = [typed EXCEPT ![k] = @ \cup {e}], uploads' = uploads
        PROVE  Placed'
    <3>1. /\ typed'[k] = typed[k] \cup {e}
          /\ \A j \in page \ {k} : typed'[j] = typed[j]
      BY <1>0, <2>3
    <3>2. /\ \A j \in page : e \notin typed[j]
          /\ \A u \in ops : e \notin u.sent
          /\ \A p \in uploads : p.change # e
          /\ e \notin filed
      BY <2>3 DEF Placed, OneForm, PicturesAreNew
    <3>3. OneForm'
      BY <1>0, <2>1, <2>3, <3>1, <3>2 DEF Placed, OneForm
    <3>4. PicturesAreNew'
      BY <1>0, <2>1, <2>3, <3>1, <3>2 DEF Placed, PicturesAreNew
    <3> QED
      BY <2>1, <2>3, <3>3, <3>4 DEF Placed
  <2>4. ASSUME NEW k \in page, NEW e \in Changes \ used, used' = used \cup {e}, typed' = typed,
               uploads' = {[kind |-> k, change |-> e, before |-> typed[k]]}
        PROVE  Placed'
    <3>1. OneForm' /\ filed' \subseteq used'
      BY <2>1, <2>4 DEF Placed, OneForm
    <3>2. /\ \A j \in page : e \notin typed[j]
          /\ \A u \in ops : e \notin u.sent
          /\ e \notin filed
      BY <2>4 DEF Placed, OneForm
    <3>3. \A p \in uploads' : p.change = e /\ \A q \in uploads' : p = q
      BY <2>4
    <3>4. PicturesAreNew'
      BY <2>1, <2>4, <3>2, <3>3 DEF PicturesAreNew
    <3> QED
      BY <3>1, <3>4 DEF Placed
  <2>5. ASSUME NEW p \in uploads, typed' = [typed EXCEPT ![p.kind] = @ \cup {p.change}],
               uploads' = {}, used' = used
        PROVE  Placed'
    <3>1. /\ typed'[p.kind] = typed[p.kind] \cup {p.change}
          /\ \A j \in page \ {p.kind} : typed'[j] = typed[j]
      BY <1>0, <2>5
    <3>2. /\ p.change \in used \ filed
          /\ \A j \in page : p.change \notin typed[j]
          /\ \A u \in ops : p.change \notin u.sent
      BY DEF Placed, PicturesAreNew
    <3>3. OneForm'
      BY <1>0, <2>1, <2>5, <3>1, <3>2 DEF Placed, OneForm
    <3> QED
      BY <2>1, <2>5, <3>3 DEF Placed, PicturesAreNew
  <2> QED
    BY <1>1, <2>2, <2>3, <2>4, <2>5, QuietForms
<1>2. ASSUME NEW k \in page, NEW r \in Rows, Submit(k, r)
      PROVE  Placed'
  <2>1. PICK n : ops' = ops \cup {n} /\ n.kind = k /\ n.sent = typed[k]
    BY <1>2, SubmitMoves
  <2>2. page' = page /\ typed' = typed /\ used' = used /\ uploads' = uploads /\ filed' = filed
    BY <1>2, SubmitMoves
  <2>3. OneForm'
    BY <1>0, <2>1, <2>2 DEF Placed, OneForm
  <2>4. PicturesAreNew'
    BY <1>0, <2>1, <2>2 DEF Placed, PicturesAreNew
  <2> QED
    BY <2>2, <2>3, <2>4 DEF Placed
<1>3. ASSUME NEW u \in ops, Store(u) \/ CoverUploaded(u) \/ CoverFails(u) \/ List(u)
      PROVE  Placed'
  <2>1. PICK w : Further(w, u) /\ ops' = (ops \ {u}) \cup {w}
    BY <1>3, ApiMoves
  <2>2. page' = page /\ typed' = typed /\ used' = used /\ uploads' = uploads
    BY <1>3, ApiMoves
  <2>3. filed' \subseteq filed \cup u.sent
    BY <1>3 DEF Store, CoverUploaded, CoverFails, List, Api
  <2>4. OneForm' /\ filed' \subseteq used'
    BY <1>0, <2>1, <2>2, <2>3 DEF Placed, OneForm, Further
  <2>5. PicturesAreNew'
    BY <1>0, <2>1, <2>2, <2>3 DEF Placed, PicturesAreNew, Further
  <2> QED
    BY <2>4, <2>5 DEF Placed
<1>4. ASSUME NEW u \in ops, Handle(u) \/ SendFails(u) \/ ListFails(u)
      PROVE  Placed'
  <2>1. page' = page /\ used' = used /\ uploads' = uploads /\ filed' = filed
    BY <1>4, HandlerMoves
  <2>2. \A v \in ops' : \E w \in ops : v.kind = w.kind /\ v.sent = w.sent
    BY <1>4, HandlerMoves DEF Further
  <2>3. \A k \in page : typed'[k] \subseteq typed[k]
    BY <1>4, HandlerForms
  <2>4. OneForm'
    BY <2>1, <2>2, <2>3 DEF Placed, OneForm
  <2>5. PicturesAreNew'
    BY <2>1, <2>2, <2>3 DEF Placed, PicturesAreNew
  <2> QED
    BY <2>1, <2>4, <2>5 DEF Placed
<1> QED
  BY <1>1, <1>2, <1>3, <1>4, FourKinds

-----------------------------------------------------------------------------
(* What was made something new of, once.                                   *)
LEMMA CreatesAlone ==
  ASSUME FormTypeOK, NEW k \in page, k.creates, k # CreateRole
  PROVE  k.guard = "alone" /\ k.clears /\ ~k.frees
BY DEF FormTypeOK, WellMade

(* What was filed stays under way until its form is cleared.               *)
LEMMA FiledKept ==
  ASSUME FormTypeOK, OneByOne, AloneWhileOff, Placed, FiledIsAnswered, [FormNext]_formVars
  PROVE  FiledIsAnswered'
<1>f. FormTypes /\ ops \subseteq Operations
  BY TypesInParts DEF OpsTypes
<1>0. /\ \A u \in ops : u.kind \in page
      /\ typed \in [page -> SUBSET Changes] /\ lost \in BOOLEAN
  BY <1>f, TypesInParts, OperationShape DEF FormTypes, ApiTypes
<1>1. CASE Quiet
  <2>1. ops' = ops /\ filed' = filed /\ page' = page /\ lost' = lost
    BY <1>1, QuietMoves
  <2>2. \A j \in page : typed'[j] \cap filed \subseteq typed[j]
    <3>1. CASE \A k \in page : typed'[k] \subseteq typed[k]
      BY <3>1
    <3>2. ASSUME NEW k \in page, NEW e \in Changes \ used,
                 typed' = [typed EXCEPT ![k] = @ \cup {e}] \/ typed' = typed
          PROVE  \A j \in page : typed'[j] \cap filed \subseteq typed[j]
      BY <1>0, <3>2 DEF Placed
    <3>3. ASSUME NEW p \in uploads, typed' = [typed EXCEPT ![p.kind] = @ \cup {p.change}]
          PROVE  \A j \in page : typed'[j] \cap filed \subseteq typed[j]
      <4>1. p.change \notin filed
        BY DEF Placed, PicturesAreNew
      <4> QED
        BY <1>0, <3>3, <4>1
    <3> QED
      BY <1>1, <3>1, <3>2, <3>3, QuietForms
  <2> QED
    BY <2>1, <2>2 DEF FiledIsAnswered, Filed
<1>2. ASSUME NEW k \in page, NEW r \in Rows, Submit(k, r)
      PROVE  FiledIsAnswered'
  <2>1. PICK n : ops' = ops \cup {n} /\ n.kind = k /\ n.sent = typed[k] /\ n.at = "sent"
    BY <1>2, SubmitMoves
  <2>2. page' = page /\ typed' = typed /\ filed' = filed /\ lost' = lost
    BY <1>2, SubmitMoves
  <2>3. ~lost /\ CreateRole \notin page /\ k.creates => typed[k] \cap filed = {}
    <3> SUFFICES ASSUME ~lost, CreateRole \notin page, k.creates, NEW e \in typed[k] \cap filed
                 PROVE  FALSE
      OBVIOUS
    <3>1. PICK u \in ops : u.kind = k /\ Filed(u, e)
      BY DEF FiledIsAnswered
    <3>2. k.guard = "alone" /\ ~k.frees
      BY CreatesAlone
    <3>3. busy[k] = NoRow
      BY <1>2, <3>2 DEF Submit, Free
    <3> QED
      BY <3>1, <3>2, <3>3 DEF AloneWhileOff, Filed, Running
  <2> QED
    BY <2>1, <2>2, <2>3 DEF FiledIsAnswered, Filed
<1>3. ASSUME NEW u \in ops, Store(u)
      PROVE  FiledIsAnswered'
  <2>1. PICK w : /\ Further(w, u) /\ ops' = (ops \ {u}) \cup {w}
                 /\ u.at = "sent" /\ w.at \in {"created", "answered"}
    BY <1>3, ApiMoves DEF Store
  <2>2. page' = page /\ typed' = typed /\ lost' = lost
    BY <1>3, ApiMoves DEF Store
  <2> SUFFICES ASSUME ~lost, CreateRole \notin page, NEW k \in page, k.creates
               PROVE  /\ \A e \in typed[k] \cap filed' : \E v \in ops' : v.kind = k /\ Filed(v, e)
                      /\ \A v \in ops' : v.kind = k /\ v.at = "sent" => v.sent \cap filed' = {}
    BY <2>2 DEF FiledIsAnswered, Filed
  <2>3. /\ \A e \in typed[k] \cap filed : \E v \in ops : v.kind = k /\ Filed(v, e)
        /\ \A v \in ops : v.kind = k /\ v.at = "sent" => v.sent \cap filed = {}
    BY DEF FiledIsAnswered
  <2>4. \A v \in ops : \A e : Filed(v, e) => v \in ops'
    BY <2>1 DEF Filed
  <2>5. w.at # "sent" /\ w \in ops' /\ \A e \in u.sent : Filed(w, e)
    BY <2>1 DEF Further, Filed
  <2>6. CASE ~u.kind.creates
    <3>1. filed' = filed
      BY <1>3, <2>6 DEF Store
    <3> QED
      BY <2>1, <2>3, <2>4, <2>5, <3>1
  <2>7. CASE u.kind.creates /\ u.kind # k
    <3>1. filed' = filed \cup u.sent
      BY <1>3, <2>7 DEF Store
    <3>2. /\ u.sent \cap typed[k] = {}
          /\ \A v \in ops : v.kind = k => u.sent \cap v.sent = {}
      BY <2>7 DEF Placed, OneForm
    <3>3. w.kind # k
      BY <2>1, <2>7 DEF Further
    <3> QED
      BY <2>1, <2>3, <2>4, <3>1, <3>2, <3>3
  <2>8. CASE u.kind.creates /\ u.kind = k
    <3>1. filed' = filed \cup u.sent
      BY <1>3, <2>8 DEF Store
    <3>2. w.kind = k
      BY <2>1, <2>8 DEF Further
    <3>3. \A e \in typed[k] \cap filed' : \E v \in ops' : v.kind = k /\ Filed(v, e)
      BY <2>3, <2>4, <2>5, <3>1, <3>2
    <3>4. \A v \in ops \ {u} : v.kind = k => v.at # "sent"
      BY <2>1, <2>8, CreatesAlone DEF AloneWhileOff, Running
    <3> QED
      BY <2>1, <2>5, <3>3, <3>4
  <2> QED
    BY <2>6, <2>7, <2>8
<1>4. ASSUME NEW u \in ops, CoverUploaded(u) \/ CoverFails(u) \/ List(u)
      PROVE  FiledIsAnswered'
  <2>1. PICK w : /\ Further(w, u) /\ ops' = (ops \ {u}) \cup {w}
                 /\ \/ u.at = "asked" /\ w.at = "listed"
                    \/ u.at = "created" /\ w.at = "answered"
    BY <1>4, ApiMoves DEF Store, CoverUploaded, CoverFails, List
  <2>2. page' = page /\ typed' = typed /\ lost' = lost /\ filed' = filed
    BY <1>4, ApiMoves DEF CoverUploaded, CoverFails, List, Api
  <2>3. \A e : Filed(u, e) => Filed(w, e)
    BY <2>1 DEF Filed, Further
  <2>4. w.kind = u.kind /\ w.at # "sent"
    BY <2>1 DEF Further
  <2>5. \A v \in ops : \A e : Filed(v, e) => \E x \in ops' : x.kind = v.kind /\ Filed(x, e)
    BY <2>1, <2>3, <2>4
  <2> QED
    BY <2>1, <2>2, <2>4, <2>5 DEF FiledIsAnswered, Filed
<1>5. ASSUME NEW u \in ops, Handle(u) \/ SendFails(u) \/ ListFails(u)
      PROVE  FiledIsAnswered'
  <2>1. page' = page /\ filed' = filed
    BY <1>5, HandlerMoves
  <2> SUFFICES ASSUME ~lost', CreateRole \notin page, NEW k \in page, k.creates
               PROVE  /\ \A e \in typed'[k] \cap filed : \E v \in ops' : v.kind = k /\ Filed(v, e)
                      /\ \A v \in ops' : v.kind = k /\ v.at = "sent" => v.sent \cap filed = {}
    BY <2>1 DEF FiledIsAnswered, Filed
  <2>2. /\ \A e \in typed[k] \cap filed : \E v \in ops : v.kind = k /\ Filed(v, e)
        /\ \A v \in ops : v.kind = k /\ v.at = "sent" => v.sent \cap filed = {}
    BY <1>5, HandlerForms DEF FiledIsAnswered
  <2>3. \A v \in ops' : v.at = "sent" => v \in ops
    BY <1>5, HandlerMoves
  <2>4. \A v \in ops \ {u} : \A e : Filed(v, e) => v \in ops'
    BY <1>5, HandlerMoves DEF Filed
  <2>5. typed'[k] \subseteq typed[k]
    BY <1>5, HandlerForms
  <2>6. k.clears
    BY CreatesAlone
  <2>7. u.kind = k /\ (\E e : Filed(u, e)) => typed'[k] = {}
    <3> SUFFICES ASSUME u.kind = k, u.at \in {"created", "answered"}
                 PROVE  typed'[k] = {}
      BY DEF Filed
    <3>1. u.at = "answered"
      BY <1>5 DEF Handle, Left, Replaced, Merged, Spread, AskAgain, Listed, Handled, Shell, SendFails, ListFails
    <3> QED
      BY <1>5, <2>6, <3>1, HandlerForms
  <2> QED
    BY <2>2, <2>3, <2>4, <2>5, <2>7
<1> QED
  BY <1>1, <1>2, <1>3, <1>4, <1>5, FourKinds

(* So nothing is filed twice.                                              *)
LEMMA StoredOnceKept ==
  ASSUME FormTypeOK, FiledIsAnswered, StoredOnce, [FormNext]_formVars
  PROVE  StoredOnce'
<1>0. lost \in BOOLEAN /\ \A u \in ops : u.kind \in page
  BY TypesInParts, OperationShape DEF OpsTypes, ApiTypes
<1>1. CASE Quiet
  BY <1>1, QuietMoves DEF StoredOnce
<1>2. ASSUME NEW k \in page, NEW r \in Rows, Submit(k, r)
      PROVE  StoredOnce'
  BY <1>2, SubmitMoves DEF StoredOnce
<1>3. ASSUME NEW u \in ops, Store(u)
      PROVE  StoredOnce'
  <2>1. page' = page /\ lost' = lost /\ u.at = "sent"
    BY <1>3 DEF Store, Client
  <2>2. doubled' = IF u.kind.creates THEN doubled \cup (filed \cap u.sent) ELSE doubled
    BY <1>3 DEF Store
  <2>3. ~lost /\ CreateRole \notin page /\ u.kind.creates => u.sent \cap filed = {}
    BY <1>0, <2>1 DEF FiledIsAnswered
  <2> QED
    BY <2>1, <2>2, <2>3 DEF StoredOnce
<1>4. ASSUME NEW u \in ops, CoverUploaded(u) \/ CoverFails(u) \/ List(u)
      PROVE  StoredOnce'
  BY <1>4 DEF CoverUploaded, CoverFails, List, Api, Client, StoredOnce
<1>5. ASSUME NEW u \in ops, Handle(u) \/ SendFails(u) \/ ListFails(u)
      PROVE  StoredOnce'
  BY <1>5, HandlerMoves, HandlerForms DEF StoredOnce
<1> QED
  BY <1>1, <1>2, <1>3, <1>4, <1>5, FourKinds

-----------------------------------------------------------------------------
(* What a form holds while it is sent.                                     *)
LEMMA SentOrLateKept ==
  ASSUME FormTypeOK, Placed, SentOrLate, [FormNext]_formVars
  PROVE  SentOrLate'
<1>0. /\ \A u \in ops : u.kind \in page
      /\ typed \in [page -> SUBSET Changes]
  BY TypesInParts, OperationShape DEF OpsTypes, FormTypes
<1>1. CASE Quiet
  <2>1. ops' = ops
    BY <1>1, QuietMoves
  <2>2. \A u \in ops : typed'[u.kind] \subseteq typed[u.kind] \cup late' /\ late \subseteq late'
    <3>1. late \subseteq late'
      BY <1>1 DEF Quiet, OpenDialog, CloseDialog, Type, ChoosePicture, Use, PictureUploaded,
                  PictureFails, formVars
    <3>2. CASE \A k \in page : typed'[k] \subseteq typed[k]
      BY <1>0, <3>1, <3>2
    <3>3. ASSUME NEW k \in page, NEW e \in Changes, Type(k, e) \/ ChoosePicture(k, e)
          PROVE  \A u \in ops : typed'[u.kind] \subseteq typed[u.kind] \cup late'
      BY <1>0, <3>3 DEF Type, ChoosePicture, Use, Sending
    <3>4. ASSUME NEW p \in uploads, PictureUploaded(p)
          PROVE  \A u \in ops : typed'[u.kind] \subseteq typed[u.kind] \cup late'
      BY <1>0, <3>4 DEF PictureUploaded, Sending
    <3> QED
      BY <1>1, <3>1, <3>2, <3>3, <3>4, QuietForms
  <2> QED
    BY <2>1, <2>2 DEF SentOrLate
<1>2. ASSUME NEW k \in page, NEW r \in Rows, Submit(k, r)
      PROVE  SentOrLate'
  BY <1>2, SubmitMoves DEF SentOrLate
<1>3. ASSUME NEW u \in ops, Store(u) \/ CoverUploaded(u) \/ CoverFails(u) \/ List(u)
      PROVE  SentOrLate'
  <2>1. PICK w : /\ Further(w, u) /\ ops' = (ops \ {u}) \cup {w}
                 /\ w.at # "listed" => u.at \in {"sent", "created"}
    BY <1>3, ApiMoves
  <2>2. typed' = typed /\ late' = late
    BY <1>3, ApiMoves
  <2> QED
    BY <2>1, <2>2 DEF SentOrLate, Further
<1>4. ASSUME NEW u \in ops, Handle(u) \/ SendFails(u) \/ ListFails(u)
      PROVE  SentOrLate'
  <2>1. late' = late /\ \A k \in page : typed'[k] \subseteq typed[k]
    BY <1>4, HandlerMoves, HandlerForms
  <2>2. \A v \in ops' : v.at \in {"sent", "created", "answered"} => v \in ops
    BY <1>4, HandlerMoves
  <2> QED
    BY <1>0, <2>1, <2>2 DEF SentOrLate
<1> QED
  BY <1>1, <1>2, <1>3, <1>4, FourKinds

-----------------------------------------------------------------------------
(* What the page shows, as long as no operations crossed.                  *)
LEMMA Met ==
  ASSUME NEW u, NEW v
  PROVE  /\ Meets(u, v.kind, v.row) <=> Meets(v, u.kind, u.row)
         /\ Shows(u.kind) /\ Shows(v.kind) /\ u.row = v.row => Meets(u, v.kind, v.row)
         /\ Shows(u.kind) /\ Shows(v.kind) /\ u.kind.answer \notin {"patch", "merge"}
              => Meets(u, v.kind, v.row)
  BY DEF Meets

(* An operation that shows something is alone, if it takes a whole copy;   *)
(* otherwise it is alone on its row.                                       *)
LEMMA Apart ==
  ASSUME AnswersFit, ~crossed, NEW u \in ops, NEW v \in ops \ {u}, Shows(u.kind), Shows(v.kind)
  PROVE  /\ u.row # v.row
         /\ u.kind.answer \in {"patch", "merge"} /\ v.kind.answer \in {"patch", "merge"}
<1>1. ~Meets(v, u.kind, u.row) /\ ~Meets(u, v.kind, v.row)
  BY Met DEF AnswersFit
<1> QED
  BY <1>1, Met

(* Sending: what it meets has crossed it.                                  *)
LEMMA SubmitFits ==
  ASSUME FormTypeOK, AnswersFit, ScreenFits, NEW k \in page, NEW r \in Rows, Submit(k, r)
  PROVE  AnswersFit' /\ ScreenFits'
<1>1. PICK n : /\ ops' = ops \cup {n}
               /\ n.kind = k /\ n.row = r /\ n.before = Shown /\ n.at = "sent"
  BY SubmitMoves
<1>2. /\ own' = own /\ fetched' = fetched /\ missed' = missed /\ stored' = stored
      /\ Shown' = Shown
  BY SubmitMoves DEF Shown
<1>3. ~crossed' => ~crossed /\ \A u \in ops : ~Meets(u, k, r)
  BY TypesInParts DEF Submit, ScreenTypes
<1>4. AnswersFit'
  <2> SUFFICES ASSUME ~crossed', NEW u \in ops', Shows(u.kind)
               PROVE  /\ \A v \in ops' \ {u} : ~Meets(v, u.kind, u.row)
                      /\ u.at \in {"created", "answered"} =>
                            /\ u.kind.answer = "whole" => u.answer = stored
                            /\ u.kind.answer \in {"patch", "merge"} => u.answer[u.row] = stored[u.row]
                      /\ u.at = "listed" => u.answer = stored
                      /\ u.kind.answer = "spread" => u.before = Shown
    BY <1>2 DEF AnswersFit, Meets, Shows
  <2>1. \A v \in ops : ~Meets(v, n.kind, n.row) /\ ~Meets(n, v.kind, v.row)
    BY <1>1, <1>3, Met
  <2>2. CASE u \in ops
    BY <1>1, <1>3, <2>1, <2>2 DEF AnswersFit
  <2>3. CASE u = n
    BY <1>1, <1>3, <2>1, <2>3
  <2> QED
    BY <1>1, <2>2, <2>3
<1>5. ScreenFits'
  <2>1. \A x : Unheard(x)' = Unheard(x)
    BY <1>1 DEF Unheard, Shows
  <2> QED
    BY <1>2, <1>3, <2>1 DEF ScreenFits
<1> QED
  BY <1>4, <1>5

(* The API stores an operation: it will show what is stored.               *)
LEMMA StoreFits ==
  ASSUME FormTypeOK, OneByOne, AnswersFit, ScreenFits, NEW u \in ops, Store(u)
  PROVE  AnswersFit' /\ ScreenFits'
<1>0. stored \in [Rows -> SUBSET (1..MaxOperations)] /\ u \in Operations
  BY TypesInParts DEF ApiTypes, OpsTypes, Copies
<1>1. PICK w : /\ Further(w, u) /\ ops' = (ops \ {u}) \cup {w}
               /\ u.at = "sent" /\ w.at \in {"created", "answered"} /\ w.answer = stored'
  BY ApiMoves DEF Store
<1>2. /\ own' = own /\ fetched' = fetched /\ missed' = missed /\ crossed' = crossed
      /\ Shown' = Shown
  <2>1. own' = own /\ fetched' = fetched /\ missed' = missed /\ crossed' = crossed
    BY DEF Store, Screen
  <2> QED
    BY <2>1 DEF Shown
<1>3. /\ Shows(u.kind) => /\ stored'[u.row] = stored[u.row] \cup {u.id}
                          /\ \A x \in Rows \ {u.row} : stored'[x] = stored[x]
      /\ ~Shows(u.kind) => stored' = stored
  <2>1. u.row \in Rows
    BY <1>0, OperationShape
  <2>2. stored' = IF Shows(u.kind) THEN [stored EXCEPT ![u.row] = @ \cup {u.id}] ELSE stored
    BY DEF Store
  <2> QED
    BY <1>0, <2>1, <2>2
<1>4. /\ w.kind = u.kind /\ w.row = u.row /\ w.before = u.before /\ w.id = u.id
      /\ \A v : Meets(v, w.kind, w.row) <=> Meets(v, u.kind, u.row)
  BY <1>1 DEF Further
<1>5. AnswersFit'
  <2> SUFFICES ASSUME ~crossed, NEW v \in ops', Shows(v.kind)
               PROVE  /\ \A x \in ops' \ {v} : ~Meets(x, v.kind, v.row)
                      /\ v.at \in {"created", "answered"} =>
                            /\ v.kind.answer = "whole" => v.answer = stored'
                            /\ v.kind.answer \in {"patch", "merge"} => v.answer[v.row] = stored'[v.row]
                      /\ v.at = "listed" => v.answer = stored'
                      /\ v.kind.answer = "spread" => v.before = Shown
    BY <1>2 DEF AnswersFit, Meets, Shows
  <2>1. CASE v = w
    <3>1. \A x \in ops \ {u} : ~Meets(x, w.kind, w.row)
      BY <1>4, <2>1 DEF AnswersFit
    <3>2. w.kind.answer = "spread" => w.before = Shown
      BY <1>4, <2>1 DEF AnswersFit
    <3> QED
      BY <1>1, <2>1, <3>1, <3>2
  <2>2. CASE v \in ops \ {u}
    <3>1. /\ \A x \in ops \ {v} : ~Meets(x, v.kind, v.row)
          /\ v.at \in {"created", "answered"} =>
                /\ v.kind.answer = "whole" => v.answer = stored
                /\ v.kind.answer \in {"patch", "merge"} => v.answer[v.row] = stored[v.row]
          /\ v.at = "listed" => v.answer = stored
          /\ v.kind.answer = "spread" => v.before = Shown
      BY <2>2 DEF AnswersFit
    <3>2. ~Meets(w, v.kind, v.row)
      BY <1>4, <2>2, <3>1 DEF Meets
    <3>3. \A x \in ops' \ {v} : ~Meets(x, v.kind, v.row)
      BY <1>1, <3>1, <3>2
    <3>4. CASE ~Shows(u.kind)
      BY <1>3, <3>1, <3>3, <3>4
    <3>5. CASE Shows(u.kind)
      <4>1. v.row # u.row /\ v.kind.answer \in {"patch", "merge"}
        BY <2>2, <3>5, Apart
      <4>2. stored'[v.row] = stored[v.row]
        BY <1>3, <2>2, <3>5, <4>1, TypesInParts, OperationShape DEF OpsTypes
      <4>3. v.at # "listed"
        BY <2>2, <4>1 DEF OneByOne
      <4> QED
        BY <3>1, <3>3, <4>1, <4>2, <4>3
    <3> QED
      BY <3>4, <3>5
  <2> QED
    BY <1>1, <2>1, <2>2
<1>6. ScreenFits'
  <2> SUFFICES ASSUME ~crossed, ~missed, NEW x \in Rows
               PROVE  stored'[x] = Shown[x] \cup {v.id : v \in Unheard(x)'}
    BY <1>2 DEF ScreenFits
  <2>1. stored[x] = Shown[x] \cup {v.id : v \in Unheard(x)}
    BY DEF ScreenFits
  <2>2. Unheard(x)' = {v \in ops' : v.row = x /\ Shows(v.kind) /\ v.at # "sent"}
    BY DEF Unheard, Shows
  <2>3. CASE Shows(u.kind) /\ x = u.row
    <3>1. Unheard(x)' = Unheard(x) \cup {w}
      BY <1>1, <1>4, <2>2, <2>3 DEF Unheard
    <3> QED
      BY <1>3, <1>4, <2>1, <2>3, <3>1
  <2>4. CASE ~Shows(u.kind) \/ x # u.row
    <3>1. Unheard(x)' = Unheard(x)
      BY <1>1, <1>4, <2>2, <2>4 DEF Unheard
    <3>2. stored'[x] = stored[x]
      BY <1>3, <2>4
    <3> QED
      BY <2>1, <3>1, <3>2
  <2> QED
    BY <2>3, <2>4
<1> QED
  BY <1>5, <1>6

(* The steps of the API that change no data.                               *)
LEMMA WaitingFits ==
  ASSUME FormTypeOK, OneByOne, AnswersFit, ScreenFits, NEW u \in ops,
         CoverUploaded(u) \/ CoverFails(u) \/ List(u)
  PROVE  AnswersFit' /\ ScreenFits'
<1>1. PICK w : /\ Further(w, u) /\ ops' = (ops \ {u}) \cup {w}
               /\ \/ u.at = "created" /\ w.at = "answered" /\ w.answer = u.answer
                  \/ u.at = "asked" /\ w.at = "listed" /\ w.answer = stored
  BY ApiMoves DEF CoverUploaded, CoverFails, List, Store
<1>2. /\ own' = own /\ fetched' = fetched /\ missed' = missed /\ crossed' = crossed
      /\ stored' = stored /\ Shown' = Shown
  <2>1. /\ own' = own /\ fetched' = fetched /\ missed' = missed /\ crossed' = crossed
        /\ stored' = stored
    BY DEF CoverUploaded, CoverFails, List, Screen, Api
  <2> QED
    BY <2>1 DEF Shown
<1>3. /\ w.kind = u.kind /\ w.row = u.row /\ w.before = u.before /\ w.id = u.id
      /\ \A v : Meets(v, w.kind, w.row) <=> Meets(v, u.kind, u.row)
      /\ \A v : Meets(w, v.kind, v.row) <=> Meets(u, v.kind, v.row)
  BY <1>1 DEF Further, Meets
<1>4. AnswersFit'
  <2> SUFFICES ASSUME ~crossed, NEW v \in ops', Shows(v.kind)
               PROVE  /\ \A x \in ops' \ {v} : ~Meets(x, v.kind, v.row)
                      /\ v.at \in {"created", "answered"} =>
                            /\ v.kind.answer = "whole" => v.answer = stored
                            /\ v.kind.answer \in {"patch", "merge"} => v.answer[v.row] = stored[v.row]
                      /\ v.at = "listed" => v.answer = stored
                      /\ v.kind.answer = "spread" => v.before = Shown
    BY <1>2 DEF AnswersFit, Meets, Shows
  <2>1. CASE v = w
    BY <1>1, <1>3, <2>1 DEF AnswersFit
  <2>2. CASE v \in ops \ {u}
    BY <1>1, <1>3, <2>2 DEF AnswersFit
  <2> QED
    BY <1>1, <2>1, <2>2
<1>5. ScreenFits'
  <2> SUFFICES ASSUME ~crossed, ~missed, NEW x \in Rows
               PROVE  stored[x] = Shown[x] \cup {v.id : v \in Unheard(x)'}
    BY <1>2 DEF ScreenFits
  <2>1. stored[x] = Shown[x] \cup {v.id : v \in Unheard(x)}
    BY DEF ScreenFits
  <2>2. Unheard(x)' = {v \in ops' : v.row = x /\ Shows(v.kind) /\ v.at # "sent"}
    BY DEF Unheard, Shows
  <2>3. {v.id : v \in Unheard(x)'} = {v.id : v \in Unheard(x)}
    <3>1. CASE u \in Unheard(x)
      <4>1. Unheard(x)' = (Unheard(x) \ {u}) \cup {w}
        BY <1>1, <1>3, <2>2, <3>1 DEF Unheard
      <4> QED
        BY <1>3, <3>1, <4>1
    <3>2. CASE u \notin Unheard(x)
      <4>1. Unheard(x)' = Unheard(x)
        BY <1>1, <1>3, <2>2, <3>2 DEF Unheard
      <4> QED
        BY <4>1
    <3> QED
      BY <3>1, <3>2
  <2> QED
    BY <2>1, <2>3
<1> QED
  BY <1>4, <1>5

(* A handler whose operation the page shows nothing of changes nothing on  *)
(* the screen.                                                             *)
LEMMA EndKeepsAnswers ==
  ASSUME AnswersFit, NEW u \in ops, ops' \subseteq ops \ {u}, stored' = stored,
         crossed' = crossed,
         \/ Shown' = Shown
         \/ ~crossed => \A v \in ops' : Shows(v.kind) => v.kind.answer # "spread"
  PROVE  AnswersFit'
<1> SUFFICES ASSUME ~crossed, NEW v \in ops', Shows(v.kind)
             PROVE  /\ \A x \in ops' \ {v} : ~Meets(x, v.kind, v.row)
                    /\ v.at \in {"created", "answered"} =>
                          /\ v.kind.answer = "whole" => v.answer = stored
                          /\ v.kind.answer \in {"patch", "merge"} => v.answer[v.row] = stored[v.row]
                    /\ v.at = "listed" => v.answer = stored
                    /\ v.kind.answer = "spread" => v.before = Shown'
  BY DEF AnswersFit, Meets, Shows
<1> QED
  BY DEF AnswersFit

(* An operation that shows nothing ends.                                   *)
LEMMA EndKeepsScreen ==
  ASSUME ScreenFits, NEW u \in ops, ops' = ops \ {u}, stored' = stored, crossed' = crossed,
         missed' = missed, Shown' = Shown, ~Shows(u.kind) \/ u.at = "sent"
  PROVE  ScreenFits'
<1> SUFFICES ASSUME ~crossed, ~missed, NEW x \in Rows
             PROVE  stored[x] = Shown[x] \cup {v.id : v \in Unheard(x)'}
  BY DEF ScreenFits
<1>1. Unheard(x)' = {v \in ops' : v.row = x /\ Shows(v.kind) /\ v.at # "sent"}
  BY DEF Unheard, Shows
<1>2. Unheard(x)' = Unheard(x)
  BY <1>1 DEF Unheard
<1> QED
  BY <1>2 DEF ScreenFits

(* A list is asked for.                                                    *)
LEMMA AskAgainFits ==
  ASSUME FormTypeOK, OneByOne, AnswersFit, ScreenFits, NEW u \in ops, AskAgain(u)
  PROVE  AnswersFit' /\ ScreenFits'
<1>0. Handle(u)
  BY DEF Handle
<1>1. PICK w : /\ Further(w, u) /\ w.at = "asked"
               /\ ops' = {v \in ops \ {u} : u.kind.answer = "again" => v.at \notin {"asked", "listed"}}
                           \cup {w}
  BY <1>0, HandlerMoves
<1>2. /\ u.at = "answered" /\ u.kind.answer \in {"load", "again"} /\ Shows(u.kind)
      /\ own' = own /\ fetched' = fetched /\ missed' = missed /\ crossed' = crossed
      /\ stored' = stored
  BY DEF AskAgain, Handled, Shell, Api, Shows
<1>3. Shown' = Shown
  BY <1>2 DEF Shown
<1>4. /\ w.kind = u.kind /\ w.row = u.row /\ w.id = u.id
      /\ \A v : Meets(v, w.kind, w.row) <=> Meets(v, u.kind, u.row)
      /\ \A v : Meets(w, v.kind, v.row) <=> Meets(u, v.kind, v.row)
  BY <1>1 DEF Further, Meets
<1>5. ~crossed => \A v \in ops \ {u} : ~Shows(v.kind)
  BY <1>2, Apart
<1>6. AnswersFit'
  <2> SUFFICES ASSUME ~crossed, NEW v \in ops', Shows(v.kind)
               PROVE  /\ \A x \in ops' \ {v} : ~Meets(x, v.kind, v.row)
                      /\ v.at \in {"created", "answered"} =>
                            /\ v.kind.answer = "whole" => v.answer = stored
                            /\ v.kind.answer \in {"patch", "merge"} => v.answer[v.row] = stored[v.row]
                      /\ v.at = "listed" => v.answer = stored
                      /\ v.kind.answer = "spread" => v.before = Shown
    BY <1>2, <1>3 DEF AnswersFit, Meets, Shows
  <2>1. v = w
    BY <1>1, <1>5
  <2>2. \A x \in ops' \ {w} : ~Meets(x, w.kind, w.row)
    BY <1>1, <1>4 DEF AnswersFit, Shows, Meets
  <2> QED
    BY <1>1, <1>2, <1>4, <2>1, <2>2
<1>7. ScreenFits'
  <2> SUFFICES ASSUME ~crossed, ~missed, NEW x \in Rows
               PROVE  stored[x] = Shown[x] \cup {v.id : v \in Unheard(x)'}
    BY <1>2, <1>3 DEF ScreenFits
  <2>1. stored[x] = Shown[x] \cup {v.id : v \in Unheard(x)}
    BY DEF ScreenFits
  <2>2. Unheard(x)' = {v \in ops' : v.row = x /\ Shows(v.kind) /\ v.at # "sent"}
    BY DEF Unheard, Shows
  <2>3. Unheard(x) = IF u.row = x THEN {u} ELSE {}
    BY <1>2, <1>5 DEF Unheard
  <2>4. Unheard(x)' = IF u.row = x THEN {w} ELSE {}
    BY <1>1, <1>2, <1>4, <1>5, <2>2
  <2> QED
    BY <1>4, <2>1, <2>3, <2>4
<1> QED
  BY <1>6, <1>7

(* A page takes a whole answer.                                            *)
LEMMA WholeFits ==
  ASSUME FormTypeOK, OneByOne, AnswersFit, ScreenFits, NEW u \in ops, Shows(u.kind),
         u.kind.answer \notin {"patch", "merge"}, ops' = ops \ {u}, stored' = stored,
         crossed' = crossed, ~crossed /\ ~missed' => Shown' = stored
  PROVE  AnswersFit' /\ ScreenFits'
<1>1. ~crossed => \A v \in ops' : ~Shows(v.kind)
  BY Apart
<1>2. AnswersFit'
  BY <1>1, EndKeepsAnswers
<1>3. ScreenFits'
  <2> SUFFICES ASSUME ~crossed, ~missed', NEW x \in Rows
               PROVE  stored[x] = Shown'[x] \cup {v.id : v \in Unheard(x)'}
    BY DEF ScreenFits
  <2>1. Unheard(x)' = {v \in ops' : v.row = x /\ Shows(v.kind) /\ v.at # "sent"}
    BY DEF Unheard, Shows
  <2>2. Unheard(x)' = {}
    BY <1>1, <2>1
  <2> QED
    BY <2>2
<1> QED
  BY <1>2, <1>3

(* An answer put into one row of the copy.                                 *)
LEMMA MergedFits ==
  ASSUME FormTypeOK, OneByOne, AnswersFit, ScreenFits, NEW u \in ops, Merged(u)
  PROVE  AnswersFit' /\ ScreenFits'
<1>1. /\ u.at = "answered" /\ u.kind.answer \in {"patch", "merge"} /\ Shows(u.kind)
      /\ ops' = ops \ {u} /\ stored' = stored /\ crossed' = crossed /\ fetched' = fetched
  BY DEF Merged, Handled, Shell, Ended, Api, Shows
<1>2. ~crossed => \A v \in ops' : Shows(v.kind) => v.kind.answer # "spread" /\ v.row # u.row
  BY <1>1, Apart
<1>3. AnswersFit'
  BY <1>1, <1>2, EndKeepsAnswers
<1>4. CASE missed'
  BY <1>3, <1>4 DEF ScreenFits
<1>5. CASE ~missed'
  <2>1. own' = {[Shown EXCEPT ![u.row] = u.answer[u.row]]} /\ missed' = missed
    BY <1>5 DEF Merged
  <2>2. Shown' = [Shown EXCEPT ![u.row] = u.answer[u.row]]
    <3> DEFINE c == [Shown EXCEPT ![u.row] = u.answer[u.row]]
    <3>1. own' = {c}
      BY <2>1
    <3> HIDE DEF c
    <3>2. Shown' = (CHOOSE copy \in {c} : TRUE)
      BY <3>1 DEF Shown
    <3>3. Shown' = c
      BY <3>2
    <3> QED
      BY <3>3 DEF c
  <2>3. Shown \in [Rows -> SUBSET (1..MaxOperations)]
    BY ShownIsACopy DEF Copies
  <2>4. ScreenFits'
    <3> SUFFICES ASSUME ~crossed, ~missed, NEW x \in Rows
                 PROVE  stored[x] = Shown'[x] \cup {v.id : v \in Unheard(x)'}
      BY <1>1, <2>1 DEF ScreenFits
    <3>1. stored[x] = Shown[x] \cup {v.id : v \in Unheard(x)}
      BY DEF ScreenFits
    <3>2. Unheard(x)' = {v \in ops' : v.row = x /\ Shows(v.kind) /\ v.at # "sent"}
      BY DEF Unheard, Shows
    <3>3. CASE x = u.row
      <4>1. Unheard(x)' = {}
        BY <1>2, <3>2, <3>3
      <4>2. u.answer[x] = stored[x]
        BY <1>1, <3>3 DEF AnswersFit
      <4> QED
        BY <2>2, <2>3, <3>3, <4>1, <4>2
    <3>4. CASE x # u.row
      <4>1. Unheard(x)' = Unheard(x)
        BY <1>1, <3>2, <3>4 DEF Unheard
      <4> QED
        BY <2>2, <2>3, <3>1, <3>4, <4>1
    <3> QED
      BY <3>3, <3>4
  <2> QED
    BY <1>3, <2>4
<1> QED
  BY <1>4, <1>5

(* What is shown after a copy was set.                                     *)
LEMMA ShownNext ==
  ASSUME NEW copy, own' = {copy}
  PROVE  Shown' = copy
<1>1. Shown' = (CHOOSE c \in {copy} : TRUE)
  BY DEF Shown
<1> QED
  BY <1>1

(* Each handler keeps the screen right.                                    *)
LEMMA HandlerFits ==
  ASSUME FormTypeOK, OneByOne, AnswersFit, ScreenFits, NEW u \in ops,
         Handle(u) \/ SendFails(u) \/ ListFails(u)
  PROVE  AnswersFit' /\ ScreenFits'
<1>1. CASE Left(u)
  <2>1. /\ ~Shows(u.kind) /\ ops' = ops \ {u} /\ stored' = stored /\ crossed' = crossed
        /\ missed' = missed /\ own' = own /\ fetched' = fetched
    BY <1>1 DEF Left, Handled, Shell, Ended, Api, Shows
  <2>2. Shown' = Shown
    BY <2>1 DEF Shown
  <2> QED
    BY <2>1, <2>2, EndKeepsAnswers, EndKeepsScreen
<1>2. CASE Replaced(u)
  <2>1. /\ Shows(u.kind) /\ u.kind.answer = "whole" /\ u.at = "answered" /\ ops' = ops \ {u}
        /\ stored' = stored /\ crossed' = crossed /\ own' = {u.answer}
    BY <1>2 DEF Replaced, Handled, Shell, Ended, Api, Shows
  <2>2. Shown' = u.answer /\ (~crossed => u.answer = stored)
    BY <2>1, ShownNext DEF AnswersFit
  <2> QED
    BY <2>1, <2>2, WholeFits
<1>3. CASE Merged(u)
  BY <1>3, MergedFits
<1>4. CASE Spread(u)
  <2> DEFINE c == [u.before EXCEPT ![u.row] = @ \cup {u.id}]
  <2>1. /\ Shows(u.kind) /\ u.kind.answer = "spread" /\ u.at = "answered" /\ ops' = ops \ {u}
        /\ stored' = stored /\ crossed' = crossed /\ own' = {c} /\ missed' = missed
    BY <1>4 DEF Spread, Handled, Shell, Ended, Api, Shows
  <2>2. Shown' = c
    BY <2>1, ShownNext
  <2>3. ~crossed /\ ~missed => c = stored
    <3> SUFFICES ASSUME ~crossed, ~missed PROVE c = stored
      OBVIOUS
    <3>1. /\ u.before \in [Rows -> SUBSET (1..MaxOperations)]
          /\ stored \in [Rows -> SUBSET (1..MaxOperations)] /\ u.row \in Rows
      BY TypesInParts, OperationShape DEF OpsTypes, ApiTypes, Copies
    <3>2. u.before = Shown /\ \A v \in ops \ {u} : ~Shows(v.kind)
      BY <2>1, Apart DEF AnswersFit
    <3>3. \A x \in Rows : Unheard(x) = IF x = u.row THEN {u} ELSE {}
      BY <2>1, <3>2 DEF Unheard
    <3>4. ASSUME NEW x \in Rows
          PROVE  stored[x] = IF x = u.row THEN u.before[x] \cup {u.id} ELSE u.before[x]
      <4>1. stored[x] = u.before[x] \cup {v.id : v \in Unheard(x)}
        BY <3>2 DEF ScreenFits
      <4>2. {v.id : v \in Unheard(x)} = IF x = u.row THEN {u.id} ELSE {}
        BY <3>3
      <4> QED
        BY <4>1, <4>2
    <3> QED
      BY <3>1, <3>4
  <2> HIDE DEF c
  <2> QED
    BY <2>1, <2>2, <2>3, WholeFits
<1>5. CASE AskAgain(u)
  BY <1>5, AskAgainFits
<1>6. CASE Listed(u)
  <2>1. /\ Shows(u.kind) /\ u.kind.answer \in {"load", "again"} /\ u.at = "listed"
        /\ ops' = ops \ {u} /\ stored' = stored /\ crossed' = crossed
    BY <1>6 DEF Listed, Api, OneByOne, Shows
  <2>2. ~crossed => u.answer = stored
    BY <2>1 DEF AnswersFit
  <2>3. CASE u.kind.answer = "load"
    <3>1. own' = {u.answer}
      BY <1>6, <2>3 DEF Listed
    <3> QED
      BY <2>1, <2>2, <3>1, ShownNext, WholeFits
  <2>4. CASE u.kind.answer = "again"
    <3>1. fetched' = u.answer /\ own' = own /\ missed' = (own # {})
      BY <1>6, <2>4 DEF Listed
    <3>2. ~missed' => Shown' = u.answer
      BY <3>1 DEF Shown
    <3> QED
      BY <2>1, <2>2, <3>2, WholeFits
  <2> QED
    BY <2>1, <2>3, <2>4
<1>7. CASE ListFails(u)
  <2>1. /\ ops' = ops \ {u} /\ stored' = stored /\ crossed' = crossed
        /\ missed' /\ own' = own /\ fetched' = fetched
    BY <1>7 DEF ListFails, Api
  <2>2. Shown' = Shown
    BY <2>1 DEF Shown
  <2> QED
    BY <2>1, <2>2, EndKeepsAnswers DEF ScreenFits
<1>8. CASE SendFails(u)
  <2>1. /\ ops' = ops \ {u} /\ stored' = stored /\ crossed' = crossed
        /\ own' = own /\ fetched' = fetched
        /\ missed' = (missed \/ (u.at = "answered" /\ Shows(u.kind)))
        /\ u.at \in {"sent", "answered"}
    BY <1>8 DEF SendFails, Ended
  <2>2. Shown' = Shown
    BY <2>1 DEF Shown
  <2>3. AnswersFit'
    BY <2>1, <2>2, EndKeepsAnswers
  <2>4. CASE u.at = "answered" /\ Shows(u.kind)
    BY <2>1, <2>3, <2>4 DEF ScreenFits
  <2>5. CASE ~(u.at = "answered" /\ Shows(u.kind))
    <3>1. missed' = missed
      BY <2>1, <2>5, TypesInParts DEF ScreenTypes
    <3> QED
      BY <2>1, <2>2, <2>3, <2>5, <3>1, EndKeepsScreen
  <2> QED
    BY <2>4, <2>5
<1> QED
  BY <1>1, <1>2, <1>3, <1>4, <1>5, <1>6, <1>7, <1>8 DEF Handle

(* So does every step.                                                     *)
LEMMA FitsKept ==
  ASSUME FormTypeOK, OneByOne, AnswersFit, ScreenFits, [FormNext]_formVars
  PROVE  AnswersFit' /\ ScreenFits'
<1>1. CASE Quiet
  <2>1. /\ ops' = ops /\ stored' = stored /\ own' = own /\ fetched' = fetched
        /\ missed' = missed /\ crossed' = crossed
    BY <1>1, QuietMoves
  <2>2. Shown' = Shown
    BY <2>1 DEF Shown
  <2>3. AnswersFit'
    BY <2>1, <2>2 DEF AnswersFit, Meets, Shows
  <2>4. \A x : Unheard(x)' = Unheard(x)
    BY <2>1 DEF Unheard, Shows
  <2> QED
    BY <2>1, <2>2, <2>3, <2>4 DEF ScreenFits
<1>2. ASSUME NEW k \in page, NEW r \in Rows, Submit(k, r)
      PROVE  AnswersFit' /\ ScreenFits'
  BY <1>2, SubmitFits
<1>3. ASSUME NEW u \in ops, Store(u) \/ CoverUploaded(u) \/ CoverFails(u) \/ List(u)
      PROVE  AnswersFit' /\ ScreenFits'
  BY <1>3, StoreFits, WaitingFits
<1>4. ASSUME NEW u \in ops, Handle(u) \/ SendFails(u) \/ ListFails(u)
      PROVE  AnswersFit' /\ ScreenFits'
  BY <1>4, HandlerFits
<1> QED
  BY <1>1, <1>2, <1>3, <1>4, FourKinds

-----------------------------------------------------------------------------
(* What a form follows.                                                    *)
LEMMA FollowsWhole == ASSUME FormTypeOK, NEW k \in page, k.follows PROVE k.answer = "whole"
  BY DEF FormTypeOK, WellMade

(* Saves are numbered as they are sent.                                    *)
LEMMA SavesFollowKept ==
  ASSUME FormTypeOK, OneByOne, SavesFollow, [FormNext]_formVars
  PROVE  SavesFollow'
<1>0. ops \subseteq Operations /\ begun \in Nat /\ \A u \in Operations : u.id \in Nat
  BY TypesInParts DEF OpsTypes, Counts, Operations
<1>1. CASE Quiet
  BY <1>1, QuietMoves DEF SavesFollow
<1>2. ASSUME NEW k \in page, NEW r \in Rows, Submit(k, r)
      PROVE  SavesFollow'
  <2>1. PICK n : ops' = ops \cup {n} /\ n.id = begun + 1 /\ n.kind = k
    BY <1>2, SubmitMoves
  <2>2. begun' = begun + 1 /\ saves' = IF k.follows THEN saves \cup {begun + 1} ELSE saves
    BY <1>2, SubmitMoves
  <2>3. \A u \in ops : u.id # begun + 1
    BY <1>0 DEF OneByOne
  <2>4. begun + 1 \notin saves
    BY <1>0 DEF SavesFollow
  <2> QED
    BY <1>0, <2>1, <2>2, <2>3, <2>4 DEF SavesFollow
<1>3. ASSUME NEW u \in ops, Store(u) \/ CoverUploaded(u) \/ CoverFails(u) \/ List(u)
      PROVE  SavesFollow'
  <2>1. PICK w : Further(w, u) /\ ops' = (ops \ {u}) \cup {w}
    BY <1>3, ApiMoves
  <2>2. begun' = begun /\ saves' = saves
    BY <1>3, ApiMoves
  <2> QED
    BY <2>1, <2>2 DEF SavesFollow, Further
<1>4. ASSUME NEW u \in ops, Handle(u) \/ SendFails(u) \/ ListFails(u)
      PROVE  SavesFollow'
  <2>1. begun' = begun /\ saves' = saves
    BY <1>4, HandlerMoves
  <2>2. \A v \in ops' : \E x \in ops : v.id = x.id /\ v.kind = x.kind
    BY <1>4, HandlerMoves DEF Further
  <2> QED
    BY <2>1, <2>2 DEF SavesFollow
<1> QED
  BY <1>1, <1>2, <1>3, <1>4, FourKinds

(* What the page has not heard of, where an operation is alone.            *)
LEMMA HeardOfTheRest ==
  ASSUME FormTypeOK, OneByOne, AnswersFit, SavesFollow, FollowedFit, ~crossed, ~lost,
         NEW u \in ops, Shows(u.kind), ~u.kind.follows,
         NEW r \in Rows, r = u.row \/ u.kind.answer \notin {"patch", "merge"},
         NEW n \in FieldNumbers
  PROVE  n \in stored[r] <=> n \in Shown[r]
<1>1. \A v \in Unheard(r) : v = u
  BY Apart DEF Unheard
<1>2. u.id # n
  BY TypesInParts DEF FieldNumbers, SavesFollow, OneByOne, Counts
<1> QED
  BY <1>1, <1>2 DEF FollowedFit

(* What other operations show leaves the fields as they are.               *)
LEMMA FieldsStay ==
  ASSUME FormTypeOK, OneByOne, AnswersFit, SavesFollow, FollowedFit, ~crossed, ~lost,
         NEW u \in ops, Handle(u), ~u.kind.follows
  PROVE  \A r \in Rows : \A n \in FieldNumbers : n \in Shown'[r] <=> n \in Shown[r]
<1> SUFFICES ASSUME NEW r \in Rows, NEW n \in FieldNumbers
             PROVE  n \in Shown'[r] <=> n \in Shown[r]
  OBVIOUS
<1>0. /\ u \in Operations /\ u.row \in Rows
      /\ Shown \in [Rows -> SUBSET (1..MaxOperations)]
  BY TypesInParts, OperationShape, ShownIsACopy DEF OpsTypes, Copies
<1>1. CASE Left(u) \/ AskAgain(u)
  <2>1. own' = own /\ fetched' = fetched
    BY <1>1 DEF Left, AskAgain, Shell
  <2> QED
    BY <2>1 DEF Shown
<1>2. ASSUME Shows(u.kind), u.kind.answer \notin {"patch", "merge"},
             Shown' = Shown \/ Shown' = stored
      PROVE  n \in Shown'[r] <=> n \in Shown[r]
  BY <1>2, HeardOfTheRest
<1>3. CASE Replaced(u)
  <2>1. Shows(u.kind) /\ u.kind.answer = "whole" /\ u.at = "answered" /\ own' = {u.answer}
    BY <1>3 DEF Replaced, Handled, Shows
  <2>2. Shown' = u.answer /\ u.answer = stored
    BY <2>1, ShownNext DEF AnswersFit
  <2> QED
    BY <1>2, <2>1, <2>2
<1>4. CASE Listed(u)
  <2>1. Shows(u.kind) /\ u.kind.answer \in {"load", "again"} /\ u.answer = stored
    BY <1>4 DEF Listed, OneByOne, Shows, AnswersFit
  <2>2. CASE u.kind.answer = "load"
    <3>1. own' = {u.answer}
      BY <1>4, <2>2 DEF Listed
    <3>2. Shown' = stored
      BY <2>1, <3>1, ShownNext
    <3> QED
      BY <1>2, <2>1, <3>2
  <2>3. CASE u.kind.answer = "again"
    <3>1. fetched' = stored /\ own' = own
      BY <1>4, <2>1, <2>3 DEF Listed
    <3>2. Shown' = Shown \/ Shown' = stored
      BY <3>1 DEF Shown
    <3> QED
      BY <1>2, <2>1, <3>2
  <2> QED
    BY <2>1, <2>2, <2>3
<1>5. CASE Merged(u)
  <2> DEFINE c == [Shown EXCEPT ![u.row] = u.answer[u.row]]
  <2>1. /\ Shows(u.kind) /\ u.kind.answer \in {"patch", "merge"} /\ u.at = "answered"
        /\ fetched' = fetched /\ (own' = own \/ own' = {c})
    BY <1>5 DEF Merged, Handled, Shell, Shows
  <2>2. CASE own' = own
    <3>1. Shown' = Shown
      BY <2>1, <2>2 DEF Shown
    <3> QED
      BY <3>1
  <2>3. CASE own' = {c}
    <3> HIDE DEF c
    <3>1. Shown' = c
      BY <2>3, ShownNext
    <3> USE DEF c
    <3>2. u.answer[u.row] = stored[u.row]
      BY <2>1 DEF AnswersFit
    <3>3. CASE r = u.row
      <4>1. Shown'[r] = stored[r]
        BY <1>0, <3>1, <3>2, <3>3
      <4>2. n \in stored[r] <=> n \in Shown[r]
        BY <2>1, <3>3, HeardOfTheRest
      <4> QED
        BY <4>1, <4>2
    <3>4. CASE r # u.row
      BY <1>0, <3>1, <3>4
    <3> QED
      BY <3>3, <3>4
  <2> QED
    BY <2>1, <2>2, <2>3
<1>6. CASE Spread(u)
  <2> DEFINE c == [u.before EXCEPT ![u.row] = @ \cup {u.id}]
  <2>1. Shows(u.kind) /\ u.kind.answer = "spread" /\ own' = {c}
    BY <1>6 DEF Spread, Shows
  <2>2. u.before = Shown
    BY <2>1 DEF AnswersFit
  <2>3. Shown' = c
    <3> HIDE DEF c
    <3> QED
      BY <2>1, ShownNext
  <2>4. u.id # n
    BY TypesInParts DEF FieldNumbers, SavesFollow, OneByOne, Counts
  <2> QED
    BY <1>0, <2>2, <2>3, <2>4
<1> QED
  BY <1>1, <1>3, <1>4, <1>5, <1>6 DEF Handle

(* So a form that follows them is left alone.                              *)
LEMMA FormStays ==
  ASSUME FormTypeOK, OneByOne, AnswersFit, SavesFollow, FollowedFit, ~crossed, ~lost,
         NEW u \in ops, Handle(u), ~u.kind.follows
  PROVE  FormFields' = FormFields
<1>1. saves' = saves /\ saves \subseteq FieldNumbers
  BY HandlerMoves DEF FieldNumbers
<1>2. \A r \in Rows : Shown'[r] \cap saves' = Shown[r] \cap saves
  BY <1>1, FieldsStay
<1> QED
  BY <1>2 DEF FormFields

(* What is under way and not heard of, when others end.                    *)
LEMMA EndsUnheard ==
  ASSUME FormTypeOK, OneByOne, SavesFollow, NEW u \in ops, ~u.kind.follows,
         Handle(u) \/ ListFails(u), NEW r \in Rows, NEW n \in FieldNumbers
  PROVE  (\E v \in Unheard(r)' : v.id = n) <=> (\E v \in Unheard(r) : v.id = n)
<1>t. begun \in Nat /\ \A v \in ops : v.id \in Nat /\ v.kind \in page
  BY TypesInParts DEF Counts, OpsTypes, Operations
<1>0. \A v \in ops : ~v.kind.follows => v.id # n
  BY <1>t DEF FieldNumbers, SavesFollow, OneByOne
<1>1. Unheard(r)' = {v \in ops' : v.row = r /\ Shows(v.kind) /\ v.at # "sent"}
  BY DEF Unheard, Shows
<1>2. \A v \in ops' : v \in ops \/ v.id = u.id
  BY HandlerMoves DEF Further
<1>3. \A v \in ops : v \in ops' \/ v = u \/ v.at \in {"asked", "listed"}
  BY HandlerMoves
<1>4. \A v \in ops : v.at \in {"asked", "listed"} => ~v.kind.follows
  BY <1>t, FollowsWhole DEF OneByOne
<1>5. ASSUME NEW v \in ops, v.id = n
      PROVE  v \in ops'
  BY <1>0, <1>3, <1>4, <1>5
<1>6. ASSUME NEW v \in ops', v.id = n
      PROVE  v \in ops
  BY <1>0, <1>2, <1>6
<1> QED
  BY <1>1, <1>5, <1>6 DEF Unheard

(* The screen keeps lacking just the saves it has not heard of.            *)
LEMMA FollowedFitKept ==
  ASSUME FormTypeOK, OneByOne, AnswersFit, SavesFollow, FollowedFit, [FormNext]_formVars
  PROVE  FollowedFit'
<1> DEFINE Fits(r, n) == n \in stored[r] <=> n \in Shown[r] \/ \E u \in Unheard(r) : u.id = n
<1>f. ~crossed /\ ~lost => \A r \in Rows : \A n \in FieldNumbers : Fits(r, n)
  BY DEF FollowedFit
<1>s. (~crossed' /\ ~lost' => \A r \in Rows : \A n \in FieldNumbers' : Fits(r, n)') => FollowedFit'
  BY DEF FollowedFit
<1>0. ops \subseteq Operations /\ begun \in Nat
  BY TypesInParts DEF OpsTypes, Counts
<1>1. CASE Quiet
  <2>1. /\ ops' = ops /\ stored' = stored /\ own' = own /\ fetched' = fetched
        /\ lost' = lost /\ crossed' = crossed /\ saves' = saves /\ begun' = begun
    BY <1>1, QuietMoves
  <2>2. Shown' = Shown
    BY <2>1 DEF Shown
  <2>3. \A r : Unheard(r)' = Unheard(r)
    BY <2>1 DEF Unheard, Shows
  <2>4. FieldNumbers' = FieldNumbers
    BY <2>1 DEF FieldNumbers
  <2> QED
    BY <2>1, <2>2, <2>3, <2>4 DEF FollowedFit
<1>2. ASSUME NEW k \in page, NEW r \in Rows, Submit(k, r)
      PROVE  FollowedFit'
  <2>1. PICK n : ops' = ops \cup {n} /\ n.at = "sent"
    BY <1>2, SubmitMoves
  <2>2. /\ own' = own /\ fetched' = fetched /\ stored' = stored /\ lost' = lost
        /\ begun' = begun + 1 /\ saves' \subseteq saves \cup {begun + 1}
        /\ begun + 1 \in 1..MaxOperations
    BY <1>0, <1>2, SubmitMoves, TypesInParts DEF Submit, Counts
  <2>3. ~crossed' => ~crossed
    BY <1>2, TypesInParts DEF Submit, ScreenTypes
  <2>4. Shown' = Shown
    BY <2>2 DEF Shown
  <2>5. \A x : Unheard(x)' = Unheard(x)
    BY <2>1 DEF Unheard, Shows
  <2>6. FieldNumbers' \subseteq FieldNumbers
    BY <1>0, <2>2 DEF FieldNumbers
  <2> QED
    BY <2>2, <2>3, <2>4, <2>5, <2>6 DEF FollowedFit
<1>3. ASSUME NEW u \in ops, Store(u) \/ CoverUploaded(u) \/ CoverFails(u) \/ List(u)
      PROVE  FollowedFit'
  <2>1. PICK w : /\ Further(w, u) /\ ops' = (ops \ {u}) \cup {w}
                 /\ \/ u.at = "sent" /\ w.at # "sent" /\ Store(u)
                    \/ u.at # "sent" /\ w.at # "sent" /\ stored' = stored
    BY <1>3, ApiMoves
  <2>2. /\ own' = own /\ fetched' = fetched /\ lost' = lost /\ crossed' = crossed
        /\ saves' = saves /\ begun' = begun
    BY <1>3, ApiMoves DEF Store
  <2>3. Shown' = Shown /\ FieldNumbers' = FieldNumbers
    BY <2>2 DEF Shown, FieldNumbers
  <2>4. w.kind = u.kind /\ w.row = u.row /\ w.id = u.id
    BY <2>1 DEF Further
  <2> SUFFICES ASSUME ~crossed, ~lost, NEW r \in Rows, NEW n \in FieldNumbers
               PROVE  n \in stored'[r] <=> n \in Shown[r] \/ \E v \in Unheard(r)' : v.id = n
    BY <2>2, <2>3 DEF FollowedFit
  <2>5. n \in stored[r] <=> n \in Shown[r] \/ \E v \in Unheard(r) : v.id = n
    BY <1>f
  <2>6. Unheard(r)' = {v \in ops' : v.row = r /\ Shows(v.kind) /\ v.at # "sent"}
    BY DEF Unheard, Shows
  <2>7. CASE u.at # "sent" /\ w.at # "sent" /\ stored' = stored
    <3>1. (\E v \in Unheard(r)' : v.id = n) <=> \E v \in Unheard(r) : v.id = n
      BY <2>1, <2>4, <2>6, <2>7 DEF Unheard
    <3> QED
      BY <2>5, <2>7, <3>1
  <2>8. CASE u.at = "sent" /\ w.at # "sent" /\ Store(u)
    <3>1. /\ Shows(u.kind) /\ r = u.row => stored'[r] = stored[r] \cup {u.id}
          /\ ~(Shows(u.kind) /\ r = u.row) => stored'[r] = stored[r]
      <4>1. stored \in [Rows -> SUBSET (1..MaxOperations)]
        BY TypesInParts DEF ApiTypes, Copies
      <4>2. stored' = IF Shows(u.kind) THEN [stored EXCEPT ![u.row] = @ \cup {u.id}] ELSE stored
        BY <2>8 DEF Store
      <4> QED
        BY <4>1, <4>2
    <3>2. CASE Shows(u.kind) /\ r = u.row
      <4>1. (\E v \in Unheard(r)' : v.id = n) <=> n = u.id \/ \E v \in Unheard(r) : v.id = n
        BY <2>1, <2>4, <2>6, <2>8, <3>2 DEF Unheard
      <4> QED
        BY <2>5, <3>1, <3>2, <4>1
    <3>3. CASE ~(Shows(u.kind) /\ r = u.row)
      <4>1. (\E v \in Unheard(r)' : v.id = n) <=> \E v \in Unheard(r) : v.id = n
        BY <2>1, <2>4, <2>6, <2>8, <3>3 DEF Unheard
      <4> QED
        BY <2>5, <3>1, <3>3, <4>1
    <3> QED
      BY <3>2, <3>3
  <2> QED
    BY <2>1, <2>7, <2>8
<1>4. ASSUME NEW u \in ops, Handle(u) \/ SendFails(u) \/ ListFails(u)
      PROVE  FollowedFit'
  <2>1. stored' = stored /\ crossed' = crossed /\ saves' = saves /\ begun' = begun
    BY <1>4, HandlerMoves
  <2>2. FieldNumbers' = FieldNumbers
    BY <2>1 DEF FieldNumbers
  <2>3. ~lost' => ~lost /\ (SendFails(u) => u.at = "sent")
    BY <1>4, HandlerForms DEF SendFails
  <2> SUFFICES ASSUME ~crossed, ~lost', NEW r \in Rows, NEW n \in FieldNumbers
               PROVE  n \in stored[r] <=> n \in Shown'[r] \/ \E v \in Unheard(r)' : v.id = n
    BY <2>1, <2>2 DEF FollowedFit
  <2>4. n \in stored[r] <=> n \in Shown[r] \/ \E v \in Unheard(r) : v.id = n
    BY <1>f, <2>3
  <2>5. Unheard(r)' = {v \in ops' : v.row = r /\ Shows(v.kind) /\ v.at # "sent"}
    BY DEF Unheard, Shows
  <2>6. CASE SendFails(u)
    <3>1. ops' = ops \ {u} /\ own' = own /\ fetched' = fetched /\ u.at = "sent"
      BY <2>3, <2>6 DEF SendFails, Ended
    <3>2. Shown' = Shown
      BY <3>1 DEF Shown
    <3>3. Unheard(r)' = Unheard(r)
      BY <2>5, <3>1 DEF Unheard
    <3> QED
      BY <2>4, <3>2, <3>3
  <2>7. CASE ListFails(u)
    <3>1. own' = own /\ fetched' = fetched /\ u.at = "asked"
      BY <2>7 DEF ListFails
    <3>2. Shown' = Shown
      BY <3>1 DEF Shown
    <3>3. ~u.kind.follows
      <4>1. u.kind \in page
        BY <1>0, OperationShape
      <4>2. u.kind.answer \in {"load", "again"}
        BY <3>1 DEF OneByOne
      <4> QED
        BY <4>1, <4>2, FollowsWhole
    <3>4. (\E v \in Unheard(r)' : v.id = n) <=> \E v \in Unheard(r) : v.id = n
      BY <2>7, <3>3, EndsUnheard
    <3> QED
      BY <2>4, <3>2, <3>4
  <2>8. CASE Handle(u) /\ ~u.kind.follows
    <3>1. (\E v \in Unheard(r)' : v.id = n) <=> \E v \in Unheard(r) : v.id = n
      BY <2>8, EndsUnheard
    <3>2. n \in Shown'[r] <=> n \in Shown[r]
      BY <2>3, <2>8, FieldsStay
    <3> QED
      BY <2>4, <3>1, <3>2
  <2>9. CASE Handle(u) /\ u.kind.follows
    <3>1. u.kind.answer = "whole"
      BY <1>0, <2>9, FollowsWhole, OperationShape
    <3>2. u.at \notin {"asked", "listed"} /\ Shows(u.kind)
      BY <3>1 DEF OneByOne, Shows
    <3>3. Replaced(u)
      BY <2>9, <3>1, <3>2 DEF Handle, Left, Merged, Spread, AskAgain, Listed
    <3>4. own' = {u.answer} /\ u.at = "answered" /\ ops' = ops \ {u}
      BY <3>3 DEF Replaced, Handled, Ended
    <3>5. Shown' = stored
      BY <3>1, <3>2, <3>4, ShownNext DEF AnswersFit
    <3>6. Unheard(r)' = {}
      BY <2>5, <3>1, <3>2, <3>4, Apart
    <3> QED
      BY <3>5, <3>6
  <2> QED
    BY <1>4, <2>6, <2>7, <2>8, <2>9
<1> QED
  BY <1>1, <1>2, <1>3, <1>4, FourKinds

-----------------------------------------------------------------------------
(* The inductive invariant.                                                *)
FormsKept == FormTypeOK /\ FormInv /\ StoredOnce

(* The invariant holds at first.                                           *)
LEMMA InitForms == FormInit => FormsKept
<1> SUFFICES ASSUME FormInit PROVE FormsKept
  OBVIOUS
<1>1. FormTypeOK
  BY InitFormTypes
<1>2. OneByOne /\ AloneWhileOff /\ SentOrLate /\ AnswersFit
  BY DEF FormInit, OneByOne, AloneWhileOff, SentOrLate, AnswersFit
<1>3. Placed
  BY DEF FormInit, Placed, OneForm, PicturesAreNew
<1>4. FiledIsAnswered /\ StoredOnce
  BY DEF FormInit, FiledIsAnswered, StoredOnce
<1>5. ScreenFits
  <2>1. Shown = Nothing /\ stored = Nothing
    BY DEF FormInit, Shown
  <2>2. \A r \in Rows : Unheard(r) = {}
    BY DEF FormInit, Unheard
  <2> QED
    BY <2>1, <2>2 DEF ScreenFits
<1>6. SavesFollow /\ FollowedFit
  <2>1. Shown = Nothing /\ stored = Nothing
    BY DEF FormInit, Shown
  <2>2. \A r \in Rows : Unheard(r) = {}
    BY DEF FormInit, Unheard
  <2>3. SavesFollow
    BY DEF FormInit, SavesFollow
  <2> QED
    BY <2>1, <2>2, <2>3 DEF FollowedFit
<1> QED
  BY <1>1, <1>2, <1>3, <1>4, <1>5, <1>6 DEF FormsKept, FormInv, Placed

(* And every step keeps it.                                                *)
LEMMA NextForms ==
  ASSUME FormsKept, [FormNext]_formVars
  PROVE  FormsKept'
<1>0. /\ FormTypeOK /\ OneByOne /\ AloneWhileOff /\ AnswersFit /\ ScreenFits /\ Placed
      /\ FiledIsAnswered /\ SentOrLate /\ StoredOnce /\ SavesFollow /\ FollowedFit
  BY DEF FormsKept, FormInv, Placed
<1>1. FormTypeOK' /\ OneByOne' /\ AloneWhileOff'
  BY <1>0, NextTypes, OneByOneKept, AloneWhileOffKept
<1>2. AnswersFit' /\ ScreenFits'
  BY <1>0, FitsKept
<1>3. Placed' /\ FiledIsAnswered' /\ SentOrLate'
  BY <1>0, PlacedKept, FiledKept, SentOrLateKept
<1>4. StoredOnce'
  BY <1>0, StoredOnceKept
<1>5. SavesFollow' /\ FollowedFit'
  BY <1>0, SavesFollowKept, FollowedFitKept
<1> QED
  BY <1>1, <1>2, <1>3, <1>4, <1>5 DEF FormsKept, FormInv, Placed

(* FormInv is inductive: whatever the operations of a page do with their   *)
(* buttons, dialogs, forms and answers.                                    *)
THEOREM FormInvariance == FormSpec => []FormsKept
<1>1. FormsKept /\ [FormNext]_formVars => FormsKept'
  BY NextForms
<1> QED
  BY <1>1, InitForms, PTL DEF FormSpec

(* A page at rest shows what the API has done, unless operations crossed   *)
(* or an answer was missed.                                                *)
THEOREM ShownIsStoredHolds == FormSpec => []ShownIsStored
<1>1. FormsKept => ShownIsStored
  <2> SUFFICES ASSUME FormsKept, ops = {}, ~crossed, ~missed
               PROVE  Shown = stored
    BY DEF ShownIsStored
  <2>1. /\ stored \in [Rows -> SUBSET (1..MaxOperations)]
        /\ Shown \in [Rows -> SUBSET (1..MaxOperations)]
    BY TypesInParts, ShownIsACopy DEF FormsKept, ApiTypes, Copies
  <2>2. \A r \in Rows : Unheard(r) = {}
    BY DEF Unheard
  <2>3. ASSUME NEW r \in Rows
        PROVE  stored[r] = Shown[r]
    <3>1. stored[r] = Shown[r] \cup {u.id : u \in Unheard(r)}
      BY DEF FormsKept, FormInv, ScreenFits
    <3> QED
      BY <2>2, <3>1
  <2> QED
    BY <2>1, <2>3
<1> QED
  BY <1>1, FormInvariance, PTL

(* What was filled in once is stored once, unless an answer was lost, and  *)
(* but for the page of roles.                                              *)
THEOREM StoredOnceHolds == FormSpec => []StoredOnce
<1>1. FormsKept => StoredOnce
  BY DEF FormsKept
<1> QED
  BY <1>1, FormInvariance, PTL

(* No button is off but for an operation under way.                        *)
THEOREM OffForCauseHolds == FormSpec => []OffForCause
<1>1. FormInit => FormTypeOK /\ OffForCause
  BY InitFormTypes DEF FormInit, OffForCause
<1>2. FormTypeOK /\ OffForCause /\ [FormNext]_formVars => FormTypeOK' /\ OffForCause'
  BY NextTypes, OffForCauseKept
<1> QED
  BY <1>1, <1>2, PTL DEF FormSpec

(* What was typed leaves a form with a success that carried it, or with    *)
(* its dialog; the note of a report also with a failure, and a profile     *)
(* with what the page shows, once operations crossed or an answer was lost. *)
THEOREM TypedIsKeptHolds == FormSpec => TypedIsKept
<1> DEFINE Kept ==
      \A k \in page : \A e \in typed[k] \ typed'[k] :
          \/ \E u \in ops \ ops' :
                /\ u.kind = k /\ e \in u.sent \cup late
                /\ k.wipes \/ (u.at = "answered" /\ failures' = failures)
          \/ open[k] # NoRow /\ open'[k] = NoRow /\ ops' = ops
          \/ k.follows /\ (crossed \/ lost)
<1>1. FormsKept /\ [FormNext]_formVars => [Kept]_formVars
  <2> SUFFICES ASSUME FormsKept, [FormNext]_formVars, NEW k \in page, NEW e \in typed[k] \ typed'[k]
               PROVE  \/ \E u \in ops \ ops' :
                            /\ u.kind = k /\ e \in u.sent \cup late
                            /\ k.wipes \/ (u.at = "answered" /\ failures' = failures)
                      \/ open[k] # NoRow /\ open'[k] = NoRow /\ ops' = ops
                      \/ k.follows /\ (crossed \/ lost)
    OBVIOUS
  <2> DEFINE Answered == \E u \in ops \ ops' :
                            /\ u.kind = k /\ e \in u.sent \cup late
                            /\ k.wipes \/ (u.at = "answered" /\ failures' = failures)
  <2> DEFINE Closed == open[k] # NoRow /\ open'[k] = NoRow /\ ops' = ops
  <2>0. /\ FormTypes /\ SentOrLate /\ FormTypeOK /\ OneByOne /\ AnswersFit
        /\ SavesFollow /\ FollowedFit
    BY TypesInParts DEF FormsKept, FormInv
  <2>1. ASSUME NEW j \in page, CloseDialog(j)
        PROVE  Closed
    BY <2>0, <2>1 DEF CloseDialog, FormTypes
  <2>2. ASSUME Quiet
        PROVE  Closed
    BY <2>0, <2>1, <2>2 DEF Quiet, OpenDialog, Type, ChoosePicture, Use, PictureUploaded,
                            PictureFails, formVars, FormTypes
  <2>3. ASSUME NEW j \in page, NEW r \in Rows, Submit(j, r)
        PROVE  FALSE
    BY <2>3 DEF Submit
  <2>4. ASSUME NEW u \in ops, Store(u) \/ CoverUploaded(u) \/ CoverFails(u) \/ List(u)
        PROVE  FALSE
    BY <2>4 DEF Store, CoverUploaded, CoverFails, List, Client
  <2>5. ASSUME NEW u \in ops, Handle(u) \/ SendFails(u) \/ ListFails(u)
        PROVE  Answered \/ (k.follows /\ (crossed \/ lost))
    <3>1. u.at \in {"sent", "answered"} => u \notin ops'
      <4>1. CASE ops' = ops \ {u}
        BY <4>1
      <4>2. ASSUME AskAgain(u), u.at \in {"sent", "answered"}, NEW w, w.at = "asked",
                   ops' \subseteq (ops \ {u}) \cup {w}
            PROVE  u \notin ops'
        BY <4>2
      <4> QED
        BY <2>0, <2>5, <4>1, <4>2, HandlerMoves
    <3>2. ASSUME k = u.kind, u.at \in {"sent", "answered"},
                 k.wipes \/ (u.at = "answered" /\ failures' = failures)
          PROVE  Answered
      <4>1. e \in u.sent \cup late
        BY <2>0, <3>2 DEF SentOrLate
      <4> QED
        BY <3>1, <3>2, <4>1
    <3>3. ASSUME Handle(u), k.follows, FormFields' # FormFields, ~crossed, ~lost
          PROVE  Answered
      <4>1. u.kind.follows
        BY <2>0, <3>3, FormStays
      <4>2. u.kind \in page /\ u.kind.answer = "whole"
        BY <2>0, <4>1, FollowsWhole, TypesInParts, OperationShape DEF OpsTypes
      <4>3. k = u.kind
        BY <2>0, <3>3, <4>1, <4>2 DEF FormTypeOK
      <4>4. u.at \notin {"asked", "listed"}
        BY <2>0, <4>2 DEF OneByOne
      <4>5. Replaced(u)
        BY <3>3, <4>2, <4>4 DEF Handle, Left, Merged, Spread, AskAgain, Listed
      <4>6. u.at = "answered" /\ failures' = failures
        BY <4>5 DEF Replaced, Handled
      <4> QED
        BY <3>2, <4>3, <4>6
    <3>4. \/ k = u.kind /\ u.at = "answered" /\ failures' = failures
          \/ k = u.kind /\ u.at \in {"sent", "answered"} /\ k.wipes
          \/ Handle(u) /\ k.follows /\ FormFields' # FormFields
      BY <2>0, <2>5, HandlerForms
    <3> QED
      BY <3>2, <3>3, <3>4
  <2> QED
    BY <2>2, <2>3, <2>4, <2>5, FourKinds
<1> QED
  BY <1>1, FormInvariance, PTL DEF FormSpec, TypedIsKept

=============================================================================
