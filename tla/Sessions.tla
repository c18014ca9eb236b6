------------------------------ MODULE Sessions ------------------------------
(***************************************************************************)
(* The server's half of a browser session: what the session and CSRF       *)
(* middlewares and the auth and tenant handlers make of the requests one   *)
(* browser has in flight.                                                  *)
(*                                                                         *)
(* express-session (external, as configured in register-session.ts) loads  *)
(* the session a request's cookie names when the request arrives, gives    *)
(* the handler a copy, and writes the whole copy back when the response    *)
(* ends, if the handler changed it (resave and saveUninitialized are       *)
(* off); the same holds of its memory and its Redis store.  Requests that  *)
(* overlap therefore work on copies of one session.                        *)
(*                                                                         *)
(* A request makes one step to load, one for its handler up to its last    *)
(* change of the session, and one to end, after its audit entry.  Session  *)
(* ids and CSRF tokens are random: a session's token is named by the id    *)
(* the session was made with, and ids nothing refers to are used again.    *)
(* Signup is login of a user without tenants.  Sessions do not expire      *)
(* (maxAge is a week), and GET /app, which makes the browser's first       *)
(* session just as GET /me does, is left out.  Requests by API key need no *)
(* session and are in ApiKeys.  The page has no form for accepting an      *)
(* invite, which would change the session as creating a tenant does.       *)
(***************************************************************************)
EXTENDS Naturals

CONSTANTS
    Requests,     \* the requests in flight at once
    Users, Tenants,
    Founders,     \* the first members: tenant -> set of users
    MaxSessions,  \* bound: sessions at once, those in flight included
    None

Sids == 1 .. MaxSessions

ASSUME FoundersAssumption == Founders \in [Tenants -> SUBSET Users]
\* GET requests: they issue a token and need none.
SafeOps == {"me", "tenants", "list", "listOf"}
Ops == SafeOps \cup {"login", "logout", "create", "switch", "write", "writeOf"}

\* SessionData, and the session of a browser that has none.
Session == [user : Users \cup {None}, tenant : Tenants \cup {None},
            csrf : Sids \cup {None}]
NewSession == [user |-> None, tenant |-> None, csrf |-> None]

\* What a request carries, what its handler works on and what it answers.
Request == [op : Ops, arg : Users \cup Tenants \cup {None},
            cookie : Sids \cup {None}, token : Sids \cup {None}]
Copy == [sid : Sids, loaded : Session, copy : Session]
Memberships == [active : Tenants \cup {None}, tenants : SUBSET Tenants]
Answer == [status : {"ok", "refused", "csrf"}, set : SUBSET (Sids \cup {None}),
           token : Sids \cup {None},
           body : Users \cup Tenants \cup {None} \cup Memberships]

ASSUME NoneAssumption ==
    /\ None \notin Users \cup Tenants \cup Sids
    /\ None \notin Session
    /\ None \notin Request
    /\ None \notin Copy
    /\ None \notin Answer

VARIABLES
    store,     \* session store: id -> Session or None
    members,   \* memberships: tenant -> its users
    cookie,    \* the session id in the browser's cookie, or None
    token,     \* the CSRF token the page sends, or None
    pc,        \* each request: idle, sent, loaded, ending, answered
    req,       \* what was sent: [op, arg, cookie, token]
    held,      \* the handler's session: [sid, loaded, copy], or None
    answer,    \* [status, set, token, body], or None: set is the Set-Cookie,
               \* {} if there is none, {None} to clear the cookie
    ended      \* history: sessions logged out while no other request held them

serverVars == <<store, members, held, ended>>
browserVars == <<cookie, token>>
sessionVars == <<serverVars, browserVars, pc, req, answer>>

Known(s) == s # None /\ store[s] # None

\* The ids that requests can still name.  The session of any other id can no
\* longer be reached: it stays in the store until it expires, and its id, being
\* random, stands for any id not handed out yet.
Sending == {f \in Requests : req[f] # None}
Handling == {f \in Requests : held[f] # None}
Answering == {f \in Requests : answer[f] # None}
Reachable ==
    ({cookie, token}
       \cup (UNION {{req[f].cookie, req[f].token} : f \in Sending})
       \cup {held[f].sid : f \in Handling}
       \cup (UNION {answer[f].set \cup {answer[f].token} : f \in Answering}))
    \ {None}
FreshSid == CHOOSE s \in Sids \ Reachable : TRUE
IdLeft == Sids \ Reachable # {}   \* guard of the bound MaxSessions

SessionInit ==
    /\ store = [s \in Sids |-> None]
    /\ members = Founders
    /\ cookie = None /\ token = None
    /\ pc = [f \in Requests |-> "idle"]
    /\ req = [f \in Requests |-> None]
    /\ held = [f \in Requests |-> None]
    /\ answer = [f \in Requests |-> None]
    /\ ended = {}

-----------------------------------------------------------------------------
(* The middlewares, in the order app.ts installs them.                     *)

\* csrfProtection, for a request that changes state
TokenAccepted(expected, received) == expected # None /\ expected = received

(* The session is loaded, or made, and a GET issues its token.  What the   *)
(* token check refuses (403) has changed no session and saves none.        *)
Load(f) ==
    LET r == req[f]
        s == IF Known(r.cookie) THEN r.cookie ELSE FreshSid
        before == IF Known(r.cookie) THEN store[r.cookie] ELSE NewSession
        issued == IF r.op \in SafeOps /\ before.csrf = None
                  THEN [before EXCEPT !.csrf = s] ELSE before IN
    /\ pc[f] = "sent"
    /\ Known(r.cookie) \/ IdLeft
    /\ \/ /\ r.op \in SafeOps \/ TokenAccepted(before.csrf, r.token)
          /\ pc' = [pc EXCEPT ![f] = "loaded"]
          /\ held' = [held EXCEPT ![f] =
                        [sid |-> s, loaded |-> before, copy |-> issued]]
          /\ store' = [store EXCEPT ![s] = IF s = r.cookie THEN @ ELSE None]
          /\ ended' = ended \ {s}
          /\ UNCHANGED answer
       \/ /\ r.op \notin SafeOps /\ ~TokenAccepted(before.csrf, r.token)
          /\ pc' = [pc EXCEPT ![f] = "answered"]
          /\ answer' = [answer EXCEPT ![f] =
                          [status |-> "csrf", set |-> {},
                           token |-> None, body |-> None]]
          /\ UNCHANGED <<held, store, ended>>
    /\ UNCHANGED <<members, browserVars, req>>

-----------------------------------------------------------------------------
(* The handlers.                                                           *)

Handles(f, ops) == pc[f] = "loaded" /\ req[f].op \in ops

\* The handler of f is done: its session, and what it will answer.
Conclude(f, session, status, set, t, body) ==
    /\ pc[f] = "loaded"
    /\ pc' = [pc EXCEPT ![f] = "ending"]
    /\ held' = [held EXCEPT ![f] = session]
    /\ answer' = [answer EXCEPT ![f] = [status |-> status, set |-> set,
                                        token |-> t, body |-> body]]
    /\ UNCHANGED <<browserVars, req>>

\* The handler answers body, its session being the copy s.
Reply(f, s, body) ==
    Conclude(f, [held[f] EXCEPT !.copy = s], "ok", {}, s.csrf, body)

(* GET /me *)
Me(f) ==
    LET s == held[f].copy IN
    /\ Handles(f, {"me"})
    /\ Reply(f, s, s.user)
    /\ UNCHANGED <<store, members, ended>>

\* Mutants: the session is kept; the new one inherits its tenant.
LoginKeepsSession(f) ==
    LET s == [held[f].copy EXCEPT !.user = req[f].arg] IN
    /\ Handles(f, {"login"})
    /\ Reply(f, s, None)
    /\ UNCHANGED <<store, members, ended>>

LoginInheritsTenant(f) ==
    LET n == FreshSid
        s == [user |-> req[f].arg, tenant |-> held[f].copy.tenant,
              csrf |-> n] IN
    /\ Handles(f, {"login"}) /\ IdLeft
    /\ Conclude(f, [sid |-> n, loaded |-> NewSession, copy |-> s], "ok", {},
                n, None)
    /\ store' = [store EXCEPT ![held[f].sid] = None, ![n] = None]
    /\ ended' = ended \ {n}
    /\ UNCHANGED members

(* POST /login, /signup: the password was right; the session is            *)
(* regenerated, that is destroyed and made anew under another id.          *)
Login(f) ==
    LET n == FreshSid
        s == [user |-> req[f].arg, tenant |-> None, csrf |-> n] IN
    /\ Handles(f, {"login"}) /\ IdLeft
    /\ Conclude(f, [sid |-> n, loaded |-> NewSession, copy |-> s], "ok", {},
                n, None)
    /\ store' = [store EXCEPT ![held[f].sid] = None, ![n] = None]
    /\ ended' = ended \ {n}
    /\ UNCHANGED members

\* Mutant: the cookie is cleared, the session lives on.
LogoutClearsCookie(f) ==
    /\ Handles(f, {"logout"})
    /\ Conclude(f, None, "ok", {None}, None, None)
    /\ ended' = ended \cup {held[f].sid}
    /\ UNCHANGED <<store, members>>

(* POST /logout: destroySession and clearCookie. *)
Logout(f) ==
    LET s == held[f].sid IN
    /\ Handles(f, {"logout"})
    /\ Conclude(f, None, "ok", {None}, None, None)
    /\ store' = [store EXCEPT ![s] = None]
    /\ ended' = IF \E g \in Handling \ {f} : held[g].sid = s
                THEN ended ELSE ended \cup {s}
    /\ UNCHANGED members

(* GET /v1/tenants *)
ListTenants(f) ==
    LET s == held[f].copy IN
    /\ Handles(f, {"tenants"}) /\ s.user # None
    /\ Reply(f, s, [active |-> s.tenant,
                    tenants |-> {t \in Tenants : s.user \in members[t]}])
    /\ UNCHANGED <<store, members, ended>>

(* POST /v1/tenants: the caller owns the tenant, which becomes active. *)
CreateTenant(f) ==
    LET s == held[f].copy
        t == req[f].arg IN
    /\ Handles(f, {"create"}) /\ s.user # None
    /\ members[t] = {}
    /\ members' = [members EXCEPT ![t] = {s.user}]
    /\ Reply(f, [s EXCEPT !.tenant = t], t)
    /\ UNCHANGED <<store, ended>>

\* Mutant: the new tenant is answered, the session not changed.
SwitchUnsaved(f) ==
    LET s == held[f].copy
        t == req[f].arg IN
    /\ Handles(f, {"switch"}) /\ s.user # None
    /\ s.user \in members[t]
    /\ Reply(f, s, t)
    /\ UNCHANGED <<store, members, ended>>

(* POST /v1/tenants/:tenantId/switch, for a member *)
Switch(f) ==
    LET s == held[f].copy
        t == req[f].arg IN
    /\ Handles(f, {"switch"}) /\ s.user # None
    /\ s.user \in members[t]
    /\ Reply(f, [s EXCEPT !.tenant = t], t)
    /\ UNCHANGED <<store, members, ended>>

(* Requests scoped to the session's active tenant, and those that name the *)
(* tenant in their path: reads and writes of a tenant's data, by a member. *)
TenantOf(f) == IF req[f].op \in {"listOf", "writeOf"} THEN req[f].arg
               ELSE held[f].copy.tenant

Access(f) ==
    LET s == held[f].copy
        t == TenantOf(f) IN
    /\ Handles(f, {"list", "listOf", "write", "writeOf"})
    /\ s.user # None /\ t # None
    /\ s.user \in members[t]
    /\ Conclude(f, held[f], "ok", {}, None, t)
    /\ UNCHANGED <<store, members, ended>>

(* Every handler has error answers that leave the session as it was loaded *)
(* (wrong password, no permission, over quota, rate limited, a 500).       *)
Refuse(f) ==
    /\ Conclude(f, held[f], "refused", {}, None, None)
    /\ UNCHANGED <<store, members, ended>>

(* The response ends: a changed copy is saved whole, and its cookie set.   *)
End(f) ==
    LET h == held[f]
        saved == h # None /\ h.copy # h.loaded IN
    /\ pc[f] = "ending"
    /\ pc' = [pc EXCEPT ![f] = "answered"]
    /\ store' = IF saved THEN [store EXCEPT ![h.sid] = h.copy] ELSE store
    /\ answer' = IF saved THEN [answer EXCEPT ![f].set = {h.sid}] ELSE answer
    /\ held' = [held EXCEPT ![f] = None]
    /\ UNCHANGED <<members, ended, browserVars, req>>

Serve(f) ==
    \/ Load(f) \/ Me(f) \/ Login(f) \/ Logout(f) \/ ListTenants(f)
    \/ CreateTenant(f) \/ Switch(f) \/ Access(f) \/ Refuse(f) \/ End(f)

-----------------------------------------------------------------------------
(* The browser.                                                            *)

\* The page sends a request, with the cookie and the token of that moment.
Send(f, op, arg) ==
    /\ pc' = [pc EXCEPT ![f] = "sent"]
    /\ req' = [req EXCEPT ![f] = [op |-> op, arg |-> arg, cookie |-> cookie',
                                  token |-> token']]

Rest(f) ==
    /\ pc' = [pc EXCEPT ![f] = "idle"]
    /\ req' = [req EXCEPT ![f] = None]

\* The browser takes the cookie of an answer, the page its token.
TakeCookie(a) ==
    cookie' = IF a.set = {} THEN cookie ELSE CHOOSE c \in a.set : TRUE
TakeToken(a) == token' = IF a.token = None THEN token ELSE a.token

-----------------------------------------------------------------------------
SessionTypeOK ==
    /\ store \in [Sids -> Session \cup {None}]
    /\ members \in [Tenants -> SUBSET Users]
    /\ cookie \in Sids \cup {None} /\ token \in Sids \cup {None}
    /\ pc \in [Requests -> {"idle", "sent", "loaded", "ending", "answered"}]
    /\ req \in [Requests -> Request \cup {None}]
    /\ held \in [Requests -> Copy \cup {None}]
    /\ answer \in [Requests -> Answer \cup {None}]
    /\ ended \subseteq Sids

(* A session's user never changes while it lives, and it is made with its  *)
(* user: nobody is ever logged in under an id that was handed out before   *)
(* the login, however requests overlap.                                    *)
UserFixed ==
    [][\A s \in Sids : store[s] # None /\ store'[s] # None =>
           store'[s].user = store[s].user]_sessionVars

(* The active tenant of a session, stored or in a handler's hands, is one  *)
(* its user is a member of: a login does not inherit the tenant of whoever *)
(* used the browser before, nor does a stale copy bring it back.           *)
ActiveTenantJoined ==
    \A s \in {store[t] : t \in Sids}
             \cup {held[f].copy : f \in Handling} :
        s # None /\ s.tenant # None => s.user \in members[s.tenant]

(* "invalidates session on logout": the session a logout destroyed is gone *)
(* for good.  Only a request that had loaded it before, and then changes   *)
(* its copy, brings it back; those sessions are not in "ended".            *)
LogoutFinal == \A s \in ended : store[s] = None
=============================================================================
