----------------------------- MODULE WebClient -----------------------------
(***************************************************************************)
(* One page of the browser client (public/assets/app.js) over the server's *)
(* sessions.                                                               *)
(*                                                                         *)
(* A click starts a flow: a chain of requests, each awaited before the     *)
(* next.  Between two awaits a flow runs alone, so what it does with an    *)
(* answer and the sending of its next request are one step.  Flows run     *)
(* beside each other and apply answers in the order they arrive.  A list   *)
(* is modelled by the tenant whose rows it shows; rendering follows the    *)
(* state it reads and is left out, as are pages' activity log and forms.   *)
(*                                                                         *)
(* The page is reloaded only when nothing is in flight.  Two flows that    *)
(* run side by side are the most that are modelled.                        *)
(***************************************************************************)
EXTENDS Sessions, Sequences, SequencesExt

CONSTANTS
    Pages,
    Persistent  \* bound: FALSE if the user reloads a page that is not calm

\* What each page shows: the lists refreshCurrentPageData loads, in order.
PageLists == [incidents |-> <<"incidents">>, auditLogs |-> <<"auditLogs">>,
              usage |-> <<"usage">>,
              apiKeys |-> <<"serviceAccounts", "apiKeys">>]
ASSUME PersistentAssumption == Persistent \in BOOLEAN
ASSUME PagesAssumption == Pages \subseteq DOMAIN PageLists

Lists == UNION {ToSet(PageLists[p]) : p \in Pages}
\* Lists whose URL names the tenant; the others are those of the session.
TenantLists == {"serviceAccounts", "apiKeys"}

\* The client's state.
State == [user : Users \cup {None}, active : Tenants \cup {None},
          tenants : SUBSET Tenants, shown : [Lists -> Tenants \cup {None}],
          current : Pages]
ASSUME StateAssumption == None \notin State

VARIABLES
    page,   \* the client's state, or None before the page is opened
    todo,   \* each flow's calls: the one in flight, then the rest
    calm    \* history: since the page was opened no two flows have overlapped
            \* and no request has failed

clientVars == <<page, todo, calm>>
vars == <<sessionVars, clientVars>>

\* state, as app.js initialises it
Blank(p) == [user |-> None, active |-> None, tenants |-> {},
             shown |-> [l \in Lists |-> None], current |-> p]

Clear(p, ls) == [p EXCEPT !.shown =
                   [l \in Lists |-> IF l \in ls THEN None ELSE p.shown[l]]]

LoggedIn(p) == p.user # None
Scoped(p) == p.user # None /\ p.active # None

\* The calls up to the first that needs a request: refreshTenants and the
\* refreshes of lists answer from the state itself when nobody is logged in
\* or no tenant is active.
Settle(p, calls) ==
    LET anonymous == [p EXCEPT !.tenants = {}, !.active = None]
        visible == ToSet(PageLists[p.current]) IN
    CASE calls = <<>> -> [page |-> p, todo |-> <<>>]
      [] calls # <<>> /\ Head(calls) = "tenants" /\ ~LoggedIn(p) ->
             [page |-> IF Len(calls) > 1 THEN Clear(anonymous, visible)
                       ELSE anonymous,
              todo |-> <<>>]
      [] calls # <<>> /\ Head(calls) = "page" /\ Scoped(p) ->
             [page |-> p, todo |-> PageLists[p.current]]
      [] calls # <<>> /\ Head(calls) = "page" /\ ~Scoped(p) ->
             [page |-> Clear(p, visible), todo |-> <<>>]
      [] calls # <<>> /\ Head(calls) \in Lists /\ ~Scoped(p) ->
             [page |-> Clear(p, ToSet(calls)), todo |-> <<>>]
      [] OTHER -> [page |-> p, todo |-> calls]

\* The request of a call that takes no argument from the user.
OpOf(call) == IF call \in TenantLists THEN "listOf"
              ELSE IF call \in Lists THEN "list" ELSE call

\* Flow f goes on with the given calls from the state p.
Continue(f, p, calls) ==
    LET next == Settle(p, calls) IN
    /\ page' = next.page
    /\ todo' = [todo EXCEPT ![f] = next.todo]
    /\ IF next.todo = <<>> THEN Rest(f)
       ELSE Send(f, OpOf(Head(next.todo)), next.page.active)

Quiet == \A f \in Requests : pc[f] = "idle"

Init ==
    /\ SessionInit
    /\ page = None
    /\ todo = [f \in Requests |-> <<>>]
    /\ calm = FALSE

-----------------------------------------------------------------------------
(* What the user does.                                                     *)

\* A click handled by flow f; the browser's own state is as it was.
Clicked(f) ==
    /\ pc[f] = "idle" /\ page # None
    /\ calm \/ Persistent
    /\ calm' = (calm /\ Quiet)
    /\ UNCHANGED <<serverVars, browserVars, answer>>

\* A click whose first request carries what the user entered.
Submit(f, arg, calls) ==
    /\ Clicked(f)
    /\ todo' = [todo EXCEPT ![f] = calls]
    /\ Send(f, Head(calls), arg)
    /\ UNCHANGED page

(* The page is opened, or reloaded: bootstrap. *)
Open(f, p) ==
    /\ Quiet
    /\ calm' = TRUE
    /\ token' = None
    /\ UNCHANGED <<serverVars, cookie, answer>>
    /\ Continue(f, Blank(p), <<"me", "tenants", "page">>)

(* A link to a page, the back button, or the page's refresh button. *)
Navigate(f, p) ==
    /\ Clicked(f)
    /\ Continue(f, [page EXCEPT !.current = p], <<"page">>)

LogIn(f, u) == Submit(f, u, <<"login", "me", "tenants", "page">>)

LogOut(f) == Submit(f, None, <<"logout">>)

\* Mutant: the page's data is not loaded again.
SwitchTenantOnly(f, t) ==
    /\ page # None /\ t \in page.tenants
    /\ Submit(f, t, <<"switch">>)

SwitchTenant(f, t) ==
    /\ page # None /\ t \in page.tenants
    /\ Submit(f, t, <<"switch", "page">>)

FoundTenant(f, t) ==
    /\ members[t] = {}
    /\ Submit(f, t, <<"create", "tenants", "page">>)

RefreshTenants(f) == Clicked(f) /\ Continue(f, page, <<"tenants">>)

\* requireActiveTenant, then a request, then its list again.  The incident
\* goes to the session's tenant; its arg here is the one the page shows.
CreateIncident(f) ==
    /\ page # None /\ page.current = "incidents" /\ Scoped(page)
    /\ Submit(f, page.active, <<"write", "incidents">>)

ManageKeys(f, l) ==
    /\ page # None /\ page.current = "apiKeys" /\ Scoped(page)
    /\ l \in TenantLists
    /\ Submit(f, page.active, <<"writeOf", l>>)

-----------------------------------------------------------------------------
(* What becomes of the answers.                                            *)

\* Mutant: the active tenant of a new login is not taken over.
ApplyIgnoresActive(p, call, body) ==
    CASE call = "me" -> [p EXCEPT !.user = body]
      [] call = "tenants" -> [p EXCEPT !.tenants = body.tenants]
      [] call \in {"switch", "create"} -> [p EXCEPT !.active = body]
      [] call = "logout" -> Blank(p.current)
      [] call \in Lists -> [p EXCEPT !.shown[call] = body]
      [] OTHER -> p

\* The state after a call was answered with body.
Apply(p, call, body) ==
    CASE call = "me" -> [p EXCEPT !.user = body]
      [] call = "tenants" -> [p EXCEPT !.tenants = body.tenants,
                                       !.active = body.active]
      [] call \in {"switch", "create"} -> [p EXCEPT !.active = body]
      [] call = "logout" -> Blank(p.current)
      [] call \in Lists -> [p EXCEPT !.shown[call] = body]
      [] OTHER -> p

\* The flow ends where it is: its error is shown and the state kept.
Abandon(f) ==
    /\ Rest(f)
    /\ todo' = [todo EXCEPT ![f] = <<>>]
    /\ calm' = FALSE
    /\ UNCHANGED page

Receive(f) ==
    LET a == answer[f] IN
    /\ pc[f] = "answered"
    /\ TakeCookie(a)
    /\ answer' = [answer EXCEPT ![f] = None]
    /\ IF a.status = "ok"
       THEN /\ TakeToken(a)
            /\ Continue(f, Apply(page, Head(todo[f]), a.body), Tail(todo[f]))
            /\ UNCHANGED calm
       ELSE Abandon(f) /\ UNCHANGED token
    /\ UNCHANGED serverVars

(* The network fails: the request or its answer is lost, fetch throws. *)
Lose(f) ==
    /\ pc[f] \in {"sent", "answered"}
    /\ answer' = [answer EXCEPT ![f] = None]
    /\ Abandon(f)
    /\ UNCHANGED <<serverVars, browserVars>>

Click(f) ==
    \/ \E p \in Pages : Open(f, p) \/ Navigate(f, p)
    \/ \E u \in Users : LogIn(f, u)
    \/ \E t \in Tenants : SwitchTenant(f, t) \/ FoundTenant(f, t)
    \/ \E l \in Lists : ManageKeys(f, l)
    \/ LogOut(f) \/ RefreshTenants(f) \/ CreateIncident(f)

Next ==
    \E f \in Requests :
        \/ Click(f) \/ Receive(f) \/ Lose(f)
        \/ Serve(f) /\ UNCHANGED clientVars

Spec == Init /\ [][Next]_vars

-----------------------------------------------------------------------------
TypeOK ==
    /\ SessionTypeOK
    /\ page \in State \cup {None}
    /\ \A f \in Requests : Len(todo[f]) <= 4
    /\ calm \in BOOLEAN

(* As long as flows have not overlapped and no request has failed, the     *)
(* page at rest tells the truth: it names the user and the tenant of the   *)
(* session its cookie stands for.                                          *)
PageTellsSession ==
    calm /\ Quiet =>
        LET s == IF Known(cookie) THEN store[cookie] ELSE NewSession IN
        page.user = s.user /\ page.active = s.tenant

(* "No audit events in active tenant.", "No API keys for active tenant.":  *)
(* under the same conditions every list in view is the active tenant's.    *)
(* (A flow beside it, or a refresh refused after a switch, leaves the list *)
(* of the tenant before under the name of the new one.)                    *)
ListsOfActiveTenant ==
    calm /\ Quiet =>
        \A l \in ToSet(PageLists[page.current]) : page.shown[l] = page.active

(* An incident is filed in the tenant the page showed when it was          *)
(* submitted, though the request does not name it.                         *)
FiledWhereShown ==
    \A f \in Requests :
        calm /\ pc[f] = "answered" /\ req[f].op = "write"
            /\ answer[f].status = "ok" => answer[f].body = req[f].arg

(* "Use GET /v1/auth/me first to establish a session and get csrfToken":   *)
(* a calm page is never refused a login for its token.  It is after a      *)
(* logout: the page keeps the token of the session that is gone and makes  *)
(* no request that would give it another until it is reloaded.             *)
LoginServed ==
    \A f \in Requests :
        calm /\ pc[f] = "answered" /\ req[f].op = "login" =>
            answer[f].status # "csrf"
=============================================================================
