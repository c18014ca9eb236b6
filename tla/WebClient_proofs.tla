-------------------------- MODULE WebClient_proofs --------------------------
(***************************************************************************)
(* Proofs about WebClient and, beneath it, Sessions, for any number of     *)
(* requests, users, tenants and session ids.                               *)
(*                                                                         *)
(* Three invariants, each used by the next.  TypeInv types the variables   *)
(* and what each flow is waiting for.  SessionInv is about the server: an  *)
(* active tenant is joined, copies of one session are of one user, nobody  *)
(* holds a session that was logged out.  PageInv is about a calm page: it  *)
(* already agrees, but for the calls it has yet to make, with the session  *)
(* the browser will have when the request in flight is answered.           *)
(***************************************************************************)
EXTENDS WebClient, TLAPS

-----------------------------------------------------------------------------
(* The chains of calls a flow can have before it.                          *)
Bootstrap == <<"me", "tenants", "page">>
Chains ==
    {<<>>, Bootstrap, <<"tenants", "page">>, <<"page">>, <<"tenants">>,
     <<"login", "me", "tenants", "page">>, <<"logout">>, <<"switch", "page">>,
     <<"create", "tenants", "page">>}
    \cup {PageLists[p] : p \in Pages} \cup {<<l>> : l \in Lists}
    \cup {<<"write", l>> : l \in Lists} \cup {<<"writeOf", l>> : l \in Lists}

ListNames == {"incidents", "auditLogs", "usage", "serviceAccounts", "apiKeys"}

LEMMA ListChain ==
    ASSUME NEW p \in Pages
    PROVE  \/ \E l \in Lists \cap ListNames : PageLists[p] = <<l>>
           \/ /\ PageLists[p] = <<"serviceAccounts", "apiKeys">>
              /\ {"serviceAccounts", "apiKeys"} \subseteq Lists
  <1>1. p \in {"incidents", "auditLogs", "usage", "apiKeys"}
    BY PagesAssumption DEF PageLists
  <1>2. ToSet(PageLists[p]) \subseteq Lists
    BY DEF Lists
  <1>3. CASE p # "apiKeys"
    <2>1. PageLists[p] = <<p>>
      BY <1>1, <1>3 DEF PageLists
    <2>2. p \in ToSet(PageLists[p])
      BY <2>1 DEF ToSet
    <2>3. QED
      BY <1>1, <1>2, <2>1, <2>2 DEF ListNames
  <1>4. CASE p = "apiKeys"
    <2>1. PageLists[p] = <<"serviceAccounts", "apiKeys">>
      BY <1>4 DEF PageLists
    <2>2. {"serviceAccounts", "apiKeys"} \subseteq ToSet(PageLists[p])
      BY <2>1 DEF ToSet
    <2>3. QED
      BY <1>2, <2>1, <2>2
  <1>5. QED
    BY <1>3, <1>4

LEMMA ListsNamed == Lists \subseteq ListNames
  <1> SUFFICES ASSUME NEW p \in Pages, NEW l \in ToSet(PageLists[p])
               PROVE  l \in ListNames
    BY DEF Lists
  <1>1. CASE PageLists[p] = <<"serviceAccounts", "apiKeys">>
    BY <1>1 DEF ToSet, ListNames
  <1>2. ASSUME NEW m \in ListNames, PageLists[p] = <<m>>
        PROVE  l \in ListNames
    BY <1>2 DEF ToSet
  <1>3. QED
    BY <1>1, <1>2, ListChain

(* What comes first in a chain, and what is left after it.                 *)
LEMMA ChainSteps ==
    ASSUME NEW c \in Chains, c # <<>>
    PROVE  /\ Tail(c) \in Chains
           /\ \/ Head(c) = "me" /\ Tail(c) = <<"tenants", "page">>
              \/ Head(c) = "tenants" /\ Len(c) = 2 /\ Tail(c) = <<"page">>
              \/ Head(c) = "tenants" /\ c = <<"tenants">> /\ Tail(c) = <<>>
              \/ Head(c) = "page" /\ Tail(c) = <<>>
              \/ Head(c) = "login" /\ Tail(c) = Bootstrap
              \/ Head(c) = "logout" /\ Tail(c) = <<>>
              \/ Head(c) = "switch" /\ Tail(c) = <<"page">>
              \/ Head(c) = "create" /\ Tail(c) = <<"tenants", "page">>
              \/ \E l \in Lists : /\ c = <<"write", l>>
                                  /\ Head(c) = "write" /\ Tail(c) = <<l>>
              \/ \E l \in Lists : /\ c = <<"writeOf", l>>
                                  /\ Head(c) = "writeOf" /\ Tail(c) = <<l>>
              \/ Head(c) \in Lists /\ Tail(c) = <<>> /\ c = <<Head(c)>>
              \/ /\ c = <<"serviceAccounts", "apiKeys">>
                 /\ Head(c) = "serviceAccounts" /\ Tail(c) = <<"apiKeys">>
                 /\ Head(c) \in Lists /\ "apiKeys" \in Lists
           /\ Len(c) \in 1 .. 4
  <1> USE DEF Chains, Bootstrap
  <1>1. CASE c = Bootstrap
    BY <1>1
  <1>2. CASE c = <<"tenants", "page">>
    BY <1>2
  <1>3. CASE c = <<"page">>
    BY <1>3
  <1>4. CASE c = <<"tenants">>
    BY <1>4
  <1>5. CASE c = <<"login", "me", "tenants", "page">>
    BY <1>5
  <1>6. CASE c = <<"logout">>
    BY <1>6
  <1>7. CASE c = <<"switch", "page">>
    BY <1>7
  <1>8. CASE c = <<"create", "tenants", "page">>
    BY <1>8
  <1>9. ASSUME NEW l \in Lists, c = <<l>>
        PROVE  /\ Head(c) = l /\ Tail(c) = <<>> /\ Len(c) = 1
               /\ c = <<Head(c)>> /\ Tail(c) \in Chains
    BY <1>9
  <1>10. ASSUME NEW l \in Lists, c = <<"write", l>>
         PROVE  /\ c = <<"write", l>>
                /\ Head(c) = "write" /\ Tail(c) = <<l>> /\ Len(c) = 2
                /\ Tail(c) \in Chains
    BY <1>10
  <1>11. ASSUME NEW l \in Lists, c = <<"writeOf", l>>
         PROVE  /\ c = <<"writeOf", l>>
                /\ Head(c) = "writeOf" /\ Tail(c) = <<l>> /\ Len(c) = 2
                /\ Tail(c) \in Chains
    BY <1>11
  <1>12. ASSUME c = <<"serviceAccounts", "apiKeys">>,
                {"serviceAccounts", "apiKeys"} \subseteq Lists
         PROVE  /\ Head(c) = "serviceAccounts" /\ Tail(c) = <<"apiKeys">>
                /\ Len(c) = 2 /\ Tail(c) \in Chains
    BY <1>12
  <1>13. \/ c \in {Bootstrap, <<"tenants", "page">>, <<"page">>, <<"tenants">>,
                   <<"login", "me", "tenants", "page">>, <<"logout">>,
                   <<"switch", "page">>, <<"create", "tenants", "page">>}
         \/ \E p \in Pages : c = PageLists[p]
         \/ \E l \in Lists : c \in {<<l>>, <<"write", l>>, <<"writeOf", l>>}
    OBVIOUS
  <1> HIDE DEF Chains, Bootstrap
  <1>14. CASE \E p \in Pages : c = PageLists[p]
    BY <1>9, <1>12, <1>14, ListChain
  <1>15. CASE \E l \in Lists : c \in {<<l>>, <<"write", l>>, <<"writeOf", l>>}
    BY <1>9, <1>10, <1>11, <1>15
  <1>16. QED
    BY <1>1, <1>2, <1>3, <1>4, <1>5, <1>6, <1>7, <1>8, <1>13, <1>14, <1>15

-----------------------------------------------------------------------------
(* The chains a flow goes on with after an answer, all of GET requests.    *)
Rests ==
    {<<>>, Bootstrap, <<"tenants", "page">>, <<"page">>, <<"tenants">>}
    \cup {PageLists[p] : p \in Pages} \cup {<<l>> : l \in Lists}

LEMMA RestsChains == Rests \subseteq Chains
  BY DEF Rests, Chains

LEMMA ListRests == \A p \in Pages : PageLists[p] \in Rests
  BY DEF Rests

LEMMA TailRests ==
    ASSUME NEW c \in Chains, c # <<>>
    PROVE  Tail(c) \in Rests
  <1>1. /\ \A l \in Lists : <<l>> \in Rests
        /\ {<<>>, Bootstrap, <<"tenants", "page">>, <<"page">>, <<"tenants">>}
             \subseteq Rests
    BY DEF Rests
  <1>2. QED
    BY <1>1, ChainSteps

LEMMA ListHead ==
    ASSUME NEW p \in Pages
    PROVE  PageLists[p] # <<>> /\ Head(PageLists[p]) \in Lists
  <1>1. CASE /\ PageLists[p] = <<"serviceAccounts", "apiKeys">>
             /\ "serviceAccounts" \in Lists
    BY <1>1
  <1>2. ASSUME NEW l \in Lists, PageLists[p] = <<l>>
        PROVE  PageLists[p] # <<>> /\ Head(PageLists[p]) = l
    BY <1>2
  <1>3. QED
    BY <1>1, <1>2, ListChain

LEMMA RestHeads ==
    ASSUME NEW c \in Rests, c # <<>>
    PROVE  Head(c) \in {"me", "tenants", "page"} \cup Lists
  <1>1. c \in Chains
    BY RestsChains
  <1>2. CASE c \in {Bootstrap, <<"tenants", "page">>, <<"page">>, <<"tenants">>}
    BY <1>2 DEF Bootstrap
  <1>3. CASE \E p \in Pages : c = PageLists[p]
    BY <1>3, ListHead
  <1>4. ASSUME NEW l \in Lists, c = <<l>>
        PROVE  Head(c) = l
    BY <1>4
  <1>5. QED
    BY <1>2, <1>3, <1>4 DEF Rests

(* Settle, one case at a time.                                             *)
LEMMA SettleCases ==
    ASSUME NEW p, NEW c
    PROVE  /\ c = <<>> => Settle(p, c) = [page |-> p, todo |-> <<>>]
           /\ c # <<>> /\ Head(c) = "tenants" /\ ~LoggedIn(p) =>
                Settle(p, c) =
                  [page |-> IF Len(c) > 1
                            THEN Clear([p EXCEPT !.tenants = {},
                                                 !.active = None],
                                       ToSet(PageLists[p.current]))
                            ELSE [p EXCEPT !.tenants = {}, !.active = None],
                   todo |-> <<>>]
           /\ c # <<>> /\ Head(c) = "page" /\ Scoped(p) =>
                Settle(p, c) = [page |-> p, todo |-> PageLists[p.current]]
           /\ c # <<>> /\ Head(c) = "page" /\ ~Scoped(p) =>
                Settle(p, c) =
                  [page |-> Clear(p, ToSet(PageLists[p.current])),
                   todo |-> <<>>]
           /\ c # <<>> /\ Head(c) \in Lists /\ ~Scoped(p) =>
                Settle(p, c) = [page |-> Clear(p, ToSet(c)), todo |-> <<>>]
           /\ /\ c # <<>> /\ Head(c) # "page"
              /\ ~(Head(c) = "tenants" /\ ~LoggedIn(p))
              /\ ~(Head(c) \in Lists /\ ~Scoped(p))
              => Settle(p, c) = [page |-> p, todo |-> c]
  <1>1. "tenants" \notin Lists /\ "page" \notin Lists
    BY ListsNamed DEF ListNames
  <1> DEFINE h == Head(c)
             tenants == c # <<>> /\ h = "tenants" /\ ~LoggedIn(p)
             scoped == c # <<>> /\ h = "page" /\ Scoped(p)
             unscoped == c # <<>> /\ h = "page" /\ ~Scoped(p)
             list == c # <<>> /\ h \in Lists /\ ~Scoped(p)
  <1>2. c = <<>> => ~tenants /\ ~scoped /\ ~unscoped /\ ~list
    OBVIOUS
  <1>3. /\ tenants => c # <<>> /\ ~scoped /\ ~unscoped /\ ~list
        /\ scoped => c # <<>> /\ ~tenants /\ ~unscoped /\ ~list
        /\ unscoped => c # <<>> /\ ~tenants /\ ~scoped /\ ~list
        /\ list => c # <<>> /\ ~tenants /\ ~scoped /\ ~unscoped
    BY <1>1
  <1>4. CASE c = <<>>
    BY <1>2, <1>4 DEF Settle
  <1>5. CASE tenants
    BY <1>3, <1>5 DEF Settle
  <1>6. CASE scoped
    BY <1>3, <1>6 DEF Settle
  <1>7. CASE unscoped
    BY <1>3, <1>7 DEF Settle
  <1>8. CASE list
    BY <1>3, <1>8 DEF Settle
  <1>9. CASE c # <<>> /\ ~tenants /\ ~scoped /\ ~unscoped /\ ~list
    BY <1>9 DEF Settle
  <1>10. QED
    BY <1>4, <1>5, <1>6, <1>7, <1>8, <1>9

LEMMA ClearState ==
    ASSUME NEW p \in State, NEW ls
    PROVE  /\ Clear(p, ls) \in State
           /\ Clear(p, ls).user = p.user /\ Clear(p, ls).active = p.active
           /\ Clear(p, ls).current = p.current
           /\ \A l \in Lists : Clear(p, ls).shown[l] =
                                 IF l \in ls THEN None ELSE p.shown[l]
  BY DEF Clear, State

LEMMA BlankState ==
    ASSUME NEW q \in Pages
    PROVE  /\ Blank(q) \in State
           /\ Blank(q).user = None /\ Blank(q).active = None
           /\ Blank(q).current = q
           /\ \A l \in Lists : Blank(q).shown[l] = None
  BY DEF Blank, State

(* Where a flow stands after Settle: at its end, or before a GET request   *)
(* which, if it is for a list, is made for a user in a tenant.             *)
Ready(n) ==
    /\ n.page \in State
    /\ n.todo \in Rests
    /\ n.todo # <<>> =>
         /\ Head(n.todo) \in {"me", "tenants"} \cup Lists
         /\ Head(n.todo) \in Lists => Scoped(n.page)

LEMMA SettleType ==
    ASSUME NEW p \in State, NEW c \in Rests
    PROVE  Ready(Settle(p, c))
  <1>0. PICK n : n = Settle(p, c)
    OBVIOUS
  <1> SUFFICES Ready(n)
    BY <1>0
  <1> USE DEF Ready
  <1>1. "tenants" \notin Lists /\ "page" \notin Lists /\ "me" \notin Lists
    BY ListsNamed DEF ListNames
  <1>2. p.current \in Pages
    BY DEF State
  <1>3. <<>> \in Rests /\ PageLists[p.current] \in Rests
    BY <1>2 DEF Rests
  <1>4. [p EXCEPT !.tenants = {}, !.active = None] \in State
    BY DEF State
  <1>5. CASE c = <<>>
    <2>1. Settle(p, c) = [page |-> p, todo |-> <<>>]
      BY <1>5, SettleCases
    <2>2. QED
      BY <1>0, <1>3, <2>1
  <1>6. CASE c # <<>> /\ Head(c) = "tenants" /\ ~LoggedIn(p)
    <2>1. Clear([p EXCEPT !.tenants = {}, !.active = None],
                ToSet(PageLists[p.current])) \in State
      BY <1>4, ClearState
    <2>2. Settle(p, c) =
            [page |-> IF Len(c) > 1
                      THEN Clear([p EXCEPT !.tenants = {}, !.active = None],
                                 ToSet(PageLists[p.current]))
                      ELSE [p EXCEPT !.tenants = {}, !.active = None],
             todo |-> <<>>]
      BY <1>6, SettleCases
    <2>3. QED
      BY <1>0, <1>3, <1>4, <2>1, <2>2
  <1>7. CASE c # <<>> /\ Head(c) = "page" /\ Scoped(p)
    <2>1. Settle(p, c) = [page |-> p, todo |-> PageLists[p.current]]
      BY <1>7, SettleCases
    <2>2. QED
      BY <1>0, <1>2, <1>3, <1>7, <2>1, ListHead
  <1>8. CASE c # <<>> /\ Head(c) = "page" /\ ~Scoped(p)
    <2>1. Settle(p, c) = [page |-> Clear(p, ToSet(PageLists[p.current])),
                          todo |-> <<>>]
      BY <1>8, SettleCases
    <2>2. QED
      BY <1>0, <1>3, <2>1, ClearState
  <1>9. CASE c # <<>> /\ Head(c) \in Lists /\ ~Scoped(p)
    <2>1. Settle(p, c) = [page |-> Clear(p, ToSet(c)), todo |-> <<>>]
      BY <1>9, SettleCases
    <2>2. QED
      BY <1>0, <1>3, <2>1, ClearState
  <1>10. CASE /\ c # <<>> /\ Head(c) # "page"
              /\ ~(Head(c) = "tenants" /\ ~LoggedIn(p))
              /\ ~(Head(c) \in Lists /\ ~Scoped(p))
    <2>1. Settle(p, c) = [page |-> p, todo |-> c]
      BY <1>10, SettleCases
    <2>2. QED
      BY <1>0, <1>1, <1>10, <2>1, RestHeads
  <1>11. QED
    BY <1>5, <1>6, <1>7, <1>8, <1>9, <1>10

-----------------------------------------------------------------------------
(* Types, and what each flow's place says of its request and answer.       *)
ArgOK(r) ==
    /\ r.op = "login" => r.arg \in Users
    /\ r.op \in {"create", "switch", "listOf", "write", "writeOf"} =>
         r.arg \in Tenants

BodyOK(op, b) ==
    /\ op = "me" => b \in Users \cup {None}
    /\ op = "tenants" => b \in Memberships
    /\ op \in {"create", "switch", "list", "listOf"} => b \in Tenants

FlowOK(f) ==
    /\ todo[f] \in Chains
    /\ pc[f] # "idle" =>
         /\ req[f] \in Request /\ ArgOK(req[f])
         /\ todo[f] # <<>> /\ Head(todo[f]) # "page"
         /\ req[f].op = OpOf(Head(todo[f]))
         /\ page # None
    /\ IF pc[f] = "loaded" THEN held[f] \in Copy
       ELSE pc[f] # "ending" => held[f] = None
    /\ pc[f] \in {"ending", "answered"} =>
         /\ answer[f] \in Answer
         /\ answer[f].status = "ok" => BodyOK(req[f].op, answer[f].body)

TypeInv ==
    /\ SessionTypeOK
    /\ page \in State \cup {None}
    /\ calm \in BOOLEAN
    /\ todo = [f \in Requests |-> todo[f]]
    /\ \A f \in Requests : FlowOK(f)

LEMMA ChainLen == \A c \in Chains : Len(c) <= 4
  <1> SUFFICES ASSUME NEW c \in Chains
               PROVE  Len(c) <= 4
    OBVIOUS
  <1>1. c = <<>> => Len(c) <= 4
    OBVIOUS
  <1>2. c # <<>> => Len(c) \in 1 .. 4
    BY ChainSteps
  <1>3. \A n \in 1 .. 4 : n <= 4
    OBVIOUS
  <1>4. QED
    BY <1>1, <1>2, <1>3

LEMMA TypeInvImplies == TypeInv => TypeOK
  BY ChainLen DEF TypeInv, TypeOK, FlowOK

LEMMA InitType == Init => TypeInv
  <1> SUFFICES ASSUME Init
               PROVE  TypeInv
    OBVIOUS
  <1> USE DEF Init, SessionInit
  <1>1. SessionTypeOK
    BY FoundersAssumption DEF SessionTypeOK
  <1>2. ASSUME NEW f \in Requests
        PROVE  FlowOK(f)
    BY DEF FlowOK, Chains
  <1>3. todo = [f \in Requests |-> todo[f]]
    OBVIOUS
  <1>4. QED
    BY <1>1, <1>2, <1>3 DEF TypeInv

(* A flow is not disturbed by what another does.                           *)
LEMMA FlowFrame ==
    ASSUME NEW g \in Requests, FlowOK(g), page # None => page' # None,
           pc'[g] = pc[g], req'[g] = req[g], todo'[g] = todo[g],
           held'[g] = held[g], answer'[g] = answer[g]
    PROVE  FlowOK(g)'
  BY DEF FlowOK

(* An id that is free is in nobody's hands.                                *)
LEMMA Fresh ==
    ASSUME IdLeft
    PROVE  /\ FreshSid \in Sids /\ FreshSid # cookie /\ FreshSid # token
           /\ \A g \in Requests :
                /\ req[g] # None => req[g].cookie # FreshSid
                /\ held[g] # None => held[g].sid # FreshSid
                /\ answer[g] # None => FreshSid \notin answer[g].set
  <1> DEFINE n == FreshSid
  <1>1. n \in Sids \ Reachable
    BY DEF FreshSid, IdLeft
  <1>2. n # None
    BY <1>1, NoneAssumption
  <1> HIDE DEF n
  <1>3. /\ n # cookie /\ n # token
        /\ n \notin UNION {{req[f].cookie, req[f].token} : f \in Sending}
        /\ n \notin {held[f].sid : f \in Handling}
        /\ n \notin UNION {answer[f].set \cup {answer[f].token} :
                             f \in Answering}
    BY <1>1, <1>2 DEF Reachable
  <1>4. ASSUME NEW g \in Requests, req[g] # None
        PROVE  req[g].cookie # n
    <2>1. req[g].cookie \in {req[g].cookie, req[g].token}
      OBVIOUS
    <2>2. g \in Sending
      BY <1>4 DEF Sending
    <2>3. QED
      BY <1>3, <2>1, <2>2
  <1>5. ASSUME NEW g \in Requests, held[g] # None
        PROVE  held[g].sid # n
    BY <1>3, <1>5 DEF Handling
  <1>6. ASSUME NEW g \in Requests, answer[g] # None
        PROVE  n \notin answer[g].set
    <2>1. g \in Answering
      BY <1>6 DEF Answering
    <2>2. QED
      BY <1>3, <2>1
  <1>7. QED
    BY <1>1, <1>3, <1>4, <1>5, <1>6 DEF n

LEMMA FrameOthers ==
    ASSUME TypeInv, NEW f \in Requests, page # None => page' # None,
           \A g \in Requests \ {f} :
             /\ pc'[g] = pc[g] /\ req'[g] = req[g] /\ todo'[g] = todo[g]
             /\ held'[g] = held[g] /\ answer'[g] = answer[g],
           FlowOK(f)'
    PROVE  \A g \in Requests : FlowOK(g)'
  BY FlowFrame DEF TypeInv

-----------------------------------------------------------------------------
(* Handlers.                                                               *)
LEMMA ConcludeType ==
    ASSUME TypeInv, NEW f \in Requests,
           NEW h \in Copy \cup {None}, NEW status \in {"ok", "refused"},
           NEW set \in SUBSET (Sids \cup {None}), NEW t \in Sids \cup {None},
           NEW b \in Users \cup Tenants \cup {None} \cup Memberships,
           status = "ok" => BodyOK(req[f].op, b),
           Conclude(f, h, status, set, t, b),
           UNCHANGED clientVars,
           store' \in [Sids -> Session \cup {None}],
           members' \in [Tenants -> SUBSET Users],
           ended' \subseteq Sids
    PROVE  TypeInv'
  <1>1. /\ pc[f] = "loaded" /\ pc' = [pc EXCEPT ![f] = "ending"]
        /\ held' = [held EXCEPT ![f] = h]
        /\ answer' = [answer EXCEPT ![f] = [status |-> status, set |-> set,
                                            token |-> t, body |-> b]]
        /\ cookie' = cookie /\ token' = token /\ req' = req
        /\ page' = page /\ todo' = todo /\ calm' = calm
    BY DEF Conclude, browserVars, clientVars
  <1>2. PICK a \in Answer : a = [status |-> status, set |-> set,
                                 token |-> t, body |-> b]
    BY DEF Answer
  <1>3. a.status = "ok" => BodyOK(req[f].op, a.body)
    BY <1>2
  <1>4. SessionTypeOK'
    BY <1>1, <1>2 DEF TypeInv, SessionTypeOK
  <1>5. /\ pc'[f] = "ending" /\ held'[f] = h /\ answer'[f] = a
        /\ \A g \in Requests \ {f} : /\ pc'[g] = pc[g] /\ held'[g] = held[g]
                                     /\ answer'[g] = answer[g]
    BY <1>1, <1>2 DEF TypeInv, SessionTypeOK
  <1>6. FlowOK(f)'
    BY <1>1, <1>3, <1>5 DEF TypeInv, FlowOK
  <1>7. \A g \in Requests : FlowOK(g)'
    BY <1>1, <1>5, <1>6, FrameOthers
  <1>8. QED
    BY <1>1, <1>4, <1>7 DEF TypeInv

-----------------------------------------------------------------------------
(* The session invariant.                                                  *)
Joined(s) == s.tenant # None => s.user \in members[s.tenant]

JoinedInv ==
    /\ \A s \in Sids : store[s] # None => Joined(store[s])
    /\ \A f \in Requests : held[f] # None => Joined(held[f].copy)

EndedInv ==
    \A s \in ended :
        /\ store[s] = None
        /\ \A f \in Requests : held[f] # None => held[f].sid # s

\* Copies of one session, and the session stored, are of one user.
UserInv ==
    \A f \in Requests : held[f] # None =>
        /\ store[held[f].sid] # None =>
             store[held[f].sid].user = held[f].copy.user
        /\ \A g \in Requests :
             held[g] # None /\ held[g].sid = held[f].sid =>
                 held[g].copy.user = held[f].copy.user

SessionInv == JoinedInv /\ EndedInv /\ UserInv

UserKept ==
    \A s \in Sids : store[s] # None /\ store'[s] # None =>
        store'[s].user = store[s].user

LEMMA InitSession == Init => SessionInv
  BY DEF Init, SessionInit, SessionInv, JoinedInv, EndedInv, UserInv

(* A handler that keeps its session, its user too.                         *)
LEMMA SessionKeep ==
    ASSUME TypeInv, SessionInv, NEW f \in Requests, NEW h \in Copy,
           pc[f] = "loaded", held' = [held EXCEPT ![f] = h],
           h.sid = held[f].sid, h.copy.user = held[f].copy.user,
           Joined(h.copy)',
           \A s \in Session : Joined(s) => Joined(s)',
           store' = store, ended' = ended
    PROVE  SessionInv' /\ UserKept
  <1>1. /\ store \in [Sids -> Session \cup {None}]
        /\ held \in [Requests -> Copy \cup {None}]
        /\ held[f] \in Copy /\ held[f] # None /\ h # None
    BY NoneAssumption DEF TypeInv, SessionTypeOK, FlowOK
  <1>2. /\ held'[f] = h
        /\ \A g \in Requests \ {f} : held'[g] = held[g]
    BY <1>1
  <1>3. JoinedInv'
    <2>1. ASSUME NEW s \in Sids, store'[s] # None
          PROVE  Joined(store[s])'
      BY <1>1, <2>1 DEF SessionInv, JoinedInv
    <2>2. ASSUME NEW g \in Requests, held'[g] # None
          PROVE  Joined(held[g].copy)'
      <3>1. CASE g = f
        BY <1>2, <3>1 DEF Joined
      <3>2. CASE g # f
        <4>1. held'[g] = held[g] /\ held[g] \in Copy
          BY <1>1, <1>2, <2>2, <3>2
        <4>2. PICK s \in Session : s = held[g].copy
          BY <4>1 DEF Copy
        <4>3. Joined(s)
          BY <2>2, <4>1, <4>2 DEF SessionInv, JoinedInv
        <4>4. Joined(s)'
          BY <4>3
        <4>5. QED
          BY <4>1, <4>2, <4>4 DEF Joined
      <3>3. QED
        BY <3>1, <3>2
    <2>3. QED
      BY <2>1, <2>2 DEF JoinedInv
  <1>4. EndedInv'
    BY <1>1, <1>2 DEF SessionInv, EndedInv
  <1>5. UserInv'
    BY <1>1, <1>2 DEF SessionInv, UserInv
  <1>6. UserKept
    BY DEF UserKept
  <1>7. QED
    BY <1>3, <1>4, <1>5, <1>6 DEF SessionInv

-----------------------------------------------------------------------------
(* The handlers, one by one.                                               *)
Served == TypeInv' /\ SessionInv' /\ UserKept

(* What a handler finds.                                                   *)
LEMMA LoadedType ==
    ASSUME TypeInv, NEW f \in Requests, pc[f] = "loaded"
    PROVE  /\ held[f] \in Copy /\ held[f] # None
           /\ held[f].sid \in Sids /\ held[f].copy \in Session
           /\ held[f].copy.user \in Users \cup {None}
           /\ held[f].copy.tenant \in Tenants \cup {None}
           /\ held[f].copy.csrf \in Sids \cup {None}
           /\ req[f] \in Request /\ ArgOK(req[f])
           /\ store \in [Sids -> Session \cup {None}]
           /\ members \in [Tenants -> SUBSET Users]
           /\ ended \subseteq Sids
           /\ held \in [Requests -> Copy \cup {None}]
  BY NoneAssumption DEF TypeInv, SessionTypeOK, FlowOK, Copy, Session

LEMMA CopyWith ==
    ASSUME NEW h \in Copy, NEW s \in Session
    PROVE  /\ [h EXCEPT !.copy = s] \in Copy
           /\ [h EXCEPT !.copy = s].sid = h.sid
           /\ [h EXCEPT !.copy = s].loaded = h.loaded
           /\ [h EXCEPT !.copy = s].copy = s
  BY DEF Copy

LEMMA SessionWith ==
    ASSUME NEW s \in Session, NEW t \in Tenants
    PROVE  /\ [s EXCEPT !.tenant = t] \in Session
           /\ [s EXCEPT !.tenant = t].user = s.user
           /\ [s EXCEPT !.tenant = t].tenant = t
           /\ [s EXCEPT !.tenant = t].csrf = s.csrf
  BY DEF Session

(* A handler that answers, its session a copy with the user it had.        *)
LEMMA ReplyStep ==
    ASSUME TypeInv, SessionInv, NEW f \in Requests, NEW s \in Session,
           NEW b \in Users \cup Tenants \cup {None} \cup Memberships,
           pc[f] = "loaded", BodyOK(req[f].op, b), Reply(f, s, b),
           s.user = held[f].copy.user, Joined(s)',
           \A x \in Session : Joined(x) => Joined(x)',
           members' \in [Tenants -> SUBSET Users],
           UNCHANGED <<store, ended, clientVars>>
    PROVE  Served
  <1>0. PICK c \in Copy : c = held[f]
    BY LoadedType
  <1>1. PICK h \in Copy : /\ h = [held[f] EXCEPT !.copy = s]
                          /\ h.sid = held[f].sid /\ h.copy = s
    BY <1>0, CopyWith
  <1>2. Conclude(f, h, "ok", {}, s.csrf, b)
    BY <1>1 DEF Reply
  <1>3. s.csrf \in Sids \cup {None}
    BY DEF Session
  <1>4. TypeInv'
    BY <1>2, <1>3, ConcludeType, LoadedType
  <1>5. held' = [held EXCEPT ![f] = h]
    BY <1>2 DEF Conclude
  <1>6. Joined(h.copy)'
    BY <1>1 DEF Joined
  <1>7. SessionInv' /\ UserKept
    BY <1>1, <1>5, <1>6, SessionKeep
  <1>8. QED
    BY <1>4, <1>7 DEF Served

(* The same, its session as it was.                                        *)
LEMMA LeaveStep ==
    ASSUME TypeInv, SessionInv, NEW f \in Requests,
           NEW status \in {"ok", "refused"},
           NEW b \in Users \cup Tenants \cup {None} \cup Memberships,
           status = "ok" => BodyOK(req[f].op, b),
           Conclude(f, held[f], status, {}, None, b),
           UNCHANGED <<store, members, ended, clientVars>>
    PROVE  Served
  <1>1. pc[f] = "loaded" /\ held' = [held EXCEPT ![f] = held[f]]
    BY DEF Conclude
  <1>2. TypeInv'
    BY <1>1, ConcludeType, LoadedType
  <1>3. Joined(held[f].copy)
    BY <1>1, LoadedType DEF SessionInv, JoinedInv
  <1>4. PICK h \in Copy : h = held[f]
    BY <1>1, LoadedType
  <1>5. held' = [held EXCEPT ![f] = h]
    BY <1>1, <1>4
  <1>6. Joined(h.copy)' /\ \A s \in Session : Joined(s) => Joined(s)'
    BY <1>3, <1>4 DEF Joined
  <1>7. SessionInv' /\ UserKept
    BY <1>1, <1>4, <1>5, <1>6, SessionKeep
  <1>8. QED
    BY <1>2, <1>7 DEF Served

LEMMA MeStep ==
    ASSUME TypeInv, SessionInv, NEW f \in Requests, Me(f), UNCHANGED clientVars
    PROVE  Served
  <1>1. pc[f] = "loaded" /\ req[f].op = "me"
    BY DEF Me, Handles
  <1>2. PICK s \in Session : s = held[f].copy
    BY <1>1, LoadedType
  <1>3. Reply(f, s, s.user) /\ UNCHANGED <<store, members, ended>>
    BY <1>2 DEF Me
  <1>4. Joined(s)' /\ \A x \in Session : Joined(x) => Joined(x)'
    BY <1>1, <1>2, <1>3, LoadedType DEF Joined, SessionInv, JoinedInv
  <1>5. s.user \in Users \cup {None}
    BY DEF Session
  <1>6. BodyOK(req[f].op, s.user)
    BY <1>1, <1>5 DEF BodyOK
  <1>7. QED
    BY <1>1, <1>2, <1>3, <1>4, <1>5, <1>6, ReplyStep, LoadedType

LEMMA ListTenantsStep ==
    ASSUME TypeInv, SessionInv, NEW f \in Requests, ListTenants(f),
           UNCHANGED clientVars
    PROVE  Served
  <1>1. pc[f] = "loaded" /\ req[f].op = "tenants"
    BY DEF ListTenants, Handles
  <1>2. PICK s \in Session : s = held[f].copy
    BY <1>1, LoadedType
  <1>3. PICK b \in Memberships :
           b = [active |-> s.tenant,
                tenants |-> {t \in Tenants : s.user \in members[t]}]
    BY DEF Memberships, Session
  <1>4. Reply(f, s, b) /\ UNCHANGED <<store, members, ended>>
    BY <1>2, <1>3 DEF ListTenants
  <1>5. Joined(s)' /\ \A x \in Session : Joined(x) => Joined(x)'
    BY <1>1, <1>2, <1>4, LoadedType DEF Joined, SessionInv, JoinedInv
  <1>6. BodyOK(req[f].op, b)
    BY <1>1 DEF BodyOK
  <1>7. QED
    BY <1>1, <1>2, <1>4, <1>5, <1>6, ReplyStep, LoadedType

LEMMA CreateTenantStep ==
    ASSUME TypeInv, SessionInv, NEW f \in Requests, CreateTenant(f),
           UNCHANGED clientVars
    PROVE  Served
  <1>1. pc[f] = "loaded" /\ req[f].op = "create"
    BY DEF CreateTenant, Handles
  <1>2. PICK s \in Session : s = held[f].copy
    BY <1>1, LoadedType
  <1>3. PICK t \in Tenants : t = req[f].arg
    BY <1>1, LoadedType DEF ArgOK
  <1>4. PICK n \in Session : /\ n = [s EXCEPT !.tenant = t]
                             /\ n.user = s.user /\ n.tenant = t
    BY SessionWith
  <1>5. /\ s.user # None /\ members[t] = {}
        /\ members' = [members EXCEPT ![t] = {s.user}]
        /\ Reply(f, n, t) /\ UNCHANGED <<store, ended>>
    BY <1>2, <1>3, <1>4 DEF CreateTenant
  <1>6. s.user \in Users
    BY <1>5 DEF Session
  <1>7. members' \in [Tenants -> SUBSET Users]
    BY <1>1, <1>5, <1>6, LoadedType
  <1>8. Joined(n)'
    BY <1>1, <1>4, <1>5, LoadedType DEF Joined
  <1>9. \A x \in Session : Joined(x) => Joined(x)'
    BY <1>1, <1>5, LoadedType DEF Joined, Session
  <1>10. BodyOK(req[f].op, t)
    BY <1>1 DEF BodyOK
  <1>11. QED
    BY <1>1, <1>2, <1>4, <1>5, <1>7, <1>8, <1>9, <1>10, ReplyStep

LEMMA SwitchStep ==
    ASSUME TypeInv, SessionInv, NEW f \in Requests, Switch(f),
           UNCHANGED clientVars
    PROVE  Served
  <1>1. pc[f] = "loaded" /\ req[f].op = "switch"
    BY DEF Switch, Handles
  <1>2. PICK s \in Session : s = held[f].copy
    BY <1>1, LoadedType
  <1>3. PICK t \in Tenants : t = req[f].arg
    BY <1>1, LoadedType DEF ArgOK
  <1>4. PICK n \in Session : /\ n = [s EXCEPT !.tenant = t]
                             /\ n.user = s.user /\ n.tenant = t
    BY SessionWith
  <1>5. /\ s.user \in members[t]
        /\ Reply(f, n, t) /\ UNCHANGED <<store, members, ended>>
    BY <1>2, <1>3, <1>4 DEF Switch
  <1>6. Joined(n)' /\ \A x \in Session : Joined(x) => Joined(x)'
    BY <1>4, <1>5 DEF Joined
  <1>7. BodyOK(req[f].op, t)
    BY <1>1 DEF BodyOK
  <1>8. QED
    BY <1>1, <1>2, <1>4, <1>5, <1>6, <1>7, ReplyStep, LoadedType

LEMMA AccessStep ==
    ASSUME TypeInv, SessionInv, NEW f \in Requests, Access(f),
           UNCHANGED clientVars
    PROVE  Served
  <1>1. /\ pc[f] = "loaded"
        /\ req[f].op \in {"list", "listOf", "write", "writeOf"}
        /\ TenantOf(f) # None
        /\ Conclude(f, held[f], "ok", {}, None, TenantOf(f))
        /\ UNCHANGED <<store, members, ended>>
    BY DEF Access, Handles
  <1>2. TenantOf(f) \in Tenants
    BY <1>1, LoadedType DEF TenantOf, ArgOK
  <1>3. BodyOK(req[f].op, TenantOf(f))
    BY <1>1, <1>2 DEF BodyOK
  <1>4. QED
    BY <1>1, <1>2, <1>3, LeaveStep

LEMMA RefuseStep ==
    ASSUME TypeInv, SessionInv, NEW f \in Requests, Refuse(f),
           UNCHANGED clientVars
    PROVE  Served
  BY LeaveStep DEF Refuse

-----------------------------------------------------------------------------
(* The steps that change the store.                                        *)
LEMMA LogoutStep ==
    ASSUME TypeInv, SessionInv, NEW f \in Requests, Logout(f),
           UNCHANGED clientVars
    PROVE  Served
  <1>1. /\ pc[f] = "loaded" /\ req[f].op = "logout"
        /\ Conclude(f, None, "ok", {None}, None, None)
        /\ members' = members
    BY DEF Logout, Handles
  <1>2. PICK s \in Sids : s = held[f].sid
    BY <1>1, LoadedType
  <1>3. /\ store' = [store EXCEPT ![s] = None]
        /\ \/ ended' = ended /\ \E g \in Handling \ {f} : held[g].sid = s
           \/ /\ ended' = ended \cup {s}
              /\ \A g \in Handling \ {f} : held[g].sid # s
    BY <1>2 DEF Logout
  <1>4. /\ held' = [held EXCEPT ![f] = None]
        /\ held'[f] = None
        /\ \A g \in Requests \ {f} : held'[g] = held[g]
    BY <1>1, LoadedType DEF Conclude
  <1>5. /\ store'[s] = None
        /\ \A x \in Sids \ {s} : store'[x] = store[x]
        /\ store' \in [Sids -> Session \cup {None}]
    BY <1>1, <1>3, LoadedType
  <1>6. ended' \subseteq Sids
    BY <1>1, <1>2, <1>3, LoadedType
  <1>7. TypeInv'
    <2>1. BodyOK(req[f].op, None)
      BY <1>1 DEF BodyOK
    <2>2. members' \in [Tenants -> SUBSET Users]
      BY <1>1, LoadedType
    <2>3. QED
      BY <1>1, <1>5, <1>6, <2>1, <2>2, ConcludeType
  <1>8. JoinedInv'
    BY <1>1, <1>4, <1>5 DEF SessionInv, JoinedInv, Joined
  <1>9. EndedInv'
    <2>1. ASSUME NEW x \in ended'
          PROVE  /\ store'[x] = None
                 /\ \A g \in Requests : held'[g] # None => held'[g].sid # x
      <3>1. CASE x \in ended
        <4>1. x \in Sids /\ store[x] = None
          BY <1>1, <3>1, LoadedType DEF SessionInv, EndedInv
        <4>2. QED
          BY <1>4, <1>5, <3>1, <4>1 DEF SessionInv, EndedInv
      <3>2. CASE x \notin ended
        <4>1. x = s /\ \A g \in Handling \ {f} : held[g].sid # s
          BY <1>3, <2>1, <3>2
        <4>2. QED
          BY <1>4, <1>5, <4>1 DEF Handling
      <3>3. QED
        BY <3>1, <3>2
    <2>2. QED
      BY <2>1 DEF EndedInv
  <1>10. UserInv'
    <2>1. \A g \in Requests : held[g] # None => held[g].sid \in Sids
      BY <1>1, LoadedType DEF Copy
    <2>2. QED
      BY <1>4, <1>5, <2>1 DEF SessionInv, UserInv
  <1>11. UserKept
    BY <1>5 DEF UserKept
  <1>12. QED
    BY <1>7, <1>8, <1>9, <1>10, <1>11 DEF Served, SessionInv

(* A session that is made: its id is free, so nothing was known of it.     *)
LEMMA MadeStep ==
    ASSUME TypeInv, SessionInv, NEW f \in Requests, IdLeft,
           NEW h \in Copy, h.sid = FreshSid, Joined(h.copy),
           held' = [held EXCEPT ![f] = h],
           store' \in [Sids -> Session \cup {None}],
           store'[FreshSid] = None,
           \A s \in Sids : store'[s] = None \/ store'[s] = store[s],
           ended' = ended \ {FreshSid}, members' = members
    PROVE  SessionInv' /\ UserKept
  <1>1. /\ held \in [Requests -> Copy \cup {None}] /\ ended \subseteq Sids
        /\ h # None
    BY NoneAssumption DEF TypeInv, SessionTypeOK
  <1>2. held'[f] = h /\ \A g \in Requests \ {f} : held'[g] = held[g]
    BY <1>1
  <1>3. PICK n \in Sids : n = FreshSid
    BY Fresh
  <1>4. \A g \in Requests : held[g] # None => held[g].sid # n
    BY <1>3, Fresh
  <1>5. JoinedInv'
    <2>1. ASSUME NEW s \in Sids, store'[s] # None
          PROVE  Joined(store[s])'
      BY <2>1 DEF SessionInv, JoinedInv, Joined
    <2>2. ASSUME NEW g \in Requests, held'[g] # None
          PROVE  Joined(held[g].copy)'
      BY <1>2, <2>2 DEF SessionInv, JoinedInv, Joined
    <2>3. QED
      BY <2>1, <2>2 DEF JoinedInv
  <1>6. EndedInv'
    BY <1>1, <1>2, <1>3 DEF SessionInv, EndedInv
  <1>7. UserInv'
    <2>1. \A g \in Requests : held[g] # None => held[g].sid \in Sids
      BY <1>1 DEF Copy
    <2>2. QED
      BY <1>2, <1>3, <1>4, <2>1 DEF SessionInv, UserInv
  <1>8. UserKept
    BY DEF UserKept
  <1>9. QED
    BY <1>5, <1>6, <1>7, <1>8 DEF SessionInv

LEMMA LoginStep ==
    ASSUME TypeInv, SessionInv, NEW f \in Requests, Login(f),
           UNCHANGED clientVars
    PROVE  Served
  <1>1. /\ pc[f] = "loaded" /\ req[f].op = "login" /\ IdLeft
        /\ req[f].arg \in Users /\ held[f].sid \in Sids
    BY LoadedType DEF Login, Handles, ArgOK
  <1>2. PICK n \in Sids : n = FreshSid
    BY <1>1, Fresh
  <1>3. PICK s \in Session :
           s = [user |-> req[f].arg, tenant |-> None, csrf |-> n]
    BY <1>1 DEF Session
  <1>4. NewSession \in Session
    BY DEF NewSession, Session
  <1>5. PICK h \in Copy : h = [sid |-> n, loaded |-> NewSession, copy |-> s]
    BY <1>4 DEF Copy
  <1>6. /\ Conclude(f, h, "ok", {}, n, None)
        /\ store' = [store EXCEPT ![held[f].sid] = None, ![n] = None]
        /\ ended' = ended \ {n} /\ members' = members
    BY <1>2, <1>3, <1>5 DEF Login
  <1>7. /\ store' \in [Sids -> Session \cup {None}] /\ store'[n] = None
        /\ \A x \in Sids : store'[x] = None \/ store'[x] = store[x]
    BY <1>1, <1>6, LoadedType
  <1>8. members' \in [Tenants -> SUBSET Users] /\ ended' \subseteq Sids
    BY <1>1, <1>6, LoadedType
  <1>9. BodyOK(req[f].op, None)
    BY <1>1 DEF BodyOK
  <1>10. TypeInv'
    BY <1>6, <1>7, <1>8, <1>9, ConcludeType
  <1>11. Joined(h.copy) /\ h.sid = FreshSid
    BY <1>2, <1>3, <1>5 DEF Joined
  <1>12. held' = [held EXCEPT ![f] = h]
    BY <1>6 DEF Conclude
  <1>13. SessionInv' /\ UserKept
    BY <1>1, <1>2, <1>6, <1>7, <1>11, <1>12, MadeStep
  <1>14. QED
    BY <1>10, <1>13 DEF Served

(* The session a request is given: the one its cookie names, or a new one. *)
SidFor(r) == IF Known(r.cookie) THEN r.cookie ELSE FreshSid
Stored(r) == IF Known(r.cookie) THEN store[r.cookie] ELSE NewSession
Issued(r) == IF r.op \in SafeOps /\ Stored(r).csrf = None
             THEN [Stored(r) EXCEPT !.csrf = SidFor(r)] ELSE Stored(r)

LEMMA LoadCases ==
    ASSUME NEW f \in Requests, Load(f)
    PROVE  /\ pc[f] = "sent" /\ (Known(req[f].cookie) \/ IdLeft)
           /\ members' = members /\ req' = req
           /\ cookie' = cookie /\ token' = token
           /\ \/ /\ pc' = [pc EXCEPT ![f] = "loaded"]
                 /\ held' = [held EXCEPT ![f] =
                               [sid |-> SidFor(req[f]),
                                loaded |-> Stored(req[f]),
                                copy |-> Issued(req[f])]]
                 /\ store' = [store EXCEPT ![SidFor(req[f])] =
                                IF SidFor(req[f]) = req[f].cookie THEN @
                                ELSE None]
                 /\ ended' = ended \ {SidFor(req[f])}
                 /\ answer' = answer
              \/ /\ pc' = [pc EXCEPT ![f] = "answered"]
                 /\ answer' = [answer EXCEPT ![f] =
                                 [status |-> "csrf", set |-> {},
                                  token |-> None, body |-> None]]
                 /\ held' = held /\ store' = store /\ ended' = ended
                 /\ ~(req[f].op \in SafeOps)
  BY DEF Load, SidFor, Stored, Issued, browserVars

LEMMA SentType ==
    ASSUME TypeInv, NEW f \in Requests, pc[f] = "sent"
    PROVE  /\ req[f] \in Request /\ req[f] # None /\ ArgOK(req[f])
           /\ req[f].cookie \in Sids \cup {None}
           /\ req[f].token \in Sids \cup {None}
           /\ held[f] = None
           /\ Known(req[f].cookie) =>
                /\ req[f].cookie \in Sids
                /\ store[req[f].cookie] \in Session
           /\ store \in [Sids -> Session \cup {None}]
           /\ members \in [Tenants -> SUBSET Users]
           /\ ended \subseteq Sids
           /\ held \in [Requests -> Copy \cup {None}]
  <1>1. req[f] \in Request /\ held[f] = None /\ ArgOK(req[f])
    BY DEF TypeInv, FlowOK
  <1>2. req[f].cookie \in Sids \cup {None} /\ req[f].token \in Sids \cup {None}
    BY <1>1 DEF Request
  <1>3. QED
    BY <1>1, <1>2, NoneAssumption DEF TypeInv, SessionTypeOK, Known

LEMMA StoredType ==
    ASSUME TypeInv, NEW f \in Requests, pc[f] = "sent",
           Known(req[f].cookie) \/ IdLeft
    PROVE  /\ SidFor(req[f]) \in Sids
           /\ Stored(req[f]) \in Session /\ Issued(req[f]) \in Session
           /\ Issued(req[f]).user = Stored(req[f]).user
           /\ Issued(req[f]).tenant = Stored(req[f]).tenant
  <1>1. SidFor(req[f]) \in Sids
    BY SentType, Fresh DEF SidFor
  <1>2. Stored(req[f]) \in Session
    BY SentType DEF Stored, NewSession, Session
  <1>3. PICK s \in Session : s = Stored(req[f])
    BY <1>2
  <1>4. /\ [s EXCEPT !.csrf = SidFor(req[f])] \in Session
        /\ [s EXCEPT !.csrf = SidFor(req[f])].user = s.user
        /\ [s EXCEPT !.csrf = SidFor(req[f])].tenant = s.tenant
    BY <1>1 DEF Session
  <1>5. QED
    BY <1>1, <1>3, <1>4 DEF Issued

LEMMA LoadStep ==
    ASSUME TypeInv, SessionInv, NEW f \in Requests, Load(f),
           UNCHANGED clientVars
    PROVE  Served
  <1>1. pc[f] = "sent" /\ (Known(req[f].cookie) \/ IdLeft)
    BY LoadCases
  <1>2. /\ members' = members /\ req' = req
        /\ cookie' = cookie /\ token' = token
        /\ page' = page /\ todo' = todo /\ calm' = calm
    BY LoadCases DEF clientVars
  <1>3. ASSUME pc' = [pc EXCEPT ![f] = "answered"],
               answer' = [answer EXCEPT ![f] =
                            [status |-> "csrf", set |-> {},
                             token |-> None, body |-> None]],
               held' = held, store' = store, ended' = ended
        PROVE  Served
    <2>1. PICK a \in Answer : /\ a = [status |-> "csrf", set |-> {},
                                      token |-> None, body |-> None]
                              /\ a.status = "csrf"
      <3>1. [status |-> "csrf", set |-> {}, token |-> None, body |-> None]
              \in Answer
        BY DEF Answer
      <3>2. QED
        BY <3>1
    <2>2. answer' = [answer EXCEPT ![f] = a]
      BY <1>3, <2>1
    <2>3. SessionTypeOK'
      <3>1. /\ pc' \in [Requests -> {"idle", "sent", "loaded", "ending",
                                    "answered"}]
            /\ answer' \in [Requests -> Answer \cup {None}]
        BY <1>3, <2>2 DEF TypeInv, SessionTypeOK
      <3>2. QED
        BY <1>2, <1>3, <3>1 DEF TypeInv, SessionTypeOK
    <2>4. /\ pc'[f] = "answered" /\ answer'[f] = a
          /\ \A g \in Requests \ {f} : pc'[g] = pc[g] /\ answer'[g] = answer[g]
      BY <1>3, <2>2 DEF TypeInv, SessionTypeOK
    <2>5. FlowOK(f)'
      BY <1>1, <1>2, <1>3, <2>1, <2>4 DEF TypeInv, FlowOK
    <2>6. \A g \in Requests : FlowOK(g)'
      BY <1>2, <1>3, <2>4, <2>5, FrameOthers
    <2>7. TypeInv'
      BY <1>2, <2>3, <2>6 DEF TypeInv
    <2>8. SessionInv'
      BY <1>2, <1>3
         DEF SessionInv, JoinedInv, EndedInv, UserInv, Joined
    <2>9. UserKept
      BY <1>3 DEF UserKept
    <2>10. QED
      BY <2>7, <2>8, <2>9 DEF Served
  <1>4. ASSUME NEW s \in Sids, s = SidFor(req[f]),
               pc' = [pc EXCEPT ![f] = "loaded"],
               held' = [held EXCEPT ![f] =
                          [sid |-> s, loaded |-> Stored(req[f]),
                           copy |-> Issued(req[f])]],
               store' = [store EXCEPT ![s] =
                           IF s = req[f].cookie THEN @ ELSE None],
               ended' = ended \ {s}, answer' = answer
        PROVE  Served
    <2>1. PICK h \in Copy : /\ h = [sid |-> s, loaded |-> Stored(req[f]),
                                    copy |-> Issued(req[f])]
                            /\ h.sid = s /\ h.loaded = Stored(req[f])
                            /\ h.copy = Issued(req[f])
      <3>1. [sid |-> s, loaded |-> Stored(req[f]), copy |-> Issued(req[f])]
              \in Copy
        BY <1>1, StoredType DEF Copy
      <3>2. QED
        BY <3>1
    <2>2. held' = [held EXCEPT ![f] = h]
      BY <1>4, <2>1
    <2>3. store' \in [Sids -> Session \cup {None}] /\ ended' \subseteq Sids
      BY <1>1, <1>4, SentType
    <2>4. /\ pc'[f] = "loaded" /\ held'[f] = h
          /\ \A g \in Requests \ {f} : pc'[g] = pc[g] /\ held'[g] = held[g]
      BY <1>1, <1>4, <2>2, SentType DEF TypeInv, SessionTypeOK
    <2>5. TypeInv'
      <3>1. SessionTypeOK'
        BY <1>2, <1>4, <2>2, <2>3 DEF TypeInv, SessionTypeOK
      <3>2. FlowOK(f)'
        BY <1>1, <1>2, <2>4 DEF TypeInv, FlowOK
      <3>3. \A g \in Requests : FlowOK(g)'
        BY <1>2, <1>4, <2>4, <3>2, FrameOthers
      <3>4. QED
        BY <1>2, <3>1, <3>3 DEF TypeInv
    <2>6. CASE Known(req[f].cookie)
      <3>1. /\ s = req[f].cookie /\ store[s] # None /\ store[s] \in Session
            /\ Stored(req[f]) = store[s]
        BY <1>1, <1>4, <2>6, SentType DEF SidFor, Stored, Known
      <3>2. store' = store
        BY <1>1, <1>4, <3>1, SentType
      <3>3. ended' = ended
        BY <1>4, <3>1 DEF SessionInv, EndedInv
      <3>4. h.copy.user = store[s].user /\ h.copy.tenant = store[s].tenant
        BY <1>1, <2>1, <3>1, StoredType
      <3>5. JoinedInv'
        BY <1>2, <2>4, <3>1, <3>2, <3>4 DEF SessionInv, JoinedInv, Joined
      <3>6. EndedInv'
        BY <2>1, <2>4, <3>1, <3>2, <3>3 DEF SessionInv, EndedInv
      <3>7. UserInv'
        BY <2>1, <2>4, <3>1, <3>2, <3>4 DEF SessionInv, UserInv
      <3>8. UserKept
        BY <3>2 DEF UserKept
      <3>9. QED
        BY <2>5, <3>5, <3>6, <3>7, <3>8 DEF Served, SessionInv
    <2>7. CASE ~Known(req[f].cookie)
      <3>1. IdLeft /\ s = FreshSid /\ Stored(req[f]) = NewSession
        BY <1>1, <1>4, <2>7 DEF SidFor, Stored
      <3>2. s # req[f].cookie
        BY <1>1, <3>1, Fresh, SentType
      <3>3. /\ store'[s] = None
            /\ \A x \in Sids : store'[x] = None \/ store'[x] = store[x]
        BY <1>1, <1>4, <3>2, SentType
      <3>4. h.copy.tenant = None
        BY <1>1, <2>1, <3>1, StoredType DEF NewSession
      <3>5. Joined(h.copy)
        BY <3>4 DEF Joined
      <3>6. /\ store'[FreshSid] = None /\ h.sid = FreshSid
            /\ ended' = ended \ {FreshSid} /\ members' = members
        BY <1>2, <1>4, <2>1, <3>1, <3>3
      <3>7. SessionInv' /\ UserKept
        BY <2>2, <2>3, <3>1, <3>3, <3>5, <3>6, MadeStep
      <3>8. QED
        BY <2>5, <3>7 DEF Served
    <2>8. QED
      BY <2>6, <2>7
  <1>5. SidFor(req[f]) \in Sids
    BY <1>1, StoredType
  <1>6. QED
    BY <1>3, <1>4, <1>5, LoadCases

LEMMA EndStep ==
    ASSUME TypeInv, SessionInv, NEW f \in Requests, End(f),
           UNCHANGED clientVars
    PROVE  Served
  <1> DEFINE saved == held[f] # None /\ held[f].copy # held[f].loaded
  <1>1. /\ pc[f] = "ending" /\ pc' = [pc EXCEPT ![f] = "answered"]
        /\ held' = [held EXCEPT ![f] = None]
        /\ members' = members /\ ended' = ended /\ req' = req
        /\ cookie' = cookie /\ token' = token
        /\ page' = page /\ todo' = todo /\ calm' = calm
    BY DEF End, browserVars, clientVars
  <1>2. /\ saved => /\ store' = [store EXCEPT ![held[f].sid] = held[f].copy]
                    /\ answer' = [answer EXCEPT ![f].set = {held[f].sid}]
        /\ ~saved => store' = store /\ answer' = answer
    BY DEF End
  <1> HIDE DEF saved
  <1>3. /\ held \in [Requests -> Copy \cup {None}] /\ answer[f] \in Answer
        /\ store \in [Sids -> Session \cup {None}]
        /\ answer \in [Requests -> Answer \cup {None}]
        /\ pc'[f] = "answered" /\ held'[f] = None
        /\ \A g \in Requests \ {f} : pc'[g] = pc[g] /\ held'[g] = held[g]
    BY <1>1 DEF TypeInv, SessionTypeOK, FlowOK
  <1>4. ASSUME held[f] # None
        PROVE  /\ held[f].sid \in Sids /\ held[f].copy \in Session
               /\ held[f].copy # None
    BY <1>3, <1>4, NoneAssumption DEF Copy
  <1>5. PICK a \in Answer : /\ answer' = [answer EXCEPT ![f] = a]
                            /\ a.status = answer[f].status
                            /\ a.body = answer[f].body
    <2>1. CASE saved
      <3>1. PICK b \in Answer : b = answer[f]
        BY <1>3
      <3>2. PICK x \in Sids : x = held[f].sid
        BY <1>4, <2>1 DEF saved
      <3>3. /\ [b EXCEPT !.set = {x}] \in Answer
            /\ [b EXCEPT !.set = {x}].status = b.status
            /\ [b EXCEPT !.set = {x}].body = b.body
        BY DEF Answer
      <3>4. answer' = [answer EXCEPT ![f] = [b EXCEPT !.set = {x}]]
        BY <1>2, <2>1, <3>1, <3>2
      <3>5. QED
        BY <3>1, <3>3, <3>4
    <2>2. CASE ~saved
      <3>1. answer' = [answer EXCEPT ![f] = answer[f]]
        BY <1>2, <1>3, <2>2
      <3>2. QED
        BY <1>3, <3>1
    <2>3. QED
      BY <2>1, <2>2
  <1>6. /\ answer'[f] = a
        /\ \A g \in Requests \ {f} : answer'[g] = answer[g]
    BY <1>3, <1>5
  <1>7. store' \in [Sids -> Session \cup {None}]
    BY <1>2, <1>3, <1>4 DEF saved
  <1>8. TypeInv'
    <2>1. SessionTypeOK'
      BY <1>1, <1>3, <1>5, <1>7 DEF TypeInv, SessionTypeOK
    <2>2. FlowOK(f)'
      BY <1>1, <1>3, <1>5, <1>6 DEF TypeInv, FlowOK
    <2>3. \A g \in Requests : FlowOK(g)'
      BY <1>1, <1>3, <1>6, <2>2, FrameOthers
    <2>4. QED
      BY <1>1, <2>1, <2>3 DEF TypeInv
  <1>9. CASE saved
    <2>1. PICK x \in Sids : x = held[f].sid
      BY <1>4, <1>9 DEF saved
    <2>2. PICK s \in Session : s = held[f].copy /\ s # None
      BY <1>4, <1>9 DEF saved
    <2>3. /\ store'[x] = s /\ \A y \in Sids \ {x} : store'[y] = store[y]
          /\ held[f] # None
      BY <1>2, <1>3, <1>9, <2>1, <2>2 DEF saved
    <2>4. JoinedInv'
      BY <1>1, <1>3, <2>2, <2>3 DEF SessionInv, JoinedInv, Joined
    <2>5. EndedInv'
      BY <1>1, <1>3, <2>1, <2>3 DEF SessionInv, EndedInv, TypeInv, SessionTypeOK
    <2>6. UserInv'
      <3>1. \A g \in Requests : held[g] # None => held[g].sid \in Sids
        BY <1>3 DEF Copy
      <3>2. QED
        BY <1>3, <2>1, <2>2, <2>3, <3>1 DEF SessionInv, UserInv
    <2>7. UserKept
      BY <2>1, <2>2, <2>3 DEF UserKept, SessionInv, UserInv
    <2>8. QED
      BY <1>8, <2>4, <2>5, <2>6, <2>7 DEF Served, SessionInv
  <1>10. CASE ~saved
    <2>1. store' = store
      BY <1>2, <1>10
    <2>2. JoinedInv'
      BY <1>1, <1>3, <2>1 DEF SessionInv, JoinedInv, Joined
    <2>3. EndedInv'
      BY <1>1, <1>3, <2>1 DEF SessionInv, EndedInv
    <2>4. UserInv'
      BY <1>3, <2>1 DEF SessionInv, UserInv
    <2>5. UserKept
      BY <2>1 DEF UserKept
    <2>6. QED
      BY <1>8, <2>2, <2>3, <2>4, <2>5 DEF Served, SessionInv
  <1>11. QED
    BY <1>9, <1>10

LEMMA ServeStep ==
    ASSUME TypeInv, SessionInv, NEW f \in Requests, Serve(f),
           UNCHANGED clientVars
    PROVE  Served
  BY LoadStep, MeStep, LoginStep, LogoutStep, ListTenantsStep,
     CreateTenantStep, SwitchStep, AccessStep, RefuseStep, EndStep
     DEF Serve

-----------------------------------------------------------------------------
(* The browser's steps.                                                    *)

LEMMA CallOps ==
    ASSUME NEW h \in {"me", "tenants"} \cup Lists
    PROVE  /\ OpOf(h) \in SafeOps
           /\ OpOf(h) = "listOf" => h \in Lists
           /\ OpOf(h) = "me" <=> h = "me"
           /\ OpOf(h) = "tenants" <=> h = "tenants"
           /\ h \in Lists <=> OpOf(h) \in {"list", "listOf"}
  BY ListsNamed DEF OpOf, SafeOps, TenantLists, ListNames

LEMMA SendType ==
    ASSUME NEW op \in Ops, NEW arg \in Users \cup Tenants \cup {None},
           NEW c \in Sids \cup {None}, NEW t \in Sids \cup {None}
    PROVE  [op |-> op, arg |-> arg, cookie |-> c, token |-> t] \in Request
  BY DEF Request

(* A flow that goes on, or ends.                                           *)
LEMMA ContinueType ==
    ASSUME TypeInv, NEW f \in Requests, NEW p \in State, NEW c \in Rests,
           Continue(f, p, c), held[f] = None, UNCHANGED serverVars,
           cookie' \in Sids \cup {None}, token' \in Sids \cup {None},
           calm' \in BOOLEAN, answer' \in [Requests -> Answer \cup {None}],
           \A g \in Requests \ {f} : answer'[g] = answer[g]
    PROVE  TypeInv'
  <1>1. PICK n : n = Settle(p, c)
    OBVIOUS
  <1>2. Ready(n)
    BY <1>1, SettleType
  <1>3. /\ page' = n.page /\ todo' = [todo EXCEPT ![f] = n.todo]
        /\ n.todo = <<>> => Rest(f)
        /\ n.todo # <<>> => Send(f, OpOf(Head(n.todo)), n.page.active)
    BY <1>1 DEF Continue
  <1>4. page' \in State /\ page' # None /\ n.todo \in Chains
    BY <1>2, <1>3, StateAssumption, RestsChains DEF Ready
  <1>5. /\ todo'[f] = n.todo /\ \A g \in Requests \ {f} : todo'[g] = todo[g]
        /\ todo' = [g \in Requests |-> todo'[g]]
    BY <1>3 DEF TypeInv
  <1>6. /\ held' = held /\ store' = store /\ members' = members
        /\ ended' = ended
    BY DEF serverVars
  <1>7. CASE n.todo = <<>>
    <2>1. pc' = [pc EXCEPT ![f] = "idle"] /\ req' = [req EXCEPT ![f] = None]
      BY <1>3, <1>7 DEF Rest
    <2>2. SessionTypeOK'
      BY <1>6, <2>1 DEF TypeInv, SessionTypeOK
    <2>3. /\ pc'[f] = "idle"
          /\ \A g \in Requests \ {f} : pc'[g] = pc[g] /\ req'[g] = req[g]
      BY <2>1 DEF TypeInv, SessionTypeOK
    <2>4. FlowOK(f)'
      BY <1>4, <1>5, <1>6, <2>3 DEF FlowOK
    <2>5. \A g \in Requests : FlowOK(g)'
      BY <1>4, <1>5, <1>6, <2>3, <2>4, FrameOthers
    <2>6. QED
      BY <1>4, <1>5, <2>2, <2>5 DEF TypeInv
  <1>8. CASE n.todo # <<>>
    <2> DEFINE h == Head(n.todo)
    <2>1. /\ h \in {"me", "tenants"} \cup Lists
          /\ h \in Lists => Scoped(n.page)
          /\ n.page \in State
      BY <1>2, <1>8 DEF Ready
    <2>2. /\ OpOf(h) \in SafeOps /\ h # "page"
          /\ OpOf(h) = "listOf" => Scoped(n.page)
      BY <2>1, CallOps, ListsNamed DEF ListNames
    <2>3. /\ n.page.active \in Tenants \cup {None}
          /\ Scoped(n.page) => n.page.active \in Tenants
      BY <2>1 DEF State, Scoped
    <2>4. PICK r \in Request : /\ r = [op |-> OpOf(h), arg |-> n.page.active,
                                       cookie |-> cookie', token |-> token']
                               /\ r.op = OpOf(h) /\ r.arg = n.page.active
      <3>1. OpOf(h) \in Ops
        BY <2>2 DEF Ops
      <3>2. PICK arg \in Users \cup Tenants \cup {None} : arg = n.page.active
        BY <2>3
      <3>3. [op |-> OpOf(h), arg |-> arg, cookie |-> cookie',
             token |-> token'] \in Request
        BY <3>1, SendType
      <3>4. QED
        BY <3>2, <3>3
    <2>5. ArgOK(r)
      BY <2>2, <2>3, <2>4 DEF ArgOK, SafeOps
    <2>6. pc' = [pc EXCEPT ![f] = "sent"] /\ req' = [req EXCEPT ![f] = r]
      BY <1>3, <1>8, <2>4 DEF Send
    <2>7. SessionTypeOK'
      BY <1>6, <2>6 DEF TypeInv, SessionTypeOK
    <2>8. /\ pc'[f] = "sent" /\ req'[f] = r
          /\ \A g \in Requests \ {f} : pc'[g] = pc[g] /\ req'[g] = req[g]
      BY <2>6 DEF TypeInv, SessionTypeOK
    <2>9. FlowOK(f)'
      BY <1>4, <1>5, <1>6, <1>8, <2>2, <2>4, <2>5, <2>8 DEF FlowOK
    <2>10. \A g \in Requests : FlowOK(g)'
      BY <1>4, <1>5, <1>6, <2>8, <2>9, FrameOthers
    <2>11. QED
      BY <1>4, <1>5, <2>7, <2>10 DEF TypeInv
  <1>9. QED
    BY <1>7, <1>8

LEMMA IdleHolds ==
    ASSUME TypeInv, NEW f \in Requests, pc[f] \in {"idle", "sent", "answered"}
    PROVE  held[f] = None
  BY DEF TypeInv, FlowOK

(* A click whose first request carries what the user entered.              *)
LEMMA SubmitType ==
    ASSUME TypeInv, NEW f \in Requests,
           NEW arg \in Users \cup Tenants \cup {None}, NEW c \in Chains,
           c # <<>>, Submit(f, arg, c),
           Head(c) \in {"login", "logout", "create", "switch", "write",
                       "writeOf"},
           Head(c) = "login" => arg \in Users,
           Head(c) \in {"create", "switch", "write", "writeOf"} =>
             arg \in Tenants
    PROVE  TypeInv'
  <1>1. /\ pc[f] = "idle" /\ page # None /\ page' = page
        /\ calm' = (calm /\ Quiet)
        /\ store' = store /\ members' = members /\ held' = held
        /\ ended' = ended /\ cookie' = cookie /\ token' = token
        /\ answer' = answer
        /\ todo' = [todo EXCEPT ![f] = c]
    BY DEF Submit, Clicked, serverVars, browserVars
  <1>2. PICK op \in Ops : op = Head(c)
    BY DEF Ops
  <1>4. PICK r \in Request : /\ r = [op |-> op, arg |-> arg,
                                     cookie |-> cookie', token |-> token']
                             /\ r.op = op /\ r.arg = arg
    <2>1. cookie' \in Sids \cup {None} /\ token' \in Sids \cup {None}
      BY <1>1 DEF TypeInv, SessionTypeOK
    <2>2. QED
      BY <2>1, SendType
  <1>5. pc' = [pc EXCEPT ![f] = "sent"] /\ req' = [req EXCEPT ![f] = r]
    BY <1>2, <1>4 DEF Submit, Send
  <1>6. OpOf(op) = op /\ op # "page"
    BY <1>2, ListsNamed DEF OpOf, TenantLists, ListNames
  <1>7. ArgOK(r)
    BY <1>2, <1>4 DEF ArgOK
  <1>8. SessionTypeOK'
    BY <1>1, <1>5 DEF TypeInv, SessionTypeOK
  <1>9. /\ todo'[f] = c /\ \A g \in Requests \ {f} : todo'[g] = todo[g]
        /\ todo' = [g \in Requests |-> todo'[g]]
    BY <1>1 DEF TypeInv
  <1>10. /\ pc'[f] = "sent" /\ req'[f] = r
         /\ \A g \in Requests \ {f} : pc'[g] = pc[g] /\ req'[g] = req[g]
    BY <1>5 DEF TypeInv, SessionTypeOK
  <1>11. FlowOK(f)'
    BY <1>1, <1>2, <1>4, <1>6, <1>7, <1>9, <1>10, IdleHolds DEF FlowOK
  <1>12. \A g \in Requests : FlowOK(g)'
    BY <1>1, <1>9, <1>10, <1>11, FrameOthers
  <1>13. calm' \in BOOLEAN
    BY <1>1
  <1>14. QED
    BY <1>1, <1>8, <1>9, <1>12, <1>13 DEF TypeInv

LEMMA SubmitChains ==
    /\ {<<"login", "me", "tenants", "page">>, <<"logout">>,
        <<"switch", "page">>, <<"create", "tenants", "page">>} \subseteq Chains
    /\ \A l \in Lists : {<<"write", l>>, <<"writeOf", l>>} \subseteq Chains
  BY DEF Chains

LEMMA ClickType ==
    ASSUME TypeInv, NEW f \in Requests, Click(f)
    PROVE  TypeInv' /\ UNCHANGED serverVars
  <1>1. ASSUME Clicked(f)
        PROVE  /\ pc[f] = "idle" /\ page \in State /\ page # None
               /\ held[f] = None /\ calm' \in BOOLEAN
               /\ UNCHANGED serverVars
               /\ cookie' \in Sids \cup {None} /\ token' \in Sids \cup {None}
               /\ answer' = answer /\ answer' \in [Requests -> Answer \cup {None}]
    BY <1>1, IdleHolds DEF Clicked, browserVars, TypeInv, SessionTypeOK
  <1>2. ASSUME NEW p \in Pages, Open(f, p)
        PROVE  TypeInv' /\ UNCHANGED serverVars
    <2>1. /\ pc[f] = "idle" /\ calm' \in BOOLEAN /\ UNCHANGED serverVars
          /\ token' = None /\ cookie' = cookie /\ answer' = answer
          /\ Continue(f, Blank(p), Bootstrap)
      BY <1>2 DEF Open, Quiet, Bootstrap
    <2>2. /\ cookie' \in Sids \cup {None} /\ token' \in Sids \cup {None}
          /\ answer' \in [Requests -> Answer \cup {None}]
      BY <2>1 DEF TypeInv, SessionTypeOK
    <2>3. Blank(p) \in State /\ Bootstrap \in Rests
      BY BlankState DEF Rests
    <2>4. QED
      BY <2>1, <2>2, <2>3, IdleHolds, ContinueType
  <1>3. ASSUME NEW p \in Pages, Navigate(f, p)
        PROVE  TypeInv' /\ UNCHANGED serverVars
    <2>1. Clicked(f) /\ Continue(f, [page EXCEPT !.current = p], <<"page">>)
      BY <1>3 DEF Navigate
    <2>2. [page EXCEPT !.current = p] \in State
      BY <1>1, <2>1 DEF State
    <2>3. <<"page">> \in Rests
      BY DEF Rests
    <2>4. QED
      BY <1>1, <2>1, <2>2, <2>3, ContinueType
  <1>4. ASSUME RefreshTenants(f)
        PROVE  TypeInv' /\ UNCHANGED serverVars
    <2>1. Clicked(f) /\ Continue(f, page, <<"tenants">>)
      BY <1>4 DEF RefreshTenants
    <2>2. <<"tenants">> \in Rests
      BY DEF Rests
    <2>3. QED
      BY <1>1, <2>1, <2>2, ContinueType
  <1>5. ASSUME NEW u \in Users, LogIn(f, u)
        PROVE  TypeInv' /\ UNCHANGED serverVars
    <2>1. Submit(f, u, <<"login", "me", "tenants", "page">>)
      BY <1>5 DEF LogIn
    <2>2. Clicked(f)
      BY <2>1 DEF Submit
    <2>3. PICK c \in Chains : c = <<"login", "me", "tenants", "page">>
      BY SubmitChains
    <2>4. c # <<>> /\ Head(c) = "login"
      BY <2>3
    <2>5. QED
      BY <1>1, <2>1, <2>2, <2>3, <2>4, SubmitType
  <1>6. ASSUME LogOut(f)
        PROVE  TypeInv' /\ UNCHANGED serverVars
    <2>1. Submit(f, None, <<"logout">>)
      BY <1>6 DEF LogOut
    <2>2. Clicked(f)
      BY <2>1 DEF Submit
    <2>3. PICK c \in Chains : c = <<"logout">>
      BY SubmitChains
    <2>4. c # <<>> /\ Head(c) = "logout"
      BY <2>3
    <2>5. QED
      BY <1>1, <2>1, <2>2, <2>3, <2>4, SubmitType
  <1>7. ASSUME NEW t \in Tenants, SwitchTenant(f, t)
        PROVE  TypeInv' /\ UNCHANGED serverVars
    <2>1. Submit(f, t, <<"switch", "page">>)
      BY <1>7 DEF SwitchTenant
    <2>2. Clicked(f)
      BY <2>1 DEF Submit
    <2>3. PICK c \in Chains : c = <<"switch", "page">>
      BY SubmitChains
    <2>4. c # <<>> /\ Head(c) = "switch"
      BY <2>3
    <2>5. QED
      BY <1>1, <2>1, <2>2, <2>3, <2>4, SubmitType
  <1>8. ASSUME NEW t \in Tenants, FoundTenant(f, t)
        PROVE  TypeInv' /\ UNCHANGED serverVars
    <2>1. Submit(f, t, <<"create", "tenants", "page">>)
      BY <1>8 DEF FoundTenant
    <2>2. Clicked(f)
      BY <2>1 DEF Submit
    <2>3. PICK c \in Chains : c = <<"create", "tenants", "page">>
      BY SubmitChains
    <2>4. c # <<>> /\ Head(c) = "create"
      BY <2>3
    <2>5. QED
      BY <1>1, <2>1, <2>2, <2>3, <2>4, SubmitType
  <1>9. ASSUME CreateIncident(f)
        PROVE  TypeInv' /\ UNCHANGED serverVars
    <2>1. /\ Submit(f, page.active, <<"write", "incidents">>)
          /\ page.current = "incidents" /\ Scoped(page)
      BY <1>9 DEF CreateIncident
    <2>2. Clicked(f)
      BY <2>1 DEF Submit
    <2>3. page.active \in Tenants /\ page.current \in Pages
      BY <1>1, <2>1, <2>2 DEF Scoped, State
    <2>4. PICK l \in Lists : l = "incidents"
      BY <2>1, <2>3, ListHead DEF PageLists
    <2>5. PICK c \in Chains : c = <<"write", "incidents">>
      BY <2>4, SubmitChains
    <2>6. c # <<>> /\ Head(c) = "write"
      BY <2>5
    <2>7. QED
      BY <1>1, <2>1, <2>2, <2>3, <2>5, <2>6, SubmitType
  <1>10. ASSUME NEW l \in Lists, ManageKeys(f, l)
         PROVE  TypeInv' /\ UNCHANGED serverVars
    <2>1. Submit(f, page.active, <<"writeOf", l>>) /\ Scoped(page)
      BY <1>10 DEF ManageKeys
    <2>2. Clicked(f)
      BY <2>1 DEF Submit
    <2>3. page.active \in Tenants
      BY <1>1, <2>1, <2>2 DEF Scoped, State
    <2>4. PICK c \in Chains : c = <<"writeOf", l>>
      BY SubmitChains
    <2>5. c # <<>> /\ Head(c) = "writeOf"
      BY <2>4
    <2>6. QED
      BY <1>1, <2>1, <2>2, <2>3, <2>4, <2>5, SubmitType
  <1>11. QED
    BY <1>2, <1>3, <1>4, <1>5, <1>6, <1>7, <1>8, <1>9, <1>10 DEF Click

(* Apply, one call at a time.                                              *)
LEMMA ApplyCases ==
    ASSUME NEW p, NEW b
    PROVE  /\ Apply(p, "me", b) = [p EXCEPT !.user = b]
           /\ Apply(p, "tenants", b) =
                [p EXCEPT !.tenants = b.tenants, !.active = b.active]
           /\ Apply(p, "switch", b) = [p EXCEPT !.active = b]
           /\ Apply(p, "create", b) = [p EXCEPT !.active = b]
           /\ Apply(p, "logout", b) = Blank(p.current)
           /\ Apply(p, "login", b) = p
           /\ Apply(p, "write", b) = p
           /\ Apply(p, "writeOf", b) = p
  <1>1. {"me", "tenants", "switch", "create", "logout", "login", "write",
         "writeOf"} \cap Lists = {}
    BY ListsNamed DEF ListNames
  <1>2. Apply(p, "me", b) = [p EXCEPT !.user = b]
    BY <1>1 DEF Apply
  <1>3. Apply(p, "tenants", b) =
          [p EXCEPT !.tenants = b.tenants, !.active = b.active]
    BY <1>1 DEF Apply
  <1>4. /\ Apply(p, "switch", b) = [p EXCEPT !.active = b]
        /\ Apply(p, "create", b) = [p EXCEPT !.active = b]
    BY <1>1 DEF Apply
  <1>5. Apply(p, "logout", b) = Blank(p.current)
    BY <1>1 DEF Apply
  <1>6. /\ Apply(p, "login", b) = p /\ Apply(p, "write", b) = p
        /\ Apply(p, "writeOf", b) = p
    BY <1>1 DEF Apply
  <1>7. QED
    BY <1>2, <1>3, <1>4, <1>5, <1>6

LEMMA ApplyList ==
    ASSUME NEW p, NEW b, NEW l \in Lists
    PROVE  Apply(p, l, b) = [p EXCEPT !.shown[l] = b]
  <1>1. l \notin {"me", "tenants", "switch", "create", "logout"}
    BY ListsNamed DEF ListNames
  <1>2. QED
    BY <1>1 DEF Apply

CallHeads == {"me", "tenants", "login", "logout", "switch", "create", "write",
              "writeOf"} \cup Lists

LEMMA ChainHeads ==
    ASSUME NEW c \in Chains, c # <<>>, Head(c) # "page"
    PROVE  Head(c) \in CallHeads
  BY ChainSteps DEF CallHeads

LEMMA OpOfHeads ==
    ASSUME NEW h \in CallHeads
    PROVE  /\ h \in Lists => OpOf(h) \in {"list", "listOf"}
           /\ h \notin Lists => OpOf(h) = h
           /\ "listOf" \notin Lists
  BY ListsNamed DEF CallHeads, OpOf, TenantLists, ListNames

LEMMA ApplyType ==
    ASSUME NEW p \in State, NEW h \in CallHeads, NEW b, BodyOK(OpOf(h), b)
    PROVE  Apply(p, h, b) \in State
  <1>1. CASE h = "me"
    <2>1. b \in Users \cup {None}
      BY <1>1, OpOfHeads, ListsNamed DEF BodyOK, ListNames
    <2>2. [p EXCEPT !.user = b] \in State
      BY <2>1 DEF State
    <2>3. QED
      BY <1>1, <2>2, ApplyCases
  <1>2. CASE h = "tenants"
    <2>1. b \in Memberships
      BY <1>2, OpOfHeads, ListsNamed DEF BodyOK, ListNames
    <2>2. [p EXCEPT !.tenants = b.tenants, !.active = b.active] \in State
      BY <2>1 DEF State, Memberships
    <2>3. QED
      BY <1>2, <2>2, ApplyCases
  <1>3. CASE h \in {"switch", "create"}
    <2>1. b \in Tenants
      BY <1>3, OpOfHeads, ListsNamed DEF BodyOK, ListNames
    <2>2. [p EXCEPT !.active = b] \in State
      BY <2>1 DEF State
    <2>3. Apply(p, h, b) = [p EXCEPT !.active = b]
      <3>1. CASE h = "switch"
        BY <3>1, ApplyCases
      <3>2. CASE h = "create"
        BY <3>2, ApplyCases
      <3>3. QED
        BY <1>3, <3>1, <3>2
    <2>4. QED
      BY <2>2, <2>3
  <1>4. CASE h = "logout"
    <2>1. Blank(p.current) \in State
      BY BlankState DEF State
    <2>2. QED
      BY <1>4, <2>1, ApplyCases
  <1>5. CASE h \in {"login", "write", "writeOf"}
    <2>1. Apply(p, h, b) = p
      <3>1. CASE h = "login"
        BY <3>1, ApplyCases
      <3>2. CASE h = "write"
        BY <3>2, ApplyCases
      <3>3. CASE h = "writeOf"
        BY <3>3, ApplyCases
      <3>4. QED
        BY <1>5, <3>1, <3>2, <3>3
    <2>2. QED
      BY <2>1
  <1>6. CASE h \in Lists
    <2>1. b \in Tenants
      BY <1>6, OpOfHeads DEF BodyOK
    <2>2. [p EXCEPT !.shown[h] = b] \in State
      BY <1>6, <2>1 DEF State
    <2>3. Apply(p, h, b) = [p EXCEPT !.shown[h] = b]
      BY <1>6, ApplyList
    <2>4. QED
      BY <2>2, <2>3
  <1>7. QED
    BY <1>1, <1>2, <1>3, <1>4, <1>5, <1>6 DEF CallHeads

LEMMA AbandonType ==
    ASSUME TypeInv, NEW f \in Requests, Abandon(f), held[f] = None,
           UNCHANGED serverVars, cookie' \in Sids \cup {None},
           token' \in Sids \cup {None},
           answer' \in [Requests -> Answer \cup {None}],
           \A g \in Requests \ {f} : answer'[g] = answer[g]
    PROVE  TypeInv'
  <1>1. /\ pc' = [pc EXCEPT ![f] = "idle"] /\ req' = [req EXCEPT ![f] = None]
        /\ todo' = [todo EXCEPT ![f] = <<>>] /\ calm' = FALSE /\ page' = page
    BY DEF Abandon, Rest
  <1>2. /\ held' = held /\ store' = store /\ members' = members
        /\ ended' = ended
    BY DEF serverVars
  <1>3. SessionTypeOK'
    BY <1>1, <1>2 DEF TypeInv, SessionTypeOK
  <1>4. /\ pc'[f] = "idle" /\ todo'[f] = <<>>
        /\ todo' = [g \in Requests |-> todo'[g]]
        /\ \A g \in Requests \ {f} : pc'[g] = pc[g] /\ req'[g] = req[g]
                                     /\ todo'[g] = todo[g]
    BY <1>1 DEF TypeInv, SessionTypeOK
  <1>5. FlowOK(f)'
    BY <1>2, <1>4 DEF FlowOK, Chains
  <1>6. \A g \in Requests : FlowOK(g)'
    BY <1>1, <1>2, <1>4, <1>5, FrameOthers
  <1>7. QED
    BY <1>1, <1>3, <1>4, <1>6 DEF TypeInv

(* What the page finds when an answer arrives.                             *)
LEMMA AnsweredType ==
    ASSUME TypeInv, NEW f \in Requests, pc[f] = "answered"
    PROVE  /\ answer[f] \in Answer /\ answer[f] # None
           /\ answer[f].set \in SUBSET (Sids \cup {None})
           /\ answer[f].token \in Sids \cup {None}
           /\ answer[f].status = "ok" => BodyOK(req[f].op, answer[f].body)
           /\ req[f] \in Request /\ req[f].op = OpOf(Head(todo[f]))
           /\ ArgOK(req[f])
           /\ todo[f] \in Chains /\ todo[f] # <<>> /\ Head(todo[f]) # "page"
           /\ Head(todo[f]) \in CallHeads
           /\ page \in State /\ page # None /\ held[f] = None
           /\ cookie \in Sids \cup {None} /\ token \in Sids \cup {None}
           /\ answer \in [Requests -> Answer \cup {None}]
  <1>1. /\ answer[f] \in Answer /\ todo[f] \in Chains /\ todo[f] # <<>>
        /\ Head(todo[f]) # "page"
    BY DEF TypeInv, FlowOK
  <1>2. Head(todo[f]) \in CallHeads
    BY <1>1, ChainHeads
  <1>3. /\ answer[f].set \in SUBSET (Sids \cup {None})
        /\ answer[f].token \in Sids \cup {None}
    BY <1>1 DEF Answer
  <1>4. QED
    BY <1>1, <1>2, <1>3, NoneAssumption DEF TypeInv, SessionTypeOK, FlowOK

LEMMA ReceiveType ==
    ASSUME TypeInv, NEW f \in Requests, Receive(f)
    PROVE  TypeInv' /\ UNCHANGED serverVars
  <1>1. /\ pc[f] = "answered" /\ TakeCookie(answer[f])
        /\ answer' = [answer EXCEPT ![f] = None] /\ UNCHANGED serverVars
    BY DEF Receive
  <1>2. cookie' \in Sids \cup {None}
    <2>1. CASE answer[f].set = {}
      BY <1>1, <2>1, AnsweredType DEF TakeCookie
    <2>2. CASE answer[f].set # {}
      <3>1. cookie' \in answer[f].set
        BY <1>1, <2>2 DEF TakeCookie
      <3>2. QED
        BY <1>1, <3>1, AnsweredType
    <2>3. QED
      BY <2>1, <2>2
  <1>3. /\ answer' \in [Requests -> Answer \cup {None}]
        /\ \A g \in Requests \ {f} : answer'[g] = answer[g]
    BY <1>1, AnsweredType
  <1>4. CASE answer[f].status = "ok"
    <2>1. /\ TakeToken(answer[f]) /\ calm' = calm
          /\ Continue(f, Apply(page, Head(todo[f]), answer[f].body),
                      Tail(todo[f]))
      BY <1>4 DEF Receive
    <2>2. token' \in Sids \cup {None}
      BY <1>1, <2>1, AnsweredType DEF TakeToken
    <2>3. Apply(page, Head(todo[f]), answer[f].body) \in State
      BY <1>1, <1>4, AnsweredType, ApplyType
    <2>4. Tail(todo[f]) \in Rests
      BY <1>1, AnsweredType, TailRests
    <2>5. calm' \in BOOLEAN
      BY <2>1 DEF TypeInv
    <2>6. QED
      BY <1>1, <1>2, <1>3, <2>1, <2>2, <2>3, <2>4, <2>5, AnsweredType,
         ContinueType
  <1>5. CASE answer[f].status # "ok"
    <2>1. Abandon(f) /\ token' = token
      BY <1>5 DEF Receive
    <2>2. QED
      BY <1>1, <1>2, <1>3, <2>1, AnsweredType, AbandonType
  <1>6. QED
    BY <1>4, <1>5

LEMMA LoseType ==
    ASSUME TypeInv, NEW f \in Requests, Lose(f)
    PROVE  TypeInv' /\ UNCHANGED serverVars
  <1>1. /\ pc[f] \in {"sent", "answered"}
        /\ answer' = [answer EXCEPT ![f] = None] /\ Abandon(f)
        /\ UNCHANGED serverVars /\ cookie' = cookie /\ token' = token
    BY DEF Lose, browserVars
  <1>2. /\ answer' \in [Requests -> Answer \cup {None}]
        /\ \A g \in Requests \ {f} : answer'[g] = answer[g]
        /\ cookie' \in Sids \cup {None} /\ token' \in Sids \cup {None}
    BY <1>1 DEF TypeInv, SessionTypeOK
  <1>3. QED
    BY <1>1, <1>2, IdleHolds, AbandonType

-----------------------------------------------------------------------------
(* The theorems of the server's sessions.                                  *)
LEMMA SessionStep ==
    TypeInv /\ SessionInv /\ [Next]_vars => TypeInv' /\ SessionInv' /\ UserKept
  <1> SUFFICES ASSUME TypeInv, SessionInv, [Next]_vars
               PROVE  TypeInv' /\ SessionInv' /\ UserKept
    OBVIOUS
  <1>1. ASSUME UNCHANGED serverVars
        PROVE  SessionInv' /\ UserKept
    BY <1>1 DEF serverVars, SessionInv, JoinedInv, EndedInv, UserInv, Joined,
                UserKept
  <1>2. CASE UNCHANGED vars
    <2>1. TypeInv'
      BY <1>2 DEF vars, sessionVars, serverVars, browserVars, clientVars,
                  TypeInv, SessionTypeOK, FlowOK
    <2>2. UNCHANGED serverVars
      BY <1>2 DEF vars, sessionVars
    <2>3. QED
      BY <1>1, <2>1, <2>2
  <1>3. CASE Next
    <2>1. PICK f \in Requests : \/ Click(f)
                                \/ Receive(f)
                                \/ Lose(f)
                                \/ Serve(f) /\ UNCHANGED clientVars
      BY <1>3 DEF Next
    <2>2. QED
      BY <1>1, <2>1, ClickType, ReceiveType, LoseType, ServeStep DEF Served
  <1>4. QED
    BY <1>2, <1>3

(* Whatever is sent, answered or lost, in any order: the variables and the *)
(* chain of calls of every flow keep their types, and what is true of the  *)
(* sessions of the server (auth-routes, tenant-routes, express-session)    *)
(* stays true.  Everything below follows from it.                          *)
THEOREM Invariance == Spec => [](TypeInv /\ SessionInv)
  <1>1. Init => TypeInv /\ SessionInv
    BY InitType, InitSession
  <1>2. TypeInv /\ SessionInv /\ [Next]_vars => (TypeInv /\ SessionInv)'
    BY SessionStep
  <1>3. QED
    BY <1>1, <1>2, PTL DEF Spec

(* The page, its flows and the server's sessions keep their types.         *)
THEOREM TypeCorrect == Spec => []TypeOK
  <1>1. TypeInv /\ SessionInv => TypeOK
    BY TypeInvImplies
  <1>2. QED
    BY <1>1, Invariance, PTL

(* The active tenant of a stored session, and of the copy a handler works  *)
(* on, is one its user is a member of (/switch-tenant, /invites/accept).   *)
THEOREM ActiveTenantJoinedHolds == Spec => []ActiveTenantJoined
  <1>1. TypeInv /\ SessionInv => ActiveTenantJoined
    BY DEF SessionInv, JoinedInv, Joined, ActiveTenantJoined, Handling
  <1>2. QED
    BY <1>1, Invariance, PTL

(* A session that /logout destroyed, while nobody else held a copy of it,  *)
(* is never stored again.                                                  *)
THEOREM LogoutFinalHolds == Spec => []LogoutFinal
  <1>1. TypeInv /\ SessionInv => LogoutFinal
    BY DEF SessionInv, EndedInv, LogoutFinal
  <1>2. QED
    BY <1>1, Invariance, PTL

(* The user of a stored session never changes: a login gets a new session  *)
(* (req.session.regenerate).                                               *)
THEOREM UserFixedHolds == Spec => UserFixed
  <1>1. TypeInv /\ SessionInv /\ [Next]_vars =>
          [\A s \in Sids : store[s] # None /\ store'[s] # None =>
             store'[s].user = store[s].user]_sessionVars
    BY SessionStep DEF UserKept
  <1>2. QED
    BY <1>1, Invariance, PTL DEF Spec, UserFixed

-----------------------------------------------------------------------------
(* What a page that has these calls to make knows of its session: the      *)
(* user, the tenant and the lists that none of the calls will change.      *)
Visible(p) == ToSet(PageLists[p.current])

Agree(p, calls, s) ==
    /\ calls = <<>> \/ Head(calls) \notin {"me", "login", "logout"} =>
         p.user = s.user
    /\ calls = <<>> \/ Head(calls) \notin {"me", "login", "logout", "tenants",
                                           "switch", "create"} =>
         p.active = s.tenant
    /\ "page" \notin ToSet(calls) /\ "logout" \notin ToSet(calls) =>
         \A l \in Visible(p) \ ToSet(calls) : p.shown[l] = s.tenant

LEMMA VisibleLists ==
    ASSUME NEW p \in State
    PROVE  Visible(p) \subseteq Lists
  <1>1. p.current \in Pages
    BY DEF State
  <1>2. QED
    BY <1>1 DEF Visible, Lists

LEMMA AgreeSame ==
    ASSUME NEW p, NEW c, NEW s, NEW n, n.user = s.user, n.tenant = s.tenant,
           Agree(p, c, s)
    PROVE  Agree(p, c, n)
  BY DEF Agree

(* A page that is up to date is so whatever it will do.                    *)
LEMMA AgreeAny ==
    ASSUME NEW p, NEW c, NEW s, Agree(p, <<>>, s)
    PROVE  Agree(p, c, s)
  <1>1. ToSet(<<>>) = {}
    BY DEF ToSet
  <1>2. /\ p.user = s.user /\ p.active = s.tenant
        /\ \A l \in Visible(p) : p.shown[l] = s.tenant
    BY <1>1 DEF Agree
  <1>3. QED
    BY <1>2 DEF Agree

LEMMA ToSets ==
    /\ ToSet(<<>>) = {}
    /\ \A x : ToSet(<<x>>) = {x}
    /\ \A x, y : ToSet(<<x, y>>) = {x, y}
    /\ "page" \in ToSet(Bootstrap)
  BY DEF ToSet, Bootstrap

(* The calls a flow goes on with, and what each asks of the page.          *)
LEMMA AgreeRests ==
    ASSUME NEW p \in State, NEW s
    PROVE  /\ /\ p.user = s.user /\ p.active = s.tenant
              /\ \A m \in Visible(p) : p.shown[m] = s.tenant
              => Agree(p, <<>>, s)
           /\ p.user = s.user /\ p.active = s.tenant => Agree(p, <<"page">>, s)
           /\ p.user = s.user => Agree(p, <<"tenants", "page">>, s)
           /\ Agree(p, Bootstrap, s)
           /\ \A l \in Lists :
                /\ p.user = s.user /\ p.active = s.tenant
                /\ \A m \in Visible(p) \ {l} : p.shown[m] = s.tenant
                => Agree(p, <<l>>, s)
           /\ /\ p.user = s.user /\ p.active = s.tenant
              => Agree(p, PageLists[p.current], s)
  <1>1. Agree(p, Bootstrap, s)
    <2>1. Bootstrap # <<>> /\ Head(Bootstrap) = "me"
      BY DEF Bootstrap
    <2>2. QED
      BY <2>1, ToSets DEF Agree
  <1>2. p.user = s.user => Agree(p, <<"tenants", "page">>, s)
    <2>1. PICK c : c = <<"tenants", "page">>
      OBVIOUS
    <2>2. c # <<>> /\ Head(c) = "tenants" /\ ToSet(c) = {"tenants", "page"}
      BY <2>1, ToSets
    <2>3. p.user = s.user => Agree(p, c, s)
      BY <2>2 DEF Agree
    <2>4. QED
      BY <2>1, <2>3
  <1>3. p.user = s.user /\ p.active = s.tenant => Agree(p, <<"page">>, s)
    <2>1. PICK c : c = <<"page">>
      OBVIOUS
    <2>2. ToSet(c) = {"page"}
      BY <2>1, ToSets
    <2>3. p.user = s.user /\ p.active = s.tenant => Agree(p, c, s)
      BY <2>2 DEF Agree
    <2>4. QED
      BY <2>1, <2>3
  <1>4. ASSUME NEW l \in Lists, p.user = s.user, p.active = s.tenant,
               \A m \in Visible(p) \ {l} : p.shown[m] = s.tenant
        PROVE  Agree(p, <<l>>, s)
    <2>1. PICK c : c = <<l>>
      OBVIOUS
    <2>2. ToSet(c) = {l}
      BY <2>1, ToSets
    <2>3. Agree(p, c, s)
      BY <1>4, <2>2 DEF Agree
    <2>4. QED
      BY <2>1, <2>3
  <1>5. p.user = s.user /\ p.active = s.tenant =>
          Agree(p, PageLists[p.current], s)
    BY DEF Agree, Visible
  <1>6. p.user = s.user /\ p.active = s.tenant
        /\ (\A m \in Visible(p) : p.shown[m] = s.tenant) => Agree(p, <<>>, s)
    BY DEF Agree
  <1>7. QED
    BY <1>1, <1>2, <1>3, <1>4, <1>5, <1>6

LEMMA AgreeKnows ==
    ASSUME NEW p \in State, NEW c \in Chains, c # <<>>, NEW s, Agree(p, c, s)
    PROVE  /\ Head(c) \notin {"me", "login", "logout"} => p.user = s.user
           /\ Head(c) \in {"page", "write", "writeOf"} \cup Lists =>
                p.active = s.tenant
           /\ \A l : c \in {<<"write", l>>, <<"writeOf", l>>} /\ l \in Lists =>
                \A m \in Visible(p) \ {l} : p.shown[m] = s.tenant
           /\ c = <<"tenants">> => \A m \in Visible(p) : p.shown[m] = s.tenant
           /\ \A l \in Lists : c = <<l>> =>
                \A m \in Visible(p) \ {l} : p.shown[m] = s.tenant
           /\ c = <<"serviceAccounts", "apiKeys">> =>
                \A m \in Visible(p) \ {"serviceAccounts", "apiKeys"} :
                    p.shown[m] = s.tenant
  <1> DEFINE rest(q) == \A m \in Visible(p) \ q : p.shown[m] = s.tenant
  <1>1. Head(c) \notin {"me", "login", "logout"} => p.user = s.user
    BY DEF Agree
  <1>2. Head(c) \in {"page", "write", "writeOf"} \cup Lists =>
          p.active = s.tenant
    BY ListsNamed DEF Agree, ListNames
  <1>3. "page" \notin ToSet(c) /\ "logout" \notin ToSet(c) => rest(ToSet(c))
    BY DEF Agree
  <1>4. {"write", "writeOf", "tenants", "page", "logout"} \cap Lists = {}
    BY ListsNamed DEF ListNames
  <1>5. Visible(p) \subseteq Lists
    BY VisibleLists
  <1>6. ASSUME NEW l \in Lists, c \in {<<"write", l>>, <<"writeOf", l>>}
        PROVE  rest({l})
    <2>1. ToSet(c) \in {{"write", l}, {"writeOf", l}}
      BY <1>6, ToSets
    <2>2. "page" \notin ToSet(c) /\ "logout" \notin ToSet(c)
      BY <1>4, <2>1
    <2>3. QED
      BY <1>3, <1>4, <1>5, <2>1, <2>2
  <1>7. ASSUME c = <<"tenants">>
        PROVE  rest({})
    <2>1. ToSet(c) = {"tenants"}
      BY <1>7, ToSets
    <2>2. QED
      BY <1>3, <1>4, <1>5, <2>1
  <1>8. ASSUME NEW l \in Lists, c = <<l>>
        PROVE  rest({l})
    <2>1. ToSet(c) = {l}
      BY <1>8, ToSets
    <2>2. QED
      BY <1>3, <1>4, <2>1
  <1>9. ASSUME c = <<"serviceAccounts", "apiKeys">>
        PROVE  rest({"serviceAccounts", "apiKeys"})
    <2>1. ToSet(c) = {"serviceAccounts", "apiKeys"}
      BY <1>9, ToSets
    <2>2. QED
      BY <1>3, <2>1
  <1>10. QED
    BY <1>1, <1>2, <1>6, <1>7, <1>8, <1>9

(* What the call h makes of the session s, what it answers.                *)
Effect(h, s, n, b) ==
    /\ h \notin {"login", "logout"} => n.user = s.user
    /\ h \notin {"login", "logout", "switch", "create"} => n.tenant = s.tenant
    /\ h = "logout" => n.user = None /\ n.tenant = None
    /\ h = "me" => b = n.user
    /\ h = "tenants" => b.active = n.tenant
    /\ h \in {"switch", "create"} \cup Lists => b = n.tenant

LEMMA AgreeServed ==
    ASSUME NEW p \in State, NEW c \in Chains, c # <<>>, Head(c) # "page",
           NEW s, NEW n, NEW b, BodyOK(OpOf(Head(c)), b),
           Agree(p, c, s), Effect(Head(c), s, n, b)
    PROVE  Agree(Apply(p, Head(c), b), Tail(c), n)
  <1>1. Head(c) \in CallHeads
    BY ChainHeads
  <1>2. PICK q \in State : q = Apply(p, Head(c), b)
    BY <1>1, ApplyType
  <1>16. PICK h \in CallHeads : h = Head(c) /\ q = Apply(p, h, b)
    BY <1>1, <1>2
  <1>3. {"me", "tenants", "switch", "create", "logout", "login", "write",
         "writeOf"} \cap Lists = {}
    BY ListsNamed DEF ListNames
  <1>4. CASE Head(c) = "me" /\ Tail(c) = <<"tenants", "page">>
    <2>1. q.user = b
      <3>1. h = "me"
        BY <1>16, <1>4
      <3>2. Apply(p, h, b) = [p EXCEPT !.user = b]
        BY <3>1, ApplyCases
      <3>3. q = [p EXCEPT !.user = b]
        BY <1>16, <3>2
      <3>4. QED
        BY <3>3 DEF State
    <2>2. b = n.user
      BY <1>4 DEF Effect
    <2>3. QED
      BY <1>2, <1>4, <2>1, <2>2, AgreeRests
  <1>5. CASE Head(c) = "tenants" /\ Tail(c) = <<"page">>
    <2>1. q.user = p.user /\ q.active = b.active
      <3>1. h = "tenants"
        BY <1>16, <1>5
      <3>2. Apply(p, h, b) = [p EXCEPT !.tenants = b.tenants, !.active = b.active]
        BY <3>1, ApplyCases
      <3>3. q = [p EXCEPT !.tenants = b.tenants, !.active = b.active]
        BY <1>16, <3>2
      <3>4. QED
        BY <3>3 DEF State
    <2>2. b.active = n.tenant /\ n.user = s.user /\ p.user = s.user
      BY <1>5, AgreeKnows DEF Effect
    <2>3. QED
      BY <1>2, <1>5, <2>1, <2>2, AgreeRests
  <1>6. CASE Head(c) = "tenants" /\ c = <<"tenants">> /\ Tail(c) = <<>>
    <2>1. /\ q.user = p.user /\ q.active = b.active
          /\ q.shown = p.shown /\ q.current = p.current
      <3>1. h = "tenants"
        BY <1>16, <1>6
      <3>2. Apply(p, h, b) = [p EXCEPT !.tenants = b.tenants, !.active = b.active]
        BY <3>1, ApplyCases
      <3>3. q = [p EXCEPT !.tenants = b.tenants, !.active = b.active]
        BY <1>16, <3>2
      <3>4. QED
        BY <3>3 DEF State
    <2>2. /\ b.active = n.tenant /\ n.user = s.user /\ p.user = s.user
          /\ n.tenant = s.tenant
      BY <1>6, AgreeKnows DEF Effect
    <2>3. \A m \in Visible(q) : q.shown[m] = n.tenant
      BY <1>6, <2>1, <2>2, AgreeKnows DEF Visible
    <2>4. QED
      BY <1>2, <1>6, <2>1, <2>2, <2>3, AgreeRests
  <1>7. CASE Head(c) = "login" /\ Tail(c) = Bootstrap
    BY <1>2, <1>7, AgreeRests
  <1>8. CASE Head(c) = "logout" /\ Tail(c) = <<>>
    <2>1. q = Blank(p.current) /\ p.current \in Pages
      BY <1>2, <1>8, ApplyCases DEF State
    <2>2. q.user = None /\ q.active = None /\ \A l \in Lists : q.shown[l] = None
      BY <2>1, BlankState
    <2>3. \A m \in Visible(q) : q.shown[m] = None
      BY <2>2, VisibleLists
    <2>4. n.user = None /\ n.tenant = None
      BY <1>8 DEF Effect
    <2>5. QED
      BY <1>2, <1>8, <2>2, <2>3, <2>4, AgreeRests
  <1>9. CASE Head(c) = "switch" /\ Tail(c) = <<"page">>
    <2>1. q.user = p.user /\ q.active = b
      <3>1. h = "switch"
        BY <1>16, <1>9
      <3>2. Apply(p, h, b) = [p EXCEPT !.active = b]
        BY <3>1, ApplyCases
      <3>3. q = [p EXCEPT !.active = b]
        BY <1>16, <3>2
      <3>4. QED
        BY <3>3 DEF State
    <2>2. b = n.tenant /\ n.user = s.user /\ p.user = s.user
      BY <1>9, AgreeKnows DEF Effect
    <2>3. QED
      BY <1>2, <1>9, <2>1, <2>2, AgreeRests
  <1>10. CASE Head(c) = "create" /\ Tail(c) = <<"tenants", "page">>
    <2>1. q.user = p.user
      <3>1. h = "create"
        BY <1>16, <1>10
      <3>2. Apply(p, h, b) = [p EXCEPT !.active = b]
        BY <3>1, ApplyCases
      <3>3. q = [p EXCEPT !.active = b]
        BY <1>16, <3>2
      <3>4. QED
        BY <3>3 DEF State
    <2>2. n.user = s.user /\ p.user = s.user
      BY <1>10, AgreeKnows DEF Effect
    <2>3. QED
      BY <1>2, <1>10, <2>1, <2>2, AgreeRests
  <1>11. ASSUME NEW l \in Lists, Head(c) \in {"write", "writeOf"},
                c \in {<<"write", l>>, <<"writeOf", l>>}, Tail(c) = <<l>>
         PROVE  Agree(q, Tail(c), n)
    <2>1. q = p
      BY <1>2, <1>11, ApplyCases
    <2>2. /\ n.user = s.user /\ n.tenant = s.tenant
          /\ p.user = s.user /\ p.active = s.tenant
      BY <1>11, AgreeKnows DEF Effect
    <2>3. \A m \in Visible(p) \ {l} : p.shown[m] = s.tenant
      BY <1>11, AgreeKnows
    <2>4. QED
      BY <1>11, <2>1, <2>2, <2>3, AgreeRests
  <1>12. ASSUME NEW l \in Lists, l = Head(c)
         PROVE  /\ q.user = n.user /\ q.active = n.tenant
                /\ q.shown[l] = n.tenant /\ Visible(q) = Visible(p)
                /\ n.tenant = s.tenant
                /\ \A m \in Lists \ {l} : q.shown[m] = p.shown[m]
    <2>1. q = [p EXCEPT !.shown[l] = b]
      BY <1>2, <1>12, ApplyList
    <2>2. /\ q.user = p.user /\ q.active = p.active /\ q.current = p.current
          /\ q.shown[l] = b /\ \A m \in Lists \ {l} : q.shown[m] = p.shown[m]
      BY <2>1 DEF State
    <2>3. b = n.tenant /\ n.user = s.user /\ n.tenant = s.tenant
      BY <1>3, <1>12 DEF Effect
    <2>4. p.user = s.user /\ p.active = s.tenant
      BY <1>3, <1>12, AgreeKnows
    <2>5. QED
      BY <2>2, <2>3, <2>4 DEF Visible
  <1>13. CASE Head(c) \in Lists /\ Tail(c) = <<>> /\ c = <<Head(c)>>
    <2>1. PICK l \in Lists : l = Head(c) /\ c = <<l>>
      BY <1>13
    <2>2. \A m \in Visible(p) \ {l} : p.shown[m] = s.tenant
      BY <2>1, AgreeKnows
    <2>3. Visible(p) \subseteq Lists
      BY VisibleLists
    <2>4. \A m \in Visible(q) : q.shown[m] = n.tenant
      BY <1>12, <2>1, <2>2, <2>3
    <2>5. QED
      BY <1>2, <1>12, <1>13, <2>1, <2>4, AgreeRests
  <1>14. CASE /\ c = <<"serviceAccounts", "apiKeys">>
              /\ Head(c) = "serviceAccounts" /\ Tail(c) = <<"apiKeys">>
              /\ Head(c) \in Lists /\ "apiKeys" \in Lists
    <2>1. \A m \in Visible(p) \ {"serviceAccounts", "apiKeys"} :
             p.shown[m] = s.tenant
      BY <1>14, AgreeKnows
    <2>2. Visible(p) \subseteq Lists
      BY VisibleLists
    <2>3. \A m \in Visible(q) \ {"apiKeys"} : q.shown[m] = n.tenant
      BY <1>12, <1>14, <2>1, <2>2
    <2>4. QED
      BY <1>2, <1>12, <1>14, <2>3, AgreeRests
  <1>15. QED
    BY <1>2, <1>4, <1>5, <1>6, <1>7, <1>8, <1>9, <1>10, <1>11, <1>13, <1>14,
       ChainSteps

(* The calls answered from the state itself leave the page as informed.    *)
LEMMA AgreeSettle ==
    ASSUME NEW p \in State, NEW c \in Rests, NEW s, Agree(p, c, s),
           s.user = None => s.tenant = None, NEW n, n = Settle(p, c)
    PROVE  Agree(n.page, n.todo, s)
  <1> DEFINE anonymous == [p EXCEPT !.tenants = {}, !.active = None]
             mine == Visible(p)
  <1>1. c \in Chains /\ mine \subseteq Lists
    BY RestsChains, VisibleLists
  <1>2. "tenants" \notin Lists /\ "page" \notin Lists
    BY ListsNamed DEF ListNames
  <1>3. /\ anonymous \in State
        /\ anonymous.user = p.user /\ anonymous.active = None
        /\ anonymous.current = p.current /\ anonymous.shown = p.shown
    BY DEF State
  <1> HIDE DEF anonymous
  <1>4. CASE c = <<>>
    <2>1. Settle(p, c) = [page |-> p, todo |-> <<>>]
      BY <1>4, SettleCases
    <2>2. n.page = p /\ n.todo = <<>>
      BY <2>1
    <2>3. QED
      BY <1>4, <2>2
  <1>5. CASE c # <<>> /\ Head(c) = "tenants" /\ ~LoggedIn(p)
    <2>1. p.user = s.user /\ s.user = None /\ s.tenant = None
      BY <1>1, <1>5, AgreeKnows DEF LoggedIn
    <2>2. Settle(p, c) = [page |-> IF Len(c) > 1 THEN Clear(anonymous, mine)
                                   ELSE anonymous,
                          todo |-> <<>>]
      BY <1>5, SettleCases DEF anonymous, Visible
    <2>3. CASE Len(c) > 1
      <3>1. n.page = Clear(anonymous, mine) /\ n.todo = <<>>
        BY <2>2, <2>3
      <3>2. PICK q \in State : q = n.page /\ q.user = None /\ q.active = None
                               /\ Visible(q) = mine
                               /\ \A l \in mine : q.shown[l] = None
        BY <1>1, <1>3, <2>1, <3>1, ClearState DEF Visible
      <3>3. Agree(q, <<>>, s)
        BY <2>1, <3>2, AgreeRests
      <3>4. QED
        BY <3>1, <3>2, <3>3
    <2>4. CASE ~(Len(c) > 1)
      <3>1. n.page = anonymous /\ n.todo = <<>>
        BY <2>2, <2>4
      <3>2. c = <<"tenants">>
        <4>1. \A k : k = 2 => k > 1
          OBVIOUS
        <4>2. Len(c) # 2
          BY <2>4, <4>1
        <4>3. Head(c) \notin {"me", "page", "login", "logout", "switch",
                             "create", "write", "writeOf"} \cup Lists
          BY <1>2, <1>5
        <4>4. QED
          BY <1>1, <1>5, <4>2, <4>3, ChainSteps
      <3>3. \A m \in mine : p.shown[m] = s.tenant
        BY <1>1, <1>5, <3>2, AgreeKnows
      <3>4. PICK q \in State : q = n.page /\ q.user = None /\ q.active = None
                               /\ Visible(q) = mine
                               /\ \A l \in mine : q.shown[l] = s.tenant
        BY <1>3, <2>1, <3>1, <3>3 DEF Visible
      <3>5. Agree(q, <<>>, s)
        BY <2>1, <3>4, AgreeRests
      <3>6. QED
        BY <3>1, <3>4, <3>5
    <2>5. QED
      BY <2>3, <2>4
  <1>6. CASE c # <<>> /\ Head(c) = "page" /\ Scoped(p)
    <2>1. Settle(p, c) = [page |-> p, todo |-> PageLists[p.current]]
      BY <1>6, SettleCases
    <2>2. n.page = p /\ n.todo = PageLists[p.current]
      BY <2>1
    <2>3. p.user = s.user /\ p.active = s.tenant
      BY <1>1, <1>6, AgreeKnows
    <2>4. QED
      BY <2>2, <2>3, AgreeRests
  <1>7. CASE c # <<>> /\ Head(c) = "page" /\ ~Scoped(p)
    <2>1. Settle(p, c) = [page |-> Clear(p, mine), todo |-> <<>>]
      BY <1>7, SettleCases DEF Visible
    <2>2. n.page = Clear(p, mine) /\ n.todo = <<>>
      BY <2>1
    <2>3. p.user = s.user /\ p.active = s.tenant /\ s.tenant = None
      BY <1>1, <1>7, AgreeKnows DEF Scoped
    <2>4. PICK q \in State : q = n.page /\ q.user = p.user /\ q.active = p.active
                             /\ Visible(q) = mine
                             /\ \A l \in mine : q.shown[l] = None
      BY <1>1, <2>2, ClearState DEF Visible
    <2>5. Agree(q, <<>>, s)
      BY <2>3, <2>4, AgreeRests
    <2>6. QED
      BY <2>2, <2>4, <2>5
  <1>8. CASE c # <<>> /\ Head(c) \in Lists /\ ~Scoped(p)
    <2>1. Settle(p, c) = [page |-> Clear(p, ToSet(c)), todo |-> <<>>]
      BY <1>8, SettleCases
    <2>2. n.page = Clear(p, ToSet(c)) /\ n.todo = <<>>
      BY <2>1
    <2>3. p.user = s.user /\ p.active = s.tenant /\ s.tenant = None
      BY <1>1, <1>2, <1>8, AgreeKnows, ListsNamed DEF Scoped, ListNames
    <2>4. \A m \in mine \ ToSet(c) : p.shown[m] = s.tenant
      <3>1. CASE c = <<Head(c)>>
        <4>1. PICK l \in Lists : c = <<l>>
          BY <1>8, <3>1
        <4>2. QED
          BY <1>1, <1>8, <4>1, AgreeKnows, ToSets
      <3>2. CASE c = <<"serviceAccounts", "apiKeys">>
        BY <1>1, <1>8, <3>2, AgreeKnows, ToSets
      <3>3. QED
        BY <1>1, <1>8, <3>1, <3>2, ChainSteps, ListsNamed DEF ListNames
    <2>5. PICK q \in State : q = n.page /\ q.user = p.user /\ q.active = p.active
                             /\ Visible(q) = mine
                             /\ \A l \in mine : q.shown[l] = s.tenant
      BY <1>1, <2>2, <2>3, <2>4, ClearState DEF Visible
    <2>6. Agree(q, <<>>, s)
      BY <2>3, <2>5, AgreeRests
    <2>7. QED
      BY <2>2, <2>5, <2>6
  <1>9. CASE /\ c # <<>> /\ Head(c) # "page"
             /\ ~(Head(c) = "tenants" /\ ~LoggedIn(p))
             /\ ~(Head(c) \in Lists /\ ~Scoped(p))
    <2>1. Settle(p, c) = [page |-> p, todo |-> c]
      BY <1>9, SettleCases
    <2>2. n.page = p /\ n.todo = c
      BY <2>1
    <2>3. QED
      BY <2>2
  <1>10. QED
    BY <1>4, <1>5, <1>6, <1>7, <1>8, <1>9

-----------------------------------------------------------------------------
(* The invariant of a calm page.                                           *)
SessionOf(c) == IF Known(c) THEN store[c] ELSE NewSession
Browsed == SessionOf(cookie)
CookieAfter(a) == IF a.set = {} THEN cookie ELSE CHOOSE c \in a.set : TRUE

\* The answer of f will leave the page up to date with the session s.
Informs(f, s) ==
    answer[f].status = "ok" =>
        /\ Agree(Apply(page, Head(todo[f]), answer[f].body), Tail(todo[f]), s)
        /\ req[f].op = "write" => answer[f].body = req[f].arg

CalmFlow(f) ==
    /\ \A g \in Requests \ {f} : pc[g] = "idle"
    /\ req[f].cookie = cookie
    /\ req[f].op \in {"listOf", "write", "writeOf"} => req[f].arg = page.active
    /\ pc[f] = "sent" => Agree(page, todo[f], Browsed)
    /\ pc[f] = "loaded" =>
         /\ Agree(page, todo[f], Browsed)
         /\ held[f].loaded = Browsed
         /\ held[f].copy.user = Browsed.user
         /\ held[f].copy.tenant = Browsed.tenant
         /\ Known(cookie) => held[f].sid = cookie
    /\ pc[f] = "ending" /\ held[f] = None =>
         answer[f].set = {None} /\ Informs(f, NewSession)
    /\ pc[f] = "ending" /\ held[f] # None =>
         /\ answer[f].set = {} /\ held[f].loaded = Browsed
         /\ Informs(f, held[f].copy)
    /\ pc[f] = "answered" => Informs(f, SessionOf(CookieAfter(answer[f])))

PageInv ==
    calm => /\ page # None
            /\ Quiet => Agree(page, <<>>, Browsed)
            /\ \A f \in Requests : pc[f] # "idle" => CalmFlow(f)

LEMMA InitPage == Init => PageInv
  BY DEF Init, PageInv

(* A step of the one flow of a calm page that leaves it waiting.           *)
LEMMA CalmStep ==
    ASSUME PageInv, calm, NEW f \in Requests, pc[f] # "idle",
           pc'[f] # "idle", page' = page,
           \A g \in Requests \ {f} : pc'[g] = pc[g],
           (\A g \in Requests \ {f} : pc'[g] = "idle") => CalmFlow(f)'
    PROVE  PageInv'
  BY DEF PageInv, CalmFlow, Quiet

(* A handler: its effect on the session, and its answer.                   *)
LEMMA ConcludePage ==
    ASSUME TypeInv, PageInv, calm, NEW f \in Requests,
           NEW h \in Copy \cup {None}, NEW n, NEW status, NEW set, NEW t,
           NEW b, Conclude(f, h, status, set, t, b), UNCHANGED clientVars,
           n = IF h = None THEN NewSession ELSE h.copy,
           set = IF h = None THEN {None} ELSE {},
           h # None => h.loaded = Browsed',
           status = "ok" => /\ Effect(Head(todo[f]), held[f].copy, n, b)
                            /\ BodyOK(req[f].op, b)
                            /\ req[f].op = "write" => b = req[f].arg
    PROVE  PageInv'
  <1>1. /\ pc[f] = "loaded" /\ pc' = [pc EXCEPT ![f] = "ending"]
        /\ held' = [held EXCEPT ![f] = h]
        /\ answer' = [answer EXCEPT ![f] = [status |-> status, set |-> set,
                                            token |-> t, body |-> b]]
        /\ cookie' = cookie /\ req' = req
        /\ page' = page /\ todo' = todo /\ calm' = calm
    BY DEF Conclude, browserVars, clientVars
  <1>2. /\ pc'[f] = "ending" /\ held'[f] = h
        /\ answer'[f].status = status /\ answer'[f].set = set
        /\ answer'[f].body = b
        /\ \A g \in Requests \ {f} : pc'[g] = pc[g]
    BY <1>1 DEF TypeInv, SessionTypeOK
  <1>3. /\ CalmFlow(f) /\ page # None /\ page \in State
        /\ todo[f] \in Chains /\ todo[f] # <<>> /\ Head(todo[f]) # "page"
        /\ req[f].op = OpOf(Head(todo[f]))
    BY <1>1 DEF TypeInv, FlowOK, PageInv
  <1>4. ASSUME status = "ok"
        PROVE  Agree(Apply(page, Head(todo[f]), b), Tail(todo[f]), n)
    <2>1. Agree(page, todo[f], held[f].copy)
      <3>1. /\ Agree(page, todo[f], Browsed)
            /\ held[f].copy.user = Browsed.user
            /\ held[f].copy.tenant = Browsed.tenant
        BY <1>1, <1>3 DEF CalmFlow
      <3>2. QED
        BY <3>1, AgreeSame
    <2>2. PICK c \in Chains : c = todo[f]
      BY <1>3
    <2>3. /\ Agree(page, c, held[f].copy) /\ c # <<>> /\ Head(c) # "page"
          /\ BodyOK(OpOf(Head(c)), b) /\ Effect(Head(c), held[f].copy, n, b)
      BY <1>3, <1>4, <2>1, <2>2
    <2>4. Agree(Apply(page, Head(c), b), Tail(c), n)
      BY <1>3, <2>3, AgreeServed
    <2>5. QED
      BY <2>2, <2>4
  <1>5. Informs(f, n)'
    BY <1>1, <1>2, <1>4 DEF Informs
  <1>6. CalmFlow(f)'
    BY <1>1, <1>2, <1>3, <1>5 DEF CalmFlow
  <1>7. QED
    BY <1>1, <1>2, <1>6, CalmStep

LEMMA OpHeads ==
    ASSUME NEW h \in CallHeads
    PROVE  /\ OpOf(h) \in {"me", "tenants", "login", "logout", "switch",
                           "create", "write", "writeOf"} => h = OpOf(h)
           /\ OpOf(h) \in {"list", "listOf"} <=> h \in Lists
  <1>1. {"me", "tenants", "switch", "create", "logout", "login", "write",
         "writeOf"} \cap Lists = {}
    BY ListsNamed DEF ListNames
  <1>2. CASE h \in Lists
    BY <1>2, OpOfHeads
  <1>3. CASE h \notin Lists
    BY <1>3, OpOfHeads DEF CallHeads
  <1>4. QED
    BY <1>2, <1>3

(* What a handler finds when the page is calm.                             *)
LEMMA CalmLoaded ==
    ASSUME TypeInv, PageInv, calm, NEW f \in Requests, pc[f] = "loaded"
    PROVE  /\ held[f] \in Copy /\ held[f].loaded = Browsed
           /\ Head(todo[f]) \in CallHeads
           /\ req[f].op = OpOf(Head(todo[f]))
           /\ Known(cookie) => held[f].sid = cookie
           /\ Head(todo[f]) \in {"write"} \cup Lists =>
                page.active = held[f].copy.tenant
           /\ req[f].op \in {"listOf", "write"} => req[f].arg = page.active
  <1>1. /\ CalmFlow(f) /\ page \in State
        /\ todo[f] \in Chains /\ todo[f] # <<>> /\ Head(todo[f]) # "page"
        /\ req[f].op = OpOf(Head(todo[f])) /\ held[f] \in Copy
    BY DEF TypeInv, FlowOK, PageInv
  <1>2. Head(todo[f]) \in CallHeads
    BY <1>1, ChainHeads
  <1>3. Agree(page, todo[f], Browsed)
    BY <1>1 DEF CalmFlow
  <1>4. Head(todo[f]) \in {"write"} \cup Lists => page.active = Browsed.tenant
    BY <1>1, <1>3, AgreeKnows
  <1>5. QED
    BY <1>1, <1>2, <1>4 DEF CalmFlow

LEMMA SameBrowsed ==
    ASSUME store' = store, cookie' = cookie
    PROVE  Browsed' = Browsed
  BY DEF Browsed, SessionOf, Known

LEMMA ConcludeCookie ==
    ASSUME NEW f, NEW h, NEW status, NEW set, NEW t, NEW b,
           Conclude(f, h, status, set, t, b)
    PROVE  pc[f] = "loaded" /\ cookie' = cookie
  BY DEF Conclude, browserVars

(* A handler that answers, its session a copy of the one it loaded.        *)
LEMMA ReplyPage ==
    ASSUME TypeInv, PageInv, calm, NEW f \in Requests, NEW s \in Session,
           NEW b, Reply(f, s, b), UNCHANGED <<store, clientVars>>,
           Effect(Head(todo[f]), held[f].copy, s, b), BodyOK(req[f].op, b),
           req[f].op # "write"
    PROVE  PageInv'
  <1>1. pc[f] = "loaded" /\ cookie' = cookie
    BY ConcludeCookie DEF Reply
  <1>2. PICK c \in Copy : c = held[f] /\ c.loaded = Browsed
    BY <1>1, CalmLoaded
  <1>3. PICK h \in Copy : /\ h = [c EXCEPT !.copy = s]
                          /\ h.copy = s /\ h.loaded = c.loaded
    BY CopyWith
  <1>4. Conclude(f, h, "ok", {}, s.csrf, b)
    BY <1>2, <1>3 DEF Reply
  <1>5. h # None /\ h.loaded = Browsed'
    BY <1>1, <1>2, <1>3, SameBrowsed, NoneAssumption
  <1>6. /\ s = IF h = None THEN NewSession ELSE h.copy
        /\ {} = IF h = None THEN {None} ELSE {}
    BY <1>3, <1>5
  <1>7. QED
    BY <1>4, <1>5, <1>6, ConcludePage

LEMMA LeavePage ==
    ASSUME TypeInv, PageInv, calm, NEW f \in Requests, NEW status, NEW b,
           Conclude(f, held[f], status, {}, None, b),
           UNCHANGED <<store, clientVars>>,
           status = "ok" =>
             /\ Effect(Head(todo[f]), held[f].copy, held[f].copy, b)
             /\ BodyOK(req[f].op, b)
             /\ req[f].op = "write" => b = req[f].arg
    PROVE  PageInv'
  <1>1. pc[f] = "loaded" /\ cookie' = cookie
    BY ConcludeCookie
  <1>2. PICK h \in Copy : h = held[f] /\ h.loaded = Browsed
    BY <1>1, CalmLoaded
  <1>3. PICK n : n = h.copy
    OBVIOUS
  <1>4. Conclude(f, h, status, {}, None, b)
    BY <1>2
  <1>5. h # None /\ h.loaded = Browsed'
    BY <1>1, <1>2, SameBrowsed, NoneAssumption
  <1>6. /\ n = IF h = None THEN NewSession ELSE h.copy
        /\ {} = IF h = None THEN {None} ELSE {}
    BY <1>3, <1>5
  <1>7. QED
    BY <1>2, <1>3, <1>4, <1>5, <1>6, ConcludePage

LEMMA MePage ==
    ASSUME TypeInv, PageInv, calm, NEW f \in Requests, Me(f),
           UNCHANGED clientVars
    PROVE  PageInv'
  <1>1. pc[f] = "loaded" /\ req[f].op = "me"
    BY DEF Me, Handles
  <1>2. PICK s \in Session : s = held[f].copy
    BY <1>1, LoadedType
  <1>3. PICK h \in CallHeads : h = Head(todo[f]) /\ OpOf(h) = "me"
    BY <1>1, CalmLoaded
  <1>4. Effect(h, s, s, s.user)
    BY <1>3, OpHeads, ListsNamed DEF Effect, ListNames
  <1>5. BodyOK(req[f].op, s.user)
    BY <1>1 DEF BodyOK, Session
  <1>6. Reply(f, s, s.user) /\ UNCHANGED store
    BY <1>2 DEF Me
  <1>7. QED
    BY <1>1, <1>2, <1>3, <1>4, <1>5, <1>6, ReplyPage

LEMMA ListTenantsPage ==
    ASSUME TypeInv, PageInv, calm, NEW f \in Requests, ListTenants(f),
           UNCHANGED clientVars
    PROVE  PageInv'
  <1>1. pc[f] = "loaded" /\ req[f].op = "tenants"
    BY DEF ListTenants, Handles
  <1>2. PICK s \in Session : s = held[f].copy
    BY <1>1, LoadedType
  <1>3. PICK h \in CallHeads : h = Head(todo[f]) /\ OpOf(h) = "tenants"
    BY <1>1, CalmLoaded
  <1>4. PICK b \in Memberships :
           /\ b = [active |-> s.tenant,
                   tenants |-> {t \in Tenants : s.user \in members[t]}]
           /\ b.active = s.tenant
    <2>1. [active |-> s.tenant,
           tenants |-> {t \in Tenants : s.user \in members[t]}] \in Memberships
      BY DEF Memberships, Session
    <2>2. QED
      BY <2>1
  <1>5. Effect(h, s, s, b)
    BY <1>3, <1>4, OpHeads, ListsNamed DEF Effect, ListNames
  <1>6. BodyOK(req[f].op, b)
    BY <1>1 DEF BodyOK
  <1>7. Reply(f, s, b) /\ UNCHANGED store
    BY <1>2, <1>4 DEF ListTenants
  <1>8. QED
    BY <1>1, <1>2, <1>3, <1>5, <1>6, <1>7, ReplyPage

(* The tenant of a switch or a creation becomes the active one.            *)
LEMMA ActivatePage ==
    ASSUME TypeInv, PageInv, calm, NEW f \in Requests, pc[f] = "loaded",
           req[f].op \in {"switch", "create"}, NEW s \in Session,
           s = held[f].copy, NEW t \in Tenants, UNCHANGED <<store, clientVars>>,
           Reply(f, [s EXCEPT !.tenant = t], t)
    PROVE  PageInv'
  <1>1. PICK n \in Session : /\ n = [s EXCEPT !.tenant = t]
                             /\ n.user = s.user /\ n.tenant = t
    BY SessionWith
  <1>2. PICK h \in CallHeads : /\ h = Head(todo[f])
                               /\ OpOf(h) \in {"switch", "create"}
    BY CalmLoaded
  <1>3. Effect(h, s, n, t)
    BY <1>1, <1>2, OpHeads, ListsNamed DEF Effect, ListNames
  <1>4. BodyOK(req[f].op, t)
    BY DEF BodyOK
  <1>5. Reply(f, n, t)
    BY <1>1
  <1>6. QED
    BY <1>2, <1>3, <1>4, <1>5, ReplyPage

LEMMA CreateTenantPage ==
    ASSUME TypeInv, PageInv, calm, NEW f \in Requests, CreateTenant(f),
           UNCHANGED clientVars
    PROVE  PageInv'
  <1>1. pc[f] = "loaded" /\ req[f].op = "create"
    BY DEF CreateTenant, Handles
  <1>2. PICK s \in Session : s = held[f].copy
    BY <1>1, LoadedType
  <1>3. PICK t \in Tenants : t = req[f].arg
    BY <1>1, LoadedType DEF ArgOK
  <1>4. Reply(f, [s EXCEPT !.tenant = t], t) /\ UNCHANGED store
    BY <1>2, <1>3 DEF CreateTenant
  <1>5. QED
    BY <1>1, <1>2, <1>4, ActivatePage

LEMMA SwitchPage ==
    ASSUME TypeInv, PageInv, calm, NEW f \in Requests, Switch(f),
           UNCHANGED clientVars
    PROVE  PageInv'
  <1>1. pc[f] = "loaded" /\ req[f].op = "switch"
    BY DEF Switch, Handles
  <1>2. PICK s \in Session : s = held[f].copy
    BY <1>1, LoadedType
  <1>3. PICK t \in Tenants : t = req[f].arg
    BY <1>1, LoadedType DEF ArgOK
  <1>4. Reply(f, [s EXCEPT !.tenant = t], t) /\ UNCHANGED store
    BY <1>2, <1>3 DEF Switch
  <1>5. QED
    BY <1>1, <1>2, <1>4, ActivatePage

LEMMA AccessPage ==
    ASSUME TypeInv, PageInv, calm, NEW f \in Requests, Access(f),
           UNCHANGED clientVars
    PROVE  PageInv'
  <1>1. /\ pc[f] = "loaded"
        /\ req[f].op \in {"list", "listOf", "write", "writeOf"}
        /\ TenantOf(f) # None
        /\ Conclude(f, held[f], "ok", {}, None, TenantOf(f))
        /\ UNCHANGED store
    BY DEF Access, Handles
  <1>2. PICK h \in CallHeads : h = Head(todo[f]) /\ OpOf(h) = req[f].op
    BY <1>1, CalmLoaded
  <1>3. PICK t \in Tenants : t = TenantOf(f)
    BY <1>1, LoadedType DEF TenantOf, ArgOK
  <1>4. BodyOK(req[f].op, t)
    BY <1>1 DEF BodyOK
  <1>5. h \in {"write", "writeOf"} \cup Lists
    BY <1>1, <1>2, OpHeads
  <1>6. h \in Lists => t = held[f].copy.tenant
    BY <1>1, <1>2, <1>3, CalmLoaded, OpHeads DEF TenantOf
  <1>7. Effect(h, held[f].copy, held[f].copy, t)
    BY <1>5, <1>6, ListsNamed DEF Effect, ListNames
  <1>8. req[f].op = "write" => t = req[f].arg
    BY <1>1, <1>2, <1>3, CalmLoaded, OpHeads DEF TenantOf
  <1>9. QED
    BY <1>1, <1>2, <1>3, <1>4, <1>7, <1>8, LeavePage

LEMMA RefusePage ==
    ASSUME TypeInv, PageInv, calm, NEW f \in Requests, Refuse(f),
           UNCHANGED clientVars
    PROVE  PageInv'
  BY LeavePage DEF Refuse

LEMMA LogoutPage ==
    ASSUME TypeInv, PageInv, calm, NEW f \in Requests, Logout(f),
           UNCHANGED clientVars
    PROVE  PageInv'
  <1>1. /\ pc[f] = "loaded" /\ req[f].op = "logout"
        /\ Conclude(f, None, "ok", {None}, None, None)
    BY DEF Logout, Handles
  <1>2. PICK h \in CallHeads : h = Head(todo[f]) /\ OpOf(h) = "logout"
    BY <1>1, CalmLoaded
  <1>3. NewSession.user = None /\ NewSession.tenant = None
    BY DEF NewSession
  <1>4. Effect(h, held[f].copy, NewSession, None)
    BY <1>2, <1>3, OpHeads, ListsNamed DEF Effect, ListNames
  <1>5. BodyOK(req[f].op, None)
    BY <1>1 DEF BodyOK
  <1>6. PICK n : n = NewSession
    OBVIOUS
  <1>7. /\ n = IF None = None THEN NewSession ELSE None.copy
        /\ {None} = IF None = None THEN {None} ELSE {}
    BY <1>6
  <1>8. QED
    BY <1>1, <1>2, <1>4, <1>5, <1>6, <1>7, ConcludePage

LEMMA LoginPage ==
    ASSUME TypeInv, PageInv, calm, NEW f \in Requests, Login(f),
           UNCHANGED clientVars
    PROVE  PageInv'
  <1>1. /\ pc[f] = "loaded" /\ req[f].op = "login" /\ IdLeft
        /\ req[f].arg \in Users /\ held[f].sid \in Sids
        /\ store \in [Sids -> Session \cup {None}]
    BY LoadedType DEF Login, Handles, ArgOK
  <1>2. PICK i \in Sids : i = FreshSid
    BY <1>1, Fresh
  <1>3. PICK s \in Session :
           s = [user |-> req[f].arg, tenant |-> None, csrf |-> i]
    BY <1>1 DEF Session
  <1>4. NewSession \in Session
    BY DEF NewSession, Session
  <1>5. PICK h \in Copy :
           /\ h = [sid |-> i, loaded |-> NewSession, copy |-> s]
           /\ h.loaded = NewSession /\ h.copy = s
    <2>1. [sid |-> i, loaded |-> NewSession, copy |-> s] \in Copy
      BY <1>4 DEF Copy
    <2>2. QED
      BY <2>1
  <1>6. /\ Conclude(f, h, "ok", {}, i, None)
        /\ store' = [store EXCEPT ![held[f].sid] = None, ![i] = None]
    BY <1>2, <1>3, <1>5 DEF Login
  <1>7. cookie' = cookie
    BY <1>6, ConcludeCookie
  <1>8. Browsed' = NewSession
    <2>1. CASE Known(cookie)
      <3>1. held[f].sid = cookie
        BY <1>1, <2>1, CalmLoaded
      <3>2. store'[cookie] = None
        BY <1>1, <1>6, <3>1
      <3>3. QED
        BY <1>7, <3>2 DEF Browsed, SessionOf, Known
    <2>2. CASE ~Known(cookie)
      <3>1. cookie = None \/ store[cookie] = None
        BY <2>2 DEF Known
      <3>2. cookie \in Sids \cup {None}
        BY DEF TypeInv, SessionTypeOK
      <3>3. cookie = None \/ store'[cookie] = None
        BY <1>1, <1>6, <3>1, <3>2
      <3>4. QED
        BY <1>7, <3>3 DEF Browsed, SessionOf, Known
    <2>3. QED
      BY <2>1, <2>2
  <1>9. PICK k \in CallHeads : k = Head(todo[f]) /\ OpOf(k) = "login"
    BY <1>1, CalmLoaded
  <1>10. Effect(k, held[f].copy, s, None)
    BY <1>9, OpHeads, ListsNamed DEF Effect, ListNames
  <1>11. BodyOK(req[f].op, None)
    BY <1>1 DEF BodyOK
  <1>12. h # None
    BY NoneAssumption
  <1>13. /\ s = IF h = None THEN NewSession ELSE h.copy
         /\ {} = IF h = None THEN {None} ELSE {}
    BY <1>5, <1>12
  <1>14. QED
    BY <1>1, <1>5, <1>6, <1>8, <1>9, <1>10, <1>11, <1>13, ConcludePage

LEMMA LoadPage ==
    ASSUME TypeInv, PageInv, calm, NEW f \in Requests, Load(f),
           UNCHANGED clientVars
    PROVE  PageInv'
  <1>1. /\ pc[f] = "sent" /\ (Known(req[f].cookie) \/ IdLeft)
        /\ req' = req /\ cookie' = cookie
        /\ page' = page /\ todo' = todo /\ calm' = calm
    BY LoadCases DEF clientVars
  <1>2. /\ CalmFlow(f) /\ req[f].cookie = cookie
        /\ Agree(page, todo[f], Browsed)
    BY <1>1 DEF PageInv, CalmFlow
  <1>3. ASSUME pc' = [pc EXCEPT ![f] = "answered"],
               answer' = [answer EXCEPT ![f] =
                            [status |-> "csrf", set |-> {},
                             token |-> None, body |-> None]]
        PROVE  PageInv'
    <2>1. /\ pc'[f] = "answered" /\ answer'[f].status = "csrf"
          /\ \A g \in Requests \ {f} : pc'[g] = pc[g]
      BY <1>3 DEF TypeInv, SessionTypeOK
    <2>2. CalmFlow(f)'
      BY <1>1, <1>2, <2>1 DEF CalmFlow, Informs
    <2>3. QED
      BY <1>1, <2>1, <2>2, CalmStep
  <1>4. ASSUME NEW s \in Sids, s = SidFor(req[f]),
               pc' = [pc EXCEPT ![f] = "loaded"],
               held' = [held EXCEPT ![f] =
                          [sid |-> s, loaded |-> Stored(req[f]),
                           copy |-> Issued(req[f])]],
               store' = [store EXCEPT ![s] =
                           IF s = req[f].cookie THEN @ ELSE None]
        PROVE  PageInv'
    <2>1. /\ pc'[f] = "loaded" /\ held'[f].sid = s
          /\ held'[f].loaded = Stored(req[f])
          /\ held'[f].copy = Issued(req[f])
          /\ \A g \in Requests \ {f} : pc'[g] = pc[g]
      BY <1>4 DEF TypeInv, SessionTypeOK
    <2>2. Stored(req[f]) = Browsed
      BY <1>2 DEF Stored, Browsed, SessionOf
    <2>3. Browsed' = Browsed
      <3>1. CASE Known(cookie)
        <4>1. s = req[f].cookie
          BY <1>2, <1>4, <3>1 DEF SidFor
        <4>2. store' = store
          BY <1>1, <1>4, <4>1, SentType
        <4>3. QED
          BY <1>1, <4>2, SameBrowsed
      <3>2. CASE ~Known(cookie)
        <4>1. cookie = None \/ store[cookie] = None
          BY <3>2 DEF Known
        <4>2. cookie \in Sids \cup {None}
          BY DEF TypeInv, SessionTypeOK
        <4>3. cookie = None \/ store'[cookie] = None
          BY <1>1, <1>4, <4>1, <4>2, SentType
        <4>4. QED
          BY <1>1, <3>2, <4>3 DEF Browsed, SessionOf, Known
      <3>3. QED
        BY <3>1, <3>2
    <2>4. /\ Issued(req[f]).user = Browsed.user
          /\ Issued(req[f]).tenant = Browsed.tenant
      BY <1>1, <2>2, StoredType
    <2>5. Known(cookie)' => s = cookie
      <3>1. CASE Known(cookie)
        BY <1>2, <1>4, <3>1 DEF SidFor
      <3>2. CASE ~Known(cookie)
        <4>1. cookie = None \/ store[cookie] = None
          BY <3>2 DEF Known
        <4>2. cookie \in Sids \cup {None}
          BY DEF TypeInv, SessionTypeOK
        <4>3. cookie = None \/ store'[cookie] = None
          BY <1>1, <1>4, <4>1, <4>2, SentType
        <4>4. QED
          BY <1>1, <4>3 DEF Known
      <3>3. QED
        BY <3>1, <3>2
    <2>6. CalmFlow(f)'
      BY <1>1, <1>2, <2>1, <2>2, <2>3, <2>4, <2>5 DEF CalmFlow
    <2>7. QED
      BY <1>1, <2>1, <2>6, CalmStep
  <1>5. SidFor(req[f]) \in Sids
    BY <1>1, StoredType
  <1>6. QED
    BY <1>3, <1>4, <1>5, LoadCases

LEMMA EndPage ==
    ASSUME TypeInv, PageInv, calm, NEW f \in Requests, End(f),
           UNCHANGED clientVars
    PROVE  PageInv'
  <1> DEFINE saved == held[f] # None /\ held[f].copy # held[f].loaded
             after == IF held[f] = None THEN NewSession ELSE held[f].copy
  <1>1. /\ pc[f] = "ending" /\ pc' = [pc EXCEPT ![f] = "answered"]
        /\ req' = req /\ cookie' = cookie
        /\ page' = page /\ todo' = todo /\ calm' = calm
    BY DEF End, browserVars, clientVars
  <1>2. /\ saved => /\ store' = [store EXCEPT ![held[f].sid] = held[f].copy]
                    /\ answer' = [answer EXCEPT ![f].set = {held[f].sid}]
        /\ ~saved => store' = store /\ answer' = answer
    BY DEF End
  <1> HIDE DEF saved
  <1>3. /\ CalmFlow(f) /\ answer[f] \in Answer
        /\ held \in [Requests -> Copy \cup {None}]
        /\ answer \in [Requests -> Answer \cup {None}]
        /\ store \in [Sids -> Session \cup {None}]
    BY <1>1 DEF PageInv, TypeInv, SessionTypeOK, FlowOK
  <1>4. /\ pc'[f] = "answered"
        /\ \A g \in Requests \ {f} : pc'[g] = pc[g]
    BY <1>1 DEF TypeInv, SessionTypeOK
  <1>5. PICK n : n = after
    OBVIOUS
  <1>6. /\ Informs(f, n)
        /\ held[f] = None => answer[f].set = {None}
        /\ held[f] # None => answer[f].set = {} /\ held[f].loaded = Browsed
    BY <1>1, <1>3, <1>5 DEF CalmFlow
  <1> HIDE DEF after
  <1>7. /\ SessionOf(CookieAfter(answer[f]))' = n
        /\ answer'[f].status = answer[f].status
        /\ answer'[f].body = answer[f].body
    <2>1. CASE saved
      <3>1. PICK i \in Sids : i = held[f].sid
        BY <1>3, <2>1 DEF saved, Copy
      <3>2. held[f].copy # None /\ n = held[f].copy /\ i # None
        BY <1>3, <1>5, <2>1, NoneAssumption DEF saved, after, Copy
      <3>3. store'[i] = n
        BY <1>2, <1>3, <2>1, <3>1, <3>2
      <3>4. /\ answer'[f].set = {i} /\ answer'[f].status = answer[f].status
            /\ answer'[f].body = answer[f].body
        <4>1. PICK b \in Answer : b = answer[f]
          BY <1>3
        <4>2. answer'[f] = [b EXCEPT !.set = {i}]
          BY <1>2, <1>3, <2>1, <3>1, <4>1
        <4>3. QED
          BY <4>1, <4>2 DEF Answer
      <3>5. CookieAfter(answer[f])' = i
        BY <3>4 DEF CookieAfter
      <3>6. QED
        BY <3>2, <3>3, <3>4, <3>5 DEF SessionOf, Known
    <2>2. CASE held[f] = None
      <3>1. store' = store /\ answer' = answer /\ n = NewSession
        BY <1>2, <1>5, <2>2 DEF saved, after
      <3>2. CookieAfter(answer[f])' = None
        BY <1>6, <2>2, <3>1 DEF CookieAfter
      <3>3. QED
        BY <3>1, <3>2 DEF SessionOf, Known
    <2>3. CASE held[f] # None /\ ~saved
      <3>1. store' = store /\ answer' = answer /\ n = Browsed
        BY <1>2, <1>5, <1>6, <2>3 DEF saved, after
      <3>2. CookieAfter(answer[f])' = cookie
        BY <1>1, <1>6, <2>3, <3>1 DEF CookieAfter
      <3>3. QED
        BY <3>1, <3>2 DEF SessionOf, Known, Browsed
    <2>4. QED
      BY <2>1, <2>2, <2>3
  <1>8. Informs(f, n)'
    BY <1>1, <1>6, <1>7 DEF Informs
  <1>9. CalmFlow(f)'
    BY <1>1, <1>3, <1>4, <1>7, <1>8 DEF CalmFlow
  <1>10. QED
    BY <1>1, <1>4, <1>9, CalmStep

LEMMA ServePage ==
    ASSUME TypeInv, PageInv, NEW f \in Requests, Serve(f), UNCHANGED clientVars
    PROVE  PageInv'
  <1>1. CASE calm
    BY <1>1, LoadPage, MePage, LoginPage, LogoutPage, ListTenantsPage,
       CreateTenantPage, SwitchPage, AccessPage, RefusePage, EndPage DEF Serve
  <1>2. CASE ~calm
    BY <1>2 DEF PageInv, clientVars
  <1>3. QED
    BY <1>1, <1>2

(* The only flow goes on: the page stays up to date with its session.      *)
LEMMA ContinuePage ==
    ASSUME TypeInv, NEW f \in Requests, \A g \in Requests \ {f} : pc[g] = "idle",
           NEW p \in State, NEW c \in Rests, Continue(f, p, c), NEW s,
           s = Browsed', Agree(p, c, s), s.user = None => s.tenant = None
    PROVE  PageInv'
  <1>1. PICK n : n = Settle(p, c)
    OBVIOUS
  <1>2. Ready(n) /\ Agree(n.page, n.todo, s)
    BY <1>1, SettleType, AgreeSettle
  <1>3. /\ page' = n.page /\ todo' = [todo EXCEPT ![f] = n.todo]
        /\ n.todo = <<>> => Rest(f)
        /\ n.todo # <<>> => Send(f, OpOf(Head(n.todo)), n.page.active)
    BY <1>1 DEF Continue
  <1>4. page' \in State /\ page' # None /\ todo'[f] = n.todo
    BY <1>2, <1>3, StateAssumption DEF Ready, TypeInv
  <1>5. CASE n.todo = <<>>
    <2>1. \A g \in Requests : pc'[g] = "idle"
      BY <1>3, <1>5 DEF Rest, TypeInv, SessionTypeOK
    <2>2. Agree(page', <<>>, Browsed')
      BY <1>2, <1>3, <1>5
    <2>3. QED
      BY <1>4, <2>1, <2>2 DEF PageInv
  <1>6. CASE n.todo # <<>>
    <2>1. /\ pc' = [pc EXCEPT ![f] = "sent"]
          /\ req' = [req EXCEPT ![f] =
                       [op |-> OpOf(Head(n.todo)), arg |-> n.page.active,
                        cookie |-> cookie', token |-> token']]
      BY <1>3, <1>6 DEF Send
    <2>2. /\ pc'[f] = "sent" /\ req'[f].arg = n.page.active
          /\ req'[f].cookie = cookie'
          /\ \A g \in Requests \ {f} : pc'[g] = "idle"
      BY <2>1 DEF TypeInv, SessionTypeOK
    <2>3. Agree(page', todo'[f], Browsed')
      BY <1>2, <1>3, <1>4
    <2>4. CalmFlow(f)'
      BY <1>3, <2>2, <2>3 DEF CalmFlow
    <2>5. QED
      BY <1>4, <2>2, <2>4 DEF PageInv, Quiet
  <1>7. QED
    BY <1>5, <1>6

LEMMA SubmitPage ==
    ASSUME TypeInv, PageInv, calm', NEW f \in Requests, NEW arg,
           NEW c \in Chains, c # <<>>, Submit(f, arg, c),
           Head(c) \in {"login", "logout", "create", "switch", "write",
                        "writeOf"},
           Head(c) \in {"write", "writeOf"} => arg = page.active
    PROVE  PageInv'
  <1>1. /\ page # None /\ page' = page /\ calm /\ Quiet
        /\ store' = store /\ cookie' = cookie
        /\ todo' = [todo EXCEPT ![f] = c]
        /\ pc' = [pc EXCEPT ![f] = "sent"]
        /\ req' = [req EXCEPT ![f] = [op |-> Head(c), arg |-> arg,
                                      cookie |-> cookie', token |-> token']]
    BY DEF Submit, Clicked, Send, serverVars, browserVars
  <1>2. /\ pc'[f] = "sent" /\ req'[f].op = Head(c) /\ req'[f].arg = arg
        /\ req'[f].cookie = cookie' /\ todo'[f] = c
        /\ \A g \in Requests \ {f} : pc'[g] = "idle"
    BY <1>1 DEF TypeInv, SessionTypeOK, Quiet
  <1>3. Agree(page, <<>>, Browsed)
    BY <1>1 DEF PageInv
  <1>4. Agree(page, c, Browsed)
    BY <1>3, AgreeAny
  <1>5. Agree(page', todo'[f], Browsed')
    BY <1>1, <1>2, <1>4, SameBrowsed
  <1>6. CalmFlow(f)'
    BY <1>1, <1>2, <1>5 DEF CalmFlow
  <1>7. QED
    BY <1>1, <1>2, <1>6 DEF PageInv, Quiet

(* A session without a user has no tenant.                                 *)
LEMMA NobodyTenant ==
    ASSUME TypeInv, SessionInv, NEW c, NEW s, s = SessionOf(c),
           c \in Sids \cup {None}
    PROVE  s.user = None => s.tenant = None
  <1>1. CASE Known(c)
    <2>1. s \in Session /\ Joined(s)
      BY <1>1 DEF TypeInv, SessionTypeOK, SessionInv, JoinedInv, SessionOf,
                  Known
    <2>2. CASE s.tenant # None
      <3>1. s.tenant \in Tenants /\ s.user \in members[s.tenant]
        BY <2>1, <2>2 DEF Session, Joined
      <3>2. s.user \in Users
        BY <3>1 DEF TypeInv, SessionTypeOK
      <3>3. QED
        BY <3>2, NoneAssumption
    <2>3. QED
      BY <2>2
  <1>2. CASE ~Known(c)
    BY <1>2 DEF SessionOf, NewSession
  <1>3. QED
    BY <1>1, <1>2

LEMMA ClickPage ==
    ASSUME TypeInv, SessionInv, PageInv, NEW f \in Requests, Click(f)
    PROVE  PageInv'
  <1> SUFFICES ASSUME calm'
               PROVE  PageInv'
    BY DEF PageInv
  <1>1. PICK s : s = Browsed
    OBVIOUS
  <1>2. s.user = None => s.tenant = None
    <2>1. cookie \in Sids \cup {None}
      BY DEF TypeInv, SessionTypeOK
    <2>2. QED
      BY <1>1, <2>1, NobodyTenant DEF Browsed
  <1>3. ASSUME Clicked(f)
        PROVE  /\ page \in State /\ Agree(page, <<>>, s) /\ s = Browsed'
               /\ \A g \in Requests \ {f} : pc[g] = "idle"
    <2>1. page # None /\ calm /\ Quiet /\ store' = store /\ cookie' = cookie
      BY <1>3 DEF Clicked, serverVars, browserVars
    <2>2. page \in State /\ Agree(page, <<>>, s)
      BY <1>1, <2>1 DEF PageInv, TypeInv
    <2>3. QED
      BY <1>1, <2>1, <2>2, SameBrowsed DEF Quiet
  <1>4. ASSUME NEW p \in Pages, Open(f, p)
        PROVE  PageInv'
    <2>1. /\ Quiet /\ store' = store /\ cookie' = cookie
          /\ Continue(f, Blank(p), Bootstrap)
      BY <1>4 DEF Open, Bootstrap, serverVars
    <2>2. PICK q \in State : q = Blank(p)
      BY BlankState
    <2>3. Bootstrap \in Rests /\ Agree(q, Bootstrap, s)
      BY AgreeRests DEF Rests
    <2>4. s = Browsed' /\ Continue(f, q, Bootstrap)
      BY <1>1, <2>1, <2>2, SameBrowsed
    <2>5. \A g \in Requests \ {f} : pc[g] = "idle"
      BY <2>1 DEF Quiet
    <2>6. QED
      BY <1>2, <2>3, <2>4, <2>5, ContinuePage
  <1>5. ASSUME NEW p \in Pages, Navigate(f, p)
        PROVE  PageInv'
    <2>1. Clicked(f) /\ Continue(f, [page EXCEPT !.current = p], <<"page">>)
      BY <1>5 DEF Navigate
    <2>2. /\ [page EXCEPT !.current = p] \in State
          /\ [page EXCEPT !.current = p].user = page.user
          /\ [page EXCEPT !.current = p].active = page.active
      BY <1>3, <2>1 DEF State
    <2>3. PICK q \in State : /\ q = [page EXCEPT !.current = p]
                             /\ q.user = page.user /\ q.active = page.active
      BY <2>2
    <2>4. page.user = s.user /\ page.active = s.tenant
      BY <1>3, <2>1 DEF Agree
    <2>5. <<"page">> \in Rests /\ Agree(q, <<"page">>, s)
      BY <2>3, <2>4, AgreeRests DEF Rests
    <2>6. Continue(f, q, <<"page">>)
      BY <2>1, <2>3
    <2>7. QED
      BY <1>2, <1>3, <2>1, <2>5, <2>6, ContinuePage
  <1>6. ASSUME RefreshTenants(f)
        PROVE  PageInv'
    <2>1. Clicked(f) /\ Continue(f, page, <<"tenants">>)
      BY <1>6 DEF RefreshTenants
    <2>2. <<"tenants">> \in Rests /\ Agree(page, <<"tenants">>, s)
      BY <1>3, <2>1, AgreeAny DEF Rests
    <2>3. QED
      BY <1>2, <1>3, <2>1, <2>2, ContinuePage
  <1>7. ASSUME NEW u \in Users, LogIn(f, u)
        PROVE  PageInv'
    <2>1. PICK c \in Chains : c = <<"login", "me", "tenants", "page">>
      BY SubmitChains
    <2>2. c # <<>> /\ Head(c) = "login" /\ Submit(f, u, c)
      BY <1>7, <2>1 DEF LogIn
    <2>3. QED
      BY <2>2, SubmitPage
  <1>8. ASSUME LogOut(f)
        PROVE  PageInv'
    <2>1. PICK c \in Chains : c = <<"logout">>
      BY SubmitChains
    <2>2. c # <<>> /\ Head(c) = "logout" /\ Submit(f, None, c)
      BY <1>8, <2>1 DEF LogOut
    <2>3. QED
      BY <2>2, SubmitPage
  <1>9. ASSUME NEW t \in Tenants, SwitchTenant(f, t)
        PROVE  PageInv'
    <2>1. PICK c \in Chains : c = <<"switch", "page">>
      BY SubmitChains
    <2>2. c # <<>> /\ Head(c) = "switch" /\ Submit(f, t, c)
      BY <1>9, <2>1 DEF SwitchTenant
    <2>3. QED
      BY <2>2, SubmitPage
  <1>10. ASSUME NEW t \in Tenants, FoundTenant(f, t)
         PROVE  PageInv'
    <2>1. PICK c \in Chains : c = <<"create", "tenants", "page">>
      BY SubmitChains
    <2>2. c # <<>> /\ Head(c) = "create" /\ Submit(f, t, c)
      BY <1>10, <2>1 DEF FoundTenant
    <2>3. QED
      BY <2>2, SubmitPage
  <1>11. ASSUME CreateIncident(f)
         PROVE  PageInv'
    <2>1. /\ Submit(f, page.active, <<"write", "incidents">>)
          /\ page.current = "incidents"
      BY <1>11 DEF CreateIncident
    <2>2. Clicked(f)
      BY <2>1 DEF Submit
    <2>3. page.current \in Pages
      BY <1>3, <2>2 DEF State
    <2>4. PICK l \in Lists : l = "incidents"
      BY <2>1, <2>3, ListHead DEF PageLists
    <2>5. PICK c \in Chains : c = <<"write", "incidents">>
      BY <2>4, SubmitChains
    <2>6. c # <<>> /\ Head(c) = "write" /\ Submit(f, page.active, c)
      BY <2>1, <2>5
    <2>7. QED
      BY <2>6, SubmitPage
  <1>12. ASSUME NEW l \in Lists, ManageKeys(f, l)
         PROVE  PageInv'
    <2>1. PICK c \in Chains : c = <<"writeOf", l>>
      BY SubmitChains
    <2>2. c # <<>> /\ Head(c) = "writeOf" /\ Submit(f, page.active, c)
      BY <1>12, <2>1 DEF ManageKeys
    <2>3. QED
      BY <2>2, SubmitPage
  <1>13. QED
    BY <1>4, <1>5, <1>6, <1>7, <1>8, <1>9, <1>10, <1>11, <1>12 DEF Click

LEMMA ReceivePage ==
    ASSUME TypeInv, SessionInv, PageInv, NEW f \in Requests, Receive(f)
    PROVE  PageInv'
  <1>1. /\ pc[f] = "answered" /\ TakeCookie(answer[f]) /\ store' = store
    BY DEF Receive, serverVars
  <1>2. CASE answer[f].status = "ok" /\ calm
    <2>1. /\ calm' = calm
          /\ Continue(f, Apply(page, Head(todo[f]), answer[f].body),
                      Tail(todo[f]))
      BY <1>2 DEF Receive
    <2>2. CalmFlow(f)
      BY <1>1, <1>2 DEF PageInv
    <2>3. PICK i : i = CookieAfter(answer[f])
      OBVIOUS
    <2>4. PICK s : s = SessionOf(i)
      OBVIOUS
    <2>5. cookie' = i
      BY <1>1, <2>3 DEF TakeCookie, CookieAfter
    <2>6. s = Browsed'
      BY <1>1, <2>4, <2>5 DEF Browsed, SessionOf, Known
    <2>7. PICK p \in State : p = Apply(page, Head(todo[f]), answer[f].body)
      BY <1>1, <1>2, AnsweredType, ApplyType
    <2>8. PICK c \in Rests : c = Tail(todo[f])
      BY <1>1, AnsweredType, TailRests
    <2>9. Agree(p, c, s)
      BY <1>1, <1>2, <2>2, <2>3, <2>4, <2>7, <2>8 DEF CalmFlow, Informs
    <2>10. s.user = None => s.tenant = None
      <3>1. i \in Sids \cup {None}
        <4>1. CASE answer[f].set = {}
          BY <1>1, <2>3, <4>1, AnsweredType DEF CookieAfter
        <4>2. CASE answer[f].set # {}
          <5>1. i \in answer[f].set
            BY <2>3, <4>2 DEF CookieAfter
          <5>2. QED
            BY <1>1, <5>1, AnsweredType
        <4>3. QED
          BY <4>1, <4>2
      <3>2. QED
        BY <2>4, <3>1, NobodyTenant
    <2>11. /\ Continue(f, p, c)
           /\ \A g \in Requests \ {f} : pc[g] = "idle"
      BY <2>1, <2>2, <2>7, <2>8 DEF CalmFlow
    <2>12. QED
      BY <2>6, <2>9, <2>10, <2>11, ContinuePage
  <1>3. CASE answer[f].status = "ok" /\ ~calm
    BY <1>3 DEF Receive, PageInv
  <1>4. CASE answer[f].status # "ok"
    BY <1>4 DEF Receive, Abandon, PageInv
  <1>5. QED
    BY <1>2, <1>3, <1>4

LEMMA PageStep ==
    TypeInv /\ SessionInv /\ PageInv /\ [Next]_vars => PageInv'
  <1> SUFFICES ASSUME TypeInv, SessionInv, PageInv, [Next]_vars
               PROVE  PageInv'
    OBVIOUS
  <1>1. CASE UNCHANGED vars
    BY <1>1 DEF vars, sessionVars, serverVars, browserVars, clientVars, PageInv,
                Quiet, Browsed, SessionOf, Known, CalmFlow, Informs, CookieAfter
  <1>2. ASSUME NEW f \in Requests, Lose(f)
        PROVE  PageInv'
    BY <1>2 DEF Lose, Abandon, PageInv
  <1>3. CASE Next
    <2>1. PICK f \in Requests : \/ Click(f)
                                \/ Receive(f)
                                \/ Lose(f)
                                \/ Serve(f) /\ UNCHANGED clientVars
      BY <1>3 DEF Next
    <2>2. QED
      BY <1>2, <2>1, ClickPage, ReceivePage, ServePage
  <1>4. QED
    BY <1>1, <1>3

(* While the page is calm, each flow leaves it, after the calls it has yet *)
(* to make, in agreement with the session the browser then has (app.js).   *)
THEOREM PageInvariance == Spec => []PageInv
  <1>1. Init => PageInv
    BY InitPage
  <1>2. TypeInv /\ SessionInv /\ PageInv /\ [Next]_vars => PageInv'
    BY PageStep
  <1>3. QED
    BY <1>1, <1>2, Invariance, PTL DEF Spec

LEMMA CalmPage ==
    ASSUME PageInv, calm, Quiet
    PROVE  /\ page.user = Browsed.user /\ page.active = Browsed.tenant
           /\ \A l \in Visible(page) : page.shown[l] = Browsed.tenant
  BY ToSets DEF PageInv, Agree

(* At rest, a page none of whose requests failed or overlapped shows the   *)
(* user and the tenant of the browser's session (render, refreshSession).  *)
THEOREM PageTellsSessionHolds == Spec => []PageTellsSession
  <1>1. PageInv => PageTellsSession
    BY CalmPage DEF PageTellsSession, Browsed, SessionOf
  <1>2. QED
    BY <1>1, PageInvariance, PTL

(* At rest, the lists such a page shows are those of its active tenant     *)
(* (refreshAll after a login or a switch).                                 *)
THEOREM ListsOfActiveTenantHolds == Spec => []ListsOfActiveTenant
  <1>1. PageInv => ListsOfActiveTenant
    BY CalmPage DEF ListsOfActiveTenant, Visible
  <1>2. QED
    BY <1>1, PageInvariance, PTL

(* What such a page files is filed in the tenant it showed when the user   *)
(* clicked (the handlers take the tenant from the session).                *)
THEOREM FiledWhereShownHolds == Spec => []FiledWhereShown
  <1>1. PageInv => FiledWhereShown
    BY DEF FiledWhereShown, PageInv, CalmFlow, Informs
  <1>2. QED
    BY <1>1, PageInvariance, PTL
=============================================================================
