---------------------------- MODULE MCWebClient ----------------------------
(* Instances of WebClient: one tenant with members, one yet to be founded. *)
EXTENDS WebClient

CONSTANTS f1, f2, u1, u2, t1, t2

MCFounders == (t1 :> {u1}) @@ (t2 :> {})

\* A state up to what makes no difference: which ids stand for the sessions,
\* sessions no request can reach, and the lists of a page that is not calm.
IdsOf(f) ==
    (IF req[f] = None THEN <<>> ELSE <<req[f].cookie, req[f].token>>)
    \o (IF held[f] = None THEN <<>> ELSE <<held[f].sid>>)
    \o (IF answer[f] = None THEN <<>>
        ELSE <<answer[f].token>> \o SetToSeq(answer[f].set))
MCView ==
    LET ids == <<cookie, token>> \o IdsOf(f1)
               \o (IF f2 \in Requests THEN IdsOf(f2) ELSE <<>>)
        Name(s) == IF s = None THEN 0 ELSE CHOOSE k \in DOMAIN ids :
                       ids[k] = s /\ \A j \in 1 .. k - 1 : ids[j] # s
        Named(s) == IF s = None THEN None ELSE [s EXCEPT !.csrf = None] IN
    <<[k \in {Name(s) : s \in Reachable} |-> Named(store[ids[k]])],
      {Name(s) : s \in ended \cap Reachable}, members,
      [k \in DOMAIN ids |-> Name(ids[k])], pc,
      [f \in Requests |-> IF req[f] = None THEN None
                          ELSE <<req[f].op, req[f].arg>>],
      [f \in Requests |-> IF held[f] = None THEN None
                          ELSE <<Named(held[f].loaded), Named(held[f].copy),
                                 held[f].copy = held[f].loaded>>],
      [f \in Requests |-> IF answer[f] = None THEN None
                          ELSE <<answer[f].status, answer[f].body,
                                 Cardinality(answer[f].set)>>],
      IF page = None \/ calm THEN page ELSE [page EXCEPT !.shown = None],
      todo, calm>>
=============================================================================
