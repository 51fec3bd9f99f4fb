---------------------------- MODULE AtomicDesired ----------------------------
(***************************************************************************)
(* What the CLI promises about the desired.json of the nodes, however many *)
(* of its commands run at once: a node's services change only as if the    *)
(* commands were applied one after the other to what is there, each of     *)
(* them touching nothing but the services it is about.                     *)
(***************************************************************************)
CONSTANTS Nodes, Projects, Services, CLIs

VARIABLES
    store,       \* the services in each node's desired.json
    request      \* what each running command asks for

Entry == [project : Projects, service : Services]

\* "replace": put[n] is all the project has on n.  "upsert": its other
\* services stay.  "remove": those in drop go.
Request ==
    [op : {"none", "replace", "upsert", "remove"}, project : Projects,
     put : [Nodes -> SUBSET Services], drop : SUBSET Services]

Of(p, S) == [project : {p}, service : S]

Init ==
    /\ store \in [Nodes -> SUBSET Entry]
    /\ request \in [CLIs -> Request]

OthersKeep(c) == \A d \in CLIs \ {c} : request'[d] = request[d]

Ask(c) == OthersKeep(c) /\ UNCHANGED store

Replace(r, n, E) == {e \in E : e.project # r.project} \cup Of(r.project, r.put[n])

Upsert(r, n, E) == E \cup Of(r.project, r.put[n])

Remove(r, E) == E \ Of(r.project, r.drop)

Apply(c, n) ==
    /\ LET r == request[c]
           E == store[n]
       IN  \/ r.op = "replace" /\ store' = [store EXCEPT ![n] = Replace(r, n, E)]
           \/ r.op = "upsert"  /\ store' = [store EXCEPT ![n] = Upsert(r, n, E)]
           \/ r.op = "remove"  /\ store' = [store EXCEPT ![n] = Remove(r, E)]
    /\ OthersKeep(c)

Next == \E c \in CLIs : Ask(c) \/ \E n \in Nodes : Apply(c, n)

Spec == Init /\ [][Next]_<<store, request>>

=============================================================================
