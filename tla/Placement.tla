----------------------------- MODULE Placement -----------------------------
(***************************************************************************)
(* The scheduler's arithmetic (cli: deploy/placement.ts, candidate-nodes,  *)
(* provision-plan, rebalance-plan; shared: capacity.ts): pure operators on *)
(* the load of nodes and the demand of services.  A node is a number, its  *)
(* place in the order of names; scores are compared as exact fractions,    *)
(* where the program divides floating-point numbers.                       *)
(***************************************************************************)
EXTENDS Integers, Sequences, SequencesExt

CONSTANT Resources    \* cpu shares and megabytes of memory

NoNode == 0
Zero == [r \in Resources |-> 0]
Larger(x, y) == [r \in Resources |-> Max({x[r], y[r]})]
Plus(x, y) == [r \in Resources |-> x[r] + y[r]]
Times(k, x) == [r \in Resources |-> k * x[r]]
Within(x, y) == \A r \in Resources : x[r] <= y[r]

\* A service as the planner sees it: [name, need, replicas, maxSurge, volume,
\* sticky].  A tally is the load of a node: [alloc, steady, surge].
Surge(s, k) == Times(Min({s.maxSurge, k}), s.need)

\* The node with k replicas of the service on it.  A node rolls one service at
\* a time: the surges are not added up.
Taken(t, s, k) ==
  [t EXCEPT !.steady = Plus(@, Times(k, s.need)), !.surge = Larger(@, Surge(s, k))]

\* checkCapacity
Holds(t) == Within(Plus(t.steady, t.surge), t.alloc)

Fits(t, s, k) == Holds(Taken(t, s, k))

-----------------------------------------------------------------------------
(* Which node is best                                                       *)

Free(t, r) == t.alloc[r] - t.steady[r]

\* a/b < c/d, for positive denominators
Below(a, b, c, d) == a * d < c * b

\* The resource of which the least part is free
Binding(t) == CHOOSE r \in Resources : \A q \in Resources :
                ~Below(Free(t, q), t.alloc[q], Free(t, r), t.alloc[r])

ScoreBelow(t, u) ==
  LET r == Binding(t)
      q == Binding(u)
  IN Below(Free(t, r), t.alloc[r], Free(u, q), u.alloc[q])

\* By score, then by free cpu, free memory and name
Better(n, t, m, u) ==
  \/ ScoreBelow(u, t)
  \/ /\ ~ScoreBelow(t, u)
     /\ \/ Free(t, "cpu") > Free(u, "cpu")
        \/ /\ Free(t, "cpu") = Free(u, "cpu")
           /\ \/ Free(t, "memory") > Free(u, "memory")
              \/ Free(t, "memory") = Free(u, "memory") /\ n < m

\* The node with the most headroom, were it to hold here[n] replicas
Most(able, tallies, s, here) ==
  LET Then(n) == Taken(tallies[n], s, here[n])
  IN IF able = {} THEN NoNode
     ELSE CHOOSE n \in able : \A m \in able \ {n} : Better(n, Then(n), m, Then(m))

\* Among those on which they fit
BestNode(tallies, s, here) ==
  Most({n \in DOMAIN tallies : Fits(tallies[n], s, here[n])}, tallies, s, here)

-----------------------------------------------------------------------------
(* Where the replicas of a service go                                       *)

Nowhere(tallies) == [n \in DOMAIN tallies |-> 0]
Failed(why) == [error |-> why]
Placed(counts) == [error |-> "none", on |-> counts]

OneMore(counts, n) ==
  IF n = NoNode THEN Failed("capacity") ELSE Placed([counts EXCEPT ![n] = @ + 1])

\* One replica after the other, each where there is most headroom
PackByCapacity(tallies, s) ==
  LET AndOne(p) ==
        IF p.error # "none" THEN p
        ELSE OneMore(p.on, BestNode(tallies, s, [m \in DOMAIN tallies |-> p.on[m] + 1]))
      after[i \in 0..s.replicas] ==
        IF i = 0 THEN Placed(Nowhere(tallies)) ELSE AndOne(after[i-1])
  IN after[s.replicas]

\* The data is on a node of the pool.  A node that is not in the pool is taken
\* for destroyed.
Sticks(tallies, s) == s.sticky \in DOMAIN tallies

AllOn(tallies, s, n) ==
  IF n = NoNode THEN Failed("capacity")
  ELSE Placed([Nowhere(tallies) EXCEPT ![n] = s.replicas])

\* All replicas on one node, and on the one that has the data
PlaceVolumeService(tallies, s) ==
  IF Sticks(tallies, s)
  THEN IF Fits(tallies[s.sticky], s, s.replicas) THEN AllOn(tallies, s, s.sticky)
       ELSE Failed("sticky")
  ELSE AllOn(tallies, s, BestNode(tallies, s, [n \in DOMAIN tallies |-> s.replicas]))

Commit(acc, s, p) ==
  IF p.error # "none" THEN [acc EXCEPT !.error = p.error]
  ELSE [error |-> "none", plan |-> (s.name :> p.on) @@ acc.plan,
        load |-> [n \in DOMAIN acc.load |->
                    IF p.on[n] = 0 THEN acc.load[n] ELSE Taken(acc.load[n], s, p.on[n])]]

\* The services in the order of their declaration: a later one sees what the
\* earlier ones took.
PlanClusterPlacement(tallies, services) ==
  LET AndThen(acc, s) ==
        IF acc.error # "none" THEN acc
        ELSE Commit(acc, s, IF s.volume THEN PlaceVolumeService(acc.load, s)
                                        ELSE PackByCapacity(acc.load, s))
      after[i \in 0..Len(services)] ==
        IF i = 0 THEN [error |-> "none", load |-> tallies, plan |-> <<>>]
        ELSE AndThen(after[i-1], services[i])
  IN after[Len(services)]

-----------------------------------------------------------------------------
(* Nodes that a deploy adds                                                 *)

\* Sized like the largest node of the pool; Unbounded when there is none
Template(tallies, Unbounded) ==
  LET most(r) == Max({tallies[n].alloc[r] : n \in DOMAIN tallies})
  IN [alloc |-> IF DOMAIN tallies = {} THEN Unbounded ELSE [r \in Resources |-> most(r)],
      steady |-> Zero, surge |-> Zero]

WithAdded(tallies, added, Unbounded) ==
  [n \in DOMAIN tallies \cup added |->
     IF n \in added THEN Template(tallies, Unbounded) ELSE tallies[n]]

FirstToFit(tries) ==
  LET last == Max(DOMAIN tries)
  IN Min({k \in DOMAIN tries : k = last \/ tries[k].error # "capacity"})

\* The plan with k of the new nodes, for every k
Tries(tallies, services, fresh, Unbounded) ==
  [k \in 0..Len(fresh) |->
     PlanClusterPlacement(
       WithAdded(tallies, {fresh[i] : i \in 1..k}, Unbounded), services)]

\* As few new nodes as the plan needs; only a lack of capacity adds one.
Fewest(tries, fresh) ==
  LET k == FirstToFit(tries)
  IN [plan |-> tries[k], added |-> {fresh[i] : i \in 1..k}]

PlanAutoAdd(tallies, services, fresh, Unbounded) ==
  Fewest(Tries(tallies, services, fresh, Unbounded), fresh)

\* smallestInstanceTypeFor: the first of the sizes that are enough, in the
\* order of their cpu, then of their memory
Smallest(enough) ==
  LET NotLarger(x, y) == \/ x["cpu"] < y["cpu"]
                         \/ x["cpu"] = y["cpu"] /\ x["memory"] <= y["memory"]
  IN CHOOSE z \in enough : \A y \in enough : NotLarger(z, y)
=============================================================================
