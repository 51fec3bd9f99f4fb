----------------------------- MODULE EdgeRouter -----------------------------
(***************************************************************************)
(* How a routing change reaches the traffic: the app agents put their      *)
(* upstream shards in S3 (agent-app.rs), the edge agent's tick lists and   *)
(* gets them and programs Caddy (agent-edge.rs, s3.rs, caddy.rs), and an   *)
(* app agent that drains a replica waits for a fixed time, the drain       *)
(* floor, before it stops it.  Nothing tells the app agent that the edge   *)
(* has seen the change, so the argument is one about time.                 *)
(*                                                                         *)
(* Time is discrete.  An edge tick takes at most MaxTick from its LIST to  *)
(* its end, the next tick starts at most Poll after the end of the last    *)
(* one, and a draining replica is stopped no earlier than Floor after the  *)
(* shard without it was put.                                               *)
(***************************************************************************)
EXTENDS Naturals, FiniteSets

CONSTANTS
    Node,        \* app nodes that publish to this edge
    Replica,     \* replicas (host ports) of web services
    NodeOf,      \* the node a replica runs on
    NoReplica,   \* no replica is being drained
    Boot,        \* the configuration Caddy starts with: no routes of ours
    NoListing,   \* the shard cache is empty
    Poll,        \* the edge's poll interval
    MaxTick,     \* how long an edge tick takes at most
    Floor,       \* the drain wait of a rollout
    MaxPuts,     \* bound: shard PUTs in a behaviour
    MaxFaults,   \* bound: faults in a behaviour
    FaultKinds   \* the faults that may happen

\* list: a LIST or GET of the edge fails; probe: GET /config/ of Caddy fails;
\* load: POST /load fails; lost: it fails but was applied; caddy: Caddy
\* restarts; edge, app: an agent dies.
EdgeFault == {"list", "probe", "load", "lost", "caddy", "edge"}
Fault == EdgeFault \cup {"app"}

ASSUME NodesAssumption ==
    /\ NodeOf \in [Replica -> Node]
    /\ NoReplica \notin Replica
    /\ \A S \in SUBSET Replica : S # Boot
    /\ \A f \in [Node -> 0 .. MaxPuts] : f # NoListing
ASSUME TimesAssumption ==
    /\ Poll \in Nat
    /\ MaxTick \in Nat
    /\ Floor \in Nat
    /\ MaxPuts \in Nat
    /\ MaxFaults \in Nat
    /\ FaultKinds \subseteq Fault

VARIABLES
    (* app nodes *)
    running,     \* replicas that run
    abrupt,      \* history: replicas that were stopped without a drain
    draining,    \* per node, the replica a rollout drains
    left,        \* per node, what is left of the drain wait
    (* S3: the upstream shards *)
    etag,        \* per node, the version of its shard object; 0: no object
    shard,       \* per node, the replicas it lists
    puts,        \* shard PUTs so far
    (* the edge agent *)
    epc,         \* what its tick does next
    timer,       \* time until the next tick, or until this one must end
    listed,      \* per node, the etag this tick's LIST returned
    todo,        \* shards still to get
    fetched,     \* per node, the body this tick has got
    cacheFp,     \* ShardListCache.fingerprint
    cacheShards, \* ShardListCache.shards
    lastPushed,  \* CaddyState.last_config_json
    (* Caddy *)
    caddy,       \* the configuration it runs
    faults,      \* faults left
    missed       \* history: ticks the edge has lost

appVars   == <<running, abrupt, draining, left>>
s3Vars    == <<etag, shard, puts>>
tickVars  == <<listed, todo, fetched>>
cacheVars == <<cacheFp, cacheShards>>
edgeVars  == <<epc, timer, tickVars, cacheVars, lastPushed>>
vars == <<running, abrupt, draining, left, etag, shard, puts, epc, timer,
          listed, todo, fetched, cacheFp, cacheShards, lastPushed, caddy,
          faults, missed>>

EdgePc == {"wait", "get", "probe", "load", "end"}

TypeOK ==
    /\ running \in SUBSET Replica
    /\ abrupt \in SUBSET Replica
    /\ draining \in [Node -> Replica \cup {NoReplica}]
    /\ left \in [Node -> 0 .. Floor]
    /\ etag \in [Node -> 0 .. MaxPuts]
    /\ shard \in [Node -> SUBSET Replica]
    /\ puts \in 0 .. MaxPuts
    /\ epc \in EdgePc
    /\ timer \in Nat
    /\ listed \in [Node -> 0 .. MaxPuts]
    /\ todo \in SUBSET Node
    /\ fetched \in [Node -> SUBSET Replica]
    /\ cacheFp \in [Node -> 0 .. MaxPuts] \cup {NoListing}
    /\ cacheShards \in [Node -> SUBSET Replica]
    /\ lastPushed \in (SUBSET Replica) \cup {Boot}
    /\ caddy \in (SUBSET Replica) \cup {Boot}
    /\ faults \in 0 .. MaxFaults
    /\ missed \in Nat

On(n) == {r \in Replica : NodeOf[r] = n}
NoBodies == [n \in Node |-> {}]
AllOf(bodies) == UNION {bodies[n] : n \in Node}
Routed == IF caddy = Boot THEN {} ELSE caddy

HasFault(kind) == kind \in FaultKinds /\ faults > 0
UseFault == faults' = faults - 1 /\ UNCHANGED missed
LoseTick == faults' = faults - 1 /\ missed' = missed + 1

Init ==
    /\ running = {} /\ abrupt = {}
    /\ draining = [n \in Node |-> NoReplica]
    /\ left = [n \in Node |-> 0]
    /\ etag = [n \in Node |-> 0]
    /\ shard = NoBodies
    /\ puts = 0
    /\ epc = "wait" /\ timer = 0
    /\ listed = [n \in Node |-> 0]
    /\ todo = {}
    /\ fetched = NoBodies
    /\ cacheFp = NoListing /\ cacheShards = NoBodies
    /\ lastPushed = Boot
    /\ caddy = Boot
    /\ faults = MaxFaults
    /\ missed = 0

-----------------------------------------------------------------------------
(* The app agents, as far as routing goes.                                  *)

\* put_upstream_shard: a PUT of another body, under a new etag (the body
\* carries the time it was built)
PutShard(n, body) ==
    /\ puts < MaxPuts                     \* bound
    /\ puts' = puts + 1
    /\ etag' = [etag EXCEPT ![n] = puts + 1]
    /\ shard' = [shard EXCEPT ![n] = body]

Start(r) ==
    /\ r \notin running
    /\ running' = running \cup {r}
    /\ abrupt' = abrupt \ {r}
    /\ UNCHANGED <<draining, left, s3Vars, edgeVars, caddy, faults, missed>>

\* A publish of the running replicas without the one that drains.
Publish(n) ==
    LET body == (running \cap On(n)) \ {draining[n]} IN
    /\ body # shard[n]
    /\ PutShard(n, body)
    /\ UNCHANGED <<appVars, edgeVars, caddy, faults, missed>>

\* Branch 2 of rollout_service: publish without the replica, start the wait.
Drain(r) ==
    LET n == NodeOf[r] IN
    /\ r \in running
    /\ draining[n] = NoReplica
    /\ PutShard(n, (running \cap On(n)) \ {r})
    /\ draining' = [draining EXCEPT ![n] = r]
    /\ left' = [left EXCEPT ![n] = Floor]
    /\ UNCHANGED <<running, abrupt, edgeVars, caddy, faults, missed>>

\* mutant: the drain wait is cut short
BugStopDrained(n) ==
    /\ draining[n] # NoReplica
    /\ left[n] < Floor
    /\ running' = running \ {draining[n]}
    /\ draining' = [draining EXCEPT ![n] = NoReplica]
    /\ UNCHANGED <<abrupt, left, s3Vars, edgeVars, caddy, faults, missed>>

\* The wait is over: stop the old replica.
StopDrained(n) ==
    /\ draining[n] # NoReplica
    /\ left[n] = 0
    /\ running' = running \ {draining[n]}
    /\ draining' = [draining EXCEPT ![n] = NoReplica]
    /\ UNCHANGED <<abrupt, left, s3Vars, edgeVars, caddy, faults, missed>>

\* A scale-down, a removal, or a container that dies: no routing change first.
StopAbruptly(r) ==
    /\ r \in running
    /\ running' = running \ {r}
    /\ abrupt' = abrupt \cup {r}
    /\ UNCHANGED <<draining, left, s3Vars, edgeVars, caddy, faults, missed>>

\* The restarted agent knows nothing of the drain: the replica still runs and
\* is published again.
AppCrash(n) ==
    /\ HasFault("app") /\ UseFault
    /\ draining' = [draining EXCEPT ![n] = NoReplica]
    /\ left' = [left EXCEPT ![n] = 0]
    /\ UNCHANGED <<running, abrupt, s3Vars, edgeVars, caddy>>

-----------------------------------------------------------------------------
(* The edge agent's tick.                                                   *)

edgeFrame == <<appVars, s3Vars>>

\* the fingerprint over keys and etags equals the cached one
CacheHit == cacheFp = etag

\* LIST.  The tick may start before the interval is over: a deploy
\* notification wakes the loop.
List ==
    /\ epc = "wait"
    /\ timer' = MaxTick
    /\ listed' = etag
    /\ \/ /\ CacheHit
          /\ epc' = "probe"
          /\ fetched' = cacheShards
          /\ todo' = {}
       \/ /\ ~CacheHit
          /\ epc' = "get"
          /\ fetched' = NoBodies
          /\ todo' = {n \in Node : etag[n] # 0}
    /\ UNCHANGED <<edgeFrame, cacheVars, lastPushed, caddy, faults, missed>>

\* The bodies are got one by one, after the LIST.
Get(n) ==
    /\ epc = "get"
    /\ n \in todo
    /\ todo' = todo \ {n}
    /\ fetched' = [fetched EXCEPT ![n] = shard[n]]
    /\ UNCHANGED <<edgeFrame, epc, timer, listed, cacheVars, lastPushed,
                   caddy, faults, missed>>

\* mutant: the fingerprint is taken after the bodies were got
BugGotAll ==
    /\ epc = "get"
    /\ todo = {}
    /\ cacheFp' = etag
    /\ cacheShards' = fetched
    /\ epc' = "probe"
    /\ UNCHANGED <<edgeFrame, timer, tickVars, lastPushed, caddy, faults, missed>>

\* The cache keeps the bodies under the fingerprint of the listing.
GotAll ==
    /\ epc = "get"
    /\ todo = {}
    /\ cacheFp' = listed
    /\ cacheShards' = fetched
    /\ epc' = "probe"
    /\ UNCHANGED <<edgeFrame, timer, tickVars, lastPushed, caddy, faults, missed>>

EndWait ==
    /\ epc' = "wait"
    /\ timer' = Poll
    /\ listed' = [n \in Node |-> 0] /\ todo' = {} /\ fetched' = NoBodies

\* A failed LIST or GET ends the tick; the cache and Caddy stay.
ReadFails ==
    /\ epc \in {"wait", "get"}
    /\ HasFault("list") /\ LoseTick
    /\ EndWait
    /\ UNCHANGED <<edgeFrame, cacheVars, lastPushed, caddy>>

\* mutant: compares with what was last sent only, as the TypeScript agent did
BugMustPush(remote) == AllOf(fetched) # lastPushed

\* decide_caddy_push; remote is Boot's or our configuration, or unreadable
MustPush(remote) ==
    \/ AllOf(fetched) # lastPushed
    \/ remote # {AllOf(fetched)}

\* GET /config/
Probe ==
    /\ epc = "probe"
    /\ \E remote \in {{caddy}, {}} :
       /\ \/ remote = {caddy} /\ UNCHANGED <<faults, missed>>
          \/ remote = {} /\ HasFault("probe") /\ UseFault
       /\ epc' = IF MustPush(remote) THEN "load" ELSE "end"
    /\ UNCHANGED <<edgeFrame, timer, tickVars, cacheVars, lastPushed, caddy>>

\* POST /load
Load ==
    /\ epc = "load"
    /\ epc' = "end"
    /\ \/ /\ caddy' = AllOf(fetched)
          /\ lastPushed' = AllOf(fetched)
          /\ UNCHANGED <<faults, missed>>
       \/ /\ HasFault("load") /\ LoseTick
          /\ UNCHANGED <<caddy, lastPushed>>
       \/ /\ HasFault("lost") /\ UseFault
          /\ caddy' = AllOf(fetched)
          /\ UNCHANGED lastPushed
    /\ UNCHANGED <<edgeFrame, timer, tickVars, cacheVars>>

\* The status is written, logs and samples are shipped; the loop waits.
EndTick ==
    /\ epc = "end"
    /\ EndWait
    /\ UNCHANGED <<edgeFrame, cacheVars, lastPushed, caddy, faults, missed>>

\* The caches are in memory only; Caddy, a process of its own, goes on.
EdgeCrash ==
    /\ HasFault("edge") /\ LoseTick
    /\ EndWait
    /\ cacheFp' = NoListing /\ cacheShards' = NoBodies
    /\ lastPushed' = Boot
    /\ UNCHANGED <<edgeFrame, caddy>>

CaddyRestart ==
    /\ HasFault("caddy") /\ UseFault
    /\ caddy' = Boot
    /\ UNCHANGED <<edgeFrame, edgeVars>>

\* Time passes, but not beyond the start of the next tick or the end of this.
Time ==
    /\ timer > 0
    /\ timer' = timer - 1
    /\ left' = [n \in Node |-> IF left[n] = 0 THEN 0 ELSE left[n] - 1]
    /\ UNCHANGED <<running, abrupt, draining, s3Vars, epc, tickVars,
                   cacheVars, lastPushed, caddy, faults, missed>>

-----------------------------------------------------------------------------

App ==
    \/ \E r \in Replica : Start(r) \/ Drain(r) \/ StopAbruptly(r)
    \/ \E n \in Node : Publish(n) \/ StopDrained(n) \/ AppCrash(n)

EdgeStep ==
    \/ List \/ GotAll \/ Probe \/ Load \/ EndTick
    \/ \E n \in Node : Get(n)

Next == App \/ EdgeStep \/ ReadFails \/ EdgeCrash \/ CaddyRestart \/ Time

Spec == Init /\ [][Next]_vars

\* The poll loop never stops: systemd restarts the agent.
FairSpec == Spec /\ WF_vars(EdgeStep)

-----------------------------------------------------------------------------
(* Properties.                                                              *)

(* As long as the edge has lost no tick, Caddy routes only to containers     *)
(* that run, except to those that were stopped without a drain: what the     *)
(* drain floor of a rollout is for.                                          *)
RoutedIsAlive == missed > 0 \/ Routed \subseteq running \cup abrupt

(* When the shards stop changing, Caddy ends up routing exactly what they    *)
(* list, whatever failed or restarted before, and never leaves it: the LIST  *)
(* fingerprint must not pin old bodies, nor last_config_json an old push.    *)
CaddyFollows == <>[](caddy = AllOf(shard))

-----------------------------------------------------------------------------
(* The inductive invariant behind RoutedIsAlive.                             *)

(* Etags only grow, and a body kept under the etag its shard still has is    *)
(* still the body of that shard: the LIST fingerprint pins nothing stale.    *)
BodiesOK ==
    /\ \A n \in Node :
         /\ etag[n] <= puts
         /\ etag[n] = 0 => shard[n] = {}
         /\ listed[n] <= etag[n]
         /\ epc = "get" /\ n \notin todo /\ listed[n] = etag[n] =>
                fetched[n] = shard[n]
         /\ epc = "wait" => fetched[n] = {}
         /\ draining[n] \notin shard[n]
         /\ shard[n] \cup fetched[n] \cup cacheShards[n] \subseteq On(n)
         /\ draining[n] # NoReplica => draining[n] \in On(n)
    /\ cacheFp # NoListing =>
         \A n \in Node :
            /\ cacheFp[n] <= etag[n]
            /\ cacheFp[n] = etag[n] => cacheShards[n] = shard[n]

(* How long ago a drain began whose replica is still known to the edge.      *)
Elapsed(n) == Floor - left[n]

TimesOK ==
    /\ epc = "wait" => timer <= Poll
    /\ epc # "wait" => timer <= MaxTick
    /\ \A n \in Node : draining[n] # NoReplica =>
         /\ draining[n] \in fetched[n] => Elapsed(n) + timer <= MaxTick
         /\ draining[n] \in Routed =>
                Elapsed(n) + timer <=
                    MaxTick + Poll + (IF epc = "wait" THEN 0 ELSE MaxTick)

AliveOK ==
    /\ epc = "end" => caddy \in {Boot, AllOf(fetched)}
    /\ AllOf(shard) \subseteq running \cup abrupt
    /\ AllOf(fetched) \subseteq running \cup abrupt
    /\ Routed \subseteq running \cup abrupt

(* A shard change reaches Caddy within one poll and two ticks, and a stale   *)
(* copy of a shard does not outlive the tick that got it; with the types,    *)
(* the inductive invariant.                                                  *)
RoutesInTime ==
    /\ TypeOK
    /\ BodiesOK
    /\ missed = 0 /\ Poll + 2 * MaxTick < Floor =>
           TimesOK /\ AliveOK

=============================================================================
