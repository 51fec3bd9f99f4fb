-------------------------- MODULE EdgeRouterProofs --------------------------
(***************************************************************************)
(* Proofs about EdgeRouter for any number of nodes and replicas and any    *)
(* times: the shard cache never pins an old body, and when the edge loses  *)
(* no tick and Poll + 2 * MaxTick < Floor, no replica that a rollout       *)
(* stopped is routed to.                                                   *)
(***************************************************************************)
EXTENDS EdgeRouter, TLAPS

USE NodesAssumption, TimesAssumption DEF Fault, EdgeFault

(* At the start nothing runs and nothing is published.                       *)
LEMMA TypeInit == Init => TypeOK
BY DEF Init, TypeOK, NoBodies, EdgePc

(* Every step of an app agent is well typed.                                 *)
LEMMA TypeApp == TypeOK /\ App => TypeOK'
<1> SUFFICES ASSUME TypeOK, App PROVE TypeOK'
  OBVIOUS
<1> USE DEF edgeVars, tickVars, cacheVars, s3Vars, appVars
<1>1. ASSUME NEW r \in Replica, Start(r) PROVE TypeOK'
  BY <1>1 DEF Start, TypeOK
<1>2. ASSUME NEW r \in Replica, Drain(r) PROVE TypeOK'
  BY <1>2 DEF Drain, PutShard, TypeOK, On
<1>3. ASSUME NEW r \in Replica, StopAbruptly(r) PROVE TypeOK'
  BY <1>3 DEF StopAbruptly, TypeOK
<1>4. ASSUME NEW n \in Node, Publish(n) PROVE TypeOK'
  BY <1>4 DEF Publish, PutShard, TypeOK, On
<1>5. ASSUME NEW n \in Node, StopDrained(n) PROVE TypeOK'
  BY <1>5 DEF StopDrained, TypeOK
<1>6. ASSUME NEW n \in Node, AppCrash(n) PROVE TypeOK'
  BY <1>6 DEF AppCrash, UseFault, HasFault, TypeOK
<1> QED
  BY <1>1, <1>2, <1>3, <1>4, <1>5, <1>6 DEF App

(* Every other step is.                                                      *)
LEMMA TypeEdge == TypeOK /\ [Next]_vars => TypeOK'
<1> SUFFICES ASSUME TypeOK, [Next]_vars PROVE TypeOK'
  OBVIOUS
<1> USE DEF edgeFrame, edgeVars, tickVars, cacheVars, s3Vars, appVars, EdgePc,
            NoBodies, EndWait, UseFault, LoseTick, HasFault
<1>1. CASE App
  BY <1>1, TypeApp
<1>2. CASE List
  BY <1>2 DEF List, TypeOK, CacheHit
<1>3. CASE GotAll
  BY <1>3 DEF GotAll, TypeOK
<1>4. CASE Probe
  BY <1>4 DEF Probe, TypeOK
<1>5. CASE Load
  BY <1>5 DEF Load, TypeOK, AllOf
<1>6. CASE EndTick
  BY <1>6 DEF EndTick, TypeOK
<1>7. ASSUME NEW n \in Node, Get(n) PROVE TypeOK'
  BY <1>7 DEF Get, TypeOK
<1>8. CASE ReadFails
  BY <1>8 DEF ReadFails, TypeOK
<1>9. CASE EdgeCrash
  BY <1>9 DEF EdgeCrash, TypeOK
<1>10. CASE CaddyRestart
  BY <1>10 DEF CaddyRestart, TypeOK
<1>11. CASE Time
  BY <1>11 DEF Time, TypeOK
<1>12. CASE UNCHANGED vars
  BY <1>12 DEF vars, TypeOK
<1> QED
  BY <1>1, <1>2, <1>3, <1>4, <1>5, <1>6, <1>7, <1>8, <1>9, <1>10, <1>11,
     <1>12 DEF Next, EdgeStep

(* A tick once lost stays lost.                                              *)
LEMMA MissedStays == TypeOK /\ missed > 0 /\ [Next]_vars => missed' > 0
<1> SUFFICES ASSUME TypeOK, missed > 0, [Next]_vars PROVE missed' \in {missed, missed + 1}
  BY DEF TypeOK
<1>1. CASE App
  BY <1>1 DEF App, Start, Drain, StopAbruptly, Publish, StopDrained, AppCrash, UseFault
<1>2. CASE EdgeStep
  BY <1>2 DEF EdgeStep, List, GotAll, Probe, Load, EndTick, Get, UseFault, LoseTick
<1>3. CASE ReadFails \/ EdgeCrash
  BY <1>3 DEF ReadFails, EdgeCrash, LoseTick
<1>4. CASE CaddyRestart \/ Time \/ UNCHANGED vars
  BY <1>4 DEF CaddyRestart, Time, UseFault, vars
<1> QED
  BY <1>1, <1>2, <1>3, <1>4 DEF Next

(* The state of the app agents, of S3 and of the edge is well typed.         *)
THEOREM TypeCorrect == Spec => []TypeOK
BY TypeInit, TypeEdge, PTL DEF Spec

-----------------------------------------------------------------------------
(* The shard cache.                                                         *)

(* Nothing is listed, got or cached at the start.                            *)
LEMMA BodiesInit == Init => BodiesOK
BY DEF Init, BodiesOK, NoBodies, On

(* A PUT gives its shard an etag above every etag seen so far and leaves the *)
(* other shards alone.                                                       *)
LEMMA PutEffect ==
    ASSUME TypeOK, BodiesOK, NEW n \in Node, NEW body, PutShard(n, body)
    PROVE  /\ \A m \in Node \ {n} : etag'[m] = etag[m] /\ shard'[m] = shard[m]
           /\ etag'[n] = puts' /\ shard'[n] = body
           /\ \A m \in Node : etag[m] <= puts /\ etag[m] < puts'
           /\ puts' = puts + 1
BY DEF PutShard, TypeOK, BodiesOK

(* Every step keeps the bodies in agreement with their etags.                *)
LEMMA BodiesStep == TypeOK /\ BodiesOK /\ [Next]_vars => BodiesOK'
<1> SUFFICES ASSUME TypeOK, BodiesOK, [Next]_vars PROVE BodiesOK'
  OBVIOUS
<1> USE DEF edgeFrame, edgeVars, tickVars, cacheVars, s3Vars, appVars, NoBodies,
            On
<1>1. ASSUME NEW r \in Replica, Start(r) PROVE BodiesOK'
  BY <1>1 DEF Start, BodiesOK
<1>2. ASSUME NEW n \in Node, NEW body \in SUBSET On(n), PutShard(n, body),
             draining' \in [Node -> Replica \cup {NoReplica}],
             \A m \in Node \ {n} : draining'[m] = draining[m],
             draining'[n] \notin body,
             draining'[n] # NoReplica => draining'[n] \in On(n),
             UNCHANGED edgeVars
      PROVE  BodiesOK'
  <2>1. /\ \A m \in Node \ {n} : etag'[m] = etag[m] /\ shard'[m] = shard[m]
        /\ etag'[n] = puts' /\ shard'[n] = body
        /\ \A m \in Node : etag[m] <= puts /\ etag[m] < puts'
        /\ puts' = puts + 1
    BY <1>2, PutEffect
  <2>2. /\ puts \in Nat /\ etag \in [Node -> Nat] /\ listed \in [Node -> Nat]
        /\ cacheFp # NoListing => cacheFp \in [Node -> Nat]
    BY DEF TypeOK
  <2>3. ASSUME NEW m \in Node
        PROVE  /\ etag'[m] <= puts'
               /\ etag'[m] = 0 => shard'[m] = {}
               /\ listed'[m] <= etag'[m]
               /\ epc' = "get" /\ m \notin todo' /\ listed'[m] = etag'[m] =>
                      fetched'[m] = shard'[m]
               /\ epc' = "wait" => fetched'[m] = {}
               /\ draining'[m] \notin shard'[m]
               /\ shard'[m] \cup fetched'[m] \cup cacheShards'[m] \subseteq On(m)
               /\ draining'[m] # NoReplica => draining'[m] \in On(m)
    <3>1. CASE m = n
      BY <3>1, <1>2, <2>1, <2>2 DEF BodiesOK
    <3>2. CASE m # n
      BY <3>2, <1>2, <2>1, <2>2 DEF BodiesOK
    <3> QED
      BY <3>1, <3>2
  <2>4. ASSUME cacheFp' # NoListing, NEW m \in Node
        PROVE  /\ cacheFp'[m] <= etag'[m]
               /\ cacheFp'[m] = etag'[m] => cacheShards'[m] = shard'[m]
    <3>1. CASE m = n
      BY <3>1, <1>2, <2>1, <2>2, <2>4 DEF BodiesOK
    <3>2. CASE m # n
      BY <3>2, <1>2, <2>1, <2>2, <2>4 DEF BodiesOK
    <3> QED
      BY <3>1, <3>2
  <2> QED
    BY <2>3, <2>4 DEF BodiesOK
<1>3. ASSUME NEW r \in Replica, Drain(r) PROVE BodiesOK'
  <2> DEFINE n == NodeOf[r]
  <2>1. n \in Node
    OBVIOUS
  <2>2. draining' \in [Node -> Replica \cup {NoReplica}] /\ draining'[n] = r
        /\ \A m \in Node \ {n} : draining'[m] = draining[m]
    BY <1>3, <2>1 DEF Drain, TypeOK
  <2> QED
    BY <1>2, <1>3, <2>1, <2>2 DEF Drain
<1>4. ASSUME NEW r \in Replica, StopAbruptly(r) PROVE BodiesOK'
  BY <1>4 DEF StopAbruptly, BodiesOK
<1>5. ASSUME NEW n \in Node, Publish(n) PROVE BodiesOK'
  BY <1>2, <1>5 DEF Publish, TypeOK, BodiesOK
<1>6. ASSUME NEW n \in Node, draining' = [draining EXCEPT ![n] = NoReplica],
             UNCHANGED <<s3Vars, edgeVars>>
      PROVE  BodiesOK'
  <2>1. ASSUME NEW m \in Node
        PROVE  draining'[m] \in {draining[m], NoReplica}
    BY <1>6 DEF TypeOK
  <2>2. \A m \in Node : NoReplica \notin shard[m]
    BY DEF TypeOK
  <2> QED
    BY <1>6, <2>1, <2>2 DEF BodiesOK
<1>7. ASSUME NEW n \in Node, StopDrained(n) PROVE BodiesOK'
  BY <1>6, <1>7 DEF StopDrained
<1>8. ASSUME NEW n \in Node, AppCrash(n) PROVE BodiesOK'
  BY <1>6, <1>8 DEF AppCrash
<1>9. CASE List
  <2>1. etag \in [Node -> Nat] /\ \A n \in Node : etag[n] <= etag[n]
    BY DEF TypeOK
  <2>2. CASE CacheHit
    BY <1>9, <2>1, <2>2 DEF List, CacheHit, BodiesOK
  <2>3. CASE ~CacheHit
    BY <1>9, <2>1, <2>3 DEF List, BodiesOK
  <2> QED
    BY <2>2, <2>3
<1>10. ASSUME NEW n \in Node, Get(n) PROVE BodiesOK'
  <2>1. fetched'[n] = shard[n] /\ \A m \in Node \ {n} : fetched'[m] = fetched[m]
    BY <1>10 DEF Get, TypeOK
  <2> QED
    BY <1>10, <2>1 DEF Get, BodiesOK
<1>11. CASE GotAll
  BY <1>11 DEF GotAll, BodiesOK, TypeOK
<1>12. CASE Probe
  BY <1>12 DEF Probe, BodiesOK
<1>13. CASE Load
  BY <1>13 DEF Load, BodiesOK
<1>14. ASSUME EndWait, UNCHANGED <<edgeFrame, cacheVars>> PROVE BodiesOK'
  BY <1>14 DEF EndWait, BodiesOK, TypeOK
<1>15. CASE EdgeCrash
  BY <1>15 DEF EdgeCrash, EndWait, BodiesOK, TypeOK
<1>16. CASE CaddyRestart
  BY <1>16 DEF CaddyRestart, BodiesOK
<1>17. CASE Time
  BY <1>17 DEF Time, BodiesOK
<1>18. CASE UNCHANGED vars
  BY <1>18 DEF vars, BodiesOK
<1> QED
  BY <1>1, <1>3, <1>4, <1>5, <1>7, <1>8, <1>9, <1>10, <1>11, <1>12, <1>13,
     <1>14, <1>15, <1>16, <1>17, <1>18
     DEF Next, App, EdgeStep, EndTick, ReadFails

-----------------------------------------------------------------------------
(* The times.                                                               *)

(* The edge has lost no tick, and the drain wait outlasts a poll and two ticks. *)
Timely == missed = 0 /\ Poll + 2 * MaxTick < Floor

(* A replica is in some body exactly if it is in that of its node.           *)
LEMMA BodyOf ==
    ASSUME NEW bodies, \A n \in Node : bodies[n] \subseteq On(n)
    PROVE  \A r : r \in AllOf(bodies) <=>
                   r \in Replica /\ r \in bodies[NodeOf[r]]
BY DEF AllOf, On

(* At the start Caddy routes nothing.                                        *)
LEMMA TimesInit == Init => TimesOK /\ AliveOK
BY DEF Init, TimesOK, AliveOK, Routed, AllOf, NoBodies

(* A step of an app agent leaves the edge as it is: a drain that begins now  *)
(* is the youngest there can be.                                             *)
LEMMA TimesApp ==
    ASSUME TypeOK, BodiesOK, TimesOK, App
    PROVE  TimesOK'
<1> USE DEF edgeVars, tickVars, cacheVars, s3Vars, appVars, Routed
<1>1. ASSUME NEW r \in Replica, Start(r) PROVE TimesOK'
  BY <1>1 DEF Start, TimesOK, Elapsed
<1>2. ASSUME NEW r \in Replica, Drain(r) PROVE TimesOK'
  <2> DEFINE n == NodeOf[r]
  <2>1. n \in Node /\ draining'[n] = r /\ left'[n] = Floor
    BY <1>2 DEF Drain, TypeOK
  <2>2. timer \in Nat /\ (epc = "wait" => timer <= Poll)
        /\ (epc # "wait" => timer <= MaxTick)
    BY DEF TimesOK, TypeOK
  <2>3. Elapsed(n)' = 0
    BY <2>1 DEF Elapsed
  <2>4. ASSUME NEW m \in Node, m # n
        PROVE draining'[m] = draining[m] /\ Elapsed(m)' = Elapsed(m)
    BY <1>2, <2>4 DEF Drain, Elapsed, TypeOK
  <2>5. epc = "wait" => \A m \in Node : fetched[m] = {}
    BY DEF BodiesOK
  <2>6. UNCHANGED <<epc, timer, fetched, caddy>>
    BY <1>2 DEF Drain
  <2>7. ASSUME NEW m \in Node, draining'[m] # NoReplica
        PROVE  /\ draining'[m] \in fetched'[m] => Elapsed(m)' + timer' <= MaxTick
               /\ draining'[m] \in Routed' =>
                    Elapsed(m)' + timer' <=
                      MaxTick + Poll + (IF epc' = "wait" THEN 0 ELSE MaxTick)
    <3>1. CASE m = n
      BY <3>1, <2>2, <2>3, <2>5, <2>6
    <3>2. CASE m # n
      BY <3>2, <2>4, <2>6, <2>7 DEF TimesOK
    <3> QED
      BY <3>1, <3>2
  <2> QED
    BY <2>2, <2>6, <2>7 DEF TimesOK
<1>3. ASSUME NEW r \in Replica, StopAbruptly(r) PROVE TimesOK'
  BY <1>3 DEF StopAbruptly, TimesOK, Elapsed
<1>4. ASSUME NEW n \in Node, Publish(n) PROVE TimesOK'
  BY <1>4 DEF Publish, TimesOK, Elapsed
<1>5. ASSUME NEW n \in Node, draining' = [draining EXCEPT ![n] = NoReplica],
             \A m \in Node \ {n} : left'[m] = left[m],
             UNCHANGED <<edgeVars, caddy>>
      PROVE  TimesOK'
  <2>1. ASSUME NEW m \in Node, draining'[m] # NoReplica
        PROVE  draining'[m] = draining[m] /\ Elapsed(m)' = Elapsed(m)
    BY <1>5, <2>1 DEF TypeOK, Elapsed
  <2> QED
    BY <1>5, <2>1 DEF TimesOK
<1>6. ASSUME NEW n \in Node, StopDrained(n) PROVE TimesOK'
  BY <1>5, <1>6 DEF StopDrained
<1>7. ASSUME NEW n \in Node, AppCrash(n) PROVE TimesOK'
  BY <1>5, <1>7 DEF AppCrash, TypeOK
<1> QED
  BY <1>1, <1>2, <1>3, <1>4, <1>6, <1>7 DEF App

(* When the wait is over the edge knows nothing of the replica any more.     *)
LEMMA WaitOver ==
    ASSUME Timely, TypeOK, BodiesOK, TimesOK,
           NEW n \in Node, draining[n] # NoReplica, left[n] = 0
    PROVE  /\ draining[n] \notin Routed
           /\ draining[n] \notin AllOf(fetched)
           /\ draining[n] \notin AllOf(shard)
<1>1. Elapsed(n) = Floor /\ timer \in Nat
  BY DEF Elapsed, TypeOK
<1>2. draining[n] \notin Routed /\ draining[n] \notin fetched[n]
  BY <1>1 DEF TimesOK, Timely
<1>3. draining[n] \in Replica /\ NodeOf[draining[n]] = n /\ draining[n] \notin shard[n]
  BY DEF BodiesOK, On
<1>4. \A m \in Node : shard[m] \subseteq On(m) /\ fetched[m] \subseteq On(m)
  BY DEF BodiesOK
<1> QED
  BY <1>2, <1>3, <1>4, BodyOf

(* An app agent's step stops no replica that the edge still knows of, unless *)
(* it stops it abruptly.                                                     *)
LEMMA AliveApp ==
    ASSUME Timely, TypeOK, BodiesOK, TimesOK, AliveOK, App
    PROVE  AliveOK'
<1> USE DEF edgeVars, tickVars, cacheVars, s3Vars, appVars, Routed
<1>1. ASSUME NEW r \in Replica, Start(r) PROVE AliveOK'
  BY <1>1 DEF Start, AliveOK, AllOf
<1>2. ASSUME NEW n \in Node, NEW body \in SUBSET running, PutShard(n, body),
             UNCHANGED <<running, abrupt, edgeVars, caddy>>
      PROVE  AliveOK'
  BY <1>2 DEF PutShard, AliveOK, AllOf, TypeOK
<1>3. ASSUME NEW r \in Replica, Drain(r) PROVE AliveOK'
  BY <1>2, <1>3 DEF Drain
<1>4. ASSUME NEW r \in Replica, StopAbruptly(r) PROVE AliveOK'
  BY <1>4 DEF StopAbruptly, AliveOK, AllOf
<1>5. ASSUME NEW n \in Node, Publish(n) PROVE AliveOK'
  BY <1>2, <1>5 DEF Publish
<1>6. ASSUME NEW n \in Node, StopDrained(n) PROVE AliveOK'
  <2>1. /\ draining[n] \notin Routed
        /\ draining[n] \notin AllOf(fetched)
        /\ draining[n] \notin AllOf(shard)
    BY <1>6, WaitOver DEF StopDrained
  <2>2. /\ running' = running \ {draining[n]}
        /\ UNCHANGED <<abrupt, epc, caddy>>
        /\ AllOf(fetched)' = AllOf(fetched) /\ AllOf(shard)' = AllOf(shard)
    BY <1>6 DEF StopDrained, AllOf
  <2> QED
    BY <2>1, <2>2 DEF AliveOK
<1>7. ASSUME NEW n \in Node, AppCrash(n) PROVE AliveOK'
  BY <1>7 DEF AppCrash, AliveOK, AllOf
<1> QED
  BY <1>1, <1>3, <1>4, <1>5, <1>6, <1>7 DEF App

(* Every other step keeps the times and the routes, as long as the edge      *)
(* loses no tick.                                                            *)
LEMMA TimelyStep ==
    ASSUME Timely, missed' = 0, TypeOK, BodiesOK, TimesOK, AliveOK, [Next]_vars
    PROVE  TimesOK' /\ AliveOK'
<1> USE DEF edgeFrame, edgeVars, tickVars, cacheVars, s3Vars, appVars
<1>0. /\ timer \in Nat /\ left \in [Node -> Nat]
      /\ (epc = "wait" => timer <= Poll) /\ (epc # "wait" => timer <= MaxTick)
      /\ \A n \in Node : Elapsed(n) \in Nat
  BY DEF TypeOK, TimesOK, Elapsed
<1>1. CASE App
  BY <1>1, TimesApp, AliveApp
<1>2. CASE List
  <2>1. fetched' \in {cacheShards, NoBodies} /\ (fetched' = cacheShards => cacheFp = etag \/ fetched' = NoBodies)
    BY <1>2 DEF List, CacheHit
  <2>2. \A n \in Node : fetched'[n] \in {shard[n], {}}
    <3>1. CASE fetched' = NoBodies
      BY <3>1 DEF NoBodies
    <3>2. CASE fetched' = cacheShards /\ cacheFp = etag
      BY <3>2, etag # NoListing DEF BodiesOK, TypeOK
    <3> QED
      BY <2>1, <3>1, <3>2
  <2>3. epc = "wait" /\ epc' \in {"probe", "get"} /\ timer' = MaxTick
        /\ UNCHANGED <<running, abrupt, draining, left, shard, caddy>>
    BY <1>2 DEF List
  <2>4. \A n \in Node : draining[n] \notin fetched'[n]
    BY <2>2 DEF BodiesOK
  <2>5. TimesOK'
    BY <1>0, <2>3, <2>4 DEF TimesOK, Elapsed, Routed
  <2>6. AliveOK'
    BY <2>2, <2>3 DEF AliveOK, AllOf, RoutedIsAlive, Routed
  <2> QED
    BY <2>5, <2>6
<1>3. ASSUME NEW n \in Node, Get(n) PROVE TimesOK' /\ AliveOK'
  <2>1. fetched'[n] = shard[n] /\ \A m \in Node \ {n} : fetched'[m] = fetched[m]
    BY <1>3 DEF Get, TypeOK
  <2>2. epc = "get" /\ UNCHANGED <<running, abrupt, draining, left, shard, caddy, epc, timer>>
    BY <1>3 DEF Get
  <2>3. TimesOK'
    BY <2>1, <2>2 DEF TimesOK, Elapsed, Routed, BodiesOK
  <2>4. AllOf(fetched)' \subseteq AllOf(fetched) \cup AllOf(shard)
    BY <2>1 DEF AllOf
  <2>5. AliveOK'
    BY <2>2, <2>4 DEF AliveOK, Routed, AllOf
  <2> QED
    BY <2>3, <2>5
<1>4. CASE GotAll
  BY <1>4 DEF GotAll, TimesOK, AliveOK, Routed, AllOf, Elapsed
<1>5. CASE Probe
  <2>1. TimesOK'
    BY <1>5 DEF Probe, TimesOK, Routed, Elapsed
  <2>2. epc' = "end" => caddy' = AllOf(fetched)'
    <3>1. UNCHANGED <<caddy, fetched>>
      BY <1>5 DEF Probe
    <3>2. AllOf(fetched)' = AllOf(fetched)
      BY <3>1 DEF AllOf
    <3>3. ASSUME NEW remote \in {{caddy}, {}}, ~MustPush(remote)
          PROVE  caddy = AllOf(fetched)
      <4>1. remote = {AllOf(fetched)}
        BY <3>3 DEF MustPush
      <4>2. AllOf(fetched) \in remote
        BY <4>1
      <4> QED
        BY <3>3, <4>2
    <3>4. epc' = "end" => \E remote \in {{caddy}, {}} : ~MustPush(remote)
      BY <1>5 DEF Probe
    <3> QED
      BY <3>1, <3>2, <3>3, <3>4
  <2>3. AliveOK'
    BY <1>5, <2>2 DEF Probe, AliveOK, Routed, AllOf
  <2> QED
    BY <2>1, <2>3
<1>6. CASE Load
  <2>1. /\ epc = "load" /\ epc' = "end" /\ caddy' = AllOf(fetched)
        /\ UNCHANGED <<running, abrupt, draining, left, shard, fetched, timer>>
    BY <1>6 DEF Load, LoseTick, Timely
  <2>2. \A n \in Node : draining[n] # NoReplica /\ draining[n] \in Routed' =>
                           draining[n] \in fetched[n]
    <3>1. \A n \in Node : draining[n] # NoReplica => NodeOf[draining[n]] = n
      BY DEF BodiesOK, On
    <3>2. \A n \in Node : fetched[n] \subseteq On(n)
      BY DEF BodiesOK
    <3>3. Routed' \subseteq AllOf(fetched)
      BY <2>1 DEF Routed
    <3> QED
      BY <3>1, <3>2, <3>3, BodyOf
  <2>3. TimesOK'
    BY <1>0, <2>1, <2>2 DEF TimesOK, Elapsed
  <2>4. AliveOK'
    BY <2>1 DEF AliveOK, Routed, AllOf
  <2> QED
    BY <2>3, <2>4
<1>7. CASE EndTick
  <2>1. /\ epc = "end" /\ epc' = "wait" /\ timer' = Poll /\ fetched' = NoBodies
        /\ UNCHANGED <<running, abrupt, draining, left, shard, caddy>>
    BY <1>7 DEF EndTick, EndWait
  <2>2. \A n \in Node : draining[n] # NoReplica /\ draining[n] \in Routed =>
                           draining[n] \in fetched[n]
    <3>1. \A n \in Node : draining[n] # NoReplica => NodeOf[draining[n]] = n
      BY DEF BodiesOK, On
    <3>2. \A n \in Node : fetched[n] \subseteq On(n)
      BY DEF BodiesOK
    <3>3. Routed \subseteq AllOf(fetched)
      BY <2>1 DEF Routed, AliveOK
    <3> QED
      BY <3>1, <3>2, <3>3, BodyOf
  <2>3. TimesOK'
    BY <1>0, <2>1, <2>2 DEF TimesOK, Elapsed, Routed, NoBodies
  <2>4. AliveOK'
    BY <2>1 DEF AliveOK, Routed, AllOf, NoBodies
  <2> QED
    BY <2>3, <2>4
<1>8. CASE ReadFails
  BY <1>8 DEF ReadFails, LoseTick, Timely
<1>9. CASE EdgeCrash
  BY <1>9 DEF EdgeCrash, LoseTick, Timely
<1>10. CASE CaddyRestart
  BY <1>10 DEF CaddyRestart, TimesOK, AliveOK, Routed, AllOf, Elapsed
<1>11. CASE Time
  <2>1. /\ timer > 0 /\ timer' = timer - 1
        /\ left' = [n \in Node |-> IF left[n] = 0 THEN 0 ELSE left[n] - 1]
        /\ UNCHANGED <<running, abrupt, draining, shard, epc, fetched, caddy>>
    BY <1>11 DEF Time
  <2>2. \A n \in Node : Elapsed(n)' + timer' <= Elapsed(n) + timer
    BY <1>0, <2>1 DEF Elapsed, TypeOK
  <2>3. timer' \in Nat /\ timer' <= timer /\ \A n \in Node : Elapsed(n)' \in Nat
    BY <1>0, <2>1 DEF Elapsed, TypeOK
  <2>4. TimesOK'
    <3>1. ASSUME NEW n \in Node, draining'[n] # NoReplica
          PROVE  /\ draining'[n] \in fetched'[n] => Elapsed(n)' + timer' <= MaxTick
                 /\ draining'[n] \in Routed' =>
                      Elapsed(n)' + timer' <=
                        MaxTick + Poll + (IF epc' = "wait" THEN 0 ELSE MaxTick)
      <4>1. Elapsed(n)' + timer' <= Elapsed(n) + timer /\ Elapsed(n)' \in Nat
            /\ Elapsed(n) \in Nat /\ timer' \in Nat
        BY <1>0, <2>2, <2>3
      <4> QED
        BY <1>0, <2>1, <3>1, <4>1 DEF TimesOK, Routed
    <3> QED
      BY <1>0, <2>1, <2>3, <3>1 DEF TimesOK
  <2>5. AliveOK'
    BY <2>1 DEF AliveOK, Routed, AllOf
  <2> QED
    BY <2>4, <2>5
<1>12. CASE UNCHANGED vars
  BY <1>12 DEF vars, TimesOK, AliveOK, Routed, AllOf, Elapsed
<1> QED
  BY <1>1, <1>2, <1>3, <1>4, <1>5, <1>6, <1>7, <1>8, <1>9, <1>10, <1>11,
     <1>12 DEF Next, EdgeStep

-----------------------------------------------------------------------------

(* A shard change reaches Caddy within one poll and two ticks, and the shard *)
(* cache never keeps a body under an etag that the shard has again or still. *)
THEOREM RoutesAlwaysInTime == Spec => []RoutesInTime
<1>1. Init => RoutesInTime
  BY TypeInit, BodiesInit, TimesInit DEF RoutesInTime
<1>2. RoutesInTime /\ [Next]_vars => RoutesInTime'
  <2> SUFFICES ASSUME RoutesInTime, [Next]_vars PROVE RoutesInTime'
    OBVIOUS
  <2>1. TypeOK' /\ BodiesOK'
    BY TypeEdge, BodiesStep DEF RoutesInTime
  <2>2. Timely /\ missed' = 0 => TimesOK' /\ AliveOK'
    BY TimelyStep DEF RoutesInTime, Timely
  <2>3. missed > 0 => missed' > 0
    BY MissedStays DEF RoutesInTime
  <2>4. missed \in Nat /\ missed' \in Nat
    BY <2>1 DEF TypeOK, RoutesInTime
  <2> QED
    BY <2>1, <2>2, <2>3, <2>4 DEF RoutesInTime, Timely
<1> QED
  BY <1>1, <1>2, PTL DEF Spec

(* With a drain floor above Poll + 2 * MaxTick, Caddy never routes to a      *)
(* replica that a rollout stopped, until the edge first loses a tick.        *)
THEOREM DrainedNeverRouted ==
    ASSUME Poll + 2 * MaxTick < Floor
    PROVE  Spec => []RoutedIsAlive
<1>1. RoutesInTime => RoutedIsAlive
  BY DEF TypeOK, RoutesInTime, AliveOK, RoutedIsAlive
<1> QED
  BY <1>1, RoutesAlwaysInTime, PTL

=============================================================================
