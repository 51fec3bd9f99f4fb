----------------------------- MODULE Autoscale -----------------------------
(***************************************************************************)
(* `launchpad autoscale run` (cli: commands/autoscale.ts; shared:          *)
(* autoscale.ts): passes that cron starts read the policy in cluster.json, *)
(* observe the pool, decide on one action, claim it with a conditional put *)
(* of cluster.json and act: launch a node and rebalance onto it, or drain  *)
(* one, wait for the others and terminate it.                              *)
(*                                                                         *)
(* Passes overlap, break off and time out; meanwhile the policy is set     *)
(* anew, other commands write cluster.json without a condition, another    *)
(* project deploys, and agents take their time.  A rebalance plans with    *)
(* Placement and publishes in one step (Scheduler has it node by node); a  *)
(* launch and a teardown are one step (NodeFleet has theirs).              *)
(***************************************************************************)
EXTENDS Placement, FiniteSets

CONSTANTS Names,        \* numbers for the nodes there may be
          Standing,     \* the app nodes at first
          External,     \* those of them that launch-pad did not launch
          Protected,    \* the default edge, where it hosts containers too
          Capacity,     \* allocatable on every node
          Need, ForeignNeed,   \* of a replica of the project's service, of the other project's
          Replicas, MaxSurge,
          Samples,      \* utilisations that a node may report
          ScaleOutPercent, ScaleInPercent,
          Policies,     \* [min, max] that may be set
          FirstPolicy,  \* the one that is set at first
          Cooldown,     \* in ticks
          Passes,       \* runs that may overlap
          MaxEvents     \* calls that fail, writes and deploys of others

\* Those that a pass may meet, besides other passes
Operator == "operator"
Mover == "mover"

AutoscaleAssumption ==
  /\ Names \subseteq Nat \ {NoNode} /\ IsFiniteSet(Names)
  /\ Standing \subseteq Names /\ Standing # {}
  /\ External \subseteq Standing /\ Protected \subseteq Standing
  /\ ScaleInPercent < ScaleOutPercent
  /\ Samples \subseteq [cpu : Nat, memory : Nat]
  /\ Policies \subseteq [min : Nat, max : Nat]
  /\ FirstPolicy \in Policies /\ \A p \in Policies : 1 <= p.min /\ p.min <= p.max
  /\ Cooldown \in Nat /\ MaxEvents \in Nat
  /\ IsFiniteSet(Passes) /\ {Operator, Mover} \cap Passes = {}

VARIABLES nodes,      \* the app nodes in the registry
          own,        \* replicas of the project's service in each desired.json
          foreign,    \* the nodes where another project has a service
          running,    \* replicas that run, as status.json says
          config,     \* of cluster.json: the policy, and the age of lastScaleAt
          pass,       \* the passes
          edit,       \* the copy of cluster.json that a command will put back, if any
          since,      \* history: the age of the last claim; Cooldown if a later put
                      \* took that claim away
          met,        \* history: who has come in between (Remember)
          events

cloud == <<nodes, own, foreign, running>>
vars == <<cloud, config, pass, edit, since, met, events>>

Off == [min |-> 0, max |-> 0]
Unread == [policy |-> Off, age |-> Cooldown]
NoSample == [cpu |-> -1, memory |-> -1]

\* An age of Cooldown is any from there on; a lastScaleAt of null is one too.
Older(age) == Min({age + 1, Cooldown})

\* seen: cluster.json as read.  age: of the moment of the observation.
\* fresh: the ETag that was read is current.  moved: the drain has published.
\* late (history): something was put on the victim after the last look.
Idle == [stage |-> "idle", seen |-> Unread, age |-> 0, victim |-> NoNode, fresh |-> FALSE, moved |-> FALSE, goal |-> <<>>,
         late |-> FALSE]

Active(p) == pass[p].stage # "idle"

-----------------------------------------------------------------------------
(* What a pass meets: while it observes, the other passes that claim; from    *)
(* its decision, those that change the pool; after its drain, whatever moves  *)
(* replicas; always, commands that change the pool or the policy.            *)

Claims(p) == pass[p].stage = "put" /\ pass'[p].stage \in {"launch", "drain"}
Launched(p) == pass[p].stage = "launch" /\ pass'[p].stage = "spread"
TornDown(p) == pass[p].stage = "teardown" /\ pass'[p].stage = "idle" /\ nodes' # nodes
Acts(p) == Launched(p) \/ TornDown(p)

Decides(p) == pass[p].stage = "observe" /\ pass'[p].stage = "claim"

Interferes == config'.policy # config.policy \/ (nodes' # nodes /\ \A p \in Passes : ~Acts(p))

Meets(p) ==
  IF pass'[p].stage \in {"idle", "spread"} THEN {}
  ELSE (IF Decides(p) THEN met[p] \cap {Operator} ELSE met[p])
         \cup {q \in Passes \ {p} : IF pass[p].stage = "observe" THEN Claims(q) ELSE Acts(q)}
         \cup (IF Interferes THEN {Operator} ELSE {})
         \cup (IF pass[p].moved /\ own' # own THEN {Mover} ELSE {})

\* The passes among them
Crossed(p) == met[p] \cap Passes

Remember == met' = [p \in Passes |-> Meets(p)]

-----------------------------------------------------------------------------
(* planAutoscale                                                            *)

Input(n) == [name |-> "web", need |-> Need, replicas |-> n, maxSurge |-> MaxSurge,
             volume |-> FALSE, sticky |-> NoNode]

Empty == [alloc |-> Capacity, steady |-> Zero, surge |-> Zero]
OneForeign(t) == Taken(t, [need |-> ForeignNeed, maxSurge |-> MaxSurge], 1)
Others(n, taken) == IF n \in taken THEN OneForeign(Empty) ELSE Empty
Reserved(n) ==
  IF own[n] = 0 THEN Others(n, foreign) ELSE Taken(Others(n, foreign), Input(own[n]), own[n])

\* The sum of a function of nodes
Total(f) ==
  LET upto[i \in 0..Max(Names)] ==
        IF i = 0 THEN 0 ELSE upto[i-1] + IF i \in DOMAIN f THEN f[i] ELSE 0
  IN upto[Max(Names)]

\* The rest of the pool has room for what the victim has and for one surge.
SurvivorsCanAbsorb(v, pool) ==
  \A r \in Resources :
    Total([n \in DOMAIN pool \ {v} |-> pool[n].alloc[r]])
      >= Total([n \in DOMAIN pool |-> pool[n].steady[r]])
           + Max({pool[n].surge[r] : n \in DOMAIN pool})

\* What the planner may drain, of a pool with these reservations
Drainable(pool) ==
  {n \in DOMAIN pool \ (Protected \cup External) : SurvivorsCanAbsorb(n, pool)}

Average(bound, samples) == Total(samples) >= bound * Cardinality(DOMAIN samples)

Hot(load, fresh) ==
  \/ Average(ScaleOutPercent, [n \in fresh |-> load[n].cpu])
  \/ Average(ScaleOutPercent, [n \in fresh |-> load[n].memory])

Cold(load) ==
  \A n \in DOMAIN load : /\ load[n] # NoSample
                         /\ load[n].cpu < ScaleInPercent /\ load[n].memory < ScaleInPercent

\* The least utilised of them, of equals the last by name
Use(x) == Max({x.cpu, x.memory})
LeastUsed(load, able) ==
  CHOOSE n \in able : \A m \in able :
    Use(load[n]) < Use(load[m]) \/ (Use(load[n]) = Use(load[m]) /\ n >= m)

None == [action |-> "none", victim |-> NoNode]
Out == [action |-> "scale-out", victim |-> NoNode]
In(victim) == [action |-> "scale-in", victim |-> victim]

\* A node that reports nothing is taken for busy.
MetricsDecide(policy, load, fresh, able) ==
  CASE Hot(load, fresh) /\ Cardinality(DOMAIN load) < policy.max -> Out
    [] ~Hot(load, fresh) /\ Cardinality(DOMAIN load) > policy.min /\ Cold(load) /\ able # {}
         -> In(LeastUsed(load, able))
    [] OTHER -> None

\* mutant: the floor waits for the cooldown
BugPlanAutoscale(policy, age, load, able) ==
  LET fresh == {n \in DOMAIN load : load[n] # NoSample}
  IN CASE age < Cooldown \/ fresh = {} -> None
       [] Cardinality(DOMAIN load) < policy.min /\ age = Cooldown /\ fresh # {} -> Out
       [] OTHER -> MetricsDecide(policy, load, fresh, able)

\* What to do, and to which node; the floor ignores the cooldown.
PlanAutoscale(policy, age, load, able) ==
  LET fresh == {n \in DOMAIN load : load[n] # NoSample}
  IN CASE Cardinality(DOMAIN load) < policy.min -> Out
       [] Cardinality(DOMAIN load) >= policy.min /\ (age < Cooldown \/ fresh = {})
            -> None
       [] OTHER -> MetricsDecide(policy, load, fresh, able)

-----------------------------------------------------------------------------
(* The rebalance of the footprint over a pool, where the other project has a *)
(* service on the nodes of taken: where its replicas go, <<>> if nowhere.    *)

Rebalanced(pool, taken) ==
  LET r == PlanClusterPlacement([n \in pool |-> Others(n, taken)], <<Input(Replicas)>>)
  IN IF r.error # "none" THEN <<>>
     ELSE [n \in Names |-> IF n \in pool THEN r.plan["web"][n] ELSE 0]

\* The project's service has a place at first.
StandingAssumption == Rebalanced(Standing, {}) # <<>>

Deployed == \E n \in Names : own[n] > 0

Init ==
  /\ nodes = Standing
  /\ foreign = {}
  /\ own = Rebalanced(Standing, {})
  /\ running = own
  /\ config = [policy |-> FirstPolicy, age |-> Cooldown]
  /\ pass = [p \in Passes |-> Idle]
  /\ edit = <<>>
  /\ since = Cooldown
  /\ met = [p \in Passes |-> {}]
  /\ events = 0

-----------------------------------------------------------------------------
(* A pass: read, observe, claim                                             *)

\* The passes that have looked at their victim for the last time before this
\* was there
Late(passes, mine, theirs) ==
  [q \in Passes |-> [passes[q] EXCEPT
     !.late = @ \/ /\ passes[q].stage = "teardown"
                   /\ mine[passes[q].victim] > 0 \/ passes[q].victim \in theirs]]

Become(p, stage) == pass' = [pass EXCEPT ![p].stage = stage]
Stop(p) == pass' = [pass EXCEPT ![p] = Idle]

\* requireCluster.  Without a policy the command ends.
Read(p) ==
  /\ ~Active(p) /\ config.policy # Off
  /\ pass' = [pass EXCEPT ![p] = [Idle EXCEPT !.stage = "observe", !.seen = config]]
  /\ UNCHANGED <<cloud, config, edit, since, events>>
  /\ Remember

\* observePool and planAutoscale; the confirmation follows
Observe(p) ==
  /\ pass[p].stage = "observe"
  /\ \E able \in {Drainable([n \in nodes |-> Reserved(n)])} :
       \E d \in {PlanAutoscale(pass[p].seen.policy, pass[p].seen.age, load, able) :
                   load \in [nodes -> Samples \cup {NoSample}]} :
         IF d.action = "none" THEN Stop(p)
         ELSE pass' = [pass EXCEPT ![p].stage = "claim", ![p].age = 0, ![p].seen = Unread,
                                   ![p].victim = d.victim]
  /\ UNCHANGED <<cloud, config, edit, since, events>>
  /\ Remember

\* claimScaleAction reads cluster.json again, of which only the policy's being
\* there matters, ...
ClaimRead(p) ==
  /\ pass[p].stage = "claim"
  /\ IF config.policy = Off THEN Stop(p)
     ELSE pass' = [pass EXCEPT ![p].stage = "put", ![p].fresh = TRUE]
  /\ UNCHANGED <<cloud, config, edit, since, events>>
  /\ Remember

\* A put of cluster.json outdates the ETags that others have read.
Put(doc, p, next) ==
  /\ config' = doc
  /\ pass' = [q \in Passes |-> IF q = p THEN next ELSE [pass[q] EXCEPT !.fresh = FALSE]]

Stage(p) == IF pass[p].victim = NoNode THEN "launch" ELSE "drain"

\* mutant: only a scale-in is stamped
BugStamped(p) ==
  IF pass[p].victim = NoNode THEN config ELSE [config EXCEPT !.age = pass[p].age]

\* The claim is the moment of the observation.
Stamped(p) == [config EXCEPT !.age = pass[p].age]

\* ... and puts it back with lastScaleAt, if it is still what was read.
ClaimPut(p) ==
  /\ pass[p].stage = "put"
  /\ IF pass[p].fresh
     THEN /\ Put(Stamped(p), p, [pass[p] EXCEPT !.stage = Stage(p)])
          /\ since' = pass[p].age
     ELSE Stop(p) /\ UNCHANGED <<config, since>>
  /\ UNCHANGED <<cloud, edit, events>>
  /\ Remember

-----------------------------------------------------------------------------
(* Scale out                                                                *)

Launch(p) ==
  /\ pass[p].stage = "launch" /\ nodes # Names
  /\ nodes' = nodes \cup {Min(Names \ nodes)}
  /\ Become(p, "spread")
  /\ UNCHANGED <<own, foreign, running, config, edit, since, events>>
  /\ Remember

\* runRebalance, which is not waited for; one that fails fails the pass.
Spread(p) ==
  /\ pass[p].stage = "spread"
  /\ \E new \in {Rebalanced(nodes, foreign)} :
       own' = IF Deployed /\ new # <<>> THEN new ELSE own
  /\ pass' = Late([pass EXCEPT ![p] = Idle], own', foreign)
  /\ UNCHANGED <<nodes, foreign, running, config, edit, since, events>>
  /\ Remember

-----------------------------------------------------------------------------
(* Scale in                                                                 *)

CanDrain(p) == pass[p].victim \in nodes /\ nodes # {pass[p].victim} /\ Deployed

\* runRebalance with the victim drained.  When nothing is left to move it
\* returns at once, before the wait.
Drain(p) ==
  /\ pass[p].stage = "drain"
  /\ IF ~CanDrain(p) THEN Stop(p) /\ UNCHANGED own
     ELSE \E new \in {Rebalanced(nodes \ {pass[p].victim}, foreign)} :
            IF new = <<>> THEN Stop(p) /\ UNCHANGED own
            ELSE IF new = own THEN Become(p, "gate") /\ UNCHANGED own
            ELSE /\ own' = new
                 /\ pass' = Late([pass EXCEPT ![p].stage = "wait", ![p].moved = TRUE,
                                              ![p].goal = new], new, foreign)
  /\ UNCHANGED <<nodes, foreign, running, config, edit, since, events>>
  /\ Remember

\* mutant: the drain is not waited for
BugConverged(p) == TRUE

\* waitForRebalanceConvergence: every replica is running where it was placed.
Converged(p) == \A n \in Names : running[n] >= pass[p].goal[n]

Confirm(p) ==
  /\ pass[p].stage = "wait" /\ Converged(p)
  /\ pass' = [pass EXCEPT ![p].stage = "gate", ![p].goal = <<>>]
  /\ UNCHANGED <<cloud, config, edit, since, events>>
  /\ Remember

\* or not in time: the pass fails and nothing is torn down.
Timeout(p) ==
  /\ pass[p].stage = "wait"
  /\ Stop(p)
  /\ UNCHANGED <<cloud, config, edit, since, events>>
  /\ Remember

Hosts(n) == own[n] > 0 \/ n \in foreign

\* The orphan gate; what is still on the victim ends the pass.  Then the
\* victim's agent has two minutes to stop its containers, which it may not do.
Gate(p) ==
  /\ pass[p].stage = "gate"
  /\ IF Hosts(pass[p].victim) THEN Stop(p) ELSE Become(p, "recheck")
  /\ UNCHANGED <<cloud, config, edit, since, events>>
  /\ Remember

StillEmpty(p) == ~Hosts(pass[p].victim)

Recheck(p) ==
  /\ pass[p].stage = "recheck"
  /\ IF StillEmpty(p) THEN Become(p, "teardown") ELSE Stop(p)
  /\ UNCHANGED <<cloud, config, edit, since, events>>
  /\ Remember

\* teardownNode: the instance, the registry entry and the whole prefix
Teardown(p) ==
  /\ pass[p].stage = "teardown"
  /\ \E v \in {pass[p].victim} :
       /\ nodes' = nodes \ {v}
       /\ own' = [own EXCEPT ![v] = 0]
       /\ foreign' = foreign \ {v}
       /\ running' = [running EXCEPT ![v] = 0]
  /\ Stop(p)
  /\ UNCHANGED <<config, edit, since, events>>
  /\ Remember

-----------------------------------------------------------------------------
(* What happens around the passes                                           *)

\* The command is killed, or one of its calls fails; a launch that fails is
\* rolled back.
Break(p) ==
  /\ Active(p) /\ events < MaxEvents
  /\ events' = events + 1
  /\ Stop(p)
  /\ UNCHANGED <<cloud, config, edit, since>>
  /\ Remember

\* The agent brings its node to its desired.json and reports it.
Agent(n) ==
  /\ n \in nodes /\ running[n] # own[n]
  /\ running' = [running EXCEPT ![n] = own[n]]
  /\ UNCHANGED <<nodes, own, foreign, config, pass, edit, since, events>>
  /\ Remember

\* Another project deploys, or destroys.
ForeignPublish(n) ==
  /\ n \in nodes /\ events < MaxEvents
  /\ events' = events + 1
  /\ \/ n \in foreign /\ foreign' = foreign \ {n}
     \/ n \notin foreign /\ Holds(OneForeign(Reserved(n))) /\ foreign' = foreign \cup {n}
  /\ pass' = Late(pass, own, foreign')
  /\ UNCHANGED <<nodes, own, running, config, edit, since>>
  /\ Remember

\* `node destroy` of a node without services
Destroy(n) ==
  /\ n \in nodes /\ nodes # {n} /\ ~Hosts(n) /\ events < MaxEvents
  /\ events' = events + 1
  /\ nodes' = nodes \ {n}
  /\ running' = [running EXCEPT ![n] = 0]
  /\ UNCHANGED <<own, foreign, config, pass, edit, since>>
  /\ Remember

\* `autoscale set` and `autoscale off`: conditional puts as well; the first
\* takes lastScaleAt away.
SetPolicy(policy) ==
  /\ policy # config.policy /\ events < MaxEvents
  /\ events' = events + 1
  /\ config' = [policy |-> policy, age |-> Cooldown]
  /\ pass' = [p \in Passes |-> [pass[p] EXCEPT !.fresh = FALSE]]
  /\ since' = Cooldown
  /\ UNCHANGED <<cloud, edit>>
  /\ Remember

\* `cluster set-edge`, a deploy's topic, a destroyed node's default edge: read,
\* changed elsewhere and put back without a condition
EditRead ==
  /\ edit = <<>> /\ events < MaxEvents
  /\ events' = events + 1
  /\ edit' = <<config>>
  /\ UNCHANGED <<cloud, config, pass, since>>
  /\ Remember

EditWrite ==
  /\ edit # <<>>
  /\ config' = edit[1]
  /\ edit' = <<>>
  /\ pass' = [p \in Passes |-> [pass[p] EXCEPT !.fresh = FALSE]]
  /\ since' = IF edit[1] = config THEN since ELSE Cooldown
  /\ UNCHANGED <<cloud, events>>
  /\ Remember

Tick ==
  /\ config' = [config EXCEPT !.age = Older(@)]
  /\ edit' = [i \in DOMAIN edit |-> [edit[i] EXCEPT !.age = Older(@)]]
  /\ since' = Older(since)
  /\ pass' = [p \in Passes |-> [pass[p] EXCEPT
       !.seen.age = Older(@),
       !.age = IF pass[p].stage \in {"claim", "put"} THEN Older(@) ELSE 0]]
  /\ UNCHANGED <<cloud, events>>
  /\ Remember

-----------------------------------------------------------------------------

Step(p) ==
  \/ Read(p) \/ Observe(p) \/ ClaimRead(p) \/ ClaimPut(p)
  \/ Launch(p) \/ Spread(p)
  \/ Drain(p) \/ Confirm(p) \/ Timeout(p) \/ Gate(p) \/ Recheck(p) \/ Teardown(p)

Next ==
  \/ \E p \in Passes : Step(p) \/ Break(p)
  \/ \E n \in Names : Agent(n) \/ ForeignPublish(n) \/ Destroy(n)
  \/ \E policy \in Policies \cup {Off} : SetPolicy(policy)
  \/ EditRead \/ EditWrite \/ Tick

\* Where Step(p) can be taken
Ready(p) == /\ pass[p].stage = "idle" => config.policy # Off
            /\ pass[p].stage = "launch" => nodes # Names

\* Cron starts passes again and again, and a command does not stand still:
\* weak fairness of Step(p), which changes the stage, as Break(p) does only
\* MaxEvents times.
Fairness ==
  \A p \in Passes : []<>~Ready(p) \/ []<><<pass'[p].stage # pass[p].stage>>_vars

Spec == Init /\ [][Next]_vars /\ Fairness

-----------------------------------------------------------------------------
(* Properties.                                                              *)

Stages == {"idle", "observe", "claim", "put", "launch", "spread", "drain", "wait",
           "gate", "recheck", "teardown"}
Ages == 0..Cooldown
Documents == [policy : Policies \cup {Off}, age : Ages]

TypeOK ==
  /\ nodes \subseteq Names
  /\ own \in [Names -> 0..Replicas] /\ running \in [Names -> 0..Replicas]
  /\ foreign \subseteq Names
  /\ config \in Documents
  /\ \A p \in Passes :
       /\ pass[p].stage \in Stages /\ pass[p].seen \in Documents /\ pass[p].age \in Ages
       /\ pass[p].victim \in Names \cup {NoNode}
       /\ pass[p].goal = <<>> \/ pass[p].goal \in [Names -> 0..Replicas]
       /\ {pass[p].fresh, pass[p].moved, pass[p].late} \subseteq BOOLEAN
  /\ edit = <<>> \/ edit \in [{1} -> Documents]
  /\ since \in Ages /\ met \in [Passes -> SUBSET (Passes \cup {Operator, Mover})]
  /\ events \in 0..MaxEvents

(* docs/cli.md: scale-out goes "never past maxNodes", and the floor holds.    *)
(* From the read of cluster.json to the launch or the teardown, over the      *)
(* claim, a drain and its waits, a pass leaves the bounds by as many nodes at *)
(* most as other passes have acted since it observed the pool: not at all if  *)
(* it met none, though others overlap.  Excepted are commands that change     *)
(* the policy or the pool meanwhile.                                          *)
WithinPolicy ==
  [][\A p \in Passes : Operator \notin met[p] =>
       /\ Launched(p) => Cardinality(nodes') <= config.policy.max + Cardinality(Crossed(p))
       /\ TornDown(p) => Cardinality(nodes') + Cardinality(Crossed(p)) >= config.policy.min]_vars

(* A pass that fails mid-action leaves the cooldown in place                 *)
(* (autoscale.ts): an action that utilisation asks for is claimed at an      *)
(* observation at least a cooldown after the one of the last claim, whatever *)
(* became of that action, unless that claim came after this pass had read    *)
(* cluster.json, the policy was set anew, or another command put back a      *)
(* cluster.json that is older than the claim.                                *)
CooldownKept ==
  [][\A p \in Passes :
       /\ Decides(p) /\ Crossed(p) = {}
       /\ Cardinality(nodes) >= pass[p].seen.policy.min
       => since = Cooldown]_vars

(* docs/cli.md:779: "two overlapping runs can't both act - the loser aborts   *)
(* having changed nothing".  The claim is exclusive only between its own      *)
(* read and put: it does not look at the lastScaleAt that it reads.          *)
OneOfTwoActs == [][\A p \in Passes : Acts(p) => Crossed(p) = {}]_vars

(* Autoscale never orphans workloads: nothing is scheduled on a node when it *)
(* is torn down, though other projects publish all the while, except what    *)
(* came after the last look at its desired.json.                             *)
NothingOrphaned ==
  [][\A p \in Passes : TornDown(p) /\ ~pass[p].late => ~Hosts(pass[p].victim)]_vars

RunningElsewhere(p) ==
  Total([n \in nodes \ {pass[p].victim} |-> running[n]]) >= Replicas

(* A node is never terminated while its replicas are not confirmed up        *)
(* elsewhere (autoscale.ts): so it is for a pass that has moved them itself,  *)
(* unless another has moved them again, or changed the pool, since.           *)
MovedAreConfirmed ==
  [][\A p \in Passes : TornDown(p) /\ pass[p].moved /\ met[p] = {} => RunningElsewhere(p)]_vars

(* The bounds, up to what overlapping passes have done, and the cooldown       *)
PolicyIsKept == WithinPolicy /\ CooldownKept

(* Nothing is lost with the node that goes: neither what is scheduled on it   *)
(* nor what was moved off it.                                                *)
NothingGoesWithIt == NothingOrphaned /\ MovedAreConfirmed

BelowFloor == Cardinality(nodes) < config.policy.min

(* The floor is maintained even in the middle of a cooldown: a pool that has *)
(* fallen below minNodes gets there again, however many passes failed or     *)
(* lost their claim on the way.                                              *)
FloorRestored == []TypeOK /\ (BelowFloor ~> ~BelowFloor)
=============================================================================
