----------------------------- MODULE Scheduler -----------------------------
(***************************************************************************)
(* One footprint under deploy, deploy --service, rebalance and rebalance   *)
(* --drain on a pool of app nodes (cli: commands/deploy.ts, rebalance.ts): *)
(* a command reads what the nodes hold, plans with Placement, and          *)
(* publishes node after node, while another project deploys on the same    *)
(* nodes, empty nodes are destroyed, external hosts fall silent, and the   *)
(* command may fail anywhere.                                              *)
(*                                                                         *)
(* One command of the footprint runs at a time; DesiredStore has several.  *)
(* A publish (read, merge, check, conditional put, retry) is one step, as  *)
(* AtomicDesired states and DesiredStore shows.                            *)
(***************************************************************************)
EXTENDS Placement

CONSTANTS Services,     \* of the footprint, in the order of launch-pad.toml
          Volumes,      \* those of them that keep a volume
          Foreign,      \* a service of another project
          Need,         \* what a replica of each takes
          MaxSurge,
          Standing,     \* the nodes there are at first
          Fresh,        \* a sequence of names for nodes that deploys add
          External,     \* nodes whose host is not of EC2
          Capacity,     \* what each standing node can give
          Sizes,        \* the table of instance types: what each can give
          Configs,      \* the replicas launch-pad.toml may declare
          MaxReplicas,  \* the most of them
          MaxStarts,    \* commands of the footprint
          MaxForeign,   \* publishes of the other project, nodes destroyed
          MaxFaults     \* commands that fail, hosts that fall silent

Names == {Services[i] : i \in 1..Len(Services)}
Nodes == Standing \cup {Fresh[i] : i \in 1..Len(Fresh)}

SchedulerAssumption ==
  /\ Resources = {"cpu", "memory"}
  /\ Standing \cup Nodes \subseteq Nat \ {NoNode} /\ External \subseteq Standing
  /\ Volumes \subseteq Names /\ Foreign \notin Names
  /\ Configs \subseteq [Names -> 1..MaxReplicas]
  /\ Need \in [Names \cup {Foreign} -> [Resources -> Nat]]
  /\ Capacity \in [Standing -> [Resources -> Nat \ {0}]]

VARIABLES nodes,      \* the app nodes in the registry
          alloc,      \* their allocatable capacity
          silent,     \* external nodes whose heartbeat is stale
          desired,    \* replicas of each service in each node's desired.json
          declared,   \* replicas in the configuration baseline, none at first
          home,       \* the node that has a volume's data
          job,        \* the command
          unheard,    \* ghost: a plan was made while the data's host was silent
          starts, foreigns, faults

vars == <<nodes, alloc, silent, desired, declared, home, job, unheard, starts,
          foreigns, faults>>

CommandKinds == {"deploy", "partial", "rebalance", "drain"}
Nothing == [s \in Names |-> [n \in Nodes |-> 0]]

Idle == [kind |-> "deploy", stage |-> "idle", config |-> <<>>, part |-> {},
         want |-> Nothing, prior |-> Nothing, queue |-> <<>>, vacate |-> {},
         seen |-> {}, raced |-> FALSE]

Active == job.stage \in {"preflight", "resolve", "publish", "vacate"}

Init ==
  /\ nodes = Standing
  /\ alloc = [n \in Nodes |-> IF n \in Standing THEN Capacity[n] ELSE Zero]
  /\ silent = {}
  /\ desired = [n \in Nodes |-> [s \in Names \cup {Foreign} |-> 0]]
  /\ declared = <<>>
  /\ home = [s \in Volumes |-> NoNode]
  /\ job = Idle /\ unheard = FALSE
  /\ starts = 0 /\ foreigns = 0 /\ faults = 0

-----------------------------------------------------------------------------
(* What a command sees                                                      *)

\* The load of services on a node: demandsOf, summed
Load(n, content) ==
  LET Add(t, s) ==
        IF content[s] = 0 THEN t
        ELSE Taken(t, [need |-> Need[s], maxSurge |-> MaxSurge], content[s])
  IN FoldSet(LAMBDA s, t : Add(t, s), [alloc |-> alloc[n], steady |-> Zero, surge |-> Zero],
             DOMAIN content)

\* The nodes a plan may use.  A paused EC2 node is one of them.
Pool(drained) == (nodes \ silent) \ drained

\* mutant: what others have is not read
BugUnread(drained) == [n \in Pool(drained) |-> Load(n, [s \in {Foreign} |-> 0])]

\* buildCandidateNodes: what others have on the pool.  The footprint's own
\* services are left out, for the publish replaces them.
Candidates(drained) ==
  [n \in Pool(drained) |-> Load(n, [s \in {Foreign} |-> desired[n][s]])]

\* What the footprint has where (buildPlacementSnapshot), a desired.json without
\* a node.json included
Prior == [s \in Names |-> [n \in Nodes |-> desired[n][s]]]

Hosts(p, s) == {n \in Nodes : p[s][n] > 0}
Used(p) == UNION {Hosts(p, s) : s \in Names}

PublishedNodeOf(s) ==
  IF Hosts(Prior, s) = {} THEN NoNode ELSE Min(Hosts(Prior, s))

Input(s, config) ==
  [name |-> s, need |-> Need[s], replicas |-> config[s], maxSurge |-> MaxSurge,
   volume |-> s \in Volumes, sticky |-> PublishedNodeOf(s)]

Inputs(part, config) ==
  LET chosen == SelectSeq(Services, LAMBDA s : s \in part)
  IN [i \in 1..Len(chosen) |-> Input(chosen[i], config)]

\* A plan over all nodes, zero where it has nothing
Spread(plan) ==
  [s \in Names |-> [n \in Nodes |->
     IF s \in DOMAIN plan /\ n \in DOMAIN plan[s] THEN plan[s][n] ELSE 0]]

-----------------------------------------------------------------------------
(* The order in which nodes are published                                   *)

Position(s) == CHOOSE i \in 1..Len(Services) : Services[i] = s

\* The nodes in the order in which the plan's services first name them
FirstNamed(want, n) == Min({Position(s) : s \in {x \in Names : want[x][n] > 0}})

\* Net gain in replicas, over all services
Gain(want, prior, n) ==
  MapThenSumSet(LAMBDA s : want[s][n] - prior[s][n], Names)

\* mutant: those that lose replicas first
BugOrder(kind, want, prior) ==
  SetToSortSeq(Used(want), LAMBDA n, m :
    Gain(want, prior, n) < Gain(want, prior, m) \/
    (Gain(want, prior, n) = Gain(want, prior, m) /\ n < m))

Order(kind, want, prior) ==
  LET key(n) == IF kind \in {"rebalance", "drain"} THEN -Gain(want, prior, n) ELSE 0
      Before(n, m) ==
        \/ key(n) < key(m)
        \/ /\ key(n) = key(m)
           /\ \/ FirstNamed(want, n) < FirstNamed(want, m)
              \/ FirstNamed(want, n) = FirstNamed(want, m) /\ n < m
  IN SetToSortSeq(Used(want), Before)

\* mutant: a subset deploy cleans up too
BugVacated(kind, want, prior) == Used(prior) \ Used(want)

\* Occupied by the footprint and not wanted any more.  A subset deploy does
\* not know where its siblings are meant to be.
Vacated(kind, want, prior) ==
  IF kind = "partial" THEN {} ELSE Used(prior) \ Used(want)

Begin(kind, config, part, want) ==
  /\ job' = [kind |-> kind, stage |-> IF kind \in {"rebalance", "drain"} THEN "resolve"
                                   ELSE "preflight",
          config |-> config, part |-> part, want |-> want, prior |-> Prior,
          queue |-> Order(kind, want, Prior), vacate |-> Vacated(kind, want, Prior),
          seen |-> nodes, raced |-> FALSE]
  /\ unheard' = (unheard \/ \E s \in Volumes : home[s] \in silent)

-----------------------------------------------------------------------------
(* deploy                                                                   *)

\* What a node is to hold at its peak
PeakOf(want, n) ==
  LET t == Load(n, [s \in Names |-> want[s][n]])
  IN Plus(t.steady, t.surge)

Enough(want, n) == {z \in Sizes : Within(PeakOf(want, n), z)}

Unbounded == [r \in Resources |-> 1000]

\* A full deploy takes the replicas of a launch-pad.toml that was edited; a
\* subset deploy publishes some of its services.  Nodes that are missing are
\* created, each sized to what it is to hold.
Deploy(kind) ==
  /\ ~Active /\ starts < MaxStarts
  /\ kind = "partial" => declared # <<>>
  /\ \E config \in Configs,
        part \in IF kind = "deploy" THEN {Names} ELSE SUBSET Names \ {{}, Names},
        adds \in 0..Len(Fresh) :
       \E fresh \in {SelectSeq(SubSeq(Fresh, 1, adds), LAMBDA n : alloc[n] = Zero)} :
       \E p \in {PlanAutoAdd(Candidates({}), Inputs(part, config), fresh, Unbounded)} :
         /\ kind = "partial" => config = declared
         /\ p.plan.error = "none"
         /\ \E want \in {Spread(p.plan.plan)} :
              /\ \A n \in p.added : Enough(want, n) # {}
              /\ nodes' = nodes \cup p.added
              /\ alloc' = [n \in Nodes |->
                   IF n \in p.added THEN Smallest(Enough(want, n)) ELSE alloc[n]]
              /\ Begin(kind, config, part, want)
  /\ starts' = starts + 1
  /\ UNCHANGED <<silent, desired, declared, home, foreigns, faults>>

\* mergeProjectServices, and mergeProjectServicesPartial: what the command
\* would make of the node's desired.json
Merged(n) ==
  [s \in Names \cup {Foreign} |->
     IF s = Foreign \/ (job.kind = "partial" /\ job.want[s][n] = 0) THEN desired[n][s]
     ELSE job.want[s][n]]

Admitted(n, content) == Holds(Load(n, content))

\* Every target is checked before anything is built.
Preflight ==
  /\ job.stage = "preflight"
  /\ job' = [job EXCEPT !.stage =
               IF \A n \in Used(job.want) : Admitted(n, Merged(n)) THEN "publish" ELSE "refused"]
  /\ UNCHANGED <<nodes, alloc, silent, desired, declared, home, unheard, starts, foreigns, faults>>

-----------------------------------------------------------------------------
(* rebalance                                                                *)

\* The toml matches the baseline, and the images that are published are used
\* again: a service without one is refused.  A drain of a node that has a
\* volume of the footprint, or of the last node, is refused.
Rebalance(drained) ==
  /\ ~Active /\ starts < MaxStarts
  /\ declared # <<>> /\ drained \subseteq nodes
  /\ Pool(drained) # {}
  /\ \A s \in Volumes : PublishedNodeOf(s) \notin drained
  /\ \A s \in Names : PublishedNodeOf(s) # NoNode
  /\ \E p \in {PlanClusterPlacement(Candidates(drained), Inputs(Names, declared))} :
       /\ p.error = "none"
       /\ \E want \in {Spread(p.plan)} :
            /\ want # Prior
            /\ Begin(IF drained = {} THEN "rebalance" ELSE "drain", declared, Names, want)
  /\ starts' = starts + 1
  /\ UNCHANGED <<nodes, alloc, silent, desired, declared, home, foreigns, faults>>

\* Every target's registry entry is looked up before anything is written, in
\* the registry as the plan saw it first.
Resolve ==
  /\ job.stage = "resolve"
  /\ job' = [job EXCEPT !.stage =
               IF Used(job.want) \subseteq job.seen \cup nodes THEN "publish" ELSE "refused"]
  /\ UNCHANGED <<nodes, alloc, silent, desired, declared, home, unheard, starts, foreigns, faults>>

-----------------------------------------------------------------------------
(* publishDesired, node after node; then the vacated nodes                  *)

Publish ==
  /\ job.stage = "publish" /\ job.queue # <<>>
  /\ LET n == Head(job.queue)
     IN IF Admitted(n, Merged(n))
        THEN /\ desired' = [desired EXCEPT ![n] = Merged(n)]
             /\ home' = [s \in Volumes |-> IF home[s] \notin nodes /\ job.want[s][n] > 0
                                           THEN n ELSE home[s]]
             /\ job' = [job EXCEPT !.queue = Tail(@)]
        ELSE /\ job' = [job EXCEPT !.stage = "refused"]
             /\ UNCHANGED <<desired, home>>
  /\ UNCHANGED <<nodes, alloc, silent, declared, unheard, starts, foreigns, faults>>

Clean ==
  /\ job.stage = "publish" /\ job.queue = <<>>
  /\ job' = [job EXCEPT !.stage = "vacate"]
  /\ UNCHANGED <<nodes, alloc, silent, desired, declared, home, unheard, starts, foreigns, faults>>

\* A vacated node that is gone by then is skipped.
Vacate ==
  /\ job.stage = "vacate" /\ job.vacate # {}
  /\ LET n == Min(job.vacate)
     IN /\ job' = [job EXCEPT !.vacate = @ \ {n}]
        /\ desired' = [desired EXCEPT
             ![n] = [s \in Names \cup {Foreign} |->
                       IF n \in job.seen \cup nodes /\ s # Foreign THEN 0 ELSE @[s]]]
  /\ UNCHANGED <<nodes, alloc, silent, declared, home, unheard, starts, foreigns, faults>>

\* A deploy ends with the baseline; a rebalance leaves it as it is.
Finish ==
  /\ job.stage = "vacate" /\ job.vacate = {}
  /\ declared' = IF job.kind \in {"deploy", "partial"} THEN job.config ELSE declared
  /\ job' = [job EXCEPT !.stage = "done"]
  /\ UNCHANGED <<nodes, alloc, silent, desired, home, unheard, starts, foreigns, faults>>

-----------------------------------------------------------------------------
(* What happens around it                                                   *)

Fail ==
  /\ Active /\ faults < MaxFaults
  /\ faults' = faults + 1
  /\ job' = [job EXCEPT !.stage = "failed"]
  /\ UNCHANGED <<nodes, alloc, silent, desired, declared, home, unheard, starts, foreigns>>

\* The other project publishes on a node of the pool what fits there.
ForeignPublish(n, k) ==
  /\ n \in nodes /\ foreigns < MaxForeign
  /\ k # desired[n][Foreign]
  /\ Admitted(n, [desired[n] EXCEPT ![Foreign] = k])
  /\ desired' = [desired EXCEPT ![n][Foreign] = k]
  /\ foreigns' = foreigns + 1
  /\ job' = [job EXCEPT !.raced = TRUE]
  /\ UNCHANGED <<nodes, alloc, silent, declared, home, unheard, starts, faults>>

\* node destroy of a node without services
Destroy(n) ==
  /\ n \in nodes /\ foreigns < MaxForeign
  /\ \A s \in Names \cup {Foreign} : desired[n][s] = 0
  /\ nodes' = nodes \ {n}
  /\ home' = [s \in Volumes |-> IF home[s] = n THEN NoNode ELSE home[s]]
  /\ foreigns' = foreigns + 1
  /\ job' = [job EXCEPT !.raced = TRUE]
  /\ UNCHANGED <<alloc, silent, desired, declared, unheard, starts, faults>>

\* An external host misses its heartbeats, or is heard again.
Hush(n) ==
  /\ n \in (External \cap nodes) \ silent /\ faults < MaxFaults
  /\ silent' = silent \cup {n}
  /\ faults' = faults + 1
  /\ job' = [job EXCEPT !.raced = TRUE]
  /\ UNCHANGED <<nodes, alloc, desired, declared, home, unheard, starts, foreigns>>

Speak(n) ==
  /\ n \in silent
  /\ silent' = silent \ {n}
  /\ job' = [job EXCEPT !.raced = TRUE]
  /\ UNCHANGED <<nodes, alloc, desired, declared, home, unheard, starts, foreigns, faults>>

-----------------------------------------------------------------------------

Next ==
  \/ \E kind \in {"deploy", "partial"} : Deploy(kind)
  \/ Preflight \/ Resolve
  \/ \E drained \in SUBSET Standing : Rebalance(drained)
  \/ Publish \/ Clean \/ Vacate \/ Finish \/ Fail
  \/ \E n \in Nodes : \/ \E k \in 0..MaxReplicas : ForeignPublish(n, k)
                      \/ Destroy(n) \/ Hush(n) \/ Speak(n)

Spec == Init /\ [][Next]_vars

-----------------------------------------------------------------------------
(* Properties.                                                              *)

Replicas == 0..MaxReplicas
Counts == [Names -> [Nodes -> Replicas]]

TypeOK ==
  /\ nodes \subseteq Nodes /\ silent \subseteq External
  /\ alloc \in [Nodes -> [Resources -> Nat]]
  /\ desired \in [Nodes -> [Names \cup {Foreign} -> Replicas]]
  /\ declared \in [Names -> 1..MaxReplicas] \cup {<<>>}
  /\ home \in [Volumes -> Nodes \cup {NoNode}]
  /\ job.kind \in CommandKinds /\ job.part \subseteq Names
  /\ job.stage \in {"idle", "preflight", "resolve", "publish", "vacate",
                    "done", "refused", "failed"}
  /\ job.want \in Counts /\ job.prior \in Counts
  /\ ToSet(job.queue) \subseteq Used(job.want)
  /\ job.vacate \subseteq Used(job.prior)
  /\ unheard \in BOOLEAN
  /\ starts \in 0..MaxStarts /\ foreigns \in 0..MaxForeign /\ faults \in 0..MaxFaults

(* A planned placement can never fail the pre-flight (docs/architecture.md), *)
(* nor a publish after it, surge included: unless somebody else wrote in the *)
(* meantime a full deploy or a rebalance is never refused for want of        *)
(* capacity, on nodes it has just had made to measure included.  A subset    *)
(* deploy can be: its plan leaves out the siblings that it keeps.            *)
PlansAreAdmitted ==
  /\ TypeOK
  /\ job.stage = "refused" => job.raced \/ job.kind = "partial"

\* What a publish has left in the desired.json of a node that was destroyed
\* under it: nothing takes it away.
Strays == Used(Prior) \ nodes

(* Later deploys and rebalances keep a volume's service on the node that has *)
(* its data (docs/architecture.md).                                          *)
VolumeNeverMoves ==
  \A s \in Volumes, n \in nodes :
    desired[n][s] > 0 /\ home[s] \in nodes => n = home[s]

(* A service's volume is on one node's disk: as long as that node exists the *)
(* service is published nowhere else, whatever is redeployed, rebalanced or  *)
(* drained, and whatever breaks off half-way.  A host that was silent when   *)
(* a command planned, or a stray, voids this: either passes for a node that  *)
(* was destroyed.                                                            *)
VolumesStay == Strays = {} /\ ~unheard => VolumeNeverMoves

Total(p, s) == MapThenSumSet(LAMBDA n : p[s][n], Nodes)

(* A command that ends has put the footprint where it planned and nowhere    *)
(* else, with as many replicas as were declared, even after one that broke   *)
(* off or a subset deploy; a subset deploy has not touched its siblings.     *)
DeclaredIsPlaced ==
  job.stage = "done" /\ ~job.raced =>
    \A s \in Names :
      IF s \in job.part
      THEN /\ Total(job.want, s) = declared[s]
           /\ \A n \in nodes : job.want[s][n] > 0 \/ job.kind # "partial" =>
                desired[n][s] = job.want[s][n]
      ELSE Prior[s] = job.prior[s]

Moves(n) == {s \in Names : job.want[s][n] # job.prior[s][n]}
Swaps(n) == /\ \E s \in Moves(n) : job.want[s][n] > job.prior[s][n]
            /\ \E s \in Moves(n) : job.want[s][n] < job.prior[s][n]

(* A replica that a rebalance moves exists somewhere at all times, even if   *)
(* it breaks off: nodes that gain replicas are published before those that   *)
(* lose them.  Only a node that gains some and loses others makes a gap.     *)
NoGap ==
  job.kind \in {"rebalance", "drain"} /\ ~job.raced /\ (\A n \in Nodes : ~Swaps(n)) =>
    \A s \in Names :
      Total(Prior, s) >= Min({Total(job.prior, s), Total(job.want, s)})

(* Nothing is lost on the move: neither data nor the last replica.            *)
MovesAreSafe == VolumesStay /\ NoGap

(* A rebalance is idempotent: once one has run to its end, and unless        *)
(* somebody else has changed the nodes, the next has nothing to move.  (A    *)
(* stray is moved again and again.)                                          *)
RebalanceSettles ==
  job.stage = "done" /\ job.kind = "rebalance" /\ ~job.raced /\ Strays = {} =>
    Spread(PlanClusterPlacement(Candidates({}), Inputs(Names, declared)).plan) = Prior

(* What a command leaves is what was asked for, and nothing more to do.       *)
CommandsSettle == DeclaredIsPlaced /\ RebalanceSettles

=============================================================================
