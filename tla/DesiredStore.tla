---------------------------- MODULE DesiredStore ----------------------------
(***************************************************************************)
(* Deploys and destroys as writers of the state bucket: every CLI command  *)
(* reads a node's desired.json, merges its footprint into it and puts it   *)
(* back only if the object still has the ETag it read (publishDesired and  *)
(* publishRemoval), node after node, and keeps the configuration baseline  *)
(* that locks the next deploy.                                             *)
(*                                                                         *)
(* One S3 call is one step.  Between two of them other commands, of the    *)
(* same footprint or of another on the same nodes, do theirs; a command    *)
(* can fail or be killed at any point, and a put can succeed although its  *)
(* answer is lost.  Every put stamps updatedAt, so an object has the ETag  *)
(* that was read exactly as long as nobody has put it since.               *)
(***************************************************************************)
EXTENDS Naturals, FiniteSets

CONSTANTS
    Nodes,
    Projects,    \* footprints
    Services,    \* names of services
    Declared,    \* the services each footprint can have
    CLIs,        \* processes that run commands
    Kinds,       \* the commands that are run
    Capacity,    \* how many services a node has room for
    MaxSpread,   \* on how many nodes a service's replicas are placed
    MAX_PUBLISH_RETRIES,
    MaxStarts,   \* bound: commands started
    MaxFaults    \* bound: commands killed and answers lost

ASSUME StoreAssumption ==
    /\ Projects # {}
    /\ Declared \in [Projects -> SUBSET Services]
    /\ MaxSpread \in Nat
    /\ Kinds \subseteq {"deploy", "partial", "destroy", "undeploy"}
    /\ MAX_PUBLISH_RETRIES \in Nat \ {0}
    /\ Capacity \in Nat
    /\ MaxStarts \in Nat
    /\ MaxFaults \in Nat

VARIABLES
    desired,     \* the services in desired.json of each node
    baseline,    \* those in config-baseline.json; empty: there is none
    job,         \* the command each CLI runs
    overlap,     \* history: two commands of the footprint ran at once
    broken,      \* history: a deploy of the footprint did not finish
    starts, faults

vars == <<desired, baseline, job, overlap, broken, starts, faults>>

\* A service as a node's desired.json lists it: its image, replicas and
\* resources are left out.
Entry == [project : Projects, service : Services]

\* No service is on more nodes than it has replicas.
Spread(w) == \A s \in Services : Cardinality({n \in Nodes : s \in w[n]}) <= MaxSpread

\* "deploy": of the whole footprint; "partial": deploy --service or --changed;
\* "destroy": of the whole footprint; "undeploy": destroy --service
Job == [kind    : {"deploy", "partial", "destroy", "undeploy"},
        project : Projects,
        config  : SUBSET Services,             \* in launch-pad.toml, or to remove
        part    : SUBSET Services,             \* to publish
        stage   : {"idle", "lock", "lockScan", "scan", "publish", "vacate",
                   "remove", "baseline"},
        left    : SUBSET Nodes,                \* still to do in this stage
        prior   : [Nodes -> SUBSET Services],  \* the placement it read
        want    : [Nodes -> SUBSET Services],  \* the placement to publish
        node    : SUBSET Nodes,                \* the node in hand, if any
        holds   : BOOLEAN,                     \* an object read, not yet put
        fresh   : BOOLEAN,                     \* its ETag is the current one
        seen    : SUBSET Entry,                \* a desired.json as read
        lock    : SUBSET Services,             \* a baseline as read
        tries   : 0 .. MAX_PUBLISH_RETRIES - 1]

TypeOK ==
    /\ desired \in [Nodes -> SUBSET Entry]
    /\ baseline \in [Projects -> SUBSET Services]
    /\ job \in [CLIs -> Job]
    /\ overlap \in [Projects -> BOOLEAN]
    /\ broken \in [Projects -> BOOLEAN]
    /\ starts \in 0 .. MaxStarts
    /\ faults \in 0 .. MaxFaults

Of(p, S)      == [project : {p}, service : S]
Has(n, p)     == {s \in Services : [project |-> p, service |-> s] \in desired[n]}
Live(p)       == UNION {Has(n, p) : n \in Nodes}
Running(c, p) == job[c].stage # "idle" /\ job[c].project = p
Deploying(c)  == job[c].kind \in {"deploy", "partial"}
Nowhere       == [n \in Nodes |-> {}]
Fits(E)       == Cardinality(E) <= Capacity

Idle == [kind |-> "deploy", project |-> CHOOSE p \in Projects : TRUE,
         config |-> {}, part |-> {}, stage |-> "idle", left |-> {},
         prior |-> Nowhere, want |-> Nowhere, node |-> {}, holds |-> FALSE,
         fresh |-> TRUE, seen |-> {}, lock |-> {}, tries |-> 0]

\* What finished deploys leave: some placement of some footprints, and their
\* baselines.
Init ==
    /\ desired \in [Nodes -> {E \in SUBSET Entry :
                              Fits(E) /\ \A e \in E : e.service \in Declared[e.project]}]
    /\ \A p \in Projects : Spread([n \in Nodes |-> Has(n, p)])
    /\ baseline = [p \in Projects |-> Live(p)]
    /\ job = [c \in CLIs |-> Idle]
    /\ overlap = [p \in Projects |-> FALSE]
    /\ broken = [p \in Projects |-> FALSE]
    /\ starts = MaxStarts
    /\ faults = MaxFaults

Becomes(c, j) == job' = [job EXCEPT ![c] = j]
Finish(c)     == Becomes(c, Idle)

-----------------------------------------------------------------------------
(* The start of a command, and the lock check of a deploy.                  *)

Command(k, p, config, part) ==
    [Idle EXCEPT !.kind = k, !.project = p, !.config = config, !.part = part,
                 !.stage = IF k \in {"destroy", "undeploy"} THEN "scan" ELSE "lock",
                 !.left = Nodes]

Start(c) ==
    /\ job[c].stage = "idle"
    /\ starts > 0 /\ starts' = starts - 1
    /\ \E k \in Kinds, p \in Projects :
       \E config \in SUBSET Declared[p] \ {{}} : \E part \in SUBSET config \ {{}} :
         /\ k # "partial" => part = config
         /\ k = "destroy" => config = Declared[p]
         /\ k = "undeploy" => \E s \in Declared[p] : config = {s}
         /\ Becomes(c, Command(k, p, config, part))
         /\ overlap' = [overlap EXCEPT
              ![p] = @ \/ \E d \in CLIs \ {c} : Running(d, p)]
    /\ UNCHANGED <<desired, baseline, broken, faults>>

\* findConfigLockViolations: the same services as before, or, with
\* --allow-new-services, more.  A locked field that changed is refused too.
CompareConfig(c, locked) ==
    \/ /\ locked \subseteq job[c].config
       /\ Becomes(c, [job[c] EXCEPT !.stage = "scan", !.left = Nodes,
                                    !.prior = Nowhere])
    \/ Finish(c)

jobOnly == <<desired, baseline, overlap, broken, starts, faults>>

\* Without a baseline the published services are the lock.
ReadLock(c) ==
    /\ job[c].stage = "lock"
    /\ LET locked == baseline[job[c].project] IN
         \/ locked # {} /\ CompareConfig(c, locked)
         \/ locked = {} /\ Becomes(c, [job[c] EXCEPT !.stage = "lockScan"])
    /\ UNCHANGED jobOnly

\* loadNodeDesiredStates reads node after node.
Scan(c) ==
    /\ job[c].stage \in {"lockScan", "scan"}
    /\ \E n \in job[c].left :
         Becomes(c, [job[c] EXCEPT !.left = @ \ {n},
                                 !.prior = [@ EXCEPT ![n] = Has(n, job[c].project)]])
    /\ UNCHANGED jobOnly

Found(c) == UNION {job[c].prior[n] : n \in Nodes}

CheckLock(c) ==
    /\ job[c].stage = "lockScan" /\ job[c].left = {}
    /\ \/ Found(c) # {} /\ CompareConfig(c, Found(c))
       \/ /\ Found(c) = {}
          /\ Becomes(c, [job[c] EXCEPT !.stage = "scan", !.left = Nodes])
    /\ UNCHANGED jobOnly

-----------------------------------------------------------------------------
(* The plan.                                                                *)

\* The planner puts every service somewhere, by the room it finds and not by
\* where the service is, or finds no room.
Place(c) ==
    /\ job[c].stage = "scan" /\ job[c].left = {} /\ Deploying(c)
    /\ \/ \E w \in [Nodes -> SUBSET job[c].part] :
            /\ UNION {w[n] : n \in Nodes} = job[c].part /\ Spread(w)
            /\ Becomes(c, [job[c] EXCEPT !.stage = "publish", !.want = w,
                                         !.left = {n \in Nodes : w[n] # {}}])
       \/ Finish(c)
    /\ UNCHANGED jobOnly

\* planUndeploy: the nodes that have some of the services to remove
PlanRemoval(c) ==
    /\ job[c].stage = "scan" /\ job[c].left = {} /\ ~Deploying(c)
    /\ LET hosts == {n \in Nodes : job[c].prior[n] \cap job[c].config # {}} IN
         \/ hosts = {} /\ Finish(c)
         \/ /\ hosts # {}
            /\ Becomes(c, [job[c] EXCEPT !.stage = "remove", !.left = hosts])
    /\ UNCHANGED jobOnly

-----------------------------------------------------------------------------
(* publishDesired and publishRemoval, node after node                       *)

\* Nodes the footprint occupies and the new placement does not target
Vacated(c) == {n \in Nodes : job[c].prior[n] # {} /\ job[c].want[n] = {}}

\* The removals come after the additions, and only a deploy of the whole
\* footprint knows of any.
NextStage(c) ==
    /\ job[c].stage \in {"publish", "vacate", "remove"} /\ job[c].left = {}
    /\ \/ /\ job[c].stage = "publish" /\ job[c].kind = "deploy"
          /\ Becomes(c, [job[c] EXCEPT !.stage = "vacate", !.left = Vacated(c)])
       \/ /\ job[c].stage # "publish" \/ job[c].kind # "deploy"
          /\ Becomes(c, [job[c] EXCEPT !.stage = "baseline"])
    /\ UNCHANGED jobOnly

\* What the command publishes on n: in the stage "vacate", nothing
Incoming(c, n) ==
    IF job[c].stage = "publish" THEN Of(job[c].project, job[c].want[n]) ELSE {}

\* mergeProjectServices
FullMerge(c, n, E) == {e \in E : e.project # job[c].project} \cup Incoming(c, n)

\* mutant: a subset deploy replaces what it does not republish
BugPartialMerge(c, n, E) == FullMerge(c, n, E)

\* mergeProjectServicesPartial
PartialMerge(c, n, E) == E \cup Incoming(c, n)

\* servicesAfterRemoval
AfterRemoval(c, E) == E \ Of(job[c].project, job[c].config)

Merged(c, n, E) ==
    CASE job[c].stage = "remove" -> AfterRemoval(c, E)
      [] job[c].stage # "remove" /\ job[c].kind = "partial" -> PartialMerge(c, n, E)
      [] OTHER -> FullMerge(c, n, E)

\* An error or a signal ends the command where it stands.
Break(c) ==
    /\ Finish(c)
    /\ broken' = [broken EXCEPT ![job[c].project] = @ \/ Deploying(c)]

Read(c) ==
    /\ job[c].stage \in {"publish", "vacate", "remove"} /\ ~job[c].holds
    /\ \E n \in job[c].left :
         LET new == Merged(c, n, desired[n])
             done == job[c].stage = "remove" /\ new = desired[n]
             fits == job[c].stage = "remove" \/ Fits(new)
         IN /\ job[c].tries > 0 => n \in job[c].node
            /\ \/ /\ done
                  /\ Becomes(c, [job[c] EXCEPT !.left = @ \ {n}, !.node = {},
                                               !.tries = 0])
                  /\ UNCHANGED broken
               \/ ~fits /\ Break(c)
               \/ /\ ~done /\ fits
                  /\ Becomes(c, [job[c] EXCEPT !.node = {n}, !.holds = TRUE,
                                               !.fresh = TRUE, !.seen = desired[n]])
                  /\ UNCHANGED broken
    /\ UNCHANGED <<desired, baseline, overlap, starts, faults>>

Drop(c) == [job[c] EXCEPT !.holds = FALSE, !.fresh = TRUE, !.seen = {}]

\* A PreconditionFailedError: read and merge again, or give up.
Again(c) == job[c].tries + 1 < MAX_PUBLISH_RETRIES

Retry(c) == IF Again(c) THEN [Drop(c) EXCEPT !.tries = @ + 1] ELSE Idle

\* The put of n has happened: mine is the command that did it, and what the
\* others hold of n is out of date.
Overwrite(c, n, mine) ==
    /\ desired' = [desired EXCEPT ![n] = Merged(c, n, job[c].seen)]
    /\ job' = [d \in CLIs |->
                 IF d = c THEN mine
                 ELSE [job[d] EXCEPT !.fresh = @ /\ n \notin job[d].node]]

\* mutant: the put does not depend on what was read
BugMatches(c) == TRUE

\* If-Match, or If-None-Match when there was no object
Matches(c) == job[c].fresh

Put(c) ==
    /\ job[c].stage \in {"publish", "vacate", "remove"} /\ job[c].holds
    /\ \E n \in job[c].node :
         \/ /\ Matches(c)
            /\ Overwrite(c, n, [Drop(c) EXCEPT !.left = @ \ {n}, !.node = {},
                                               !.tries = 0])
            /\ UNCHANGED <<broken, faults>>
         \/ /\ ~Matches(c)
            /\ Becomes(c, Retry(c))
            /\ broken' = [broken EXCEPT
                 ![job[c].project] = @ \/ (Deploying(c) /\ ~Again(c))]
            /\ UNCHANGED <<desired, faults>>
         \* The answer is lost: the SDK puts again, and finds its own object.
         \/ /\ Matches(c)
            /\ faults > 0 /\ faults' = faults - 1
            /\ Overwrite(c, n, Retry(c))
            /\ broken' = [broken EXCEPT
                 ![job[c].project] = @ \/ (Deploying(c) /\ ~Again(c))]
    /\ UNCHANGED <<baseline, overlap, starts>>

-----------------------------------------------------------------------------
(* The baseline, and the end of a command                                   *)

SetLock(c, locked) ==
    LET p == job[c].project IN
    /\ baseline' = [baseline EXCEPT ![p] = locked]
    /\ job' = [d \in CLIs |->
                 IF d = c THEN Idle
                 ELSE [job[d] EXCEPT !.fresh = @ /\ ~(job[d].stage = "baseline" /\
                                           job[d].holds /\ job[d].project = p)]]

\* writeConfigBaseline puts unconditionally.
WriteBaseline(c) ==
    /\ job[c].stage = "baseline" /\ Deploying(c)
    /\ SetLock(c, job[c].config)
    /\ UNCHANGED <<desired, overlap, broken, starts, faults>>

\* updateBaseline
ReadBaseline(c) ==
    /\ job[c].stage = "baseline" /\ ~Deploying(c) /\ ~job[c].holds
    /\ LET locked == baseline[job[c].project] IN
         \/ /\ locked # {}
            /\ Becomes(c, [job[c] EXCEPT !.holds = TRUE, !.fresh = TRUE,
                                         !.lock = locked])
         \/ locked = {} /\ Finish(c)
    /\ UNCHANGED jobOnly

\* removeServicesFromBaseline, or the deletion of the object
Trimmed(c) == IF job[c].kind = "destroy" THEN {}
              ELSE job[c].lock \ job[c].config

TrimBaseline(c) ==
    /\ job[c].stage = "baseline" /\ job[c].holds
    /\ \/ job[c].fresh /\ SetLock(c, Trimmed(c))
       \* A destroy leaves the baseline of whoever came in between.
       \/ /\ ~job[c].fresh
          /\ Becomes(c, IF job[c].kind = "undeploy" /\ Again(c)
                        THEN [Drop(c) EXCEPT !.tries = @ + 1, !.lock = {}]
                        ELSE Idle)
          /\ UNCHANGED baseline
    /\ UNCHANGED <<desired, overlap, broken, starts, faults>>

Fail(c) ==
    /\ job[c].stage # "idle"
    /\ faults > 0 /\ faults' = faults - 1
    /\ Break(c)
    /\ UNCHANGED <<desired, baseline, overlap, starts>>

-----------------------------------------------------------------------------

Step(c) ==
    \/ Start(c) \/ ReadLock(c) \/ Scan(c) \/ CheckLock(c)
    \/ Place(c) \/ PlanRemoval(c) \/ NextStage(c)
    \/ Read(c) \/ Put(c)
    \/ WriteBaseline(c) \/ ReadBaseline(c) \/ TrimBaseline(c)
    \/ Fail(c)

Next == \E c \in CLIs : Step(c)

Spec == Init /\ [][Next]_vars

-----------------------------------------------------------------------------
(* Properties.                                                              *)

\* The request a command that has its plan makes to AtomicDesired
RequestOf(c) ==
    [op      |-> CASE job[c].stage \in {"publish", "vacate"} ->
                        IF job[c].kind = "partial" THEN "upsert" ELSE "replace"
                   [] job[c].stage = "remove" -> "remove"
                   [] OTHER -> "none",
     project |-> job[c].project,
     put     |-> IF job[c].stage = "publish" THEN job[c].want ELSE Nowhere,
     drop    |-> IF job[c].stage = "remove" THEN job[c].config ELSE {}]

Atomic == INSTANCE AtomicDesired WITH
    store   <- desired,
    request <- [c \in CLIs |-> RequestOf(c)]

(* Concurrent commands write as if one after the other: whatever races,      *)
(* retries and lost answers there are, every put applies its command to what *)
(* the node's desired.json holds at that moment, and the services of other   *)
(* footprints, and of its own that it is not about, are kept.                *)
WritesAreAtomic == Atomic!Spec

(* A footprint leaves a node only when all of it is elsewhere: while a full  *)
(* deploy cleans up the nodes it vacates, every service of its configuration *)
(* is published somewhere.  Another command of the same footprint that ran   *)
(* in the meantime voids this.                                               *)
AdditionsFirst ==
    \A c \in CLIs :
        job[c].stage = "vacate" /\ ~overlap[job[c].project] =>
            job[c].config \subseteq Live(job[c].project)

(* A command that ends normally has done what it was asked, no more and no   *)
(* less: after a full deploy the footprint is where the plan wants it and    *)
(* nowhere else, even if an earlier one broke off half-way; a subset deploy  *)
(* leaves its siblings alone; and after a destroy nothing of it is left.     *)
DoneMeansDone ==
    \A c \in CLIs :
        job[c].stage = "baseline" /\ ~overlap[job[c].project] =>
            \A n \in Nodes :
                LET has == Has(n, job[c].project) IN
                CASE job[c].kind = "deploy"  -> has = job[c].want[n]
                  [] job[c].kind = "partial" ->
                        has = job[c].prior[n] \cup job[c].want[n]
                  [] OTHER -> has = job[c].prior[n] \ job[c].config

(* The lock covers what is live: unless a deploy broke off or two commands   *)
(* of the footprint ran at once, every published service is in the           *)
(* configuration baseline whenever no deploy of it is running, also when a   *)
(* destroy fails half-way.                                                   *)
LockCoversLive ==
    /\ TypeOK
    /\ \A p \in Projects :
           \/ overlap[p] \/ broken[p]
           \/ \E c \in CLIs : Running(c, p) /\ Deploying(c)
           \/ Live(p) \subseteq baseline[p]

(* What is published is what was planned, on the way and at the end, and the *)
(* next deploy is compared with all of it.                                   *)
PublishedAsPlanned == AdditionsFirst /\ DoneMeansDone /\ LockCoversLive

=============================================================================
