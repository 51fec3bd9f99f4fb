----------------------------- MODULE NodeFleet -----------------------------
(***************************************************************************)
(* The life of one EC2 node of a cluster under the commands that create,   *)
(* destroy, pause, resume, resize and reconcile it, with the deploys that  *)
(* place services on it (cli: commands/node, provision, aws/ec2, cluster). *)
(*                                                                         *)
(* Every command is a process of its own: it reads node.json, calls EC2    *)
(* and IAM, waits, and writes node.json back.  Nothing locks a node; the   *)
(* one conditional write is the `ifNoneMatch: "*"` of a create.  A fault   *)
(* is a refused or unanswered AWS call, a wait that times out, or a        *)
(* command that is killed; the console is an operator who stops, starts or *)
(* terminates the instance behind the program's back.                      *)
(***************************************************************************)
EXTENDS Naturals, FiniteSets

CONSTANTS CLIs,        \* concurrent invocations of the program
          Ids,         \* instance ids; one that nothing names may be reused
          MaxStarts,   \* commands started, reconciles aside
          MaxFaults    \* faults, and changes made in the AWS console

ASSUME FleetAssumption ==
  /\ {"none", "idle"} \cap Ids = {}
  /\ MaxStarts \in Nat /\ MaxFaults \in Nat

VARIABLES role,     \* "app" or "edge": only an edge holds an Elastic IP
          reg,      \* node.json
          inst,     \* the EC2 instances launched for this node
          address,  \* the tagged Elastic IP: none, idle, or on an instance
          group,    \* the security group exists
          iam,      \* the role and instance profile exist
          binary,   \* the uploaded agent binary is under the node's prefix
          desired,  \* the services of desired.json
          adopted,  \* the node is its cluster's default edge
          op,       \* what each command is doing
          starts, faults,
          clash,    \* ghost: which commands overlapped, if any
          excused   \* ghost: instances that a failed call left behind

vars == <<role, reg, inst, address, group, iam, binary, desired, adopted, op,
          starts, faults, clash, excused>>

cloud == <<inst, address, group, iam>>
state == <<reg, binary, desired, adopted>>
ghost == <<role, clash>>

None == "none"
Services == {"web", "db"}            \* "db" keeps a volume on the node
Volumes == {"db"}
Types == {"small", "large"}
Entry == [inst : Ids, type : Types, eip : BOOLEAN,
          state : {"provisioning", "ready", "stopped"}]
NoEntry == [inst |-> None]
Address == Ids \cup {None, "idle"}

Alive(i) == inst[i].state \in {"pending", "running", "stopping", "stopped"}
Free(i) == /\ inst[i].state = "gone"
           /\ reg.inst # i
           /\ \A c \in CLIs : op[c].mine # i /\ op[c].seen.inst # i

Idle == [kind |-> "idle", at |-> "idle", seen |-> NoEntry, mine |-> None,
         eip |-> FALSE, services |-> {}, flag |-> FALSE]
Kinds == {"create", "destroy", "prune", "pause", "resume", "resize", "reconcile", "deploy"}

\* The name is unused, or a node of that name was created and has settled.
Init ==
  /\ role \in {"app", "edge"}
  /\ \/ /\ reg = NoEntry
        /\ inst = [i \in Ids |-> [state |-> "gone", type |-> "small"]]
        /\ address = None
        /\ group = FALSE /\ iam = FALSE /\ binary = FALSE /\ adopted = FALSE
        /\ desired = {}
     \/ \E i \in Ids :
          /\ i = CHOOSE j \in Ids : TRUE
          /\ reg = [inst |-> i, type |-> "small", eip |-> role = "edge", state |-> "ready"]
          /\ inst = [j \in Ids |-> [state |-> IF j = i THEN "running" ELSE "gone",
                                   type |-> "small"]]
          /\ address = IF role = "edge" THEN i ELSE None
          /\ group = TRUE /\ iam = TRUE /\ binary = TRUE /\ adopted = (role = "edge")
          /\ desired \in {{}, {"web"}, Services}
  /\ op = [c \in CLIs |-> Idle]
  /\ starts = 0 /\ faults = 0
  /\ clash = "none"
  /\ excused = {}

-----------------------------------------------------------------------------
(* Commands begin.                                                         *)

At(c, kinds, label) == op[c].kind \in kinds /\ op[c].at = label
Goto(c, label) == op' = [op EXCEPT ![c].at = label]
Leave(c) == op' = [op EXCEPT ![c] = Idle]
Fault == faults < MaxFaults /\ faults' = faults + 1
Steady == UNCHANGED faults

\* Whether commands have overlapped yet, and whether all that did were creates.
Overlap(c, kind) ==
  LET others == {op[d].kind : d \in {d \in CLIs \ {c} : op[d] # Idle}} IN
  CASE others = {} -> clash
    [] others = {"create"} /\ kind = "create" /\ clash # "mixed" -> "creates"
    [] OTHER -> "mixed"

Begin(c, kind, label, seen, services) ==
  /\ op[c] = Idle
  /\ op' = [op EXCEPT ![c] = [Idle EXCEPT !.kind = kind, !.at = label, !.seen = seen,
                                          !.services = services]]
  /\ clash' = Overlap(c, kind)
  /\ UNCHANGED <<role, cloud, state, faults, excused>>

Counted == starts < MaxStarts /\ starts' = starts + 1

\* A create refuses a name whose node.json it reads.
StartCreate(c) == Counted /\ reg = NoEntry /\ Begin(c, "create", "prepare", NoEntry, {})

\* A destroy reads node.json and desired.json; without the first it goes on to
\* sweep what is left of the prefix.  --evacuate is tried when services remain.
StartDestroy(c) ==
  /\ Counted
  /\ \E evacuate \in BOOLEAN :
       Begin(c, "destroy",
             IF reg = NoEntry THEN "sweep"
             ELSE IF evacuate /\ desired # {} THEN "evacuate" ELSE "gate",
             reg, IF reg = NoEntry THEN {} ELSE desired)

\* A prune lists the prefixes of the cluster and keeps those without node.json.
StartPrune(c) ==
  /\ Counted
  /\ reg = NoEntry
  /\ binary \/ desired # {}
  /\ Begin(c, "prune", "sweep", NoEntry, {})

StartPause(c) == Counted /\ reg # NoEntry /\ Begin(c, "pause", "stop", reg, {})
StartResume(c) == Counted /\ reg # NoEntry /\ Begin(c, "resume", "start", reg, {})
StartResize(c) ==
  /\ Counted
  /\ reg # NoEntry
  /\ \E drain \in BOOLEAN :
       Begin(c, "resize", IF drain /\ desired \ Volumes # {} THEN "drain" ELSE "observe",
             reg, {})
StartDeploy(c) == Counted /\ reg # NoEntry /\ Begin(c, "deploy", "publish", reg, {})
StartReconcile(c) ==
  reg # NoEntry /\ UNCHANGED starts /\ Begin(c, "reconcile", "observe", reg, {})

Start(c) ==
  \/ StartCreate(c) \/ StartDestroy(c) \/ StartPrune(c) \/ StartPause(c)
  \/ StartResume(c) \/ StartResize(c) \/ StartDeploy(c)

-----------------------------------------------------------------------------
(* Launching an instance: provisionNode and replaceInstance.               *)

Launching == {"create", "reconcile"}

\* Upload the binary, ensure the role and the profile.
Prepare(c) ==
  /\ At(c, {"create"}, "prepare")
  /\ binary' = TRUE
  /\ \/ iam' = TRUE /\ Goto(c, "group") /\ Steady
     \/ iam' \in {iam, TRUE} /\ Leave(c) /\ Fault
  /\ UNCHANGED <<ghost, reg, desired, adopted, inst, address, group, starts, excused>>

\* Ensure the security group; an app's admits its edge's group, read first.
Group(c) ==
  /\ At(c, {"create"}, "group")
  /\ \/ group' = TRUE /\ Goto(c, "launch") /\ Steady
     \/ group' \in {group, TRUE} /\ Leave(c) /\ Fault
  /\ UNCHANGED <<ghost, state, inst, address, iam, starts, excused>>

\* RunInstances needs the group and the profile to exist.  A reconcile uploads
\* the binary again first.
Launch(c) ==
  LET uploaded == binary \/ op[c].kind = "reconcile" IN
  /\ At(c, Launching, "launch")
  /\ \/ /\ group /\ iam
        /\ LET fresh == {i \in Ids : Free(i)}
               i == CHOOSE j \in fresh : TRUE
           IN /\ fresh # {}
              /\ inst' = [inst EXCEPT ![i] =
                   [state |-> "pending",
                    type |-> IF op[c].kind = "create" THEN "small" ELSE op[c].seen.type]]
              /\ excused' = excused \ {i}
              /\ op' = [op EXCEPT ![c].at = "boot", ![c].mine = i]
        /\ binary' = uploaded /\ Steady
     \/ /\ ~group \/ ~iam
        /\ Leave(c) /\ Steady /\ binary' = uploaded /\ UNCHANGED <<inst, excused>>
     \/ Leave(c) /\ Fault /\ binary' \in {binary, uploaded} /\ UNCHANGED <<inst, excused>>
  /\ UNCHANGED <<ghost, reg, desired, adopted, address, group, iam, starts>>

\* The wait for "running" may end without it: the error is swallowed.
Boot(c) ==
  /\ At(c, Launching, "boot")
  /\ IF inst[op[c].mine].state = "pending" THEN Fault ELSE Steady
  /\ Goto(c, IF role = "edge" THEN "address" ELSE "put")
  /\ UNCHANGED <<ghost, state, cloud, starts, excused>>

\* Mutant: a failed command leaves its instance.
BugFailed(c, o) == Leave(c) /\ UNCHANGED excused

\* A failure after the launch: a create goes and terminates what it launched,
\* a reconcile just fails.
Failed(c, o) ==
  IF o.kind = "create"
  THEN /\ op' = [op EXCEPT ![c] = [o EXCEPT !.at = "cleanup"]]
       /\ UNCHANGED excused
  ELSE Leave(c) /\ excused' = excused \cup {o.mine}

\* Find the tagged address or allocate one, then point it at the instance,
\* which EC2 refuses unless the instance is running.
TakeAddress(c) ==
  /\ At(c, Launching, "address")
  /\ \/ /\ inst[op[c].mine].state = "running"
        /\ address' = op[c].mine
        /\ op' = [op EXCEPT ![c].at = "put", ![c].eip = TRUE]
        /\ Steady /\ UNCHANGED excused
     \/ /\ \/ inst[op[c].mine].state # "running" /\ Steady
           \/ Fault
        /\ address' \in {address, IF address = None THEN "idle" ELSE address}
        /\ Failed(c, op[c])
  /\ UNCHANGED <<ghost, state, inst, group, iam, starts>>

\* A create registers the node only if node.json is not there.  A put whose
\* answer is lost has been made, and its retry is refused.
Register(c) ==
  LET entry == [inst |-> op[c].mine, type |-> "small", eip |-> op[c].eip,
                state |-> "provisioning"]
  IN
  /\ At(c, {"create"}, "put")
  /\ \/ reg = NoEntry /\ reg' = entry /\ Goto(c, "wire") /\ Steady /\ UNCHANGED excused
     \/ reg # NoEntry /\ Failed(c, op[c]) /\ Steady /\ UNCHANGED reg
     \/ reg' \in {reg, IF reg = NoEntry THEN entry ELSE reg} /\ Failed(c, op[c]) /\ Fault
  /\ UNCHANGED <<ghost, cloud, binary, desired, adopted, starts>>

\* Ensure cluster.json; the first edge becomes the default edge.
Wire(c) ==
  /\ At(c, {"create"}, "wire")
  /\ \/ adopted' = (adopted \/ role = "edge") /\ Leave(c) /\ Steady /\ UNCHANGED excused
     \/ Failed(c, op[c]) /\ Fault /\ UNCHANGED adopted
  /\ UNCHANGED <<ghost, cloud, reg, binary, desired, starts>>

\* TerminateInstances: a terminated instance loses its address.
Doom(i) ==
  /\ inst' = [inst EXCEPT ![i].state = IF Alive(i) THEN "dying" ELSE @]
  /\ address' = IF address = i THEN "idle" ELSE address

Cleanup(c) ==
  /\ At(c, {"create"}, "cleanup")
  /\ \/ Doom(op[c].mine) /\ Steady /\ UNCHANGED excused
     \/ Fault /\ excused' = excused \cup {op[c].mine} /\ UNCHANGED <<inst, address>>
  /\ IF op[c].eip THEN Goto(c, "release") ELSE Leave(c)
  /\ UNCHANGED <<ghost, state, group, iam, starts>>

\* The wait for "terminated" ends or times out; the address is released
\* whatever instance it is on.
Release(c) ==
  /\ At(c, {"create"}, "release")
  /\ \/ inst[op[c].mine].state = "gone" /\ address' = None /\ Steady
     \/ address' \in {None, address} /\ Fault
     \/ op[c].mine \in excused /\ address' = None /\ Steady
  /\ Leave(c)
  /\ UNCHANGED <<ghost, state, inst, group, iam, starts, excused>>

-----------------------------------------------------------------------------
(* Destroy, destroy of nothing, prune.                                     *)

\* rebalance --drain: what has no volume moves to other nodes, unless the plan
\* is blocked; the services are read again.
Evacuate(c) ==
  /\ At(c, {"destroy"}, "evacuate")
  /\ \/ /\ desired' \in {desired, desired \cap Volumes}
        /\ op' = [op EXCEPT ![c].at = "gate", ![c].services = desired']
        /\ Steady
     \/ Leave(c) /\ Fault /\ UNCHANGED desired
  /\ UNCHANGED <<ghost, reg, binary, adopted, cloud, starts, excused>>

\* Mutant: --force opens the data gate too.
BugPassesGate(services, force, deleteData) == services = {} \/ force

\* The data gate and the orphan gate, and the confirmation.
PassesGate(services, force, deleteData) ==
  /\ services \cap Volumes = {} \/ deleteData
  /\ services = {} \/ force

Gate(c) ==
  /\ At(c, {"destroy"}, "gate")
  /\ \E force, deleteData \in BOOLEAN :
       IF PassesGate(op[c].services, force, deleteData)
       THEN op' = [op EXCEPT ![c].at = "terminate", ![c].flag = deleteData]
       ELSE Leave(c)
  /\ Steady
  /\ UNCHANGED <<ghost, state, cloud, starts, excused>>

\* Each step of the teardown is tried, and its failure only warned of.
Terminate(c) ==
  /\ At(c, {"destroy"}, "terminate")
  /\ \/ Doom(op[c].seen.inst) /\ Steady /\ UNCHANGED excused
     \/ Fault /\ excused' = excused \cup {op[c].seen.inst} /\ UNCHANGED <<inst, address>>
  /\ Goto(c, "unaddress")
  /\ UNCHANGED <<ghost, state, group, iam, starts>>

Unaddress(c) ==
  /\ At(c, {"destroy"}, "unaddress")
  /\ \/ inst[op[c].seen.inst].state # "dying" /\ Steady
        /\ address' = IF op[c].seen.eip THEN None ELSE address
     \/ Fault /\ UNCHANGED address
  /\ Goto(c, "ungroup")
  /\ UNCHANGED <<ghost, state, inst, group, iam, starts, excused>>

\* The group of a live instance cannot be deleted: the retries run out.
Ungroup(c) ==
  /\ At(c, {"destroy"}, "ungroup")
  /\ \/ (\A i \in Ids : inst[i].state = "gone") /\ group' = FALSE /\ Steady
     \/ (\E i \in Ids : Alive(i)) /\ UNCHANGED group /\ Steady
     \/ Fault /\ UNCHANGED group
  /\ Goto(c, "uniam")
  /\ UNCHANGED <<ghost, state, inst, address, iam, starts, excused>>

Uniam(c) ==
  /\ At(c, {"destroy"}, "uniam")
  /\ \/ iam' = FALSE /\ Steady
     \/ Fault /\ UNCHANGED iam
  /\ Goto(c, "unwire")
  /\ UNCHANGED <<ghost, state, inst, address, group, starts, excused>>

Unwire(c) ==
  /\ At(c, {"destroy"}, "unwire")
  /\ \/ adopted' = FALSE /\ Steady
     \/ Fault /\ UNCHANGED adopted
  /\ Goto(c, "sweep")
  /\ UNCHANGED <<ghost, reg, binary, desired, cloud, starts, excused>>

\* deletePrefix: everything under the node's prefix, node.json included.
Sweep(c) ==
  /\ At(c, {"destroy", "prune"}, "sweep")
  /\ \/ reg' = NoEntry /\ desired' = {} /\ binary' = FALSE /\ Steady
     \/ Fault /\ UNCHANGED <<reg, desired, binary>>
  /\ Leave(c)
  /\ UNCHANGED <<ghost, adopted, cloud, starts, excused>>

-----------------------------------------------------------------------------
(* Pause, resume, resize, reconcile: observe, stop, retype, start, write.  *)

\* What describeInstancesById makes of an instance.
Observed(i) ==
  CASE inst[i].state = "running" -> "running"
    [] inst[i].state = "stopped" -> "stopped"
    [] inst[i].state = "gone" -> "missing"
    [] OTHER -> "transitional"

\* Mutant: an instance that is gone is nothing to repair.
BugRepair(entry, seen) ==
  CASE seen = "running" -> IF entry.state = "stopped" THEN "put" ELSE "noop"
    [] seen = "stopped" -> "start"
    [] OTHER -> "noop"

\* planNodeDrift and applyNodeDrift: where the repair of a node goes on.
Repair(entry, seen) ==
  CASE seen = "running" -> IF entry.state = "stopped" THEN "put" ELSE "noop"
    [] seen = "stopped" -> "start"
    [] seen = "missing" -> "launch"
    [] seen = "transitional" -> "blocked"

Observe(c) ==
  LET o == op[c]
      seen == Observed(o.seen.inst)
  IN
  /\ o.at = "observe"
  /\ \/ /\ o.kind = "reconcile"
        /\ IF Repair(o.seen, seen) \in {"noop", "blocked"} THEN Leave(c)
           ELSE Goto(c, Repair(o.seen, seen))
     \/ /\ o.kind = "resize"
        /\ IF seen = "missing" THEN Leave(c)
           ELSE op' = [op EXCEPT ![c].at = "stop", ![c].flag = (seen # "stopped")]
  /\ Steady
  /\ UNCHANGED <<ghost, state, cloud, starts, excused>>

\* resize --evacuate: drain, then read node.json again.
Drain(c) ==
  /\ At(c, {"resize"}, "drain")
  /\ \/ /\ desired \cap Volumes = {}
        /\ desired' = {}
        /\ IF reg = NoEntry THEN Leave(c)
           ELSE op' = [op EXCEPT ![c].at = "observe", ![c].seen = reg,
                                 ![c].services = desired]
        /\ Steady
     \/ desired \cap Volumes # {} /\ Leave(c) /\ Steady /\ UNCHANGED desired
     \/ Leave(c) /\ Fault /\ UNCHANGED desired
  /\ UNCHANGED <<ghost, reg, binary, adopted, cloud, starts, excused>>

\* StopInstances; EC2 refuses an instance that is starting or ending.
Stop(c) ==
  LET i == op[c].seen.inst IN
  /\ At(c, {"pause", "resize"}, "stop")
  /\ \/ /\ inst[i].state \in {"running", "stopping", "stopped"}
        /\ inst' = [inst EXCEPT ![i].state = IF @ = "running" THEN "stopping" ELSE @]
        /\ Goto(c, "stopped") /\ Steady
     \/ /\ inst[i].state \in {"pending", "dying", "gone"}
        /\ Leave(c) /\ Steady /\ UNCHANGED inst
     \/ Leave(c) /\ Fault /\ UNCHANGED inst
  /\ UNCHANGED <<ghost, state, address, group, iam, starts, excused>>

\* The wait for "stopped": met, or timed out.
Stopped(c) ==
  LET i == op[c].seen.inst IN
  /\ At(c, {"pause", "resize"}, "stopped")
  /\ \/ /\ inst[i].state = "stopped"
        /\ Goto(c, IF op[c].kind = "pause" THEN "put" ELSE "retype") /\ Steady
     \/ inst[i].state \notin {"stopped", "stopping"} /\ Leave(c) /\ Steady
     \/ Leave(c) /\ Fault
  /\ UNCHANGED <<ghost, state, cloud, starts, excused>>

Other(type) == IF type = "small" THEN "large" ELSE "small"

\* ModifyInstanceAttribute, on a stopped instance only.
Retype(c) ==
  LET i == op[c].seen.inst IN
  /\ At(c, {"resize"}, "retype")
  /\ \/ /\ inst[i].state = "stopped"
        /\ inst' = [inst EXCEPT ![i].type = Other(op[c].seen.type)]
        /\ Goto(c, IF op[c].flag THEN "start" ELSE "put") /\ Steady
     \/ inst[i].state # "stopped" /\ Leave(c) /\ Steady /\ UNCHANGED inst
     \/ Leave(c) /\ Fault /\ UNCHANGED inst
  /\ UNCHANGED <<ghost, state, address, group, iam, starts, excused>>

\* StartInstances, and the wait for "running".
StartUp(c) ==
  LET i == op[c].seen.inst IN
  /\ At(c, {"resume", "resize", "reconcile"}, "start")
  /\ \/ /\ inst[i].state \in {"stopped", "pending", "running"}
        /\ inst' = [inst EXCEPT ![i].state = IF @ = "stopped" THEN "pending" ELSE @]
        /\ Goto(c, "started") /\ Steady
     \/ /\ inst[i].state \notin {"stopped", "pending", "running"}
        /\ Leave(c) /\ Steady /\ UNCHANGED inst
     \/ Leave(c) /\ Fault /\ UNCHANGED inst
  /\ UNCHANGED <<ghost, state, address, group, iam, starts, excused>>

Started(c) ==
  LET i == op[c].seen.inst IN
  /\ At(c, {"resume", "resize", "reconcile"}, "started")
  /\ \/ inst[i].state = "running" /\ Goto(c, "put") /\ Steady
     \/ inst[i].state \notin {"running", "pending"} /\ Leave(c) /\ Steady
     \/ Leave(c) /\ Fault
  /\ UNCHANGED <<ghost, state, cloud, starts, excused>>

\* The entry a command writes back: the one it read, with what it changed.
Updated(o) ==
  CASE o.kind = "pause" -> [o.seen EXCEPT !.state = "stopped"]
    [] o.kind = "resume" -> [o.seen EXCEPT !.state = "ready"]
    [] o.kind = "resize" -> [o.seen EXCEPT !.type = Other(@),
                                           !.state = IF o.flag THEN "ready" ELSE "stopped"]
    [] o.kind = "reconcile" -> IF o.mine = None THEN [o.seen EXCEPT !.state = "ready"]
                               ELSE [o.seen EXCEPT !.state = "ready", !.inst = o.mine,
                                                   !.eip = o.eip]

\* The write has no condition: node.json is replaced whatever it has become.
WriteBack(c) ==
  /\ At(c, {"pause", "resume", "resize", "reconcile"}, "put")
  /\ \/ /\ reg' = Updated(op[c])
        /\ IF op[c].services # {} THEN Goto(c, "back") ELSE Leave(c)
        /\ Steady /\ UNCHANGED excused
     \/ /\ Leave(c) /\ Fault /\ UNCHANGED reg
        /\ excused' = IF op[c].mine = None THEN excused ELSE excused \cup {op[c].mine}
  /\ UNCHANGED <<ghost, cloud, binary, desired, adopted, starts>>

\* After a drained resize the footprint is rebalanced over the pool again.
Back(c) ==
  /\ At(c, {"resize"}, "back")
  /\ \/ desired' \in {desired, desired \cup op[c].services} /\ Steady
     \/ Fault /\ UNCHANGED desired
  /\ Leave(c)
  /\ UNCHANGED <<ghost, reg, binary, adopted, cloud, starts, excused>>

\* A deploy, an undeploy: desired.json is written whatever became of node.json.
Publish(c) ==
  /\ At(c, {"deploy"}, "publish")
  /\ desired' \in SUBSET Services
  /\ Leave(c) /\ Steady
  /\ UNCHANGED <<ghost, reg, binary, adopted, cloud, starts, excused>>

-----------------------------------------------------------------------------
\* The program is killed between two of its calls.
Crash(c) ==
  /\ op[c] # Idle
  /\ Fault
  /\ excused' = excused \cup ({op[c].mine} \ {None})
  /\ Leave(c)
  /\ UNCHANGED <<ghost, state, cloud, starts>>

\* EC2 finishes what it was asked.
Settle(i) ==
  /\ inst[i].state \in {"pending", "stopping", "dying"}
  /\ inst' = [inst EXCEPT ![i].state =
       CASE @ = "pending" -> "running" [] @ = "stopping" -> "stopped" [] @ = "dying" -> "gone"]
  /\ UNCHANGED <<role, state, address, group, iam, op, starts, faults, clash, excused>>

\* Somebody stops, starts or terminates the registered instance by hand.
Console ==
  LET i == reg.inst IN
  /\ reg # NoEntry
  /\ Fault
  /\ \/ /\ inst[i].state \in {"running", "stopped"}
        /\ inst' = [inst EXCEPT ![i].state = IF @ = "running" THEN "stopping" ELSE "pending"]
        /\ UNCHANGED address
     \/ inst[i].state \in {"running", "stopped"} /\ Doom(i)
  /\ UNCHANGED <<role, state, group, iam, op, starts, clash, excused>>

Step(c) ==
  \/ Prepare(c) \/ Group(c) \/ Launch(c) \/ Boot(c) \/ TakeAddress(c) \/ Register(c)
  \/ Wire(c) \/ Cleanup(c) \/ Release(c) \/ Evacuate(c) \/ Gate(c) \/ Terminate(c)
  \/ Unaddress(c) \/ Ungroup(c) \/ Uniam(c) \/ Unwire(c) \/ Sweep(c) \/ Observe(c)
  \/ Drain(c) \/ Stop(c) \/ Stopped(c) \/ Retype(c) \/ StartUp(c) \/ Started(c)
  \/ WriteBack(c) \/ Back(c) \/ Publish(c)

Next ==
  \/ \E c \in CLIs : Start(c) \/ StartReconcile(c) \/ Step(c) \/ Crash(c)
  \/ \E i \in Ids : Settle(i)
  \/ Console

Spec == Init /\ [][Next]_vars

\* A command that was started goes on, EC2 settles, and reconciles are run again
\* and again.
Fairness ==
  /\ \A c \in CLIs : WF_vars(Step(c)) /\ WF_vars(StartReconcile(c))
  /\ \A i \in Ids : WF_vars(Settle(i))

FairSpec == Spec /\ Fairness

-----------------------------------------------------------------------------
(* Correctness.                                                            *)

\* Every variable keeps its type: a command reads and writes entries of the
\* registry, and the instances of a node are those its commands launched.
TypeOK ==
  /\ role \in {"app", "edge"}
  /\ reg \in Entry \cup {NoEntry}
  /\ inst \in [Ids -> [state : {"pending", "running", "stopping", "stopped", "dying", "gone"},
                       type : Types]]
  /\ address \in Address
  /\ {group, iam, binary, adopted} \subseteq BOOLEAN
  /\ desired \subseteq Services
  /\ \A c \in CLIs :
       /\ op[c].kind \in Kinds \cup {"idle"}
       /\ op[c].seen \in Entry \cup {NoEntry}
       /\ op[c].mine \in Ids \cup {None}
       /\ op[c].services \subseteq Services
       /\ {op[c].eip, op[c].flag} \subseteq BOOLEAN
  /\ clash \in {"none", "creates", "mixed"}
  /\ excused \subseteq Ids

\* No instance bills on unknown to the registry: a live one is in node.json or
\* in the hands of the command that launched it.  It holds however many creates
\* of the name race and whichever one call of theirs fails, the termination of
\* the launched instance itself aside (provisionNode's catch).
NoStray ==
  clash # "mixed" =>
    \A i \in Ids : Alive(i) =>
      \/ reg.inst = i
      \/ i \in excused
      \/ \E c \in CLIs : op[c].mine = i

\* The data gate holds until the instance is terminated: while no other command
\* ran beside it, a destroy that was not told to delete data terminates no
\* instance whose desired.json keeps a volume, evacuated or forced as it may be.
DataIsKept ==
  [][ \A i \in Ids :
        /\ reg.inst = i /\ Alive(i) /\ inst'[i].state = "dying"
        /\ desired \cap Volumes # {}
        /\ clash = "none" /\ op' # op
        => \E c \in CLIs : op[c].kind = "destroy" /\ op[c].flag ]_vars

Quiet == (\A c \in CLIs : op[c] = Idle) /\ clash # "mixed" /\ faults = 0

\* When the commands have ended unharmed the registry says what is so: a
\* destroyed node has left nothing in AWS, a registered one has one instance, in
\* the state and of the type its entry records, with its group and profile and,
\* for an edge, its address and its place as default edge.
RegistryIsTrue ==
  Quiet =>
    IF reg = NoEntry
    THEN /\ ~group /\ ~iam /\ ~adopted /\ address = None /\ desired = {}
         /\ \A i \in Ids : inst[i].state = "gone"
    ELSE /\ group /\ iam /\ (adopted <=> role = "edge")
         /\ {i \in Ids : Alive(i)} = {reg.inst}
         /\ inst[reg.inst].type = reg.type
         /\ (inst[reg.inst].state = "stopped") <=> (reg.state = "stopped")
         /\ clash = "none" => address = IF role = "edge" THEN reg.inst ELSE None

\* What is billed and what is registered agree.
FleetIsAccountedFor == TypeOK /\ NoStray /\ RegistryIsTrue

\* Reconciles repair whatever races, faults, kills and the console have left: in
\* the end the node is unregistered, or its instance runs and the registry does
\* not call it paused.  A teardown that removed the group or the profile and not
\* node.json is beyond them.
NodesComeBack ==
  <>[]( \/ reg = NoEntry \/ ~group \/ ~iam
        \/ inst[reg.inst].state = "running" /\ reg.state # "stopped" )

=============================================================================
