------------------------------ MODULE PortAlloc ------------------------------
(***************************************************************************)
(* The host ports of a node's web replicas (agent-rust: state.rs, and the  *)
(* calls of reconcile.rs and agent-app.rs).                                *)
(*                                                                         *)
(* The agent gives each replica of a service, named by the service and an  *)
(* index, a port of its own from a fixed range: the first free one from a  *)
(* hash of the name on.  It keeps the map in memory and, after each change,*)
(* in state.json; docker knows only which port a container was created     *)
(* with.  The agent may die between any two calls, state.json may be lost  *)
(* or not be writable, docker's stop and rm may fail unnoticed, and a      *)
(* container may go down and be started again.  Which action a tick takes  *)
(* is AppAgent's subject: here the agent may take any that the replicas it *)
(* sees allow.                                                             *)
(***************************************************************************)
EXTENDS Integers, FiniteSets

CONSTANTS
    Services,   \* the web services of the node
    MaxIndex,   \* bound: the highest index of a replica
    HOST_PORT_COUNT, \* the number of ports
    Natural,    \* the port that a replica's name hashes to
    MaxFaults   \* bound: faults

Key   == Services \X (0 .. MaxIndex)
Ports == 0 .. HOST_PORT_COUNT - 1

\* What a node's constants are: HOST_PORT_COUNT, and the hash of a name in that range.
PortAssumption ==
    /\ MaxIndex \in Nat
    /\ HOST_PORT_COUNT \in Nat \ {0}
    /\ Natural \in [Key -> Ports]
    /\ MaxFaults \in Nat

VARIABLES
    memory,     \* the agent's ports, None where there is none
    disk,       \* state.json
    box,        \* the containers: the port each was created with, and is it up
    doing,      \* the call that the agent is at
    broken,     \* how many faults have happened
    lost,       \* history: containers whose record the agent has lost
    leaked,     \* history: records whose release was skipped
    clashes     \* history: containers on record whose port docker refused to another

vars == <<memory, disk, box, doing, broken, lost, leaked, clashes>>

None  == HOST_PORT_COUNT
NoBox == [port |-> None, up |-> FALSE]
Empty == [k \in Key |-> None]
Idle  == [at |-> "idle"]

Doing == {Idle} \cup [at : {"hung"}, key : Key]
                \cup [at : {"run", "surge"}, key : Key, port : Ports]
                \cup [at : {"gate", "stop", "release"}, key : Key]

Init ==
    /\ memory = Empty
    /\ disk = Empty
    /\ box = [k \in Key |-> NoBox]
    /\ doing = Idle
    /\ broken = 0
    /\ lost = {}
    /\ leaked = {}
    /\ clashes = {}

Boxes(s)   == {k \in Key : k[1] = s /\ box[k] # NoBox}
Holders(p) == {k \in Key : box[k].up /\ box[k].port = p}
\* Who is in the way of k at p, both being on record.
Rivals(k, p) == IF k \in lost THEN {} ELSE Holders(p) \ lost

Used       == {memory[k] : k \in Key}

Fault  == broken < MaxFaults /\ broken' = broken + 1
Steady == UNCHANGED broken

\* save_state writes the whole map; a failure is only logged.
Save == \/ disk' = memory' /\ Steady
        \/ UNCHANGED disk /\ Fault

\* Mutant: the hash alone, whoever has the port.
BugProbe(k) == {Natural[k]}

\* The first port from the hash on that is on no record.
Probe(k) ==
    {p \in Ports \ Used :
        \E d \in Ports : /\ p = (Natural[k] + d) % HOST_PORT_COUNT
                         /\ \A e \in 0 .. d - 1 : (Natural[k] + e) % HOST_PORT_COUNT \in Used}

\* allocate_port: the one on record, or the first free one; without any the
\* search never ends.
Allocate(k, then) ==
    \/ /\ memory[k] # None
       /\ doing' = [at |-> then, key |-> k, port |-> memory[k]]
       /\ UNCHANGED memory /\ Save
    \/ /\ memory[k] = None
       /\ \E p \in Probe(k) :
             /\ memory' = [memory EXCEPT ![k] = p]
             /\ doing' = [at |-> then, key |-> k, port |-> p]
       /\ Save
    \/ /\ memory[k] = None /\ Ports \subseteq Used
       /\ doing' = [at |-> "hung", key |-> k]
       /\ UNCHANGED <<memory, disk>> /\ Steady

\* A replica is missing: the least index that no container has.
Create(s) ==
    /\ doing = Idle
    /\ \E i \in 0 .. MaxIndex :
          /\ box[<<s, i>>] = NoBox
          /\ \A j \in 0 .. i - 1 : box[<<s, j>>] # NoBox
          /\ Allocate(<<s, i>>, "run")
    /\ UNCHANGED <<box, lost, leaked, clashes>>

\* A rollout surges beyond the highest index.
Surge(s) ==
    /\ doing = Idle
    /\ \E i \in 1 .. MaxIndex :
          /\ box[<<s, i - 1>>] # NoBox
          /\ \A j \in i .. MaxIndex : box[<<s, j>>] = NoBox
          /\ Allocate(<<s, i>>, "surge")
    /\ UNCHANGED <<box, lost, leaked, clashes>>

\* docker run: a port in use leaves a container that was created and not
\* started; any other failure leaves none.
Run ==
    /\ doing.at \in {"run", "surge"}
    /\ \/ /\ Holders(doing.port) = {}
          /\ box' = [box EXCEPT ![doing.key] = [port |-> doing.port, up |-> TRUE]]
          /\ doing' = IF doing.at = "surge" THEN [at |-> "gate", key |-> doing.key] ELSE Idle
          /\ leaked' = leaked \ {doing.key}
          /\ UNCHANGED clashes /\ Steady
       \/ /\ Holders(doing.port) # {}
          /\ box' = [box EXCEPT ![doing.key] = [port |-> doing.port, up |-> FALSE]]
          /\ doing' = Idle
          /\ leaked' = leaked \ {doing.key}
          /\ clashes' = clashes \cup Rivals(doing.key, doing.port)
          /\ Steady
       \/ /\ Fault
          /\ doing' = Idle
          /\ leaked' = leaked \cup {doing.key}
          /\ UNCHANGED <<box, clashes>>
    /\ UNCHANGED <<memory, disk, lost>>

\* The surged replica passes its health check, or it is to go.
Gate ==
    /\ doing.at = "gate"
    /\ doing' \in {Idle, [at |-> "stop", key |-> doing.key]}
    /\ UNCHANGED <<memory, disk, box, broken, lost, leaked, clashes>>

\* A rollout drains an old replica, or a scale-down picks the highest index.
Retire(k) ==
    /\ doing = Idle
    /\ box[k] # NoBox
    /\ doing' = [at |-> "stop", key |-> k]
    /\ UNCHANGED <<memory, disk, box, broken, lost, leaked, clashes>>

\* stop and rm: their errors are ignored.
Stop ==
    /\ doing.at = "stop"
    /\ doing' = [at |-> "release", key |-> doing.key]
    /\ \/ box' = [box EXCEPT ![doing.key] = NoBox] /\ lost' = lost \ {doing.key} /\ Steady
       \/ UNCHANGED <<box, lost>> /\ Fault
    /\ UNCHANGED <<memory, disk, leaked, clashes>>

\* Mutant: scale-down forgets release_port.
BugReleased(k) == memory

\* release_port
Released(k) == [memory EXCEPT ![k] = None]

Release ==
    /\ doing.at = "release"
    /\ memory' = Released(doing.key)
    /\ Save
    /\ lost' = IF box[doing.key] # NoBox THEN lost \cup {doing.key} ELSE lost
    /\ leaked' = leaked \ {doing.key}
    /\ doing' = Idle
    /\ UNCHANGED <<box, clashes>>

\* The service is no longer deployed: its containers go, but for those whose rm
\* failed unnoticed; the records of their ports stay.
Remove(s) ==
    /\ doing = Idle
    /\ Boxes(s) # {}
    /\ \E gone \in SUBSET Boxes(s) :
          /\ IF gone = Boxes(s) THEN Steady ELSE Fault
          /\ box' = [k \in Key |-> IF k \in gone THEN NoBox ELSE box[k]]
          /\ lost' = lost \ gone
          /\ leaked' = leaked \cup {k \in gone : memory[k] # None}
    /\ UNCHANGED <<memory, disk, doing, clashes>>

\* A container that is down is started, if docker can give it its port.
Start(k) ==
    /\ doing = Idle
    /\ box[k] # NoBox /\ ~box[k].up
    /\ IF Holders(box[k].port) = {}
       THEN box' = [box EXCEPT ![k].up = TRUE] /\ UNCHANGED clashes
       ELSE clashes' = clashes \cup Rivals(k, box[k].port) /\ UNCHANGED box
    /\ UNCHANGED <<memory, disk, doing, broken, lost, leaked>>

\* The operator stops a container, or docker does not bring it back.
GoesDown(k) ==
    /\ box[k].up
    /\ Fault
    /\ box' = [box EXCEPT ![k].up = FALSE]
    /\ UNCHANGED <<memory, disk, doing, lost, leaked, clashes>>

\* The agent dies and starts again with what is in state.json.
Crash ==
    /\ Fault
    /\ memory' = disk
    /\ doing' = Idle
    /\ lost' = {k \in Key : box[k] # NoBox /\ disk[k] # box[k].port}
    /\ leaked' = {k \in Key : box[k] = NoBox /\ disk[k] # None}
    /\ UNCHANGED <<disk, box, clashes>>

\* state.json is lost, or no longer parses.
LoseState ==
    /\ Fault
    /\ disk' = Empty
    /\ UNCHANGED <<memory, box, doing, lost, leaked, clashes>>

Agent == \/ \E s \in Services : Create(s) \/ Surge(s) \/ Remove(s)
         \/ \E k \in Key : Retire(k) \/ Start(k)
         \/ Run \/ Gate \/ Stop \/ Release

Next == Agent \/ Crash \/ LoseState \/ \E k \in Key : GoesDown(k)

Spec == Init /\ [][Next]_vars

(***************************************************************************)
(* Properties                                                              *)
(***************************************************************************)
TypeOK ==
    /\ memory \in [Key -> Ports \cup {None}]
    /\ disk \in [Key -> Ports \cup {None}]
    /\ box \in [Key -> [port : Ports \cup {None}, up : BOOLEAN]]
    /\ doing \in Doing
    /\ broken \in 0 .. MaxFaults
    /\ lost \subseteq Key
    /\ leaked \subseteq Key
    /\ clashes \subseteq Key

\* No port is on two records, in memory or in state.json.
Injective(map) == \A j, k \in Key : map[j] # None /\ map[j] = map[k] => j = k

\* What was created with a port is on record with it, unless the record was lost.
Recorded == \A k \in Key : box[k] # NoBox /\ k \notin lost => memory[k] = box[k].port

\* A port that docker refuses is held by a container whose record was lost: with
\* state.json and docker's rm in order, deploys, scale-downs, rollouts, failing
\* runs, restarts of the agent and containers that come back late never compete
\* for a port (allocate_port, release_port).
NoClash == clashes = {}

\* Records outlive their containers only where the code skips the release: a
\* service that is removed, a docker run that failed, a crash before it.  The
\* search for a free port is endless only when such records fill the range.
LeaksAreKnown ==
    /\ \A k \in Key : memory[k] # None /\ box[k] = NoBox /\ k \notin leaked
          => doing # Idle /\ doing.key = k
    /\ doing.at = "hung"
          => Ports \subseteq {memory[k] : k \in {j \in Key : box[j] # NoBox} \cup leaked}

\* A replica's port is its own, for as long as its record is not lost.
PortsAreTheirs == TypeOK /\ Injective(memory) /\ Injective(disk) /\ Recorded /\ NoClash /\ LeaksAreKnown
=============================================================================
