--------------------------- MODULE NodeFleetProofs ---------------------------
(***************************************************************************)
(* Proofs about the nodes of a cluster.  NodeFleet, for any number of      *)
(* commands, instances, starts and faults: what is billed and what is      *)
(* registered agree, and a destroy keeps the data it was not told to       *)
(* delete.  ExternalNode, for any number of commands side by side, keys,   *)
(* starts and faults: no credential of the node is out of reach, and a     *)
(* rotation does not lock the machine out.                                 *)
(***************************************************************************)
EXTENDS NodeFleet, ExternalNodes, FiniteSetTheorems, TLAPS

(* The inductive invariant of NodeFleet.  The shape of a command: its kind tells the     *)
(* stages it goes through, and what it has in hand at each of them.         *)
Stages == {"idle", "prepare", "group", "launch", "boot", "address", "put", "wire", "cleanup",
           "release", "evacuate", "gate", "terminate", "unaddress", "ungroup", "uniam",
           "unwire", "sweep", "stop", "stopped", "start", "started", "drain", "observe",
           "retype", "back", "publish"}

Command == [kind : Kinds \cup {"idle"}, at : Stages, seen : Entry \cup {NoEntry},
            mine : Ids \cup {None}, eip : BOOLEAN, services : SUBSET Services, flag : BOOLEAN]

StageOK(o) ==
    /\ o.kind = "idle"      => o = Idle
    /\ o.kind = "create"    => o.at \in {"prepare", "group", "launch", "boot", "address", "put",
                                         "wire", "cleanup", "release"}
    /\ o.kind = "destroy"   => o.at \in {"evacuate", "gate", "terminate", "unaddress", "ungroup",
                                         "uniam", "unwire", "sweep"}
    /\ o.kind = "prune"     => o.at = "sweep"
    /\ o.kind = "pause"     => o.at \in {"stop", "stopped", "put"}
    /\ o.kind = "resume"    => o.at \in {"start", "started", "put"}
    /\ o.kind = "resize"    => o.at \in {"drain", "observe", "stop", "stopped", "retype", "start",
                                         "started", "put", "back"}
    /\ o.kind = "reconcile" => o.at \in {"observe", "start", "started", "launch", "boot",
                                         "address", "put"}
    /\ o.kind = "deploy"    => o.at = "publish"

TearsDown(o) == o.at \in {"unaddress", "ungroup", "uniam", "unwire", "sweep"}

ShapeOK(o) ==
    /\ StageOK(o)
    /\ o.kind \in {"create", "prune"} => o.seen = NoEntry
    /\ o.kind \notin {"idle", "create", "prune"} /\ o.at # "sweep" => o.seen \in Entry
    /\ o.at \in {"boot", "address", "wire", "cleanup", "release"} => o.mine \in Ids
    /\ o.kind = "create" /\ o.at = "put" => o.mine \in Ids /\ (role = "edge" => o.eip)
    /\ o.at \in {"prepare", "group", "launch", "observe", "start", "started"} => o.mine = None
    /\ o.kind \notin {"create", "reconcile"} => o.mine = None
    /\ o.at = "address" \/ o.eip => role = "edge"
    /\ o.kind = "resize" /\ o.at \in {"start", "started"} => o.flag
    /\ o.kind \notin {"destroy", "resize"} => o.services = {}

WorldOK ==
    /\ role \in {"app", "edge"}
    /\ reg \in Entry \cup {NoEntry}
    /\ inst \in [Ids -> [state : {"pending", "running", "stopping", "stopped", "dying", "gone"},
                         type : Types]]
    /\ address \in Address /\ (role = "app" => address = None)
    /\ group \in BOOLEAN /\ iam \in BOOLEAN /\ binary \in BOOLEAN /\ adopted \in BOOLEAN
    /\ adopted => role = "edge"
    /\ desired \in SUBSET Services
    /\ clash \in {"none", "creates", "mixed"}
    /\ excused \in SUBSET Ids
    /\ faults \in Nat

CommandsOK == op \in [CLIs -> Command] /\ \A c \in CLIs : ShapeOK(op[c])

Active(c) == op[c].kind # "idle"
Working(o) == o.kind \notin {"idle", "create"}

(* Only creates overlap, if anything does.                                  *)
ClashOK ==
    \A c, d \in CLIs : c # d /\ Active(c) /\ Active(d) =>
      /\ clash # "none"
      /\ clash = "creates" => op[c].kind = "create"

(* What a command has in hand is its own, and what it read is still so.     *)
OwnOK == \A c, d \in CLIs : c # d /\ op[c].mine = op[d].mine => op[c].mine = None

HeldOK(o) ==
    /\ o.at = "wire" => reg # NoEntry /\ reg.inst = o.mine
    /\ o.at = "release" => ~Alive(o.mine) \/ o.mine \in excused
    /\ Working(o) /\ o.at # "back" => reg = o.seen
    /\ o.at = "back" => reg # NoEntry
    /\ o.kind = "reconcile" /\ (o.at = "launch" \/ o.mine # None)
         => inst[o.seen.inst].state = "gone"
    /\ TearsDown(o) /\ o.seen # NoEntry => ~Alive(o.seen.inst) \/ o.seen.inst \in excused

DataOK(o) ==
    /\ reg = NoEntry \/ o.kind = "create" => desired = {}
    /\ o.at = "gate" => desired = o.services
    /\ o.at = "terminate" => o.flag \/ desired \cap Volumes = {}

(* Until the first fault.                                                   *)
Calm == clash # "mixed" /\ faults = 0

Empty ==
    /\ ~group /\ ~iam /\ ~adopted /\ address = None
    /\ \A i \in Ids : inst[i].state = "gone"

Rests ==
    /\ inst[reg.inst].state = IF reg.state = "stopped" THEN "stopped" ELSE "running"
    /\ inst[reg.inst].type = reg.type

CreateOK(o) ==
    /\ o.at # "prepare" => iam
    /\ o.at \notin {"prepare", "group"} => group
    /\ o.at \in {"boot", "address", "put", "wire", "cleanup"} => inst[o.mine].type = "small"
    /\ o.at = "boot" => inst[o.mine].state \in {"pending", "running"}
    /\ o.at \in {"address", "put", "wire", "cleanup"} => inst[o.mine].state = "running"
    /\ o.at \in {"cleanup", "release"} => reg # NoEntry
    /\ o.at # "wire" /\ o.mine # None => o.mine # reg.inst
    /\ clash = "none" /\ o.at # "wire" => reg = NoEntry
    /\ clash = "none" /\ o.at = "put" /\ role = "edge" => address = o.mine

WorkOK(o) ==
    /\ o.at \in {"stop", "drain", "observe", "back", "evacuate", "gate", "terminate", "publish"}
         => Rests
    /\ o.at = "start" => IF o.kind = "resize"
                         THEN /\ inst[reg.inst].state = "stopped"
                              /\ inst[reg.inst].type = Other(reg.type)
                         ELSE Rests
    /\ o.kind = "resize" /\ o.at \in {"stop", "stopped", "retype"}
         => (o.flag <=> reg.state # "stopped")
    /\ o.at \in {"stopped", "retype"} => inst[reg.inst].type = reg.type
    /\ o.at = "stopped" => inst[reg.inst].state \in {"stopping", "stopped"}
    /\ o.at = "retype" => inst[reg.inst].state = "stopped"
    /\ o.at = "started" => inst[reg.inst].state \in {"pending", "running"}
    /\ o.at = "put" => inst[reg.inst].state =
         IF o.kind = "pause" \/ (o.kind = "resize" /\ ~o.flag) THEN "stopped" ELSE "running"
    /\ o.at \in {"started", "put"}
         => inst[reg.inst].type = IF o.kind = "resize" THEN Other(reg.type) ELSE reg.type
    /\ o.kind = "reconcile" => o.at # "launch" /\ o.mine = None

DestroyOK(o) ==
    /\ inst[reg.inst].state \in {"dying", "gone"}
    /\ o.at # "unaddress" => inst[reg.inst].state = "gone" /\ address = None
    /\ o.at \in {"uniam", "unwire", "sweep"} => ~group /\ \A i \in Ids : inst[i].state = "gone"
    /\ o.at \in {"unwire", "sweep"} => ~iam
    /\ o.at = "sweep" => ~adopted

StandsOK ==
    /\ group /\ iam
    /\ clash = "none" => address = IF role = "edge" THEN reg.inst ELSE None

JobOK(o) ==
    /\ o.kind = "create" => CreateOK(o)
    /\ Working(o) /\ reg # NoEntry => IF TearsDown(o) THEN DestroyOK(o) ELSE WorkOK(o)

CalmOK ==
    /\ excused = {}
    /\ reg = NoEntry => desired = {} /\ ~adopted
    /\ reg = NoEntry /\ (\A c \in CLIs : op[c].kind # "create") => Empty
    /\ reg # NoEntry => (reg.eip <=> role = "edge")
    /\ reg # NoEntry /\ (\A c \in CLIs : ~TearsDown(op[c])) =>
         /\ StandsOK
         /\ (adopted <=> role = "edge") \/ \E c \in CLIs : op[c].at = "wire"
         /\ (\A c \in CLIs : ~Working(op[c])) => Rests
    /\ \A c \in CLIs : JobOK(op[c])

FleetInv ==
    /\ WorldOK /\ CommandsOK /\ ClashOK
    /\ NoStray
    /\ clash # "mixed" => OwnOK /\ \A c \in CLIs : HeldOK(op[c])
    /\ clash = "none" => (reg = NoEntry => desired = {}) /\ \A c \in CLIs : DataOK(op[c])
    /\ Calm => CalmOK


(* What the invariant says of a command that no other runs beside.          *)
StrayOK(o) == \A i \in Ids : Alive(i) => reg.inst = i \/ i \in excused \/ o.mine = i

QuietOK(o) ==
    /\ excused = {}
    /\ reg = NoEntry => desired = {} /\ ~adopted
    /\ reg = NoEntry /\ o.kind # "create" => Empty
    /\ reg # NoEntry => (reg.eip <=> role = "edge")
    /\ reg # NoEntry /\ ~TearsDown(o) =>
         /\ StandsOK
         /\ (adopted <=> role = "edge") \/ o.at = "wire"
         /\ ~Working(o) => Rests
    /\ JobOK(o)

AloneOK(o) ==
    /\ HeldOK(o) /\ StrayOK(o)
    /\ clash = "none" => (reg = NoEntry => desired = {}) /\ DataOK(o)
    /\ Calm => QuietOK(o)

-----------------------------------------------------------------------------
(* The constants and the record of a CLI that runs nothing.                  *)
LEMMA NoneIsNoId == None \notin Ids /\ "idle" \notin Ids
BY FleetAssumption DEF None

(* NoEntry is no entry of the registry, and names no instance.              *)
LEMMA NoEntryIs == NoEntry \notin Entry /\ NoEntry.inst = None
BY NoneIsNoId DEF NoEntry, Entry

(* Idle is a command, in shape, that holds nothing.                         *)
LEMMA IdleIs ==
    /\ Idle \in Command /\ ShapeOK(Idle)
    /\ Idle.kind = "idle" /\ Idle.at = "idle" /\ Idle.mine = None /\ Idle.seen = NoEntry
<1>1. /\ Idle.kind = "idle" /\ Idle.at = "idle" /\ Idle.mine = None /\ Idle.seen = NoEntry
      /\ Idle.eip = FALSE /\ Idle.services = {}
  BY DEF Idle
<1>2. Idle \in Command
  BY DEF Idle, Command, Stages
<1>3. ShapeOK(Idle)
  BY <1>1 DEF ShapeOK, StageOK
<1> QED
  BY <1>1, <1>2, <1>3

(* How a command goes on or ends.                                            *)
LEMMA GotoIs ==
    ASSUME op \in [CLIs -> Command], NEW c \in CLIs, NEW l \in Stages, Goto(c, l)
    PROVE  \E o \in Command :
             /\ op' = [op EXCEPT ![c] = o]
             /\ o.at = l /\ o.kind = op[c].kind /\ o.seen = op[c].seen /\ o.mine = op[c].mine
             /\ o.eip = op[c].eip /\ o.services = op[c].services /\ o.flag = op[c].flag
<1> DEFINE o == [op[c] EXCEPT !.at = l]
<1>1. op[c] \in Command
  OBVIOUS
<1>2. o \in Command
  BY <1>1 DEF Command
<1>3. op' = [op EXCEPT ![c] = o]
  BY Zenon DEF Goto
<1>4. /\ o.at = l /\ o.kind = op[c].kind /\ o.seen = op[c].seen /\ o.mine = op[c].mine
      /\ o.eip = op[c].eip /\ o.services = op[c].services /\ o.flag = op[c].flag
  BY <1>1 DEF Command
<1> QED
  BY <1>2, <1>3, <1>4

(* ... and ends.                                                            *)
LEMMA LeaveIs == ASSUME NEW c \in CLIs, Leave(c) PROVE op' = [op EXCEPT ![c] = Idle]
BY DEF Leave

(* A command that is not a create runs alone, until commands are mixed.      *)
LEMMA WorksAlone ==
    ASSUME FleetInv, NEW c \in CLIs, Working(op[c]), clash # "mixed"
    PROVE  (\A d \in CLIs : d # c => op[d] = Idle) /\ AloneOK(op[c])
<1>1. \A d \in CLIs : d # c => op[d] = Idle
  <2> SUFFICES ASSUME NEW d \in CLIs, d # c PROVE op[d] = Idle
    OBVIOUS
  <2>1. ~Active(d)
    BY DEF FleetInv, ClashOK, WorldOK, Active, Working
  <2> QED
    BY <2>1 DEF Active, FleetInv, CommandsOK, ShapeOK, StageOK
<1>2. HeldOK(op[c])
  BY DEF FleetInv
<1>3. StrayOK(op[c])
  BY <1>1, NoneIsNoId, IdleIs DEF FleetInv, NoStray, StrayOK
<1>4. clash = "none" => (reg = NoEntry => desired = {}) /\ DataOK(op[c])
  BY DEF FleetInv
<1>5. ASSUME Calm PROVE QuietOK(op[c])
  <2>1. CalmOK
    BY <1>5 DEF FleetInv
  <2>2. JobOK(op[c])
    BY <2>1 DEF CalmOK
  <2>3. \A d \in CLIs : op[d].kind # "create"
    BY <1>1, IdleIs DEF Working
  <2>4. \A d \in CLIs : d # c => op[d].at = "idle"
    BY <1>1, IdleIs
  <2>5. ~TearsDown(op[c]) => \A d \in CLIs : ~TearsDown(op[d])
    BY <2>4 DEF TearsDown
  <2>6. (\E d \in CLIs : op[d].at = "wire") => op[c].at = "wire"
    BY <2>4
  <2> QED
    BY <2>1, <2>2, <2>3, <2>5, <2>6 DEF CalmOK, QuietOK
<1> QED
  BY <1>1, <1>2, <1>3, <1>4, <1>5 DEF AloneOK

(* So its step keeps the invariant if what it leaves is as good.             *)
LEMMA WorkTurn ==
    ASSUME FleetInv, NEW c \in CLIs, Working(op[c]),
           NEW o \in Command, op' = [op EXCEPT ![c] = o],
           o.kind \in {"idle", op[c].kind}, ShapeOK(o),
           WorldOK', role' = role, clash' = clash,
           clash # "mixed" => AloneOK(o)'
    PROVE  FleetInv'
<1>1. /\ op' \in [CLIs -> Command] /\ op'[c] = o
      /\ \A d \in CLIs : d # c => op'[d] = op[d]
  BY DEF FleetInv, CommandsOK
<1>2. CommandsOK'
  <2>1. \A d \in CLIs : ShapeOK(op[d])
    BY DEF FleetInv, CommandsOK
  <2>2. \A d \in CLIs : ShapeOK(op'[d])
    BY <1>1, <2>1
  <2>3. ASSUME NEW d \in CLIs PROVE ShapeOK(op[d])'
    BY <2>2 DEF ShapeOK, StageOK
  <2> QED
    BY <1>1, <2>3 DEF CommandsOK
<1>3. ClashOK'
  BY <1>1 DEF FleetInv, ClashOK, Active, Working
<1>4. CASE clash = "mixed"
  BY <1>2, <1>3, <1>4 DEF FleetInv, NoStray, Calm
<1>5. CASE clash # "mixed"
  <2>1. \A d \in CLIs : d # c => op'[d] = Idle
    BY <1>1, <1>5, WorksAlone
  <2>2. AloneOK(o)'
    BY <1>5
  <2>3. OwnOK'
    BY <1>1, <2>1, IdleIs DEF OwnOK
  <2>4. ASSUME NEW d \in CLIs PROVE HeldOK(op[d])'
    <3>1. CASE d = c
      BY <1>1, <2>2, <3>1 DEF AloneOK, HeldOK, Alive, TearsDown, Working
    <3>2. CASE d # c
      BY <2>1, <3>2, IdleIs DEF HeldOK, TearsDown, Working
    <3> QED
      BY <3>1, <3>2
  <2>5. NoStray'
    BY <1>1, <2>2 DEF NoStray, AloneOK, StrayOK, Alive
  <2>6. ASSUME clash' = "none" PROVE ((reg = NoEntry => desired = {}) /\ \A d \in CLIs : DataOK(op[d]))'
    <3>1. ASSUME NEW d \in CLIs, d # c PROVE DataOK(op[d])'
      BY <1>1, <2>1, <2>2, <2>6, <3>1, IdleIs DEF DataOK, AloneOK
    <3>2. DataOK(op[c])'
      BY <1>1, <2>2, <2>6 DEF AloneOK, DataOK
    <3> QED
      BY <2>2, <2>6, <3>1, <3>2 DEF AloneOK
  <2>7. ASSUME Calm' PROVE CalmOK'
    <3>1. QuietOK(o)'
      BY <2>2, <2>7 DEF AloneOK
    <3>2. ASSUME NEW d \in CLIs PROVE JobOK(op[d])'
      <4>1. CASE d = c
        <5>1. JobOK(o)'
          BY <3>1 DEF QuietOK
        <5> QED
          BY <1>1, <4>1, <5>1 DEF JobOK, CreateOK, WorkOK, DestroyOK, TearsDown, Working, Rests
      <4>2. CASE d # c
        BY <2>1, <4>2, IdleIs DEF JobOK, Working
      <4> QED
        BY <4>1, <4>2
    <3>3. (\A d \in CLIs : op'[d].kind # "create") => o.kind # "create"
      BY <1>1
    <3>4. (\A d \in CLIs : ~TearsDown(op'[d])) => ~TearsDown(o)
      BY <1>1
    <3>5. o.at = "wire" => \E d \in CLIs : op'[d].at = "wire"
      BY <1>1
    <3>6. (\A d \in CLIs : ~Working(op'[d])) => ~Working(o)
      BY <1>1
    <3> QED
      BY <3>1, <3>2, <3>3, <3>4, <3>5, <3>6 DEF CalmOK, QuietOK, TearsDown, Working
  <2> QED
    BY <1>2, <1>3, <2>3, <2>4, <2>5, <2>6, <2>7 DEF FleetInv
<1> QED
  BY <1>4, <1>5

(* No fault, no calm.                                                        *)
LEMMA FaultEnds == ASSUME FleetInv, Fault PROVE faults' \in Nat /\ ~Calm'
BY DEF FleetInv, WorldOK, Fault, Calm

(* A command that ends leaves the invariant, if the node is as registered or *)
(* not there and what it launched is excused.                                *)
LEMMA EndInv ==
    ASSUME FleetInv, NEW c \in CLIs, Working(op[c]), ~TearsDown(op[c]), Leave(c),
           UNCHANGED <<role, reg, inst, address, group, iam, adopted, clash>>,
           binary' \in BOOLEAN, desired' \in SUBSET Services, faults' \in Nat,
           excused' \in SUBSET Ids, excused \subseteq excused',
           op[c].mine \in {None} \cup excused',
           clash # "mixed" /\ reg = NoEntry => desired' \in {desired, {}},
           Calm' => Calm /\ excused' = excused /\ (reg = NoEntry \/ Rests)
    PROVE  FleetInv'
<1>1. WorldOK'
  BY DEF FleetInv, WorldOK
<1>2. op' = [op EXCEPT ![c] = Idle]
  BY LeaveIs
<1>3. ASSUME clash # "mixed" PROVE AloneOK(Idle)'
  <2>1. AloneOK(op[c])
    BY <1>3, WorksAlone
  <2>2. HeldOK(Idle)'
    BY IdleIs DEF HeldOK, Working, TearsDown
  <2>3. StrayOK(Idle)'
    BY <2>1, NoneIsNoId DEF AloneOK, StrayOK, Alive
  <2>4. clash' = "none" => (reg' = NoEntry => desired' = {})
    BY <2>1 DEF AloneOK
  <2>5. DataOK(Idle)' \/ clash' # "none"
    BY <2>4, IdleIs DEF DataOK
  <2>6. ASSUME Calm' PROVE QuietOK(Idle)'
    <3>1. QuietOK(op[c])
      BY <2>1, <2>6 DEF AloneOK
    <3>2. reg' = NoEntry => desired' = {} /\ ~adopted'
      BY <1>3, <3>1 DEF QuietOK
    <3>3. JobOK(Idle)'
      BY IdleIs DEF JobOK, Working
    <3>4. op[c].kind # "create"
      BY DEF Working
    <3>5. reg' = NoEntry => Empty'
      BY <3>1, <3>4 DEF QuietOK, Empty
    <3>6. reg # NoEntry => Rests' /\ StandsOK' /\ (adopted' <=> role' = "edge")
      <4>1. reg # NoEntry => Rests'
        BY <2>6 DEF Rests
      <4>2. op[c].at # "wire"
        BY DEF FleetInv, CommandsOK, ShapeOK, StageOK, Working, Command, Kinds
      <4> QED
        BY <3>1, <4>1, <4>2 DEF QuietOK, StandsOK
    <3>7. reg' # NoEntry => (reg'.eip <=> role' = "edge")
      BY <3>1 DEF QuietOK
    <3>8. excused' = {}
      BY <2>6, <3>1 DEF QuietOK
    <3> QED
      BY <3>2, <3>3, <3>5, <3>6, <3>7, <3>8 DEF QuietOK
  <2> QED
    BY <2>2, <2>3, <2>4, <2>5, <2>6 DEF AloneOK
<1> QED
  BY <1>1, <1>2, <1>3, IdleIs, WorkTurn

(* A command that only goes on does, if what it relies on is there.          *)
LEMMA GoOnInv ==
    ASSUME FleetInv, NEW c \in CLIs, Working(op[c]), ~TearsDown(op[c]),
           NEW o \in Command, op' = [op EXCEPT ![c] = o],
           o.kind = op[c].kind, ShapeOK(o), ~TearsDown(o), o.mine = op[c].mine,
           UNCHANGED <<role, reg, inst, address, group, iam, binary, adopted, desired, clash, excused>>,
           faults' \in Nat,
           clash # "mixed" => HeldOK(o),
           clash = "none" => DataOK(o),
           Calm' => Calm /\ (reg # NoEntry => WorkOK(o))
    PROVE  FleetInv'
<1>1. WorldOK'
  BY DEF FleetInv, WorldOK
<1>3. ASSUME clash # "mixed" PROVE AloneOK(o)'
  <2>1. AloneOK(op[c])
    BY <1>3, WorksAlone
  <2>2. HeldOK(o)'
    BY <1>3 DEF HeldOK, Alive
  <2>3. StrayOK(o)'
    BY <2>1 DEF AloneOK, StrayOK, Alive
  <2>4. clash' = "none" => (reg' = NoEntry => desired' = {})
    BY <2>1 DEF AloneOK
  <2>5. clash' = "none" => DataOK(o)'
    BY DEF DataOK
  <2>6. ASSUME Calm' PROVE QuietOK(o)'
    <3>1. QuietOK(op[c])
      BY <2>1, <2>6 DEF AloneOK
    <3>2. JobOK(o)'
      BY <2>6 DEF JobOK, Working, TearsDown, WorkOK, Rests
    <3>3. op[c].at # "wire" /\ Working(o)
      BY DEF FleetInv, CommandsOK, ShapeOK, StageOK, Working, Command, Kinds
    <3>4. o.kind # "create" /\ op[c].kind # "create"
      BY DEF Working
    <3>5. reg' = NoEntry => Empty'
      BY <3>1, <3>4 DEF QuietOK, Empty
    <3>6. reg' # NoEntry => StandsOK' /\ (adopted' <=> role' = "edge")
      BY <3>1, <3>3 DEF QuietOK, StandsOK
    <3>7. /\ excused' = {}
          /\ reg' = NoEntry => desired' = {} /\ ~adopted'
          /\ reg' # NoEntry => (reg'.eip <=> role' = "edge")
      BY <3>1 DEF QuietOK
    <3> QED
      BY <3>2, <3>3, <3>5, <3>6, <3>7 DEF QuietOK
  <2> QED
    BY <2>2, <2>3, <2>4, <2>5, <2>6 DEF AloneOK
<1> QED
  BY <1>1, <1>3, WorkTurn

(* The same when it changes what is placed on the node, or stops or starts   *)
(* its instance.                                                             *)
LEMMA StepOnInv ==
    ASSUME FleetInv, NEW c \in CLIs, Working(op[c]), ~TearsDown(op[c]),
           NEW o \in Command, op' = [op EXCEPT ![c] = o],
           o.kind = op[c].kind, ShapeOK(o), ~TearsDown(o), o.mine = op[c].mine,
           UNCHANGED <<role, reg, address, group, iam, binary, adopted, clash, excused>>,
           WorldOK', faults' \in Nat,
           clash # "mixed" => reg # NoEntry,
           \A i \in Ids : Alive(i)' => Alive(i),
           clash # "mixed" => HeldOK(o)',
           clash = "none" => DataOK(o)',
           Calm' => Calm /\ WorkOK(o)'
    PROVE  FleetInv'
<1>3. ASSUME clash # "mixed" PROVE AloneOK(o)'
  <2>1. AloneOK(op[c])
    BY <1>3, WorksAlone
  <2>2. HeldOK(o)'
    BY <1>3
  <2>3. StrayOK(o)'
    BY <2>1 DEF AloneOK, StrayOK
  <2>4. reg' # NoEntry
    BY <1>3
  <2>5. clash' = "none" => DataOK(o)'
    OBVIOUS
  <2>6. ASSUME Calm' PROVE QuietOK(o)'
    <3>1. QuietOK(op[c])
      BY <2>1, <2>6 DEF AloneOK
    <3>2. JobOK(o)'
      BY <2>6 DEF JobOK, Working
    <3>3. op[c].at # "wire" /\ Working(o)
      BY DEF FleetInv, CommandsOK, ShapeOK, StageOK, Working, Command, Kinds
    <3>6. StandsOK' /\ (adopted' <=> role' = "edge")
      BY <2>4, <3>1, <3>3 DEF QuietOK, StandsOK
    <3>7. /\ excused' = {}
          /\ reg'.eip <=> role' = "edge"
      BY <2>4, <3>1 DEF QuietOK
    <3> QED
      BY <2>4, <3>2, <3>3, <3>6, <3>7 DEF QuietOK
  <2> QED
    BY <2>2, <2>3, <2>4, <2>5, <2>6 DEF AloneOK
<1> QED
  BY <1>3, WorkTurn

(* What a working command finds when the invariant holds.                    *)
LEMMA WorkFacts ==
    ASSUME FleetInv, NEW c \in CLIs, Working(op[c])
    PROVE  /\ op \in [CLIs -> Command] /\ op[c] \in Command /\ ShapeOK(op[c])
           /\ clash # "mixed" => AloneOK(op[c])
           /\ Calm => QuietOK(op[c])
           /\ Calm /\ reg # NoEntry /\ ~TearsDown(op[c]) => WorkOK(op[c])
<1>1. op \in [CLIs -> Command] /\ op[c] \in Command /\ ShapeOK(op[c])
  BY DEF FleetInv, CommandsOK
<1>2. clash # "mixed" => AloneOK(op[c])
  BY WorksAlone
<1>3. Calm => QuietOK(op[c])
  BY <1>2 DEF AloneOK, Calm
<1>4. Calm /\ reg # NoEntry /\ ~TearsDown(op[c]) => WorkOK(op[c])
  BY <1>3 DEF QuietOK, JobOK
<1> QED
  BY <1>1, <1>2, <1>3, <1>4

(* The commands that wait.  The data gate of destroy: who passes it has the  *)
(* flag, or there is no volume.                                              *)
LEMMA GateInv == ASSUME FleetInv, NEW c \in CLIs, Gate(c) PROVE FleetInv'
<1>1. op[c].kind = "destroy" /\ op[c].at = "gate"
  BY DEF Gate, At
<1>2. Working(op[c]) /\ ~TearsDown(op[c])
  BY <1>1 DEF Working, TearsDown
<1>3. /\ UNCHANGED <<role, reg, inst, address, group, iam, binary, adopted, desired, clash, excused,
                     faults>>
  BY DEF Gate, ghost, state, cloud, Steady
<1>4. faults' \in Nat /\ binary' \in BOOLEAN /\ desired' \in SUBSET Services /\ excused \in SUBSET Ids
  BY <1>3 DEF FleetInv, WorldOK
<1>5. op[c] \in Command /\ ShapeOK(op[c]) /\ op[c].mine = None
  BY <1>1, <1>2, WorkFacts DEF ShapeOK
<1>6. Calm' <=> Calm
  BY <1>3 DEF Calm
<1>7. Calm => reg = NoEntry \/ Rests
  BY <1>1, <1>2, WorkFacts DEF WorkOK
<1>8. CASE Leave(c)
  BY <1>2, <1>3, <1>4, <1>5, <1>6, <1>7, <1>8, EndInv
<1>9. ASSUME NEW force \in BOOLEAN, NEW deleteData \in BOOLEAN,
             PassesGate(op[c].services, force, deleteData),
             op' = [op EXCEPT ![c].at = "terminate", ![c].flag = deleteData]
      PROVE  FleetInv'
  <2> DEFINE o == [op[c] EXCEPT !.at = "terminate", !.flag = deleteData]
  <2>1. op' = [op EXCEPT ![c] = o]
    BY <1>9, Zenon
  <2>2. o \in Command
    BY <1>5 DEF Command, Stages
  <2>3. /\ o.at = "terminate" /\ o.kind = op[c].kind /\ o.seen = op[c].seen /\ o.mine = op[c].mine
        /\ o.eip = op[c].eip /\ o.flag = deleteData
    BY <1>5 DEF Command
  <2> HIDE DEF o
  <2>4. ShapeOK(o) /\ ~TearsDown(o)
    BY <1>1, <1>5, <2>3 DEF ShapeOK, StageOK, TearsDown
  <2>5. clash # "mixed" => HeldOK(o)
    BY <1>1, <1>2, <2>3, <2>4, WorkFacts DEF AloneOK, HeldOK, Working
  <2>6. clash = "none" => DataOK(o)
    <3>1. clash = "none" => DataOK(op[c]) /\ (reg = NoEntry => desired = {})
      BY <1>2, WorkFacts DEF AloneOK
    <3>2. op[c].services \cap Volumes = {} \/ deleteData
      BY <1>9 DEF PassesGate
    <3> QED
      BY <1>1, <2>3, <3>1, <3>2 DEF DataOK
  <2>7. Calm /\ reg # NoEntry => WorkOK(o)
    BY <1>1, <1>2, <1>7, <2>3, WorkFacts DEF WorkOK
  <2> QED
    BY <1>2, <1>3, <1>4, <1>6, <2>1, <2>2, <2>3, <2>4, <2>5, <2>6, <2>7, GoOnInv
<1> QED
  BY <1>8, <1>9 DEF Gate

(* Observing an instance that stands as registered.                          *)
LEMMA ObserveInv == ASSUME FleetInv, NEW c \in CLIs, Observe(c) PROVE FleetInv'
<1>1. op[c].at = "observe" /\ op[c].kind \in {"reconcile", "resize"}
  BY DEF Observe
<1>2. Working(op[c]) /\ ~TearsDown(op[c])
  BY <1>1 DEF Working, TearsDown
<1>3. /\ UNCHANGED <<role, reg, inst, address, group, iam, binary, adopted, desired, clash, excused,
                     faults>>
  BY DEF Observe, ghost, state, cloud, Steady
<1>4. /\ faults' \in Nat /\ binary' \in BOOLEAN /\ desired' \in SUBSET Services /\ excused \in SUBSET Ids
      /\ reg \in Entry \cup {NoEntry}
      /\ inst \in [Ids -> [state : {"pending", "running", "stopping", "stopped", "dying", "gone"},
                           type : Types]]
  BY <1>3 DEF FleetInv, WorldOK
<1>5. op[c] \in Command /\ ShapeOK(op[c]) /\ op[c].mine = None /\ op[c].seen \in Entry
  BY <1>1, <1>2, WorkFacts DEF ShapeOK
<1>6. Calm' <=> Calm
  BY <1>3 DEF Calm
<1>7. Calm => reg = NoEntry \/ Rests
  BY <1>1, <1>2, WorkFacts DEF WorkOK
<1>8. clash # "mixed" => reg = op[c].seen
  BY <1>1, <1>2, WorkFacts DEF AloneOK, HeldOK
<1>9. CASE Leave(c)
  BY <1>2, <1>3, <1>4, <1>5, <1>6, <1>7, <1>9, EndInv
<1>10. ASSUME op[c].kind = "reconcile", NEW l, l = Repair(op[c].seen, Observed(op[c].seen.inst)),
              l \notin {"noop", "blocked"}, Goto(c, l)
       PROVE  FleetInv'
  <2>0. /\ l \in {"put", "start", "launch"}
        /\ l = "put" => inst[op[c].seen.inst].state = "running"
        /\ l = "start" => inst[op[c].seen.inst].state = "stopped"
        /\ l = "launch" => inst[op[c].seen.inst].state = "gone"
    BY <1>10 DEF Repair, Observed
  <2>1. l \in Stages
    BY <2>0 DEF Stages
  <2>2. PICK o \in Command :
             /\ op' = [op EXCEPT ![c] = o]
             /\ o.at = l /\ o.kind = op[c].kind /\ o.seen = op[c].seen /\ o.mine = op[c].mine
             /\ o.eip = op[c].eip /\ o.services = op[c].services /\ o.flag = op[c].flag
    BY <1>2, <1>10, <2>1, GotoIs, WorkFacts
  <2>4. ShapeOK(o) /\ ~TearsDown(o)
    BY <1>5, <1>10, <2>0, <2>2 DEF ShapeOK, StageOK, TearsDown
  <2>5. clash # "mixed" => HeldOK(o)
    BY <1>5, <1>8, <1>10, <2>0, <2>2, <2>4, NoneIsNoId DEF HeldOK, Working
  <2>6. clash = "none" => DataOK(o)
    BY <1>2, <1>10, <2>0, <2>2, WorkFacts DEF DataOK, AloneOK
  <2>7. Calm /\ reg # NoEntry => WorkOK(o)
    <3>1. Calm /\ reg # NoEntry => Rests /\ reg = op[c].seen
      BY <1>7, <1>8 DEF Calm
    <3>2. Calm /\ reg # NoEntry => l # "launch"
      BY <2>0, <3>1 DEF Rests
    <3> QED
      BY <1>5, <1>10, <2>0, <2>2, <3>1, <3>2 DEF WorkOK, Rests
  <2> QED
    BY <1>2, <1>3, <1>4, <1>6, <2>2, <2>4, <2>5, <2>6, <2>7, GoOnInv
<1>11. ASSUME op[c].kind = "resize", NEW f \in BOOLEAN, f = (Observed(op[c].seen.inst) # "stopped"),
              Observed(op[c].seen.inst) # "missing",
              op' = [op EXCEPT ![c].at = "stop", ![c].flag = f]
       PROVE  FleetInv'
  <2> DEFINE o == [op[c] EXCEPT !.at = "stop", !.flag = f]
  <2>1. op' = [op EXCEPT ![c] = o]
    BY <1>11, Zenon
  <2>2. o \in Command
    BY <1>5 DEF Command, Stages
  <2>3. /\ o.at = "stop" /\ o.kind = op[c].kind /\ o.seen = op[c].seen /\ o.mine = op[c].mine
        /\ o.eip = op[c].eip /\ o.flag = f
    BY <1>5 DEF Command
  <2> HIDE DEF o
  <2>4. ShapeOK(o) /\ ~TearsDown(o)
    BY <1>5, <1>11, <2>3 DEF ShapeOK, StageOK, TearsDown
  <2>5. clash # "mixed" => HeldOK(o)
    BY <1>8, <1>11, <2>3, <2>4 DEF HeldOK, Working
  <2>6. clash = "none" => DataOK(o)
    BY <1>2, <1>11, <2>3, WorkFacts DEF DataOK, AloneOK
  <2>7. Calm /\ reg # NoEntry => WorkOK(o)
    <3>1. Calm /\ reg # NoEntry => Rests /\ reg = op[c].seen
      BY <1>7, <1>8 DEF Calm
    <3>2. Calm /\ reg # NoEntry => (f <=> reg.state # "stopped")
      BY <1>11, <3>1 DEF Rests, Observed
    <3> QED
      BY <1>11, <2>3, <3>1, <3>2 DEF WorkOK
  <2> QED
    BY <1>2, <1>3, <1>4, <1>6, <2>1, <2>2, <2>3, <2>4, <2>5, <2>6, <2>7, GoOnInv
<1> QED
  BY <1>9, <1>10, <1>11 DEF Observe

(* The waits of pause, resume, resize and reconcile.                         *)
LEMMA StoppedInv == ASSUME FleetInv, NEW c \in CLIs, Stopped(c) PROVE FleetInv'
<1>1. op[c].at = "stopped" /\ op[c].kind \in {"pause", "resize"}
  BY DEF Stopped, At
<1>2. Working(op[c]) /\ ~TearsDown(op[c])
  BY <1>1 DEF Working, TearsDown
<1>3. UNCHANGED <<role, reg, inst, address, group, iam, binary, adopted, desired, clash, excused>>
  BY DEF Stopped, ghost, state, cloud
<1>4. /\ binary' \in BOOLEAN /\ desired' \in SUBSET Services /\ excused \in SUBSET Ids
      /\ reg \in Entry \cup {NoEntry} /\ faults \in Nat
  BY <1>3 DEF FleetInv, WorldOK
<1>5. op[c] \in Command /\ ShapeOK(op[c]) /\ op[c].mine = None /\ op[c].seen \in Entry
  BY <1>1, <1>2, WorkFacts DEF ShapeOK
<1>6. faults' = faults => (Calm' <=> Calm)
  BY <1>3 DEF Calm
<1>7. Calm /\ reg # NoEntry => WorkOK(op[c])
  BY <1>2, WorkFacts
<1>8. clash # "mixed" => reg = op[c].seen
  BY <1>1, <1>2, WorkFacts DEF AloneOK, HeldOK
<1>9. CASE Leave(c) /\ Fault
  BY <1>2, <1>3, <1>4, <1>5, <1>9, EndInv, FaultEnds
<1>10. CASE Leave(c) /\ Steady /\ inst[op[c].seen.inst].state \notin {"stopped", "stopping"}
  <2>1. ~(Calm /\ reg # NoEntry)
    BY <1>1, <1>7, <1>8, <1>10 DEF WorkOK, Calm
  <2> QED
    BY <1>2, <1>3, <1>4, <1>5, <1>6, <1>10, <2>1, EndInv DEF Steady
<1>11. ASSUME NEW l, l = (IF op[c].kind = "pause" THEN "put" ELSE "retype"), Goto(c, l), Steady,
              inst[op[c].seen.inst].state = "stopped"
       PROVE  FleetInv'
  <2>1. l \in Stages /\ l \in {"put", "retype"}
    BY <1>11 DEF Stages
  <2>2. PICK o \in Command :
             /\ op' = [op EXCEPT ![c] = o]
             /\ o.at = l /\ o.kind = op[c].kind /\ o.seen = op[c].seen /\ o.mine = op[c].mine
             /\ o.eip = op[c].eip /\ o.services = op[c].services /\ o.flag = op[c].flag
    BY <1>2, <1>11, <2>1, GotoIs, WorkFacts
  <2>4. ShapeOK(o) /\ ~TearsDown(o)
    BY <1>1, <1>5, <1>11, <2>1, <2>2 DEF ShapeOK, StageOK, TearsDown
  <2>5. clash # "mixed" => HeldOK(o)
    BY <1>1, <1>8, <2>1, <2>2, <2>4 DEF HeldOK, Working
  <2>6. clash = "none" => DataOK(o)
    BY <1>1, <1>2, <2>1, <2>2, WorkFacts DEF DataOK, AloneOK
  <2>7. Calm /\ reg # NoEntry => WorkOK(o)
    <3>1. Calm /\ reg # NoEntry => WorkOK(op[c]) /\ inst[reg.inst].state = "stopped"
      BY <1>7, <1>8, <1>11 DEF Calm
    <3> QED
      BY <1>1, <1>11, <2>1, <2>2, <3>1 DEF WorkOK
  <2> QED
    BY <1>2, <1>3, <1>4, <1>6, <1>11, <2>2, <2>4, <2>5, <2>6, <2>7, GoOnInv DEF Steady
<1> QED
  BY <1>9, <1>10, <1>11 DEF Stopped

(* ... or its start.                                                        *)
LEMMA StartedInv == ASSUME FleetInv, NEW c \in CLIs, Started(c) PROVE FleetInv'
<1>1. op[c].at = "started" /\ op[c].kind \in {"resume", "resize", "reconcile"}
  BY DEF Started, At
<1>2. Working(op[c]) /\ ~TearsDown(op[c])
  BY <1>1 DEF Working, TearsDown
<1>3. UNCHANGED <<role, reg, inst, address, group, iam, binary, adopted, desired, clash, excused>>
  BY DEF Started, ghost, state, cloud
<1>4. /\ binary' \in BOOLEAN /\ desired' \in SUBSET Services /\ excused \in SUBSET Ids
      /\ reg \in Entry \cup {NoEntry} /\ faults \in Nat
  BY <1>3 DEF FleetInv, WorldOK
<1>5. op[c] \in Command /\ ShapeOK(op[c]) /\ op[c].mine = None /\ op[c].seen \in Entry
  BY <1>1, <1>2, WorkFacts DEF ShapeOK
<1>6. faults' = faults => (Calm' <=> Calm)
  BY <1>3 DEF Calm
<1>7. Calm /\ reg # NoEntry => WorkOK(op[c])
  BY <1>2, WorkFacts
<1>8. clash # "mixed" => reg = op[c].seen
  BY <1>1, <1>2, WorkFacts DEF AloneOK, HeldOK
<1>9. CASE Leave(c) /\ Fault
  BY <1>2, <1>3, <1>4, <1>5, <1>9, EndInv, FaultEnds
<1>10. CASE Leave(c) /\ Steady /\ inst[op[c].seen.inst].state \notin {"running", "pending"}
  <2>1. ~(Calm /\ reg # NoEntry)
    BY <1>1, <1>7, <1>8, <1>10 DEF WorkOK, Calm
  <2> QED
    BY <1>2, <1>3, <1>4, <1>5, <1>6, <1>10, <2>1, EndInv DEF Steady
<1>11. CASE Goto(c, "put") /\ Steady /\ inst[op[c].seen.inst].state = "running"
  <2>1. "put" \in Stages
    BY DEF Stages
  <2>2. PICK o \in Command :
             /\ op' = [op EXCEPT ![c] = o]
             /\ o.at = "put" /\ o.kind = op[c].kind /\ o.seen = op[c].seen /\ o.mine = op[c].mine
             /\ o.eip = op[c].eip /\ o.services = op[c].services /\ o.flag = op[c].flag
    BY <1>2, <1>11, <2>1, GotoIs, WorkFacts
  <2>4. ShapeOK(o) /\ ~TearsDown(o)
    BY <1>1, <1>5, <2>2 DEF ShapeOK, StageOK, TearsDown
  <2>5. clash # "mixed" => HeldOK(o)
    BY <1>1, <1>5, <1>8, <2>2, <2>4 DEF HeldOK, Working
  <2>6. clash = "none" => DataOK(o)
    BY <1>1, <1>2, <2>2, WorkFacts DEF DataOK, AloneOK
  <2>7. Calm /\ reg # NoEntry => WorkOK(o)
    <3>1. Calm /\ reg # NoEntry => WorkOK(op[c]) /\ inst[reg.inst].state = "running"
      BY <1>7, <1>8, <1>11 DEF Calm
    <3>2. op[c].kind = "resize" => op[c].flag
      BY <1>1, <1>5 DEF ShapeOK
    <3> QED
      BY <1>1, <2>2, <3>1, <3>2 DEF WorkOK
  <2> QED
    BY <1>2, <1>3, <1>4, <1>6, <1>11, <2>2, <2>4, <2>5, <2>6, <2>7, GoOnInv DEF Steady
<1> QED
  BY <1>9, <1>10, <1>11 DEF Started

(* The commands that act on what is placed on the node, or on its instance.  *)
(* rebalance --drain before a destroy: the gate will see what is left.       *)
LEMMA EvacuateInv == ASSUME FleetInv, NEW c \in CLIs, Evacuate(c) PROVE FleetInv'
<1>1. op[c].at = "evacuate" /\ op[c].kind = "destroy"
  BY DEF Evacuate, At
<1>2. Working(op[c]) /\ ~TearsDown(op[c])
  BY <1>1 DEF Working, TearsDown
<1>3. UNCHANGED <<role, reg, inst, address, group, iam, binary, adopted, clash, excused>>
  BY DEF Evacuate, ghost, cloud
<1>4. /\ binary' \in BOOLEAN /\ desired \in SUBSET Services /\ excused \in SUBSET Ids
      /\ faults \in Nat /\ WorldOK
  BY <1>3 DEF FleetInv, WorldOK
<1>5. op[c] \in Command /\ ShapeOK(op[c]) /\ op[c].mine = None /\ op[c].seen \in Entry
  BY <1>1, <1>2, WorkFacts DEF ShapeOK
<1>6. faults' = faults => (Calm' <=> Calm)
  BY <1>3 DEF Calm
<1>7. Calm /\ reg # NoEntry => WorkOK(op[c]) /\ Rests
  BY <1>1, <1>2, WorkFacts DEF WorkOK
<1>8. clash # "mixed" => reg = op[c].seen /\ reg # NoEntry
  BY <1>1, <1>2, <1>5, WorkFacts, NoEntryIs DEF AloneOK, HeldOK
<1>9. CASE Leave(c) /\ Fault /\ UNCHANGED desired
  BY <1>2, <1>3, <1>4, <1>5, <1>9, EndInv, FaultEnds
<1>10. ASSUME NEW s \in SUBSET Services, desired' = s, Steady,
              op' = [op EXCEPT ![c].at = "gate", ![c].services = s]
       PROVE  FleetInv'
  <2>1. PICK o \in Command :
             /\ op' = [op EXCEPT ![c] = o]
             /\ o.at = "gate" /\ o.kind = op[c].kind /\ o.seen = op[c].seen /\ o.mine = op[c].mine
             /\ o.eip = op[c].eip /\ o.services = s
    <3> DEFINE u == [op[c] EXCEPT !.at = "gate", !.services = s]
    <3>1. op' = [op EXCEPT ![c] = u]
      BY <1>10, Zenon
    <3>2. u \in Command
      BY <1>5 DEF Command, Stages
    <3>3. /\ u.at = "gate" /\ u.kind = op[c].kind /\ u.seen = op[c].seen /\ u.mine = op[c].mine
          /\ u.eip = op[c].eip /\ u.services = s
      BY <1>5 DEF Command
    <3> QED
      BY <3>1, <3>2, <3>3
  <2>4. ShapeOK(o) /\ ~TearsDown(o)
    BY <1>1, <1>5, <2>1 DEF ShapeOK, StageOK, TearsDown
  <2>5. clash # "mixed" => HeldOK(o)'
    BY <1>1, <1>3, <1>8, <2>1, <2>4 DEF HeldOK, Working
  <2>6. clash = "none" => DataOK(o)'
    BY <1>1, <1>3, <1>8, <1>10, <2>1 DEF DataOK
  <2>7. Calm' => Calm /\ WorkOK(o)'
    BY <1>1, <1>3, <1>6, <1>7, <1>8, <1>10, <2>1 DEF WorkOK, Steady, Rests, Calm
  <2>8. WorldOK' /\ faults' \in Nat
    BY <1>3, <1>4, <1>10 DEF WorldOK, Steady
  <2>9. \A i \in Ids : Alive(i)' => Alive(i)
    BY <1>3 DEF Alive
  <2> QED
    BY <1>2, <1>3, <1>8, <2>1, <2>4, <2>5, <2>6, <2>7, <2>8, <2>9, StepOnInv
<1>11. CASE /\ desired' \in {desired, desired \cap Volumes} /\ Steady
            /\ op' = [op EXCEPT ![c].at = "gate", ![c].services = desired']
  <2>1. desired' \in SUBSET Services
    BY <1>4, <1>11
  <2> QED
    BY <1>10, <1>11, <2>1
<1> QED
  BY <1>9, <1>11 DEF Evacuate

(* The drain before a resize, which reads node.json again.                   *)
LEMMA DrainInv == ASSUME FleetInv, NEW c \in CLIs, Drain(c) PROVE FleetInv'
<1>1. op[c].at = "drain" /\ op[c].kind = "resize"
  BY DEF Drain, At
<1>2. Working(op[c]) /\ ~TearsDown(op[c])
  BY <1>1 DEF Working, TearsDown
<1>3. UNCHANGED <<role, reg, inst, address, group, iam, binary, adopted, clash, excused>>
  BY DEF Drain, ghost, cloud
<1>4. /\ binary' \in BOOLEAN /\ desired \in SUBSET Services /\ excused \in SUBSET Ids
      /\ faults \in Nat /\ WorldOK /\ reg \in Entry \cup {NoEntry}
  BY <1>3 DEF FleetInv, WorldOK
<1>5. op[c] \in Command /\ ShapeOK(op[c]) /\ op[c].mine = None /\ op[c].seen \in Entry
  BY <1>1, <1>2, WorkFacts DEF ShapeOK
<1>6. faults' = faults => (Calm' <=> Calm)
  BY <1>3 DEF Calm
<1>7. Calm /\ reg # NoEntry => WorkOK(op[c]) /\ Rests
  BY <1>1, <1>2, WorkFacts DEF WorkOK
<1>8. clash # "mixed" => reg = op[c].seen /\ reg # NoEntry
  BY <1>1, <1>2, <1>5, WorkFacts, NoEntryIs DEF AloneOK, HeldOK
<1>9. CASE Leave(c) /\ Fault /\ UNCHANGED desired
  BY <1>2, <1>3, <1>4, <1>5, <1>9, EndInv, FaultEnds
<1>10. CASE Leave(c) /\ Steady /\ desired' \in {desired, {}}
  <2>1. desired' \in SUBSET Services
    BY <1>4, <1>10
  <2> QED
    BY <1>2, <1>3, <1>4, <1>5, <1>6, <1>7, <1>10, <2>1, EndInv DEF Steady
<1>11. ASSUME NEW r \in Entry, r = reg, NEW s \in SUBSET Services, desired' = {}, Steady,
              op' = [op EXCEPT ![c].at = "observe", ![c].seen = r, ![c].services = s]
       PROVE  FleetInv'
  <2>1. PICK o \in Command :
             /\ op' = [op EXCEPT ![c] = o]
             /\ o.at = "observe" /\ o.kind = op[c].kind /\ o.seen = r /\ o.mine = op[c].mine
             /\ o.eip = op[c].eip /\ o.services = s
    <3> DEFINE u == [op[c] EXCEPT !.at = "observe", !.seen = r, !.services = s]
    <3>1. op' = [op EXCEPT ![c] = u]
      BY <1>11, Zenon
    <3>2. u \in Command
      BY <1>5 DEF Command, Stages
    <3>3. /\ u.at = "observe" /\ u.kind = op[c].kind /\ u.seen = r /\ u.mine = op[c].mine
          /\ u.eip = op[c].eip /\ u.services = s
      BY <1>5 DEF Command
    <3> QED
      BY <3>1, <3>2, <3>3
  <2>4. ShapeOK(o) /\ ~TearsDown(o)
    BY <1>1, <1>5, <2>1 DEF ShapeOK, StageOK, TearsDown
  <2>5. clash # "mixed" => HeldOK(o)'
    BY <1>1, <1>3, <1>11, <2>1, <2>4 DEF HeldOK, Working
  <2>6. clash = "none" => DataOK(o)'
    BY <1>1, <1>3, <1>8, <1>11, <2>1 DEF DataOK
  <2>7. Calm' => Calm /\ WorkOK(o)'
    BY <1>1, <1>3, <1>6, <1>7, <1>8, <1>11, <2>1 DEF WorkOK, Steady, Rests, Calm
  <2>8. WorldOK' /\ faults' \in Nat
    BY <1>3, <1>4, <1>11 DEF WorldOK, Steady
  <2>9. \A i \in Ids : Alive(i)' => Alive(i)
    BY <1>3 DEF Alive
  <2> QED
    BY <1>2, <1>3, <1>8, <2>1, <2>4, <2>5, <2>6, <2>7, <2>8, <2>9, StepOnInv
<1>12. CASE /\ desired' = {} /\ reg # NoEntry /\ Steady
            /\ op' = [op EXCEPT ![c].at = "observe", ![c].seen = reg, ![c].services = desired]
  <2>1. reg \in Entry
    BY <1>4, <1>12
  <2> QED
    BY <1>4, <1>11, <1>12, <2>1
<1> QED
  BY <1>9, <1>10, <1>12 DEF Drain

(* The rebalance after it.                                                   *)
LEMMA BackInv == ASSUME FleetInv, NEW c \in CLIs, Back(c) PROVE FleetInv'
<1>1. op[c].at = "back" /\ op[c].kind = "resize"
  BY DEF Back, At
<1>2. Working(op[c]) /\ ~TearsDown(op[c])
  BY <1>1 DEF Working, TearsDown
<1>3. UNCHANGED <<role, reg, inst, address, group, iam, binary, adopted, clash, excused>> /\ Leave(c)
  BY DEF Back, ghost, cloud
<1>4. /\ binary' \in BOOLEAN /\ desired \in SUBSET Services /\ excused \in SUBSET Ids
      /\ faults \in Nat
  BY <1>3 DEF FleetInv, WorldOK
<1>5. op[c] \in Command /\ ShapeOK(op[c]) /\ op[c].mine = None /\ op[c].services \in SUBSET Services
  BY <1>1, <1>2, WorkFacts DEF ShapeOK, Command
<1>6. faults' = faults => (Calm' <=> Calm)
  BY <1>3 DEF Calm
<1>7. Calm /\ reg # NoEntry => WorkOK(op[c]) /\ Rests
  BY <1>1, <1>2, WorkFacts DEF WorkOK
<1>8. clash # "mixed" => reg # NoEntry
  BY <1>1, <1>2, WorkFacts DEF AloneOK, HeldOK
<1>9. CASE Fault /\ UNCHANGED desired
  BY <1>2, <1>3, <1>4, <1>5, <1>9, EndInv, FaultEnds
<1>10. CASE Steady /\ desired' \in {desired, desired \cup op[c].services}
  <2>1. desired' \in SUBSET Services
    BY <1>4, <1>5, <1>10
  <2> QED
    BY <1>2, <1>3, <1>4, <1>5, <1>6, <1>7, <1>8, <1>10, <2>1, EndInv DEF Steady
<1> QED
  BY <1>9, <1>10 DEF Back

(* A deploy, and whatever else publishes.                                    *)
LEMMA PublishInv == ASSUME FleetInv, NEW c \in CLIs, Publish(c) PROVE FleetInv'
<1>1. op[c].at = "publish" /\ op[c].kind = "deploy"
  BY DEF Publish, At
<1>2. Working(op[c]) /\ ~TearsDown(op[c])
  BY <1>1 DEF Working, TearsDown
<1>3. /\ UNCHANGED <<role, reg, inst, address, group, iam, binary, adopted, clash, excused, faults>>
      /\ Leave(c) /\ desired' \in SUBSET Services
  BY DEF Publish, ghost, cloud, Steady
<1>4. binary' \in BOOLEAN /\ excused \in SUBSET Ids /\ faults' \in Nat
  BY <1>3 DEF FleetInv, WorldOK
<1>5. op[c].mine = None /\ op[c].seen \in Entry
  BY <1>1, <1>2, WorkFacts DEF ShapeOK
<1>6. Calm' <=> Calm
  BY <1>3 DEF Calm
<1>7. Calm /\ reg # NoEntry => Rests
  BY <1>1, <1>2, WorkFacts DEF WorkOK
<1>8. clash # "mixed" => reg # NoEntry
  BY <1>1, <1>2, <1>5, WorkFacts, NoEntryIs DEF AloneOK, HeldOK
<1> QED
  BY <1>2, <1>3, <1>4, <1>5, <1>6, <1>7, <1>8, EndInv

(* Stop, retype and start the instance of the entry that was read.           *)
LEMMA StopInv == ASSUME FleetInv, NEW c \in CLIs, Stop(c) PROVE FleetInv'
<1>1. op[c].at = "stop" /\ op[c].kind \in {"pause", "resize"}
  BY DEF Stop, At
<1>2. Working(op[c]) /\ ~TearsDown(op[c])
  BY <1>1 DEF Working, TearsDown
<1>3. UNCHANGED <<role, reg, address, group, iam, binary, adopted, desired, clash, excused>>
  BY DEF Stop, ghost, state
<1>4. /\ binary' \in BOOLEAN /\ desired \in SUBSET Services /\ excused \in SUBSET Ids
      /\ faults \in Nat /\ WorldOK /\ reg \in Entry \cup {NoEntry}
      /\ inst \in [Ids -> [state : {"pending", "running", "stopping", "stopped", "dying", "gone"},
                           type : Types]]
  BY <1>3 DEF FleetInv, WorldOK
<1>5. op[c] \in Command /\ ShapeOK(op[c]) /\ op[c].mine = None /\ op[c].seen \in Entry
  BY <1>1, <1>2, WorkFacts DEF ShapeOK
<1>6. faults' = faults => (Calm' <=> Calm)
  BY <1>3 DEF Calm
<1>7. Calm /\ reg # NoEntry => WorkOK(op[c]) /\ Rests
  BY <1>1, <1>2, WorkFacts DEF WorkOK
<1>8. clash # "mixed" => reg = op[c].seen /\ reg # NoEntry
  BY <1>1, <1>2, <1>5, WorkFacts, NoEntryIs DEF AloneOK, HeldOK
<1>9. CASE Leave(c) /\ Fault /\ UNCHANGED inst
  BY <1>2, <1>3, <1>4, <1>5, <1>9, EndInv, FaultEnds
<1>10. CASE Leave(c) /\ Steady /\ UNCHANGED inst
  BY <1>2, <1>3, <1>4, <1>5, <1>6, <1>7, <1>10, EndInv DEF Steady
<1>11. ASSUME NEW i \in Ids, i = op[c].seen.inst, inst[i].state \in {"running", "stopping", "stopped"},
              inst' = [inst EXCEPT ![i].state = IF inst[i].state = "running" THEN "stopping"
                                                ELSE inst[i].state],
              Goto(c, "stopped"), Steady
       PROVE  FleetInv'
  <2>1. "stopped" \in Stages
    BY DEF Stages
  <2>2. PICK o \in Command :
             /\ op' = [op EXCEPT ![c] = o]
             /\ o.at = "stopped" /\ o.kind = op[c].kind /\ o.seen = op[c].seen /\ o.mine = op[c].mine
             /\ o.eip = op[c].eip /\ o.services = op[c].services /\ o.flag = op[c].flag
    BY <1>2, <1>11, <2>1, GotoIs, WorkFacts
  <2>3. /\ inst'[i].state \in {"stopping", "stopped"} /\ inst'[i].type = inst[i].type
        /\ \A j \in Ids : j # i => inst'[j] = inst[j]
        /\ WorldOK' /\ faults' \in Nat
    BY <1>3, <1>4, <1>11 DEF WorldOK, Steady
  <2>4. ShapeOK(o) /\ ~TearsDown(o)
    BY <1>1, <1>5, <2>2 DEF ShapeOK, StageOK, TearsDown
  <2>5. clash # "mixed" => HeldOK(o)'
    BY <1>1, <1>3, <1>8, <2>2, <2>4 DEF HeldOK, Working
  <2>6. clash = "none" => DataOK(o)'
    BY <1>1, <1>3, <1>8, <2>2 DEF DataOK
  <2>7. Calm' => Calm /\ WorkOK(o)'
    <3>1. ASSUME Calm' PROVE WorkOK(op[c]) /\ Rests /\ reg.inst = i /\ Calm
      BY <1>6, <1>7, <1>8, <1>11, <3>1 DEF Steady, Calm
    <3> QED
      BY <1>1, <1>3, <2>2, <2>3, <3>1 DEF WorkOK, Rests
  <2>9. \A j \in Ids : Alive(j)' => Alive(j)
    BY <1>11, <2>3 DEF Alive
  <2> QED
    BY <1>2, <1>3, <1>8, <2>2, <2>3, <2>4, <2>5, <2>6, <2>7, <2>9, StepOnInv
<1>12. op[c].seen.inst \in Ids
  BY <1>5 DEF Entry
<1> QED
  BY <1>9, <1>10, <1>11, <1>12 DEF Stop

(* A resize changes the type to the other one.                              *)
LEMMA OtherType == ASSUME NEW t \in Types PROVE Other(t) \in Types
BY DEF Types, Other

(* A stopped instance is given its new type.                                *)
LEMMA RetypeInv == ASSUME FleetInv, NEW c \in CLIs, Retype(c) PROVE FleetInv'
<1>1. op[c].at = "retype" /\ op[c].kind = "resize"
  BY DEF Retype, At
<1>2. Working(op[c]) /\ ~TearsDown(op[c])
  BY <1>1 DEF Working, TearsDown
<1>3. UNCHANGED <<role, reg, address, group, iam, binary, adopted, desired, clash, excused>>
  BY DEF Retype, ghost, state
<1>4. /\ binary' \in BOOLEAN /\ desired \in SUBSET Services /\ excused \in SUBSET Ids
      /\ faults \in Nat /\ WorldOK /\ reg \in Entry \cup {NoEntry}
      /\ inst \in [Ids -> [state : {"pending", "running", "stopping", "stopped", "dying", "gone"},
                           type : Types]]
  BY <1>3 DEF FleetInv, WorldOK
<1>5. op[c] \in Command /\ ShapeOK(op[c]) /\ op[c].mine = None /\ op[c].seen \in Entry
  BY <1>1, <1>2, WorkFacts DEF ShapeOK
<1>6. faults' = faults => (Calm' <=> Calm)
  BY <1>3 DEF Calm
<1>7. Calm /\ reg # NoEntry => WorkOK(op[c])
  BY <1>1, <1>2, WorkFacts DEF WorkOK
<1>8. clash # "mixed" => reg = op[c].seen /\ reg # NoEntry
  BY <1>1, <1>2, <1>5, WorkFacts, NoEntryIs DEF AloneOK, HeldOK
<1>9. CASE Leave(c) /\ Fault /\ UNCHANGED inst
  BY <1>2, <1>3, <1>4, <1>5, <1>9, EndInv, FaultEnds
<1>10. CASE Leave(c) /\ Steady /\ UNCHANGED inst /\ inst[op[c].seen.inst].state # "stopped"
  <2>1. ~(Calm /\ reg # NoEntry)
    BY <1>1, <1>7, <1>8, <1>10 DEF WorkOK, Calm
  <2> QED
    BY <1>2, <1>3, <1>4, <1>5, <1>6, <1>10, <2>1, EndInv DEF Steady
<1>11. ASSUME NEW i \in Ids, i = op[c].seen.inst, inst[i].state = "stopped",
              inst' = [inst EXCEPT ![i].type = Other(op[c].seen.type)],
              NEW l, l = (IF op[c].flag THEN "start" ELSE "put"), Goto(c, l), Steady
       PROVE  FleetInv'
  <2>1. l \in Stages /\ l \in {"start", "put"}
    BY <1>11 DEF Stages
  <2>2. PICK o \in Command :
             /\ op' = [op EXCEPT ![c] = o]
             /\ o.at = l /\ o.kind = op[c].kind /\ o.seen = op[c].seen /\ o.mine = op[c].mine
             /\ o.eip = op[c].eip /\ o.services = op[c].services /\ o.flag = op[c].flag
    BY <1>2, <1>11, <2>1, GotoIs, WorkFacts
  <2>0. Other(op[c].seen.type) \in Types
    BY <1>5, OtherType DEF Entry, Types
  <2>3. /\ inst'[i].state = "stopped" /\ inst'[i].type = Other(op[c].seen.type)
        /\ \A j \in Ids : j # i => inst'[j] = inst[j]
        /\ WorldOK' /\ faults' \in Nat
    BY <1>3, <1>4, <1>11, <2>0 DEF WorldOK, Steady
  <2>4. ShapeOK(o) /\ ~TearsDown(o)
    BY <1>1, <1>5, <1>11, <2>1, <2>2 DEF ShapeOK, StageOK, TearsDown
  <2>5. clash # "mixed" => HeldOK(o)'
    BY <1>1, <1>3, <1>8, <2>1, <2>2, <2>4 DEF HeldOK, Working
  <2>6. clash = "none" => DataOK(o)'
    BY <1>1, <1>3, <1>8, <2>1, <2>2 DEF DataOK
  <2>7. Calm' => Calm /\ WorkOK(o)'
    <3>1. ASSUME Calm' PROVE WorkOK(op[c]) /\ reg = op[c].seen /\ reg.inst = i /\ Calm
      BY <1>6, <1>7, <1>8, <1>11, <3>1 DEF Steady, Calm
    <3>2. l = "put" <=> ~op[c].flag
      BY <1>11
    <3> QED
      BY <1>1, <1>3, <2>1, <2>2, <2>3, <3>1, <3>2 DEF WorkOK
  <2>9. \A j \in Ids : Alive(j)' => Alive(j)
    BY <1>11, <2>3 DEF Alive
  <2> QED
    BY <1>2, <1>3, <1>8, <2>2, <2>3, <2>4, <2>5, <2>6, <2>7, <2>9, StepOnInv
<1>12. op[c].seen.inst \in Ids
  BY <1>5 DEF Entry
<1> QED
  BY <1>9, <1>10, <1>11, <1>12 DEF Retype

(* An instance is started.                                                  *)
LEMMA StartUpInv == ASSUME FleetInv, NEW c \in CLIs, StartUp(c) PROVE FleetInv'
<1>1. op[c].at = "start" /\ op[c].kind \in {"resume", "resize", "reconcile"}
  BY DEF StartUp, At
<1>2. Working(op[c]) /\ ~TearsDown(op[c])
  BY <1>1 DEF Working, TearsDown
<1>3. UNCHANGED <<role, reg, address, group, iam, binary, adopted, desired, clash, excused>>
  BY DEF StartUp, ghost, state
<1>4. /\ binary' \in BOOLEAN /\ desired \in SUBSET Services /\ excused \in SUBSET Ids
      /\ faults \in Nat /\ WorldOK /\ reg \in Entry \cup {NoEntry}
      /\ inst \in [Ids -> [state : {"pending", "running", "stopping", "stopped", "dying", "gone"},
                           type : Types]]
  BY <1>3 DEF FleetInv, WorldOK
<1>5. op[c] \in Command /\ ShapeOK(op[c]) /\ op[c].mine = None /\ op[c].seen \in Entry
  BY <1>1, <1>2, WorkFacts DEF ShapeOK
<1>6. faults' = faults => (Calm' <=> Calm)
  BY <1>3 DEF Calm
<1>7. Calm /\ reg # NoEntry => WorkOK(op[c])
  BY <1>1, <1>2, WorkFacts DEF WorkOK
<1>8. clash # "mixed" => reg = op[c].seen /\ reg # NoEntry
  BY <1>1, <1>2, <1>5, WorkFacts, NoEntryIs DEF AloneOK, HeldOK
<1>9. CASE Leave(c) /\ Fault /\ UNCHANGED inst
  BY <1>2, <1>3, <1>4, <1>5, <1>9, EndInv, FaultEnds
<1>10. CASE Leave(c) /\ Steady /\ UNCHANGED inst
            /\ inst[op[c].seen.inst].state \notin {"stopped", "pending", "running"}
  <2>1. ~(Calm /\ reg # NoEntry)
    BY <1>1, <1>7, <1>8, <1>10 DEF WorkOK, Calm, Rests
  <2> QED
    BY <1>2, <1>3, <1>4, <1>5, <1>6, <1>10, <2>1, EndInv DEF Steady
<1>11. ASSUME NEW i \in Ids, i = op[c].seen.inst, inst[i].state \in {"stopped", "pending", "running"},
              inst' = [inst EXCEPT ![i].state = IF inst[i].state = "stopped" THEN "pending"
                                                ELSE inst[i].state],
              Goto(c, "started"), Steady
       PROVE  FleetInv'
  <2>1. "started" \in Stages
    BY DEF Stages
  <2>2. PICK o \in Command :
             /\ op' = [op EXCEPT ![c] = o]
             /\ o.at = "started" /\ o.kind = op[c].kind /\ o.seen = op[c].seen /\ o.mine = op[c].mine
             /\ o.eip = op[c].eip /\ o.services = op[c].services /\ o.flag = op[c].flag
    BY <1>2, <1>11, <2>1, GotoIs, WorkFacts
  <2>3. /\ inst'[i].state \in {"pending", "running"} /\ inst'[i].type = inst[i].type
        /\ \A j \in Ids : j # i => inst'[j] = inst[j]
        /\ WorldOK' /\ faults' \in Nat
    BY <1>3, <1>4, <1>11 DEF WorldOK, Steady
  <2>4. ShapeOK(o) /\ ~TearsDown(o)
    BY <1>1, <1>5, <2>2 DEF ShapeOK, StageOK, TearsDown
  <2>5. clash # "mixed" => HeldOK(o)'
    BY <1>1, <1>3, <1>5, <1>8, <2>2, <2>4 DEF HeldOK, Working
  <2>6. clash = "none" => DataOK(o)'
    BY <1>1, <1>3, <1>8, <2>2 DEF DataOK
  <2>7. Calm' => Calm /\ WorkOK(o)'
    <3>1. ASSUME Calm' PROVE WorkOK(op[c]) /\ reg.inst = i /\ Calm
      BY <1>6, <1>7, <1>8, <1>11, <3>1 DEF Steady, Calm
    <3>2. op[c].mine = None
      BY <1>5
    <3> QED
      BY <1>1, <1>3, <2>2, <2>3, <3>1, <3>2 DEF WorkOK, Rests
  <2>9. \A j \in Ids : Alive(j)' => Alive(j)
    BY <1>11, <2>3 DEF Alive
  <2> QED
    BY <1>2, <1>3, <1>8, <2>2, <2>3, <2>4, <2>5, <2>6, <2>7, <2>9, StepOnInv
<1>12. op[c].seen.inst \in Ids
  BY <1>5 DEF Entry
<1> QED
  BY <1>9, <1>10, <1>11, <1>12 DEF StartUp

(* Once there has been a fault only the instances must be accounted for.     *)
LEMMA HaltInv ==
    ASSUME FleetInv, NEW c \in CLIs, Working(op[c]), Leave(c),
           UNCHANGED <<role, reg, inst, desired, clash>>, WorldOK',
           excused \subseteq excused', op[c].mine \in {None} \cup excused', ~Calm'
    PROVE  FleetInv'
<1>1. op' = [op EXCEPT ![c] = Idle]
  BY LeaveIs
<1>2. ASSUME clash # "mixed" PROVE AloneOK(Idle)'
  <2>1. AloneOK(op[c])
    BY <1>2, WorksAlone
  <2>2. HeldOK(Idle)'
    BY IdleIs DEF HeldOK, Working, TearsDown
  <2>3. StrayOK(Idle)'
    BY <2>1, NoneIsNoId DEF AloneOK, StrayOK, Alive
  <2>4. clash' = "none" => (reg' = NoEntry => desired' = {})
    BY <2>1 DEF AloneOK
  <2>5. DataOK(Idle)' \/ clash' # "none"
    BY <2>4, IdleIs DEF DataOK
  <2> QED
    BY <2>2, <2>3, <2>4, <2>5 DEF AloneOK
<1> QED
  BY <1>1, <1>2, IdleIs, WorkTurn

(* The entry that is written back.                                           *)
LEMMA UpdatedIs ==
    ASSUME NEW o \in Command, o.seen \in Entry,
           o.kind \in {"pause", "resume", "resize", "reconcile"},
           o.kind # "reconcile" => o.mine = None
    PROVE  /\ Updated(o) \in Entry
           /\ o.mine = None => Updated(o).inst = o.seen.inst /\ Updated(o).eip = o.seen.eip
           /\ o.mine # None => Updated(o).inst = o.mine
           /\ Updated(o).state = IF o.kind = "pause" \/ (o.kind = "resize" /\ ~o.flag)
                                 THEN "stopped" ELSE "ready"
           /\ Updated(o).type = IF o.kind = "resize" THEN Other(o.seen.type) ELSE o.seen.type
<1>1. Other(o.seen.type) \in Types
  BY OtherType DEF Entry
<1>2. o.mine # None => o.mine \in Ids
  BY DEF Command
<1>3. o.eip \in BOOLEAN
  BY DEF Command
<1>4. CASE o.kind = "pause"
  <2>1. Updated(o) = [o.seen EXCEPT !.state = "stopped"]
    BY <1>4 DEF Updated
  <2> QED
    BY <1>4, <2>1 DEF Entry
<1>5. CASE o.kind = "resume"
  <2>1. Updated(o) = [o.seen EXCEPT !.state = "ready"]
    BY <1>5 DEF Updated
  <2> QED
    BY <1>5, <2>1 DEF Entry
<1>6. CASE o.kind = "resize"
  <2>1. Updated(o) = [o.seen EXCEPT !.type = Other(o.seen.type),
                                    !.state = IF o.flag THEN "ready" ELSE "stopped"]
    BY <1>6 DEF Updated
  <2> QED
    BY <1>1, <1>6, <2>1 DEF Entry
<1>7. CASE o.kind = "reconcile" /\ o.mine = None
  <2>1. Updated(o) = [o.seen EXCEPT !.state = "ready"]
    BY <1>7 DEF Updated
  <2> QED
    BY <1>7, <2>1 DEF Entry
<1>8. CASE o.kind = "reconcile" /\ o.mine # None
  <2>1. Updated(o) = [o.seen EXCEPT !.state = "ready", !.inst = o.mine, !.eip = o.eip]
    BY <1>8 DEF Updated
  <2> QED
    BY <1>2, <1>3, <1>8, <2>1 DEF Entry
<1> QED
  BY <1>4, <1>5, <1>6, <1>7, <1>8

(* node.json is put back as read, with what the command has made of it.      *)
LEMMA WriteBackInv == ASSUME FleetInv, NEW c \in CLIs, WriteBack(c) PROVE FleetInv'
<1>1. op[c].at = "put" /\ op[c].kind \in {"pause", "resume", "resize", "reconcile"}
  BY DEF WriteBack, At
<1>2. Working(op[c]) /\ ~TearsDown(op[c])
  BY <1>1 DEF Working, TearsDown
<1>3. UNCHANGED <<role, inst, address, group, iam, binary, adopted, desired, clash>>
  BY DEF WriteBack, ghost, cloud
<1>4. /\ binary' \in BOOLEAN /\ desired' \in SUBSET Services /\ excused \in SUBSET Ids
      /\ faults \in Nat /\ WorldOK /\ reg \in Entry \cup {NoEntry}
  BY <1>3 DEF FleetInv, WorldOK
<1>5. /\ op \in [CLIs -> Command] /\ op[c] \in Command /\ ShapeOK(op[c]) /\ op[c].seen \in Entry
      /\ op[c].mine \in Ids \cup {None}
      /\ op[c].kind # "reconcile" => op[c].mine = None
  BY <1>1, <1>2, WorkFacts DEF ShapeOK, Command
<1>6. faults' = faults => (Calm' <=> Calm)
  BY <1>3 DEF Calm
<1>7. Calm /\ reg # NoEntry => WorkOK(op[c])
  BY <1>1, <1>2, WorkFacts
<1>8. clash # "mixed" => reg = op[c].seen /\ reg # NoEntry
  BY <1>1, <1>2, <1>5, WorkFacts, NoEntryIs DEF AloneOK, HeldOK
<1>9. CASE /\ Leave(c) /\ Fault /\ UNCHANGED reg
           /\ excused' = IF op[c].mine = None THEN excused ELSE excused \cup {op[c].mine}
  <2>1. excused' \in SUBSET Ids /\ excused \subseteq excused' /\ op[c].mine \in {None} \cup excused'
    BY <1>4, <1>5, <1>9
  <2> QED
    BY <1>2, <1>3, <1>4, <1>9, <2>1, EndInv, FaultEnds
<1>10. CASE /\ reg' = Updated(op[c]) /\ Steady /\ UNCHANGED excused
            /\ IF op[c].services # {} THEN Goto(c, "back") ELSE Leave(c)
  <2>1. PICK o \in Command :
             /\ op' = [op EXCEPT ![c] = o]
             /\ o.at \in {"back", "idle"} /\ o.kind \in {"idle", op[c].kind}
             /\ o.at = "idle" => o = Idle
             /\ o.at = "back" => /\ o.kind = op[c].kind /\ o.seen = op[c].seen
                                 /\ o.mine = op[c].mine /\ o.eip = op[c].eip
                                 /\ op[c].services # {}
    <3>1. CASE op[c].services # {}
      BY <1>5, <1>10, <3>1, GotoIs DEF Stages
    <3>2. CASE op[c].services = {}
      BY <1>10, <3>2, LeaveIs, IdleIs
    <3> QED
      BY <3>1, <3>2
  <2>2. /\ reg' \in Entry /\ reg' # NoEntry
        /\ op[c].mine = None => reg'.inst = op[c].seen.inst /\ reg'.eip = op[c].seen.eip
        /\ op[c].mine # None => reg'.inst = op[c].mine
        /\ reg'.state = IF op[c].kind = "pause" \/ (op[c].kind = "resize" /\ ~op[c].flag)
                        THEN "stopped" ELSE "ready"
        /\ reg'.type = IF op[c].kind = "resize" THEN Other(op[c].seen.type) ELSE op[c].seen.type
    BY <1>1, <1>5, <1>10, UpdatedIs, NoEntryIs
  <2>3. WorldOK'
    BY <1>3, <1>4, <1>10, <2>2 DEF WorldOK, Steady
  <2>4. o.at = "back" => o.kind = "resize" /\ o.mine = None
    <3>1. o.at = "back" => op[c].kind = "resize"
      BY <1>1, <1>5, <2>1 DEF ShapeOK
    <3> QED
      BY <1>5, <2>1, <3>1
  <2>5. ShapeOK(o)
    <3>1. CASE o.at = "idle"
      BY <2>1, <3>1, IdleIs
    <3>2. CASE o.at = "back"
      BY <1>5, <2>1, <2>4, <3>2 DEF ShapeOK, StageOK
    <3> QED
      BY <2>1, <3>1, <3>2
  <2>6. ASSUME clash # "mixed" PROVE AloneOK(o)'
    <3>1. AloneOK(op[c]) /\ reg = op[c].seen /\ reg # NoEntry
      BY <1>2, <1>8, <2>6, WorkFacts
    <3>2. HeldOK(o)'
      BY <2>1, <2>2, <2>4, IdleIs DEF HeldOK, Working, TearsDown
    <3>3. StrayOK(o)'
      <4>1. op[c].mine # None => ~Alive(reg.inst)
        BY <1>1, <1>5, <3>1 DEF AloneOK, HeldOK, Alive
      <4>2. SUFFICES ASSUME NEW i \in Ids, Alive(i) PROVE reg'.inst = i \/ i \in excused
        BY <1>3, <1>10 DEF StrayOK, Alive
      <4>3. reg.inst = i \/ i \in excused \/ op[c].mine = i
        BY <3>1, <4>2 DEF AloneOK, StrayOK
      <4> QED
        BY <2>2, <3>1, <4>1, <4>2, <4>3, NoneIsNoId
    <3>4. (reg' = NoEntry => desired' = {}) /\ DataOK(o)'
      BY <1>1, <2>1, <2>2, IdleIs DEF DataOK
    <3>5. ASSUME Calm' PROVE QuietOK(o)'
      <4>1. Calm /\ QuietOK(op[c]) /\ WorkOK(op[c])
        BY <1>2, <1>6, <1>7, <1>10, <3>1, <3>5, WorkFacts DEF Steady
      <4>2. op[c].mine = None /\ reg'.inst = reg.inst /\ reg'.eip = reg.eip
        BY <1>1, <1>5, <2>2, <3>1, <4>1 DEF WorkOK
      <4>3. Rests'
        BY <1>1, <1>3, <2>2, <3>1, <4>1, <4>2 DEF WorkOK, Rests
      <4>4. StandsOK' /\ (adopted' <=> role' = "edge") /\ (reg'.eip <=> role' = "edge")
        BY <1>1, <1>2, <1>3, <3>1, <4>1, <4>2 DEF QuietOK, StandsOK
      <4>5. JobOK(o)'
        BY <1>1, <2>1, <2>4, <4>3, IdleIs DEF JobOK, Working, TearsDown, WorkOK
      <4>6. excused' = {}
        BY <1>10, <4>1 DEF QuietOK
      <4> QED
        BY <2>2, <4>3, <4>4, <4>5, <4>6 DEF QuietOK
    <3> QED
      BY <3>2, <3>3, <3>4, <3>5 DEF AloneOK
  <2> QED
    BY <1>2, <1>3, <2>1, <2>3, <2>5, <2>6, WorkTurn
<1> QED
  BY <1>9, <1>10 DEF WriteBack

(* The teardown.  An instance that is terminated, and its address.           *)
LEMMA DoomIs ==
    ASSUME WorldOK, NEW i \in Ids, Doom(i)
    PROVE  /\ inst' \in [Ids -> [state : {"pending", "running", "stopping", "stopped", "dying", "gone"},
                                 type : Types]]
           /\ inst'[i].state = IF Alive(i) THEN "dying" ELSE inst[i].state
           /\ \A j \in Ids : j # i => inst'[j] = inst[j]
           /\ ~Alive(i)' /\ \A j \in Ids : Alive(j)' => Alive(j)
           /\ \A j \in Ids : inst[j].state = "gone" => inst'[j].state = "gone"
           /\ address' \in Address /\ (address = None => address' = None)
<1>1. /\ inst \in [Ids -> [state : {"pending", "running", "stopping", "stopped", "dying", "gone"},
                           type : Types]]
      /\ address \in Address
  BY DEF WorldOK
<1>2. inst' = [inst EXCEPT ![i].state = IF Alive(i) THEN "dying" ELSE inst[i].state]
  BY Zenon DEF Doom
<1>3. /\ inst' \in [Ids -> [state : {"pending", "running", "stopping", "stopped", "dying", "gone"},
                           type : Types]]
      /\ inst'[i].state = IF Alive(i) THEN "dying" ELSE inst[i].state
      /\ \A j \in Ids : j # i => inst'[j] = inst[j]
  BY <1>1, <1>2
<1>4. ~Alive(i)' /\ \A j \in Ids : Alive(j)' => Alive(j)
  BY <1>3 DEF Alive
<1>5. \A j \in Ids : inst[j].state = "gone" => inst'[j].state = "gone"
  BY <1>3 DEF Alive
<1>6. address' \in Address /\ (address = None => address' = None)
  BY <1>1, NoneIsNoId DEF Doom, Address
<1> QED
  BY <1>3, <1>4, <1>5, <1>6

(* A destroy terminates the instance of the entry it read.                  *)
LEMMA TerminateInv == ASSUME FleetInv, NEW c \in CLIs, Terminate(c) PROVE FleetInv'
<1>1. op[c].at = "terminate" /\ op[c].kind = "destroy" /\ Goto(c, "unaddress")
  BY DEF Terminate, At
<1>2. Working(op[c]) /\ ~TearsDown(op[c])
  BY <1>1 DEF Working, TearsDown
<1>3. UNCHANGED <<role, reg, group, iam, binary, adopted, desired, clash>>
  BY DEF Terminate, ghost, state
<1>4. /\ excused \in SUBSET Ids /\ faults \in Nat /\ WorldOK /\ reg \in Entry \cup {NoEntry}
  BY <1>3 DEF FleetInv, WorldOK
<1>5. /\ op \in [CLIs -> Command] /\ op[c] \in Command /\ ShapeOK(op[c]) /\ op[c].seen \in Entry
      /\ op[c].mine = None
  BY <1>1, <1>2, WorkFacts DEF ShapeOK, Command
<1>6. faults' = faults => (Calm' <=> Calm)
  BY <1>3 DEF Calm
<1>7. Calm /\ reg # NoEntry => WorkOK(op[c])
  BY <1>1, <1>2, WorkFacts
<1>8. clash # "mixed" => reg = op[c].seen /\ reg # NoEntry
  BY <1>1, <1>2, <1>5, WorkFacts, NoEntryIs DEF AloneOK, HeldOK
<1>9. PICK i \in Ids : i = op[c].seen.inst
  BY <1>5 DEF Entry
<1>10. PICK o \in Command :
             /\ op' = [op EXCEPT ![c] = o]
             /\ o.at = "unaddress" /\ o.kind = op[c].kind /\ o.seen = op[c].seen
             /\ o.mine = op[c].mine /\ o.eip = op[c].eip
  BY <1>1, <1>5, GotoIs DEF Stages
<1>11. ShapeOK(o) /\ TearsDown(o) /\ Working(o)
  BY <1>1, <1>5, <1>10 DEF ShapeOK, StageOK, TearsDown, Working
<1>12. clash # "mixed" => (reg' = NoEntry => desired' = {}) /\ DataOK(o)'
  BY <1>1, <1>3, <1>8, <1>10 DEF DataOK
<1>13. CASE Fault /\ excused' = excused \cup {op[c].seen.inst} /\ UNCHANGED <<inst, address>>
  <2>1. WorldOK' /\ ~Calm'
    BY <1>3, <1>4, <1>9, <1>13, FaultEnds DEF WorldOK
  <2>2. ASSUME clash # "mixed" PROVE AloneOK(o)'
    <3>1. HeldOK(o)'
      BY <1>1, <1>3, <1>8, <1>10, <1>11, <1>13, <2>2 DEF HeldOK, Alive
    <3>2. StrayOK(o)'
      BY <1>2, <1>3, <1>10, <1>13, <2>2, WorkFacts DEF AloneOK, StrayOK, Alive
    <3> QED
      BY <1>12, <2>1, <2>2, <3>1, <3>2 DEF AloneOK
  <2> QED
    BY <1>2, <1>3, <1>10, <1>11, <2>1, <2>2, WorkTurn
<1>14. CASE Doom(op[c].seen.inst) /\ Steady /\ UNCHANGED excused
  <2>1. /\ inst' \in [Ids -> [state : {"pending", "running", "stopping", "stopped", "dying", "gone"},
                                 type : Types]]
        /\ inst'[i].state = IF Alive(i) THEN "dying" ELSE inst[i].state
        /\ ~Alive(i)' /\ \A j \in Ids : Alive(j)' => Alive(j)
        /\ address' \in Address /\ (address = None => address' = None)
    BY <1>4, <1>9, <1>14, DoomIs
  <2>2. WorldOK'
    BY <1>3, <1>4, <1>14, <2>1 DEF WorldOK, Steady
  <2>3. ASSUME clash # "mixed" PROVE AloneOK(o)'
    <3>1. HeldOK(o)'
      BY <1>1, <1>3, <1>8, <1>9, <1>10, <1>11, <2>1, <2>3 DEF HeldOK
    <3>2. StrayOK(o)'
      BY <1>2, <1>3, <1>10, <1>14, <2>1, <2>3, WorkFacts DEF AloneOK, StrayOK
    <3>3. ASSUME Calm' PROVE QuietOK(o)'
      <4>1. Calm /\ QuietOK(op[c]) /\ Rests /\ reg # NoEntry /\ reg.inst = i
        BY <1>1, <1>2, <1>6, <1>7, <1>8, <1>9, <1>14, <2>3, <3>3, WorkFacts DEF Steady, WorkOK
      <4>2. inst'[reg.inst].state = "dying"
        BY <2>1, <4>1 DEF Rests, Alive
      <4>3. JobOK(o)'
        BY <1>1, <1>3, <1>10, <1>11, <4>2 DEF JobOK, DestroyOK
      <4> QED
        BY <1>3, <1>11, <1>14, <4>1, <4>3 DEF QuietOK
    <3> QED
      BY <1>12, <2>3, <3>1, <3>2, <3>3 DEF AloneOK
  <2> QED
    BY <1>2, <1>3, <1>10, <1>11, <2>2, <2>3, WorkTurn
<1> QED
  BY <1>13, <1>14 DEF Terminate

(* A teardown that goes on has taken down more.                              *)
LEMMA TearOnInv ==
    ASSUME FleetInv, NEW c \in CLIs, TearsDown(op[c]), op[c].kind = "destroy", op[c].at # "sweep",
           NEW l \in Stages, Goto(c, l), l \in {"ungroup", "uniam", "unwire", "sweep"},
           WorldOK', UNCHANGED <<role, reg, inst, desired, clash, excused>>,
           Calm' => Calm /\ \A o \in Command : o.at = l /\ DestroyOK(op[c])
                                               /\ o.seen = op[c].seen => DestroyOK(o)'
    PROVE  FleetInv'
<1>1. Working(op[c])
  BY DEF Working
<1>2. /\ op \in [CLIs -> Command] /\ op[c] \in Command /\ ShapeOK(op[c]) /\ op[c].seen \in Entry
      /\ op[c].mine = None
  BY <1>1, WorkFacts DEF ShapeOK, TearsDown
<1>3. PICK o \in Command :
             /\ op' = [op EXCEPT ![c] = o]
             /\ o.at = l /\ o.kind = op[c].kind /\ o.seen = op[c].seen
             /\ o.mine = op[c].mine /\ o.eip = op[c].eip
  BY <1>2, GotoIs
<1>4. ShapeOK(o) /\ TearsDown(o) /\ Working(o)
  BY <1>2, <1>3 DEF ShapeOK, StageOK, TearsDown, Working
<1>5. ASSUME clash # "mixed" PROVE AloneOK(o)'
  <2>1. AloneOK(op[c])
    BY <1>1, <1>5, WorkFacts
  <2>2. reg = op[c].seen /\ reg # NoEntry
    BY <1>1, <1>2, <2>1, NoEntryIs DEF AloneOK, HeldOK, TearsDown
  <2>3. HeldOK(o)'
    BY <1>2, <1>3, <1>4, <2>1, <2>2 DEF HeldOK, Alive, AloneOK
  <2>4. StrayOK(o)'
    BY <1>3, <2>1 DEF AloneOK, StrayOK, Alive
  <2>5. DataOK(o)'
    BY <1>3, <2>2 DEF DataOK
  <2>6. ASSUME Calm' PROVE QuietOK(o)'
    <3>1. QuietOK(op[c]) /\ DestroyOK(op[c])
      BY <1>1, <2>1, <2>2, <2>6 DEF AloneOK, QuietOK, JobOK
    <3>2. DestroyOK(o)'
      BY <1>3, <2>6, <3>1
    <3>3. JobOK(o)'
      BY <1>3, <1>4, <3>2 DEF JobOK
    <3> QED
      BY <1>4, <2>2, <3>1, <3>3 DEF QuietOK
  <2> QED
    BY <2>2, <2>3, <2>4, <2>5, <2>6 DEF AloneOK
<1> QED
  BY <1>1, <1>3, <1>4, <1>5, WorkTurn

(* What a teardown knows of the node, which it read before.                  *)
LEMMA TearFacts ==
    ASSUME FleetInv, NEW c \in CLIs, TearsDown(op[c]), op[c].kind = "destroy", op[c].at # "sweep"
    PROVE  /\ WorldOK /\ op[c].seen \in Entry
           /\ Calm => /\ reg = op[c].seen /\ reg # NoEntry
                      /\ DestroyOK(op[c]) /\ QuietOK(op[c]) /\ StrayOK(op[c]) /\ op[c].mine = None
<1>1. Working(op[c])
  BY DEF Working
<1>2. ShapeOK(op[c]) /\ op[c].seen \in Entry /\ op[c].mine = None
  BY <1>1, WorkFacts DEF ShapeOK, TearsDown
<1>3. ASSUME Calm
      PROVE  /\ reg = op[c].seen /\ reg # NoEntry
             /\ DestroyOK(op[c]) /\ QuietOK(op[c]) /\ StrayOK(op[c])
  <2>1. AloneOK(op[c])
    BY <1>1, <1>3, WorkFacts DEF Calm
  <2>2. reg = op[c].seen /\ reg # NoEntry
    BY <1>1, <1>2, <2>1, NoEntryIs DEF AloneOK, HeldOK, TearsDown
  <2> QED
    BY <1>1, <1>3, <2>1, <2>2 DEF AloneOK, QuietOK, JobOK
<1> QED
  BY <1>2, <1>3 DEF FleetInv

(* The address is released, if there was one.                                *)
LEMMA UnaddressInv == ASSUME FleetInv, NEW c \in CLIs, Unaddress(c) PROVE FleetInv'
<1>1. op[c].at = "unaddress" /\ op[c].kind = "destroy" /\ Goto(c, "ungroup")
  BY DEF Unaddress, At
<1>2. TearsDown(op[c])
  BY <1>1 DEF TearsDown
<1>3. UNCHANGED <<role, reg, inst, group, iam, binary, adopted, desired, clash, excused>>
  BY DEF Unaddress, ghost, state
<1>4. faults' = faults => (Calm' <=> Calm)
  BY <1>3 DEF Calm
<1>5. "ungroup" \in Stages
  BY DEF Stages
<1>6. CASE Fault /\ UNCHANGED address
  <2>1. WorldOK' /\ ~Calm'
    BY <1>1, <1>2, <1>3, <1>6, TearFacts, FaultEnds DEF WorldOK
  <2> QED
    BY <1>1, <1>2, <1>3, <1>5, <2>1, TearOnInv
<1>7. CASE /\ inst[op[c].seen.inst].state # "dying" /\ Steady
           /\ address' = IF op[c].seen.eip THEN None ELSE address
  <2>1. WorldOK'
    BY <1>1, <1>2, <1>3, <1>7, TearFacts DEF WorldOK, Address, Steady
  <2>2. ASSUME Calm' PROVE /\ Calm /\ address' = None
                           /\ inst'[reg'.inst].state = "gone"
    <3>1. /\ Calm /\ reg = op[c].seen /\ reg # NoEntry /\ WorldOK
          /\ DestroyOK(op[c]) /\ QuietOK(op[c])
      BY <1>1, <1>2, <1>4, <1>7, <2>2, TearFacts DEF Steady
    <3>2. inst[reg.inst].state = "gone"
      BY <1>7, <3>1 DEF DestroyOK
    <3>3. op[c].seen.eip \/ role = "app"
      BY <3>1 DEF QuietOK, WorldOK
    <3>4. address' = None
      BY <1>7, <3>1, <3>3 DEF WorldOK
    <3> QED
      BY <1>3, <3>1, <3>2, <3>4
  <2>3. Calm' => \A o \in Command : o.at = "ungroup" => DestroyOK(o)'
    BY <2>2 DEF DestroyOK
  <2> QED
    BY <1>1, <1>2, <1>3, <1>5, <2>1, <2>2, <2>3, TearOnInv
<1> QED
  BY <1>6, <1>7 DEF Unaddress

(* The group goes once no instance is left.                                  *)
LEMMA UngroupInv == ASSUME FleetInv, NEW c \in CLIs, Ungroup(c) PROVE FleetInv'
<1>1. op[c].at = "ungroup" /\ op[c].kind = "destroy" /\ Goto(c, "uniam")
  BY DEF Ungroup, At
<1>2. TearsDown(op[c])
  BY <1>1 DEF TearsDown
<1>3. UNCHANGED <<role, reg, inst, address, iam, binary, adopted, desired, clash, excused>>
  BY DEF Ungroup, ghost, state
<1>4. faults' = faults => (Calm' <=> Calm)
  BY <1>3 DEF Calm
<1>5. "uniam" \in Stages
  BY DEF Stages
<1>6. CASE Fault /\ UNCHANGED group
  <2>1. WorldOK' /\ ~Calm'
    BY <1>1, <1>2, <1>3, <1>6, TearFacts, FaultEnds DEF WorldOK
  <2> QED
    BY <1>1, <1>2, <1>3, <1>5, <2>1, TearOnInv
<1>7. CASE \/ (\A i \in Ids : inst[i].state = "gone") /\ group' = FALSE /\ Steady
           \/ (\E i \in Ids : Alive(i)) /\ UNCHANGED group /\ Steady
  <2>1. WorldOK'
    BY <1>1, <1>2, <1>3, <1>7, TearFacts DEF WorldOK, Steady
  <2>2. ASSUME Calm' PROVE /\ Calm /\ ~group' /\ DestroyOK(op[c])
                           /\ \A i \in Ids : inst[i].state = "gone"
    <3>1. /\ Calm /\ reg = op[c].seen /\ op[c].mine = None
          /\ DestroyOK(op[c]) /\ QuietOK(op[c]) /\ StrayOK(op[c])
      BY <1>1, <1>2, <1>4, <1>7, <2>2, TearFacts DEF Steady
    <3>2. \A i \in Ids : ~Alive(i)
      BY <1>1, <3>1, NoneIsNoId DEF StrayOK, DestroyOK, Alive, QuietOK
    <3> QED
      BY <1>7, <3>1, <3>2
  <2>3. Calm' => \A o \in Command : o.at = "uniam" => DestroyOK(o)'
    BY <1>1, <1>3, <2>2 DEF DestroyOK
  <2> QED
    BY <1>1, <1>2, <1>3, <1>5, <2>1, <2>2, <2>3, TearOnInv
<1> QED
  BY <1>6, <1>7 DEF Ungroup

(* The role and the profile are deleted.                                    *)
LEMMA UniamInv == ASSUME FleetInv, NEW c \in CLIs, Uniam(c) PROVE FleetInv'
<1>1. op[c].at = "uniam" /\ op[c].kind = "destroy" /\ Goto(c, "unwire")
  BY DEF Uniam, At
<1>2. TearsDown(op[c])
  BY <1>1 DEF TearsDown
<1>3. UNCHANGED <<role, reg, inst, address, group, binary, adopted, desired, clash, excused>>
  BY DEF Uniam, ghost, state
<1>4. faults' = faults => (Calm' <=> Calm)
  BY <1>3 DEF Calm
<1>5. "unwire" \in Stages
  BY DEF Stages
<1>6. CASE Fault /\ UNCHANGED iam
  <2>1. WorldOK' /\ ~Calm'
    BY <1>1, <1>2, <1>3, <1>6, TearFacts, FaultEnds DEF WorldOK
  <2> QED
    BY <1>1, <1>2, <1>3, <1>5, <2>1, TearOnInv
<1>7. CASE iam' = FALSE /\ Steady
  <2>1. WorldOK'
    BY <1>1, <1>2, <1>3, <1>7, TearFacts DEF WorldOK, Steady
  <2>2. Calm' => Calm /\ DestroyOK(op[c])
    BY <1>1, <1>2, <1>4, <1>7, TearFacts DEF Steady
  <2>3. Calm' => \A o \in Command : o.at = "unwire" => DestroyOK(o)'
    BY <1>1, <1>3, <1>7, <2>2 DEF DestroyOK
  <2> QED
    BY <1>1, <1>2, <1>3, <1>5, <2>1, <2>2, <2>3, TearOnInv
<1> QED
  BY <1>6, <1>7 DEF Uniam

(* The cluster drops the node as its default edge.                          *)
LEMMA UnwireInv == ASSUME FleetInv, NEW c \in CLIs, Unwire(c) PROVE FleetInv'
<1>1. op[c].at = "unwire" /\ op[c].kind = "destroy" /\ Goto(c, "sweep")
  BY DEF Unwire, At
<1>2. TearsDown(op[c])
  BY <1>1 DEF TearsDown
<1>3. UNCHANGED <<role, reg, inst, address, group, iam, binary, desired, clash, excused>>
  BY DEF Unwire, ghost, cloud
<1>4. faults' = faults => (Calm' <=> Calm)
  BY <1>3 DEF Calm
<1>5. "sweep" \in Stages
  BY DEF Stages
<1>6. CASE Fault /\ UNCHANGED adopted
  <2>1. WorldOK' /\ ~Calm'
    BY <1>1, <1>2, <1>3, <1>6, TearFacts, FaultEnds DEF WorldOK
  <2> QED
    BY <1>1, <1>2, <1>3, <1>5, <2>1, TearOnInv
<1>7. CASE adopted' = FALSE /\ Steady
  <2>1. WorldOK'
    BY <1>1, <1>2, <1>3, <1>7, TearFacts DEF WorldOK, Steady
  <2>2. Calm' => Calm /\ DestroyOK(op[c])
    BY <1>1, <1>2, <1>4, <1>7, TearFacts DEF Steady
  <2>3. Calm' => \A o \in Command : o.at = "sweep" => DestroyOK(o)'
    BY <1>1, <1>3, <1>7, <2>2 DEF DestroyOK
  <2> QED
    BY <1>1, <1>2, <1>3, <1>5, <2>1, <2>2, <2>3, TearOnInv
<1> QED
  BY <1>6, <1>7 DEF Unwire

(* The node's prefix goes, and with it the registration: the instance is     *)
(* gone, or its termination failed.                                          *)
LEMMA SweepInv == ASSUME FleetInv, NEW c \in CLIs, Sweep(c) PROVE FleetInv'
<1>1. op[c].at = "sweep" /\ op[c].kind \in {"destroy", "prune"} /\ Leave(c)
  BY DEF Sweep, At
<1>2. TearsDown(op[c]) /\ Working(op[c])
  BY <1>1 DEF TearsDown, Working
<1>3. UNCHANGED <<role, inst, address, group, iam, adopted, clash, excused>>
  BY DEF Sweep, ghost, cloud
<1>4. faults' = faults => (Calm' <=> Calm)
  BY <1>3 DEF Calm
<1>5. WorldOK /\ ShapeOK(op[c]) /\ op[c].mine = None
  BY <1>1, <1>2, WorkFacts DEF FleetInv, ShapeOK
<1>6. CASE Fault /\ UNCHANGED <<reg, desired, binary>>
  <2>1. WorldOK' /\ ~Calm'
    BY <1>3, <1>5, <1>6, FaultEnds DEF WorldOK
  <2> QED
    BY <1>1, <1>2, <1>3, <1>5, <1>6, <2>1, HaltInv
<1>7. CASE reg' = NoEntry /\ desired' = {} /\ binary' = FALSE /\ Steady
  <2>1. op' = [op EXCEPT ![c] = Idle]
    BY <1>1, LeaveIs
  <2>2. WorldOK'
    BY <1>3, <1>5, <1>7 DEF WorldOK, Steady
  <2>3. ASSUME clash # "mixed" PROVE AloneOK(Idle)'
    <3>1. AloneOK(op[c]) /\ reg = op[c].seen
      BY <1>1, <1>2, <2>3, WorkFacts DEF AloneOK, HeldOK
    <3>2. HeldOK(Idle)' /\ DataOK(Idle)'
      BY <1>7, IdleIs DEF HeldOK, Working, TearsDown, DataOK
    <3>3. StrayOK(Idle)'
      <4>1. SUFFICES ASSUME NEW i \in Ids, Alive(i) PROVE i \in excused
        BY <1>3 DEF StrayOK, Alive
      <4>2. reg.inst = i \/ i \in excused
        BY <1>5, <3>1, <4>1, NoneIsNoId DEF AloneOK, StrayOK
      <4>3. reg.inst = i => reg # NoEntry
        BY NoEntryIs, NoneIsNoId
      <4> QED
        BY <1>2, <3>1, <4>1, <4>2, <4>3 DEF AloneOK, HeldOK
    <3>4. ASSUME Calm' PROVE QuietOK(Idle)'
      <4>1. Calm /\ QuietOK(op[c])
        BY <1>4, <1>7, <3>1, <3>4 DEF Steady, AloneOK
      <4>2. Empty
        <5>1. CASE reg = NoEntry
          BY <1>1, <4>1, <5>1 DEF QuietOK
        <5>2. CASE reg # NoEntry
          <6>1. DestroyOK(op[c])
            BY <1>2, <4>1, <5>2 DEF QuietOK, JobOK
          <6> QED
            BY <1>1, <6>1 DEF DestroyOK, Empty
        <5> QED
          BY <5>1, <5>2
      <4>3. Empty'
        BY <1>3, <4>2 DEF Empty
      <4>4. JobOK(Idle)'
        BY IdleIs DEF JobOK, Working
      <4> QED
        BY <1>3, <1>7, <4>1, <4>3, <4>4 DEF QuietOK, Empty
    <3> QED
      BY <1>7, <3>2, <3>3, <3>4 DEF AloneOK
  <2> QED
    BY <1>2, <1>3, <2>1, <2>2, <2>3, IdleIs, WorkTurn
<1> QED
  BY <1>6, <1>7 DEF Sweep

-----------------------------------------------------------------------------
(* Creates, which may run side by side.  What holds of one of them.          *)
LEMMA CreateFacts ==
    ASSUME FleetInv, NEW c \in CLIs, op[c].kind = "create"
    PROVE  /\ op \in [CLIs -> Command] /\ op[c] \in Command /\ ShapeOK(op[c]) /\ WorldOK
           /\ clash # "mixed" => HeldOK(op[c])
           /\ clash = "none" => desired = {}
           /\ Calm => CreateOK(op[c]) /\ excused = {}
BY DEF FleetInv, CommandsOK, CalmOK, JobOK, DataOK

(* Beside a create, until commands are mixed, there are only creates.        *)
LEMMA OnlyCreates ==
    ASSUME FleetInv, NEW c \in CLIs, op[c].kind = "create", clash # "mixed",
           NEW d \in CLIs, d # c
    PROVE  /\ op[d] \in Command /\ ShapeOK(op[d])
           /\ op[d] = Idle \/ (op[d].kind = "create" /\ clash = "creates")
<1>1. op[d] \in Command /\ ShapeOK(op[d])
  BY DEF FleetInv, CommandsOK
<1>2. Active(c)
  BY DEF Active
<1>3. Active(d) => op[d].kind = "create" /\ clash = "creates"
  BY <1>2 DEF FleetInv, ClashOK, WorldOK
<1>4. ~Active(d) => op[d] = Idle
  BY <1>1 DEF Active, ShapeOK, StageOK
<1> QED
  BY <1>1, <1>3, <1>4

(* The step of a create leaves the others what they rely on.                 *)
LEMMA OthersKeep ==
    ASSUME FleetInv, NEW c \in CLIs, op[c].kind = "create", clash # "mixed",
           NEW o \in Command,
           o.mine \in {op[c].mine, None} \/ (o.mine \in Ids /\ Free(o.mine)),
           clash' = clash, role' = role,
           \A i \in Ids : i # op[c].mine /\ i # o.mine => inst'[i] = inst[i],
           reg' = reg \/ (reg = NoEntry /\ reg' \in Entry /\ reg'.inst = op[c].mine),
           iam => iam', group => group',
           \A i \in excused : i \in excused' \/ i = o.mine,
           NEW d \in CLIs, d # c, NEW q \in Command, q = op[d]
    PROVE  /\ HeldOK(q)'
           /\ Calm /\ q.kind = "create" => CreateOK(q)'
<1>1. q = Idle \/ (q.kind = "create" /\ clash = "creates")
  BY OnlyCreates
<1>2. CASE q = Idle
  BY <1>2, IdleIs DEF HeldOK, Working, TearsDown
<1>3. CASE q.kind = "create" /\ clash = "creates"
  <2>1. ShapeOK(q) /\ HeldOK(q)
    BY DEF FleetInv, CommandsOK
  <2>2. q.mine \in Ids => q.mine # op[c].mine /\ q.mine # o.mine
    BY NoneIsNoId DEF FleetInv, OwnOK, Free
  <2>3. q.mine \in Ids => inst'[q.mine] = inst[q.mine] /\ (q.mine \in excused => q.mine \in excused')
    BY <2>2
  <2>4. reg # NoEntry => reg' = reg
    OBVIOUS
  <2>5. HeldOK(q)'
    BY <1>3, <2>1, <2>3, <2>4 DEF HeldOK, ShapeOK, Alive, Working, TearsDown, StageOK
  <2>6. ASSUME Calm PROVE CreateOK(q)'
    <3>1. CreateOK(q)
      BY <1>3, <2>6 DEF FleetInv, CalmOK, JobOK
    <3>2. q.mine # None => q.mine \in Ids
      BY DEF Command
    <3>3. q.at \in {"boot", "address", "put", "wire", "cleanup"} => q.mine \in Ids
      BY <1>3, <2>1 DEF ShapeOK
    <3>4. reg' # NoEntry \/ reg = NoEntry
      BY <2>4
    <3>5. q.at # "wire" /\ q.mine # None => q.mine # reg'.inst
      BY <2>2, <3>1, <3>2 DEF CreateOK
    <3> QED
      BY <1>3, <2>3, <3>1, <3>3, <3>4, <3>5 DEF CreateOK
  <2> QED
    BY <2>5, <2>6
<1> QED
  BY <1>1, <1>2, <1>3

(* So it keeps the invariant if what it leaves is as good.                   *)
LEMMA CreateTurn ==
    ASSUME FleetInv, NEW c \in CLIs, op[c].kind = "create",
           NEW o \in Command, op' = [op EXCEPT ![c] = o], ShapeOK(o), o.kind \in {"create", "idle"},
           o.mine \in {op[c].mine, None} \/ (o.mine \in Ids /\ Free(o.mine)),
           WorldOK', role' = role, clash' = clash, desired' = desired,
           \A i \in Ids : i # op[c].mine /\ i # o.mine => inst'[i] = inst[i],
           reg' = reg \/ (reg = NoEntry /\ reg' \in Entry /\ reg'.inst = op[c].mine),
           iam => iam', group => group',
           \A i \in excused : i \in excused' \/ i = o.mine,
           clash # "mixed" =>
             /\ HeldOK(o)'
             /\ \A i \in Ids : i = op[c].mine /\ Alive(i)' =>
                  reg'.inst = i \/ i \in excused' \/ o.mine = i,
           Calm' =>
             /\ Calm /\ excused' = {}
             /\ o.kind = "create" => CreateOK(o)'
             /\ reg' = NoEntry => o.kind = "create" /\ adopted' = adopted
             /\ reg' # reg => StandsOK' /\ Rests' /\ (reg'.eip <=> role' = "edge") /\ o.at = "wire"
             /\ reg' = reg /\ reg # NoEntry =>
                  /\ \/ adopted' = adopted /\ (op[c].at = "wire" => o.at = "wire")
                     \/ adopted' <=> role' = "edge"
                  /\ inst'[reg.inst] = inst[reg.inst]
                  /\ clash = "none" => address' = address
    PROVE  FleetInv'
<1>1. /\ op' \in [CLIs -> Command] /\ op'[c] = o
      /\ \A d \in CLIs : d # c => op'[d] = op[d] /\ op[d] \in Command
  BY DEF FleetInv, CommandsOK
<1>2. CommandsOK'
  <2>1. \A d \in CLIs : ShapeOK(op[d])
    BY DEF FleetInv, CommandsOK
  <2>2. \A d \in CLIs : ShapeOK(op'[d])
    BY <1>1, <2>1
  <2>3. ASSUME NEW d \in CLIs PROVE ShapeOK(op[d])'
    BY <2>2 DEF ShapeOK, StageOK
  <2> QED
    BY <1>1, <2>3 DEF CommandsOK
<1>3. ClashOK'
  BY <1>1 DEF FleetInv, ClashOK, Active
<1>4. CASE clash = "mixed"
  BY <1>2, <1>3, <1>4 DEF FleetInv, NoStray, Calm
<1>5. CASE clash # "mixed"
  <2>1. OwnOK'
    BY <1>1, <1>5, NoneIsNoId DEF FleetInv, OwnOK, Free
  <2>2. ASSUME NEW d \in CLIs PROVE HeldOK(op[d])'
    <3>1. CASE d = c
      <4>1. HeldOK(o)'
        BY <1>5
      <4> QED
        BY <1>1, <3>1, <4>1 DEF HeldOK, Alive, TearsDown, Working
    <3>2. CASE d # c
      <4>1. PICK q \in Command : q = op[d] /\ op'[d] = q
        BY <1>1, <3>2
      <4>2. HeldOK(q)'
        BY <1>5, <3>2, <4>1, OthersKeep
      <4> QED
        BY <4>1, <4>2 DEF HeldOK, Alive, TearsDown, Working
    <3> QED
      BY <3>1, <3>2
  <2>3. NoStray'
    <3>1. SUFFICES ASSUME NEW i \in Ids, Alive(i)'
                   PROVE  reg'.inst = i \/ i \in excused' \/ \E d \in CLIs : op'[d].mine = i
      BY DEF NoStray
    <3>2. CASE i = op[c].mine \/ i = o.mine
      BY <1>1, <1>5, <3>1, <3>2
    <3>3. CASE i # op[c].mine /\ i # o.mine
      <4>1. reg.inst = i \/ i \in excused \/ \E d \in CLIs : op[d].mine = i
        BY <1>5, <3>1, <3>3 DEF FleetInv, NoStray, Alive
      <4>2. reg.inst = i => reg' = reg
        BY NoEntryIs, NoneIsNoId
      <4>3. ASSUME NEW d \in CLIs, op[d].mine = i PROVE op'[d].mine = i
        BY <1>1, <3>3, <4>3
      <4> QED
        BY <3>3, <4>1, <4>2, <4>3
    <3> QED
      BY <3>2, <3>3
  <2>4. ASSUME clash' = "none" PROVE ((reg = NoEntry => desired = {}) /\ \A d \in CLIs : DataOK(op[d]))'
    <3>1. desired' = {}
      BY <2>4, CreateFacts
    <3>2. o.at # "terminate"
      BY DEF ShapeOK, StageOK, Idle
    <3>3. o.at # "gate"
      BY DEF ShapeOK, StageOK, Idle
    <3>4. ASSUME NEW d \in CLIs PROVE op'[d].at \notin {"gate", "terminate"}
      BY <1>1, <1>5, <2>4, <3>2, <3>3, OnlyCreates, IdleIs
    <3> QED
      BY <3>1, <3>4 DEF DataOK
  <2>5. ASSUME Calm' PROVE CalmOK'
    <3>1. Calm /\ CalmOK /\ excused' = {}
      BY <2>5 DEF FleetInv
    <3>2. ASSUME NEW d \in CLIs PROVE JobOK(op[d])' /\ ~Working(op'[d]) /\ ~TearsDown(op'[d])
      <4>1. CASE d = c
        <5>1. o.kind = "create" => CreateOK(o)'
          BY <2>5
        <5>2. ~Working(o)
          BY DEF Working
        <5>3. ~TearsDown(o)
          BY DEF TearsDown, ShapeOK, StageOK, Idle
        <5> QED
          BY <1>1, <4>1, <5>1, <5>2, <5>3 DEF JobOK, CreateOK, Working, TearsDown
      <4>2. CASE d # c
        <5>1. PICK q \in Command : q = op[d] /\ op'[d] = q
          BY <1>1, <4>2
        <5>2. q.kind = "create" => CreateOK(q)'
          BY <1>5, <3>1, <4>2, <5>1, OthersKeep
        <5>3. ShapeOK(q) /\ (q = Idle \/ q.kind = "create")
          BY <1>5, <4>2, <5>1, OnlyCreates
        <5>4. ~Working(q)
          BY <5>3, IdleIs DEF Working
        <5>5. ~TearsDown(q)
          BY <5>3 DEF TearsDown, ShapeOK, StageOK, Idle
        <5> QED
          BY <5>1, <5>2, <5>4, <5>5 DEF JobOK, CreateOK, Working, TearsDown
      <4> QED
        BY <4>1, <4>2
    <3>3. ASSUME NEW d \in CLIs PROVE ~Working(op[d]) /\ ~TearsDown(op[d])
      <4>1. CASE d = c
        BY <4>1, CreateFacts DEF Working, TearsDown, ShapeOK, StageOK
      <4>2. CASE d # c
        BY <1>5, <4>2, OnlyCreates, IdleIs DEF Working, TearsDown, ShapeOK, StageOK
      <4> QED
        BY <4>1, <4>2
    <3>4. reg' = NoEntry => desired' = {} /\ ~adopted' /\ op'[c].kind = "create"
      <4>1. reg' = NoEntry => reg = NoEntry
        BY NoEntryIs
      <4> QED
        BY <1>1, <2>5, <3>1, <4>1 DEF CalmOK
    <3>5. reg' # NoEntry => /\ reg'.eip <=> role' = "edge"
                            /\ StandsOK' /\ Rests'
                            /\ (adopted' <=> role' = "edge") \/ \E d \in CLIs : op'[d].at = "wire"
      <4>1. CASE reg' # reg
        BY <1>1, <2>5, <4>1
      <4>2. CASE reg' = reg /\ reg # NoEntry
        <5>1. /\ reg.eip <=> role = "edge"
              /\ StandsOK /\ Rests
              /\ (adopted <=> role = "edge") \/ \E d \in CLIs : op[d].at = "wire"
          BY <3>1, <3>3, <4>2 DEF CalmOK
        <5>2. StandsOK' /\ Rests'
          BY <2>5, <4>2, <5>1 DEF StandsOK, Rests
        <5>3. (adopted' <=> role' = "edge") \/ \E d \in CLIs : op'[d].at = "wire"
          <6>1. CASE adopted' <=> role' = "edge"
            BY <6>1
          <6>2. CASE adopted' = adopted /\ (op[c].at = "wire" => o.at = "wire")
            <7>1. CASE adopted <=> role = "edge"
              BY <6>2, <7>1
            <7>2. ASSUME NEW d \in CLIs, op[d].at = "wire" PROVE op'[d].at = "wire"
              BY <1>1, <6>2, <7>2
            <7> QED
              BY <5>1, <7>1, <7>2
          <6> QED
            BY <2>5, <4>2, <6>1, <6>2
        <5> QED
          BY <4>2, <5>1, <5>2, <5>3
      <4> QED
        BY <4>1, <4>2
    <3> QED
      BY <3>1, <3>2, <3>4, <3>5 DEF CalmOK
  <2> QED
    BY <1>2, <1>3, <2>1, <2>2, <2>3, <2>4, <2>5 DEF FleetInv
<1> QED
  BY <1>4, <1>5

(* After a fault a create need only leave what the others rely on.          *)
LEMMA FaultTurn ==
    ASSUME FleetInv, NEW c \in CLIs, op[c].kind = "create", ~Calm',
           NEW o \in Command, op' = [op EXCEPT ![c] = o], ShapeOK(o), o.kind \in {"create", "idle"},
           o.mine \in {op[c].mine, None},
           WorldOK', role' = role, clash' = clash, desired' = desired,
           \A i \in Ids : i # op[c].mine => inst'[i] = inst[i],
           reg' = reg \/ (reg = NoEntry /\ reg' \in Entry /\ reg'.inst = op[c].mine),
           iam => iam', group => group', excused \subseteq excused',
           clash # "mixed" =>
             /\ HeldOK(o)'
             /\ \A i \in Ids : i = op[c].mine /\ Alive(i)' =>
                  reg'.inst = i \/ i \in excused' \/ o.mine = i
    PROVE  FleetInv'
<1>1. \A i \in excused : i \in excused' \/ i = o.mine
  OBVIOUS
<1>2. \A i \in Ids : i # op[c].mine /\ i # o.mine => inst'[i] = inst[i]
  OBVIOUS
<1> QED
  BY <1>1, <1>2, CreateTurn

(* Until the launch a create has no instance.                                *)
LEMMA EarlyFailInv ==
    ASSUME FleetInv, NEW c \in CLIs, op[c].kind = "create", op[c].mine = None, Leave(c), Fault,
           UNCHANGED <<role, reg, inst, address, desired, adopted, clash, excused>>,
           binary' \in BOOLEAN, group' \in {group, TRUE}, iam' \in {iam, TRUE}
    PROVE  FleetInv'
<1>1. op' = [op EXCEPT ![c] = Idle]
  BY LeaveIs
<1>2. WorldOK' /\ ~Calm'
  BY CreateFacts, FaultEnds DEF WorldOK
<1>3. HeldOK(Idle)'
  BY IdleIs DEF HeldOK, Working, TearsDown
<1>4. iam => iam'
  OBVIOUS
<1>5. group => group'
  OBVIOUS
<1>6. \A i \in Ids : i # op[c].mine
  BY NoneIsNoId
<1>7. inst' = inst /\ reg' = reg /\ excused \subseteq excused'
  OBVIOUS
<1> QED
  BY <1>1, <1>2, <1>3, <1>4, <1>5, <1>6, <1>7, IdleIs, FaultTurn

(* The role, the profile and the group are ensured.                          *)
LEMMA PrepareInv == ASSUME FleetInv, NEW c \in CLIs, Prepare(c) PROVE FleetInv'
<1>1. op[c].kind = "create" /\ op[c].at = "prepare"
  BY DEF Prepare, At
<1>2. UNCHANGED <<role, reg, inst, address, group, desired, adopted, clash, excused>> /\ binary' = TRUE
  BY DEF Prepare, ghost
<1>3. /\ op \in [CLIs -> Command] /\ op[c] \in Command /\ ShapeOK(op[c]) /\ WorldOK
      /\ op[c].mine = None
  BY <1>1, CreateFacts DEF ShapeOK
<1>4. CASE iam' \in {iam, TRUE} /\ Leave(c) /\ Fault
  BY <1>1, <1>2, <1>3, <1>4, EarlyFailInv
<1>5. CASE iam' = TRUE /\ Goto(c, "group") /\ Steady
  <2>1. PICK o \in Command :
             /\ op' = [op EXCEPT ![c] = o]
             /\ o.at = "group" /\ o.kind = op[c].kind /\ o.seen = op[c].seen /\ o.mine = op[c].mine
             /\ o.eip = op[c].eip /\ o.services = op[c].services
    BY <1>3, <1>5, GotoIs DEF Stages
  <2>2. ShapeOK(o)
    BY <1>1, <1>3, <2>1 DEF ShapeOK, StageOK
  <2>3. WorldOK'
    BY <1>2, <1>3, <1>5 DEF WorldOK, Steady
  <2>4. HeldOK(o)'
    BY <1>1, <2>1 DEF HeldOK, Working, TearsDown
  <2>5. Calm' => Calm /\ CreateOK(o)' /\ excused' = {}
    <3>1. Calm' => Calm /\ CreateOK(op[c]) /\ excused = {}
      BY <1>1, <1>2, <1>5, CreateFacts DEF Calm, Steady
    <3> QED
      BY <1>1, <1>2, <1>3, <1>5, <2>1, <3>1 DEF CreateOK
  <2> QED
    BY <1>1, <1>2, <1>3, <1>5, <2>1, <2>2, <2>3, <2>4, <2>5, NoneIsNoId, CreateTurn
<1> QED
  BY <1>4, <1>5 DEF Prepare

(* The security group is ensured.                                           *)
LEMMA GroupInv == ASSUME FleetInv, NEW c \in CLIs, Group(c) PROVE FleetInv'
<1>1. op[c].kind = "create" /\ op[c].at = "group"
  BY DEF Group, At
<1>2. UNCHANGED <<role, reg, inst, address, iam, desired, adopted, clash, excused, binary>>
  BY DEF Group, ghost, state
<1>3. /\ op \in [CLIs -> Command] /\ op[c] \in Command /\ ShapeOK(op[c]) /\ WorldOK
      /\ op[c].mine = None
  BY <1>1, CreateFacts DEF ShapeOK
<1>4. CASE group' \in {group, TRUE} /\ Leave(c) /\ Fault
  BY <1>1, <1>2, <1>3, <1>4, EarlyFailInv DEF WorldOK
<1>5. CASE group' = TRUE /\ Goto(c, "launch") /\ Steady
  <2>1. PICK o \in Command :
             /\ op' = [op EXCEPT ![c] = o]
             /\ o.at = "launch" /\ o.kind = op[c].kind /\ o.seen = op[c].seen /\ o.mine = op[c].mine
             /\ o.eip = op[c].eip /\ o.services = op[c].services
    BY <1>3, <1>5, GotoIs DEF Stages
  <2>2. ShapeOK(o)
    BY <1>1, <1>3, <2>1 DEF ShapeOK, StageOK
  <2>3. WorldOK'
    BY <1>2, <1>3, <1>5 DEF WorldOK, Steady
  <2>4. HeldOK(o)'
    BY <1>1, <2>1 DEF HeldOK, Working, TearsDown
  <2>5. Calm' => Calm /\ CreateOK(o)' /\ excused' = {}
    <3>1. Calm' => Calm /\ CreateOK(op[c]) /\ excused = {}
      BY <1>1, <1>2, <1>5, CreateFacts DEF Calm, Steady
    <3> QED
      BY <1>1, <1>2, <1>3, <1>5, <2>1, <3>1 DEF CreateOK
  <2> QED
    BY <1>1, <1>2, <1>3, <1>5, <2>1, <2>2, <2>3, <2>4, <2>5, NoneIsNoId, CreateTurn
<1> QED
  BY <1>4, <1>5 DEF Group

(* What RunInstances makes of an id that nothing names.                      *)
LEMMA LaunchedIs ==
    ASSUME inst \in [Ids -> [state : {"pending", "running", "stopping", "stopped", "dying", "gone"},
                             type : Types]],
           NEW i \in Ids, NEW t \in Types,
           inst' = [inst EXCEPT ![i] = [state |-> "pending", type |-> t]]
    PROVE  /\ inst' \in [Ids -> [state : {"pending", "running", "stopping", "stopped", "dying", "gone"},
                           type : Types]]
           /\ inst'[i].state = "pending" /\ inst'[i].type = t
           /\ \A j \in Ids : j # i => inst'[j] = inst[j]
OBVIOUS

(* ... and of the command that launched it.                                 *)
LEMMA LaunchesIs ==
    ASSUME op \in [CLIs -> Command], NEW c \in CLIs, NEW i \in Ids,
           op' = [op EXCEPT ![c].at = "boot", ![c].mine = i]
    PROVE  \E o \in Command :
             /\ op' = [op EXCEPT ![c] = o]
             /\ o.at = "boot" /\ o.kind = op[c].kind /\ o.seen = op[c].seen /\ o.mine = i
             /\ o.eip = op[c].eip /\ o.services = op[c].services
<1> DEFINE o == [op[c] EXCEPT !.at = "boot", !.mine = i]
<1>1. op' = [op EXCEPT ![c] = o]
  BY Zenon
<1>2. op[c] \in Command
  OBVIOUS
<1>3. o \in Command
  BY <1>2 DEF Command, Stages
<1>4. /\ o.at = "boot" /\ o.kind = op[c].kind /\ o.seen = op[c].seen /\ o.mine = i
      /\ o.eip = op[c].eip /\ o.services = op[c].services
  BY <1>2 DEF Command
<1> QED
  BY <1>1, <1>3, <1>4

(* RunInstances, for a create or for a reconcile that found no instance.     *)
LEMMA LaunchInv == ASSUME FleetInv, NEW c \in CLIs, Launch(c) PROVE FleetInv'
<1>1. op[c].kind \in {"create", "reconcile"} /\ op[c].at = "launch"
  BY DEF Launch, At, Launching
<1>2. UNCHANGED <<role, reg, desired, adopted, address, group, iam, clash>>
  BY DEF Launch, ghost
<1>3. /\ op \in [CLIs -> Command] /\ op[c] \in Command /\ ShapeOK(op[c]) /\ WorldOK
      /\ op[c].mine = None
  BY <1>1 DEF FleetInv, CommandsOK, ShapeOK
<1>4. binary' \in BOOLEAN
  BY <1>1, <1>3 DEF Launch, WorldOK
<1>5. op[c].kind = "reconcile" => /\ Working(op[c]) /\ ~TearsDown(op[c])
                                  /\ op[c].seen \in Entry
                                  /\ clash # "mixed" => AloneOK(op[c]) /\ reg = op[c].seen
                                  /\ ~Calm
  <2>1. SUFFICES ASSUME op[c].kind = "reconcile"
                 PROVE  /\ Working(op[c]) /\ ~TearsDown(op[c])
                        /\ op[c].seen \in Entry
                        /\ clash # "mixed" => AloneOK(op[c]) /\ reg = op[c].seen
                        /\ ~Calm
    OBVIOUS
  <2>2. /\ Working(op[c]) /\ ~TearsDown(op[c]) /\ op[c].seen \in Entry
    BY <1>1, <1>3, <2>1 DEF Working, TearsDown, ShapeOK
  <2>3. clash # "mixed" => AloneOK(op[c]) /\ reg = op[c].seen
    BY <1>1, <2>2, WorkFacts DEF AloneOK, HeldOK
  <2>4. ~Calm
    BY <1>1, <2>1, <2>2, <2>3, WorkFacts, NoEntryIs DEF Calm, WorkOK
  <2> QED
    BY <2>2, <2>3, <2>4
<1>6. CASE Leave(c) /\ Fault /\ UNCHANGED <<inst, excused>>
  <2>1. CASE op[c].kind = "create"
    BY <1>2, <1>3, <1>4, <1>6, <2>1, EarlyFailInv
  <2>2. CASE op[c].kind = "reconcile"
    BY <1>2, <1>3, <1>4, <1>5, <1>6, <2>2, EndInv, FaultEnds DEF WorldOK
  <2> QED
    BY <1>1, <2>1, <2>2
<1>7. CASE (~group \/ ~iam) /\ Leave(c) /\ Steady /\ UNCHANGED <<inst, excused>>
  <2>0. Calm' => Calm
    BY <1>2, <1>7 DEF Calm, Steady
  <2>1. CASE op[c].kind = "create"
    <3>1. ~Calm
      BY <1>1, <1>7, <2>1, CreateFacts DEF CreateOK
    <3>2. op' = [op EXCEPT ![c] = Idle]
      BY <1>7, LeaveIs
    <3>3. WorldOK'
      BY <1>2, <1>3, <1>4, <1>7 DEF WorldOK, Steady
    <3>4. HeldOK(Idle)'
      BY IdleIs DEF HeldOK, Working, TearsDown
    <3> QED
      BY <1>2, <1>3, <1>7, <2>0, <2>1, <3>1, <3>2, <3>3, <3>4, IdleIs, NoneIsNoId, CreateTurn
  <2>2. CASE op[c].kind = "reconcile"
    BY <1>2, <1>3, <1>4, <1>5, <1>7, <2>0, <2>2, EndInv DEF WorldOK, Steady
  <2> QED
    BY <1>1, <2>1, <2>2
<1>8. ASSUME NEW i \in Ids, Free(i), NEW t \in Types,
             t = (IF op[c].kind = "create" THEN "small" ELSE op[c].seen.type),
             inst' = [inst EXCEPT ![i] = [state |-> "pending", type |-> t]],
             excused' = excused \ {i}, Steady, group, iam,
             op' = [op EXCEPT ![c].at = "boot", ![c].mine = i]
      PROVE  FleetInv'
  <2>0. /\ inst' \in [Ids -> [state : {"pending", "running", "stopping", "stopped", "dying", "gone"},
                           type : Types]]
        /\ inst'[i].state = "pending" /\ inst'[i].type = t
        /\ \A j \in Ids : j # i => inst'[j] = inst[j]
    <3>1. inst \in [Ids -> [state : {"pending", "running", "stopping", "stopped", "dying", "gone"},
                           type : Types]]
      BY <1>3 DEF WorldOK
    <3>2. inst' = [inst EXCEPT ![i] = [state |-> "pending", type |-> t]]
      BY <1>8
    <3> QED
      BY <3>1, <3>2, LaunchedIs
  <2>1. WorldOK'
    BY <1>2, <1>3, <1>4, <1>8, <2>0 DEF WorldOK, Steady
  <2>2. PICK o \in Command :
                /\ op' = [op EXCEPT ![c] = o]
                /\ o.at = "boot" /\ o.kind = op[c].kind /\ o.seen = op[c].seen /\ o.mine = i
                /\ o.eip = op[c].eip /\ o.services = op[c].services
    <3>1. op' = [op EXCEPT ![c].at = "boot", ![c].mine = i]
      BY <1>8
    <3> QED
      BY <1>3, <3>1, LaunchesIs
  <2>3. ShapeOK(o)
    BY <1>1, <1>3, <2>2 DEF ShapeOK, StageOK
  <2>4. Calm' => Calm
    BY <1>2, <1>8 DEF Calm, Steady
  <2>5. CASE op[c].kind = "create"
    <3>1. HeldOK(o)'
      BY <2>2, <2>5 DEF HeldOK, Working, TearsDown
    <3>2. ASSUME Calm' PROVE CreateOK(o)' /\ excused' = {} /\ Calm
      <4>1. Calm /\ CreateOK(op[c]) /\ excused = {}
        BY <2>4, <2>5, <3>2, CreateFacts
      <4>2. t = "small" /\ reg'.inst # i
        BY <1>2, <1>8, <2>5 DEF Free
      <4> QED
        BY <1>1, <1>2, <1>8, <2>0, <2>2, <4>1, <4>2 DEF CreateOK
    <3>3. reg # NoEntry => inst'[reg.inst] = inst[reg.inst]
      BY <1>3, <1>8, <2>0 DEF WorldOK, Free, Entry
    <3>4. \A j \in excused : j \in excused' \/ j = o.mine
      BY <1>8, <2>2
    <3> QED
      <4>1. o.mine \in Ids /\ Free(o.mine) /\ o.kind \in {"create", "idle"}
        BY <1>8, <2>2, <2>5
      <4>2. \A j \in Ids : j # op[c].mine /\ j # o.mine => inst'[j] = inst[j]
        BY <2>0, <2>2
      <4>3. /\ role' = role /\ clash' = clash /\ desired' = desired /\ reg' = reg
            /\ adopted' = adopted /\ address' = address
        BY <1>2
      <4>4. iam => iam'
        BY <1>2
      <4>5. group => group'
        BY <1>2
      <4>6. \A j \in Ids : j # op[c].mine
        BY <1>3, NoneIsNoId
      <4>7. clash # "mixed" =>
             /\ HeldOK(o)'
             /\ \A j \in Ids : j = op[c].mine /\ Alive(j)' =>
                  reg'.inst = j \/ j \in excused' \/ o.mine = j
        BY <3>1, <4>6
      <4>8. Calm' =>
             /\ Calm /\ excused' = {}
             /\ o.kind = "create" => CreateOK(o)'
             /\ reg' = NoEntry => o.kind = "create" /\ adopted' = adopted
             /\ reg' # reg => StandsOK' /\ Rests' /\ (reg'.eip <=> role' = "edge") /\ o.at = "wire"
             /\ reg' = reg /\ reg # NoEntry =>
                  /\ \/ adopted' = adopted /\ (op[c].at = "wire" => o.at = "wire")
                     \/ adopted' <=> role' = "edge"
                  /\ inst'[reg.inst] = inst[reg.inst]
                  /\ clash = "none" => address' = address
        BY <1>1, <2>2, <2>5, <3>2, <3>3, <4>3
      <4> QED
        BY <2>1, <2>2, <2>3, <2>5, <3>4, <4>1, <4>2, <4>3, <4>4, <4>5, <4>7, <4>8, CreateTurn
  <2>6. CASE op[c].kind = "reconcile"
    <3>1. ~Calm'
      BY <1>5, <2>4, <2>6
    <3>2. ASSUME clash # "mixed" PROVE AloneOK(o)'
      <4>1. AloneOK(op[c]) /\ reg = op[c].seen
        BY <1>5, <2>6, <3>2
      <4>2. op[c].seen.inst # i /\ op[c].seen.inst \in Ids /\ reg.inst # i
        BY <1>5, <1>8, <2>6 DEF Free, Entry
      <4>3. HeldOK(o)'
        BY <1>1, <1>2, <2>0, <2>2, <2>6, <4>1, <4>2 DEF AloneOK, HeldOK, TearsDown
      <4>4. StrayOK(o)'
        BY <1>2, <1>3, <1>8, <2>0, <2>2, <4>1, <4>2, NoneIsNoId DEF AloneOK, StrayOK, Alive
      <4>5. clash' = "none" => (reg' = NoEntry => desired' = {}) /\ DataOK(o)'
        BY <1>2, <2>2, <2>6, <4>1 DEF AloneOK, DataOK
      <4> QED
        BY <3>1, <4>3, <4>4, <4>5 DEF AloneOK
    <3> QED
      BY <1>2, <1>5, <2>1, <2>2, <2>3, <2>6, <3>2, WorkTurn
  <2> QED
    BY <1>1, <2>5, <2>6
<1>9. CASE /\ group /\ iam /\ Steady
           /\ {i \in Ids : Free(i)} # {}
           /\ LET i == CHOOSE j \in {k \in Ids : Free(k)} : TRUE
              IN /\ inst' = [inst EXCEPT ![i] =
                       [state |-> "pending",
                        type |-> IF op[c].kind = "create" THEN "small" ELSE op[c].seen.type]]
                 /\ excused' = excused \ {i}
                 /\ op' = [op EXCEPT ![c].at = "boot", ![c].mine = i]
  <2> DEFINE i == CHOOSE j \in {k \in Ids : Free(k)} : TRUE
  <2>1. i \in Ids /\ Free(i)
    BY <1>9
  <2>2. (IF op[c].kind = "create" THEN "small" ELSE op[c].seen.type) \in Types
    BY <1>1, <1>5 DEF Entry, Types
  <2> HIDE DEF i
  <2>3. /\ inst' = [inst EXCEPT ![i] =
                       [state |-> "pending",
                        type |-> IF op[c].kind = "create" THEN "small" ELSE op[c].seen.type]]
        /\ excused' = excused \ {i}
        /\ op' = [op EXCEPT ![c].at = "boot", ![c].mine = i]
    BY <1>9 DEF i
  <2> QED
    BY <1>8, <1>9, <2>1, <2>2, <2>3
<1> QED
  BY <1>6, <1>7, <1>9 DEF Launch

(* A create goes on beside a registry entry that it does not touch.          *)
LEMMA StayTurn ==
    ASSUME FleetInv, NEW c \in CLIs, op[c].kind = "create", op[c].at # "wire",
           NEW o \in Command, op' = [op EXCEPT ![c] = o], ShapeOK(o), o.kind \in {"create", "idle"},
           o.mine \in {op[c].mine, None},
           WorldOK', UNCHANGED <<role, reg, desired, adopted, clash, group, iam, excused>>,
           \A i \in Ids : i # op[c].mine => inst'[i] = inst[i],
           clash # "mixed" =>
             /\ HeldOK(o)'
             /\ \A i \in Ids : i = op[c].mine /\ Alive(i)' =>
                  reg.inst = i \/ i \in excused \/ o.mine = i,
           Calm' =>
             /\ Calm
             /\ o.kind = "create" => CreateOK(o)'
             /\ reg = NoEntry => o.kind = "create"
             /\ reg # NoEntry => /\ inst'[reg.inst] = inst[reg.inst]
                                 /\ clash = "none" => address' = address
    PROVE  FleetInv'
<1>1. \A i \in Ids : i # op[c].mine /\ i # o.mine => inst'[i] = inst[i]
  OBVIOUS
<1>2. iam => iam'
  OBVIOUS
<1>3. group => group'
  OBVIOUS
<1>4. /\ role' = role /\ reg' = reg /\ desired' = desired /\ clash' = clash /\ excused' = excused
      /\ \A i \in excused : i \in excused' \/ i = o.mine
  OBVIOUS
<1>5. clash # "mixed" =>
        /\ HeldOK(o)'
        /\ \A i \in Ids : i = op[c].mine /\ Alive(i)' =>
             reg'.inst = i \/ i \in excused' \/ o.mine = i
  BY <1>4
<1>6. Calm' =>
        /\ Calm /\ excused' = {}
        /\ o.kind = "create" => CreateOK(o)'
        /\ reg' = NoEntry => o.kind = "create" /\ adopted' = adopted
        /\ reg' # reg => StandsOK' /\ Rests' /\ (reg'.eip <=> role' = "edge") /\ o.at = "wire"
        /\ reg' = reg /\ reg # NoEntry =>
             /\ \/ adopted' = adopted /\ (op[c].at = "wire" => o.at = "wire")
                \/ adopted' <=> role' = "edge"
             /\ inst'[reg.inst] = inst[reg.inst]
             /\ clash = "none" => address' = address
  BY <1>4, CreateFacts
<1> QED
  BY <1>1, <1>2, <1>3, <1>4, <1>5, <1>6, CreateTurn

(* A reconcile that launches had found its instance gone.                    *)
LEMMA RelaunchFacts ==
    ASSUME FleetInv, NEW c \in CLIs, op[c].kind = "reconcile", op[c].mine # None
    PROVE  /\ Working(op[c]) /\ ~Calm
           /\ op[c].at \in {"boot", "address", "put"} /\ ~TearsDown(op[c])
           /\ op[c].seen \in Entry
           /\ clash # "mixed" => AloneOK(op[c]) /\ reg = op[c].seen /\ reg # NoEntry
<1>1. Working(op[c])
  BY DEF Working
<1>2. op[c].at \in {"boot", "address", "put"}
  BY <1>1, WorkFacts DEF ShapeOK, StageOK
<1>3. ~TearsDown(op[c]) /\ op[c].seen \in Entry
  BY <1>1, <1>2, WorkFacts DEF TearsDown, ShapeOK
<1>4. clash # "mixed" => AloneOK(op[c]) /\ reg = op[c].seen /\ reg # NoEntry
  BY <1>1, <1>2, <1>3, WorkFacts, NoEntryIs DEF AloneOK, HeldOK
<1>5. ~Calm
  BY <1>1, <1>3, <1>4, WorkFacts DEF Calm, WorkOK
<1> QED
  BY <1>1, <1>2, <1>3, <1>4, <1>5

(* The wait for the instance to run.                                         *)
LEMMA BootInv == ASSUME FleetInv, NEW c \in CLIs, Boot(c) PROVE FleetInv'
<1>1. op[c].kind \in {"create", "reconcile"} /\ op[c].at = "boot"
  BY DEF Boot, At, Launching
<1>2. UNCHANGED <<role, reg, inst, address, group, iam, binary, adopted, desired, clash, excused>>
  BY DEF Boot, ghost, state, cloud
<1>3. /\ op \in [CLIs -> Command] /\ op[c] \in Command /\ ShapeOK(op[c]) /\ WorldOK
      /\ op[c].mine \in Ids
  BY <1>1 DEF FleetInv, CommandsOK, ShapeOK
<1> DEFINE l == IF role = "edge" THEN "address" ELSE "put"
<1>4. Goto(c, l) /\ l \in Stages
  BY DEF Boot, Stages
<1> HIDE DEF l
<1>5. PICK o \in Command :
             /\ op' = [op EXCEPT ![c] = o]
             /\ o.at = l /\ o.kind = op[c].kind /\ o.seen = op[c].seen /\ o.mine = op[c].mine
             /\ o.eip = op[c].eip /\ o.services = op[c].services /\ o.flag = op[c].flag
  BY <1>3, <1>4, GotoIs
<1>6. ShapeOK(o)
  BY <1>1, <1>3, <1>5 DEF ShapeOK, StageOK, l
<1>7. WorldOK'
  BY <1>2, <1>3 DEF WorldOK, Boot, Fault, Steady
<1>8. Calm' => Calm /\ inst[op[c].mine].state # "pending"
  BY <1>2, FaultEnds DEF Calm, Boot, Steady
<1>9. CASE op[c].kind = "create"
  <2>1. HeldOK(o)'
    BY <1>5, <1>9 DEF HeldOK, Working, TearsDown, l
  <2>2. Calm' =>
             /\ Calm
             /\ CreateOK(o)'
             /\ o.kind = "create"
    <3>1. Calm' => CreateOK(op[c])
      BY <1>8, <1>9, CreateFacts
    <3> QED
      BY <1>1, <1>2, <1>3, <1>5, <1>8, <1>9, <3>1 DEF CreateOK, l, WorldOK
  <2>3. inst' = inst /\ address' = address
    BY <1>2
  <2>4. \A i \in Ids : i = op[c].mine => o.mine = i
    BY <1>5
  <2> QED
    BY <1>1, <1>2, <1>5, <1>6, <1>7, <1>9, <2>1, <2>2, <2>3, <2>4, StayTurn
<1>10. CASE op[c].kind = "reconcile"
  <2>1. /\ Working(op[c]) /\ ~Calm /\ ~TearsDown(op[c])
        /\ clash # "mixed" => AloneOK(op[c])
    BY <1>3, <1>10, NoneIsNoId, RelaunchFacts
  <2>2. clash # "mixed" => HeldOK(o)
    BY <1>1, <1>5, <1>10, <2>1 DEF AloneOK, HeldOK, Working, TearsDown, l
  <2>3. clash = "none" => DataOK(o)
    BY <1>5, <2>1 DEF AloneOK, DataOK, l
  <2>4. ~TearsDown(o)
    BY <1>5 DEF TearsDown, l
  <2>5. faults' \in Nat
    BY <1>7 DEF WorldOK
  <2> QED
    BY <1>2, <1>5, <1>6, <1>8, <2>1, <2>2, <2>3, <2>4, <2>5, GoOnInv
<1> QED
  BY <1>1, <1>9, <1>10

(* What a failed create goes on with.                                        *)
LEMMA FailedIs ==
    ASSUME op \in [CLIs -> Command], NEW c \in CLIs, op[c].kind = "create", Failed(c, op[c])
    PROVE  /\ excused' = excused
           /\ \E o \in Command :
                /\ op' = [op EXCEPT ![c] = o]
                /\ o.at = "cleanup" /\ o.kind = op[c].kind /\ o.seen = op[c].seen
                /\ o.mine = op[c].mine
                /\ o.eip = op[c].eip /\ o.services = op[c].services /\ o.flag = op[c].flag
<1> DEFINE o == [op[c] EXCEPT !.at = "cleanup"]
<1>1. excused' = excused /\ op' = [op EXCEPT ![c] = o]
  BY Zenon DEF Failed
<1>2. op[c] \in Command
  OBVIOUS
<1>3. o \in Command
  BY <1>2 DEF Command, Stages
<1>4. /\ o.at = "cleanup" /\ o.kind = op[c].kind /\ o.seen = op[c].seen /\ o.mine = op[c].mine
      /\ o.eip = op[c].eip /\ o.services = op[c].services /\ o.flag = op[c].flag
  BY <1>2 DEF Command
<1> QED
  BY <1>1, <1>3, <1>4

(* A create that fails after its launch, harmed or refused.                  *)
LEMMA FailInv ==
    ASSUME FleetInv, NEW c \in CLIs, op[c].kind = "create", op[c].at \in {"address", "put", "wire"},
           Failed(c, op[c]), WorldOK', UNCHANGED <<role, desired, clash, inst, group, iam>>,
           reg' = reg \/ (reg = NoEntry /\ reg' \in Entry /\ reg'.inst = op[c].mine),
           ~Calm'
    PROVE  FleetInv'
<1>1. /\ op \in [CLIs -> Command] /\ op[c] \in Command /\ ShapeOK(op[c])
      /\ op[c].mine \in Ids
  BY DEF FleetInv, CommandsOK, ShapeOK
<1>2. PICK o \in Command :
                /\ op' = [op EXCEPT ![c] = o]
                /\ o.at = "cleanup" /\ o.kind = op[c].kind /\ o.seen = op[c].seen
                /\ o.mine = op[c].mine
                /\ o.eip = op[c].eip /\ o.services = op[c].services
  BY <1>1, FailedIs
<1>3. excused' = excused
  BY <1>1, FailedIs
<1>4. ShapeOK(o)
  BY <1>1, <1>2 DEF ShapeOK, StageOK
<1>5. HeldOK(o)'
  BY <1>2 DEF HeldOK, Working, TearsDown
<1>6. iam => iam'
  OBVIOUS
<1>7. group => group'
  OBVIOUS
<1>8. inst' = inst /\ role' = role /\ clash' = clash /\ desired' = desired
  OBVIOUS
<1> QED
  BY <1>2, <1>3, <1>4, <1>5, <1>6, <1>7, <1>8, FaultTurn

(* The Elastic IP of an edge is found or allocated, and taken.               *)
LEMMA TakeAddressInv == ASSUME FleetInv, NEW c \in CLIs, TakeAddress(c) PROVE FleetInv'
<1>1. op[c].kind \in {"create", "reconcile"} /\ op[c].at = "address"
  BY DEF TakeAddress, At, Launching
<1>2. UNCHANGED <<role, reg, inst, group, iam, binary, adopted, desired, clash>>
  BY DEF TakeAddress, ghost, state
<1>3. /\ op \in [CLIs -> Command] /\ op[c] \in Command /\ ShapeOK(op[c]) /\ WorldOK
      /\ op[c].mine \in Ids /\ role = "edge" /\ address \in Address
  BY <1>1 DEF FleetInv, CommandsOK, ShapeOK, WorldOK
<1>4. op[c].kind = "reconcile" =>
        /\ Working(op[c]) /\ ~Calm /\ ~TearsDown(op[c])
        /\ clash # "mixed" => AloneOK(op[c]) /\ reg # NoEntry
  BY <1>3, NoneIsNoId, RelaunchFacts
<1>5. faults' = faults => (Calm' <=> Calm)
  BY <1>2 DEF Calm
<1>6. CASE /\ inst[op[c].mine].state = "running"
           /\ address' = op[c].mine
           /\ op' = [op EXCEPT ![c].at = "put", ![c].eip = TRUE]
           /\ Steady /\ UNCHANGED excused
  <2> DEFINE p == [op[c] EXCEPT !.at = "put", !.eip = TRUE]
  <2>1. op' = [op EXCEPT ![c] = p]
    BY <1>6, Zenon
  <2>2. p \in Command
    BY <1>3 DEF Command, Stages
  <2>3. /\ p.at = "put" /\ p.kind = op[c].kind /\ p.seen = op[c].seen /\ p.mine = op[c].mine
        /\ p.eip /\ p.services = op[c].services
    BY <1>3 DEF Command
  <2> HIDE DEF p
  <2>4. PICK o \in Command : o = p
    BY <2>2
  <2>5. ShapeOK(o)
    BY <1>1, <1>3, <2>3, <2>4 DEF ShapeOK, StageOK
  <2>6. WorldOK'
    BY <1>2, <1>3, <1>6 DEF WorldOK, Address, Steady
  <2>7. CASE op[c].kind = "create"
    <3>1. HeldOK(o)'
      BY <2>3, <2>4, <2>7 DEF HeldOK, Working, TearsDown
    <3>2. ASSUME Calm'
          PROVE  Calm /\ CreateOK(o)' /\ o.kind = "create"
                 /\ (clash = "none" => reg = NoEntry)
      <4>1. Calm /\ CreateOK(op[c])
        BY <1>5, <1>6, <2>7, <3>2, CreateFacts DEF Steady
      <4> QED
        BY <1>1, <1>2, <1>6, <2>3, <2>4, <2>7, <4>1 DEF CreateOK
    <3>3. inst' = inst
      BY <1>2
    <3>4. \A i \in Ids : i = op[c].mine => o.mine = i
      BY <2>3, <2>4
    <3>5. o.mine = op[c].mine /\ op' = [op EXCEPT ![c] = o] /\ o.kind \in {"create", "idle"}
      BY <2>1, <2>3, <2>4, <2>7
    <3> QED
      BY <1>1, <1>2, <1>6, <2>5, <2>6, <2>7, <3>1, <3>2, <3>3, <3>4, <3>5, StayTurn
  <2>8. CASE op[c].kind = "reconcile"
    <3>1. ~Calm'
      BY <1>4, <1>5, <1>6, <2>8 DEF Steady
    <3>2. ASSUME clash # "mixed" PROVE AloneOK(o)'
      <4>1. AloneOK(op[c]) /\ reg # NoEntry
        BY <1>4, <2>8, <3>2
      <4>2. HeldOK(o)'
        BY <1>1, <1>2, <2>3, <2>4, <2>8, <4>1 DEF AloneOK, HeldOK, TearsDown, Working
      <4>3. StrayOK(o)'
        BY <1>2, <1>6, <2>3, <2>4, <4>1 DEF AloneOK, StrayOK, Alive
      <4>4. clash' = "none" => (reg' = NoEntry => desired' = {}) /\ DataOK(o)'
        BY <1>2, <2>3, <2>4, <4>1 DEF AloneOK, DataOK
      <4> QED
        BY <3>1, <4>2, <4>3, <4>4 DEF AloneOK
    <3>3. op' = [op EXCEPT ![c] = o] /\ o.kind = op[c].kind /\ role' = role /\ clash' = clash
      BY <1>2, <2>1, <2>3, <2>4
    <3> QED
      BY <1>4, <2>5, <2>6, <2>8, <3>2, <3>3, WorkTurn
  <2> QED
    BY <1>1, <2>7, <2>8
<1>7. CASE /\ \/ inst[op[c].mine].state # "running" /\ Steady
              \/ Fault
           /\ address' \in {address, IF address = None THEN "idle" ELSE address}
           /\ Failed(c, op[c])
  <2>1. faults' \in Nat
    BY <1>3, <1>7, FaultEnds DEF WorldOK, Steady
  <2>2. address' \in Address
    BY <1>3, <1>7 DEF Address
  <2>3. CASE op[c].kind = "create"
    <3>1. excused' = excused
      BY <1>3, <1>7, <2>3, FailedIs
    <3>2. WorldOK'
      BY <1>2, <1>3, <2>1, <2>2, <3>1 DEF WorldOK
    <3>3. ~Calm'
      <4>1. CASE Fault
        BY <4>1, FaultEnds
      <4>2. CASE inst[op[c].mine].state # "running" /\ Steady
        BY <1>1, <1>5, <2>3, <4>2, CreateFacts DEF Steady, CreateOK
      <4> QED
        BY <1>7, <4>1, <4>2
    <3> QED
      BY <1>1, <1>2, <1>7, <2>3, <3>2, <3>3, FailInv
  <2>4. CASE op[c].kind = "reconcile"
    <3>1. Leave(c) /\ excused' = excused \cup {op[c].mine}
      BY <1>7, <2>4 DEF Failed
    <3>2. WorldOK'
      BY <1>2, <1>3, <2>1, <2>2, <3>1 DEF WorldOK
    <3>3. ~Calm'
      <4>1. CASE Fault
        BY <4>1, FaultEnds
      <4>2. CASE Steady
        BY <1>4, <1>5, <2>4, <4>2 DEF Steady
      <4> QED
        BY <1>7, <4>1, <4>2
    <3> QED
      BY <1>2, <1>4, <2>4, <3>1, <3>2, <3>3, HaltInv
  <2> QED
    BY <1>1, <2>3, <2>4
<1> QED
  BY <1>6, <1>7 DEF TakeAddress

(* The conditional write of node.json by a create.                           *)
LEMMA RegisterInv == ASSUME FleetInv, NEW c \in CLIs, Register(c) PROVE FleetInv'
<1> DEFINE entry == [inst |-> op[c].mine, type |-> "small", eip |-> op[c].eip,
                     state |-> "provisioning"]
<1>1. op[c].kind = "create" /\ op[c].at = "put"
  BY DEF Register, At
<1>2. UNCHANGED <<role, inst, address, group, iam, binary, desired, adopted, clash>>
  BY DEF Register, ghost, cloud
<1>3. /\ op \in [CLIs -> Command] /\ op[c] \in Command /\ ShapeOK(op[c]) /\ WorldOK
      /\ op[c].mine \in Ids /\ op[c].eip \in BOOLEAN
  BY <1>1 DEF FleetInv, CommandsOK, ShapeOK, Command
<1>4. /\ entry \in Entry /\ entry # NoEntry
      /\ entry.inst = op[c].mine /\ entry.type = "small" /\ entry.eip = op[c].eip
      /\ entry.state = "provisioning"
  BY <1>3, NoEntryIs DEF Entry, Types
<1> HIDE DEF entry
<1>5. faults' = faults => (Calm' <=> Calm)
  BY <1>2 DEF Calm
<1>6. Calm => CreateOK(op[c])
  BY <1>1, CreateFacts
<1>7. CASE reg = NoEntry /\ reg' = entry /\ Goto(c, "wire") /\ Steady /\ UNCHANGED excused
  <2>1. PICK o \in Command :
             /\ op' = [op EXCEPT ![c] = o]
             /\ o.at = "wire" /\ o.kind = op[c].kind /\ o.seen = op[c].seen /\ o.mine = op[c].mine
             /\ o.eip = op[c].eip /\ o.services = op[c].services
    BY <1>3, <1>7, GotoIs DEF Stages
  <2>2. ShapeOK(o)
    BY <1>1, <1>3, <2>1 DEF ShapeOK, StageOK
  <2>3. WorldOK'
    BY <1>2, <1>3, <1>4, <1>7 DEF WorldOK, Steady
  <2>4. HeldOK(o)'
    BY <1>1, <1>4, <1>7, <2>1 DEF HeldOK, Working, TearsDown
  <2>5. ASSUME Calm'
        PROVE  Calm /\ CreateOK(o)' /\ StandsOK' /\ Rests' /\ (reg'.eip <=> role' = "edge")
    <3>1. Calm /\ CreateOK(op[c])
      BY <1>5, <1>6, <1>7, <2>5 DEF Steady
    <3>2. CreateOK(o)'
      BY <1>1, <1>2, <2>1, <3>1 DEF CreateOK
    <3>3. group' /\ iam'
      BY <1>1, <1>2, <3>1 DEF CreateOK
    <3>4. clash' = "none" => address' = IF role' = "edge" THEN reg'.inst ELSE None
      BY <1>1, <1>2, <1>3, <1>4, <1>7, <3>1 DEF CreateOK, WorldOK
    <3>5. Rests'
      BY <1>1, <1>2, <1>4, <1>7, <3>1 DEF CreateOK, Rests
    <3>6. reg'.eip <=> role' = "edge"
      BY <1>1, <1>2, <1>3, <1>4, <1>7 DEF ShapeOK
    <3> QED
      BY <3>1, <3>2, <3>3, <3>4, <3>5, <3>6 DEF StandsOK
  <2>6. reg' \in Entry /\ reg' # NoEntry /\ reg'.inst = op[c].mine
    BY <1>4, <1>7
  <2>7. Calm' =>
          /\ Calm /\ excused' = {}
          /\ o.kind = "create" => CreateOK(o)'
          /\ reg' = NoEntry => o.kind = "create" /\ adopted' = adopted
          /\ reg' # reg => StandsOK' /\ Rests' /\ (reg'.eip <=> role' = "edge") /\ o.at = "wire"
          /\ reg' = reg /\ reg # NoEntry =>
               /\ \/ adopted' = adopted /\ (op[c].at = "wire" => o.at = "wire")
                  \/ adopted' <=> role' = "edge"
               /\ inst'[reg.inst] = inst[reg.inst]
               /\ clash = "none" => address' = address
    BY <1>1, <1>7, <2>1, <2>5, <2>6, CreateFacts
  <2>8. clash # "mixed" =>
          /\ HeldOK(o)'
          /\ \A i \in Ids : i = op[c].mine /\ Alive(i)' =>
               reg'.inst = i \/ i \in excused' \/ o.mine = i
    BY <2>1, <2>4
  <2>9. iam => iam'
    BY <1>2
  <2>10. group => group'
    BY <1>2
  <2>11. /\ inst' = inst /\ role' = role /\ clash' = clash /\ desired' = desired
         /\ \A i \in excused : i \in excused' \/ i = o.mine
    BY <1>2, <1>7
  <2>12. o.kind \in {"create", "idle"} /\ o.mine \in {op[c].mine, None}
    BY <1>1, <2>1
  <2> QED
    BY <1>1, <1>7, <2>1, <2>2, <2>3, <2>6, <2>7, <2>8, <2>9, <2>10, <2>11, <2>12, CreateTurn
<1>8. CASE reg # NoEntry /\ Failed(c, op[c]) /\ Steady /\ UNCHANGED reg
  <2>1. PICK o \in Command :
                /\ op' = [op EXCEPT ![c] = o]
                /\ o.at = "cleanup" /\ o.kind = op[c].kind /\ o.seen = op[c].seen
                /\ o.mine = op[c].mine
                /\ o.eip = op[c].eip /\ o.services = op[c].services
    BY <1>1, <1>3, <1>8, FailedIs
  <2>2. excused' = excused
    BY <1>1, <1>3, <1>8, FailedIs
  <2>3. ShapeOK(o)
    BY <1>1, <1>3, <2>1 DEF ShapeOK, StageOK
  <2>4. WorldOK'
    BY <1>2, <1>3, <1>8, <2>2 DEF WorldOK, Steady
  <2>5. HeldOK(o)'
    BY <1>1, <2>1 DEF HeldOK, Working, TearsDown
  <2>6. ASSUME Calm' PROVE Calm /\ CreateOK(o)'
    <3>1. Calm /\ CreateOK(op[c])
      BY <1>5, <1>6, <1>8, <2>6 DEF Steady
    <3> QED
      BY <1>1, <1>2, <1>8, <2>1, <3>1 DEF CreateOK
  <2>7. inst' = inst /\ address' = address /\ o.kind = "create"
    BY <1>1, <1>2, <2>1
  <2>8. \A i \in Ids : i = op[c].mine => o.mine = i
    BY <2>1
  <2> QED
    BY <1>1, <1>2, <1>8, <2>1, <2>2, <2>3, <2>4, <2>5, <2>6, <2>7, <2>8, StayTurn
<1>9. CASE reg' \in {reg, IF reg = NoEntry THEN entry ELSE reg} /\ Failed(c, op[c]) /\ Fault
  <2>1. excused' = excused
    BY <1>1, <1>3, <1>9, FailedIs
  <2>2. reg' = reg \/ (reg = NoEntry /\ reg' \in Entry /\ reg'.inst = op[c].mine)
    BY <1>4, <1>9
  <2>3. WorldOK' /\ ~Calm'
    BY <1>2, <1>3, <1>9, <2>1, <2>2, FaultEnds DEF WorldOK
  <2> QED
    BY <1>1, <1>2, <1>9, <2>2, <2>3, FailInv
<1> QED
  BY <1>7, <1>8, <1>9 DEF Register, entry

(* The cluster's default edge is named.                                      *)
LEMMA WireInv == ASSUME FleetInv, NEW c \in CLIs, Wire(c) PROVE FleetInv'
<1>1. op[c].kind = "create" /\ op[c].at = "wire"
  BY DEF Wire, At
<1>2. UNCHANGED <<role, reg, inst, address, group, iam, binary, desired, clash>>
  BY DEF Wire, ghost, cloud
<1>3. /\ op \in [CLIs -> Command] /\ op[c] \in Command /\ ShapeOK(op[c]) /\ WorldOK
      /\ op[c].mine \in Ids
  BY <1>1 DEF FleetInv, CommandsOK, ShapeOK
<1>4. faults' = faults => (Calm' <=> Calm)
  BY <1>2 DEF Calm
<1>5. CASE adopted' = (adopted \/ role = "edge") /\ Leave(c) /\ Steady /\ UNCHANGED excused
  <2>1. op' = [op EXCEPT ![c] = Idle]
    BY <1>5, LeaveIs
  <2>2. adopted' <=> role = "edge"
    BY <1>3, <1>5 DEF WorldOK
  <2>3. WorldOK'
    <3>1. adopted' \in BOOLEAN
      BY <1>5
    <3>2. adopted' => role' = "edge"
      BY <1>2, <2>2
    <3> QED
      BY <1>2, <1>3, <1>5, <3>1, <3>2 DEF WorldOK, Steady
  <2>4. HeldOK(Idle)'
    BY IdleIs DEF HeldOK, Working, TearsDown
  <2>5. clash # "mixed" => reg # NoEntry /\ reg.inst = op[c].mine
    BY <1>1, CreateFacts DEF HeldOK
  <2>6. Calm' => Calm /\ excused' = {} /\ reg # NoEntry
    BY <1>1, <1>4, <1>5, <2>5, CreateFacts DEF Steady, Calm
  <2>7. /\ inst' = inst /\ address' = address /\ reg' = reg /\ role' = role /\ clash' = clash
        /\ desired' = desired /\ excused' = excused
    BY <1>2, <1>5
  <2>8. adopted' <=> role' = "edge"
    BY <2>2, <2>7
  <2>9. Calm' =>
          /\ Calm /\ excused' = {}
          /\ Idle.kind = "create" => CreateOK(Idle)'
          /\ reg' = NoEntry => Idle.kind = "create" /\ adopted' = adopted
          /\ reg' # reg => StandsOK' /\ Rests' /\ (reg'.eip <=> role' = "edge") /\ Idle.at = "wire"
          /\ reg' = reg /\ reg # NoEntry =>
               /\ \/ adopted' = adopted /\ (op[c].at = "wire" => Idle.at = "wire")
                  \/ adopted' <=> role' = "edge"
               /\ inst'[reg.inst] = inst[reg.inst]
               /\ clash = "none" => address' = address
    <3>1. Idle.kind # "create"
      BY IdleIs
    <3> QED
      BY <2>6, <2>7, <2>8, <3>1
  <2>10. clash # "mixed" =>
          /\ HeldOK(Idle)'
          /\ \A i \in Ids : i = op[c].mine /\ Alive(i)' =>
               reg'.inst = i \/ i \in excused' \/ Idle.mine = i
    BY <2>4, <2>5, <2>7
  <2>11. iam => iam'
    BY <1>2
  <2>12. group => group'
    BY <1>2
  <2>13. \A i \in excused : i \in excused' \/ i = Idle.mine
    BY <2>7
  <2> QED
    BY <1>1, <2>1, <2>3, <2>7, <2>9, <2>10, <2>11, <2>12, <2>13, IdleIs, CreateTurn
<1>6. CASE Failed(c, op[c]) /\ Fault /\ UNCHANGED adopted
  <2>1. excused' = excused
    BY <1>1, <1>3, <1>6, FailedIs
  <2>2. WorldOK' /\ ~Calm'
    BY <1>2, <1>3, <1>6, <2>1, FaultEnds DEF WorldOK
  <2> QED
    BY <1>1, <1>2, <1>6, <2>2, FailInv
<1> QED
  BY <1>5, <1>6 DEF Wire

(* provisionNode's catch: what was launched is terminated.                   *)
LEMMA CleanupInv == ASSUME FleetInv, NEW c \in CLIs, Cleanup(c) PROVE FleetInv'
<1>1. op[c].kind = "create" /\ op[c].at = "cleanup"
  BY DEF Cleanup, At
<1>2. UNCHANGED <<role, reg, group, iam, binary, adopted, desired, clash>>
  BY DEF Cleanup, ghost, state
<1>3. /\ op \in [CLIs -> Command] /\ op[c] \in Command /\ ShapeOK(op[c]) /\ WorldOK
      /\ op[c].mine \in Ids
  BY <1>1 DEF FleetInv, CommandsOK, ShapeOK
<1>4. faults' = faults => (Calm' <=> Calm)
  BY <1>2 DEF Calm
<1>5. PICK i \in Ids : i = op[c].mine
  BY <1>3
<1>6. PICK o \in Command :
             /\ op' = [op EXCEPT ![c] = o]
             /\ \/ /\ o.at = "release" /\ o.kind = op[c].kind /\ o.seen = op[c].seen
                   /\ o.mine = op[c].mine /\ o.eip = op[c].eip /\ o.services = op[c].services
                \/ o = Idle
  <2>1. CASE Goto(c, "release")
    <3>1. "release" \in Stages
      BY DEF Stages
    <3> QED
      BY <1>3, <2>1, <3>1, GotoIs
  <2>2. CASE Leave(c)
    BY <2>2, LeaveIs, IdleIs
  <2> QED
    BY <2>1, <2>2 DEF Cleanup
<1>7. ShapeOK(o) /\ o.kind \in {"create", "idle"} /\ o.mine \in {op[c].mine, None}
  <2>1. CASE o = Idle
    BY <2>1, IdleIs
  <2>2. CASE /\ o.at = "release" /\ o.kind = op[c].kind /\ o.seen = op[c].seen
             /\ o.mine = op[c].mine /\ o.eip = op[c].eip /\ o.services = op[c].services
    BY <1>1, <1>3, <2>2 DEF ShapeOK, StageOK
  <2> QED
    BY <1>6, <2>1, <2>2
<1>8. ~Working(o) /\ ~TearsDown(o) /\ o.at \notin {"wire", "back"} /\ o.kind # "reconcile"
      /\ (o.at = "release" => o.mine = i)
  BY <1>1, <1>5, <1>6, IdleIs DEF Working, TearsDown
<1>9. CASE Doom(op[c].mine) /\ Steady /\ UNCHANGED excused
  <2>1. /\ inst' \in [Ids -> [state : {"pending", "running", "stopping", "stopped", "dying", "gone"},
                                 type : Types]]
        /\ \A j \in Ids : j # i => inst'[j] = inst[j]
        /\ ~Alive(i)'
        /\ address' \in Address /\ (address = None => address' = None)
    BY <1>3, <1>5, <1>9, DoomIs
  <2>2. WorldOK'
    BY <1>2, <1>3, <1>9, <2>1 DEF WorldOK, Steady
  <2>3. HeldOK(o)'
    BY <1>8, <2>1 DEF HeldOK
  <2>4. ASSUME Calm'
        PROVE  /\ Calm /\ reg # NoEntry /\ inst'[reg.inst] = inst[reg.inst] /\ clash # "none"
               /\ o.kind = "create" => CreateOK(o)'
    <3>1. Calm /\ CreateOK(op[c])
      BY <1>1, <1>4, <1>9, <2>4, CreateFacts DEF Steady
    <3>2. reg # NoEntry /\ clash # "none" /\ op[c].mine # reg.inst
      BY <1>1, <1>3, <3>1, NoneIsNoId DEF CreateOK
    <3>3. inst'[reg.inst] = inst[reg.inst]
      BY <1>3, <1>5, <2>1, <3>2 DEF WorldOK, Entry
    <3>4. o.kind = "create" => o.at = "release" /\ o.mine = op[c].mine
      BY <1>6, IdleIs
    <3>5. o.kind = "create" => CreateOK(o)'
      BY <1>1, <1>2, <3>1, <3>2, <3>4 DEF CreateOK
    <3> QED
      BY <3>1, <3>2, <3>3, <3>5
  <2>5. \A j \in Ids : j # op[c].mine => inst'[j] = inst[j]
    BY <1>5, <2>1
  <2>6. \A j \in Ids : j = op[c].mine => ~Alive(j)'
    BY <1>5, <2>1
  <2> QED
    BY <1>1, <1>2, <1>6, <1>7, <1>9, <2>2, <2>3, <2>4, <2>5, <2>6, StayTurn
<1>10. CASE Fault /\ excused' = excused \cup {op[c].mine} /\ UNCHANGED <<inst, address>>
  <2>1. WorldOK' /\ ~Calm'
    BY <1>2, <1>3, <1>10, FaultEnds DEF WorldOK
  <2>2. HeldOK(o)'
    BY <1>5, <1>8, <1>10 DEF HeldOK
  <2>3. /\ role' = role /\ clash' = clash /\ desired' = desired /\ inst' = inst /\ reg' = reg
        /\ excused \subseteq excused'
    BY <1>2, <1>10
  <2>4. iam => iam'
    BY <1>2
  <2>5. group => group'
    BY <1>2
  <2>6. \A j \in Ids : j = op[c].mine => j \in excused'
    BY <1>10
  <2> QED
    BY <1>1, <1>6, <1>7, <2>1, <2>2, <2>3, <2>4, <2>5, <2>6, FaultTurn
<1> QED
  BY <1>9, <1>10 DEF Cleanup

(* ... and the address it had taken is released.                             *)
LEMMA ReleaseInv == ASSUME FleetInv, NEW c \in CLIs, Release(c) PROVE FleetInv'
<1>1. op[c].kind = "create" /\ op[c].at = "release" /\ Leave(c)
  BY DEF Release, At
<1>2. UNCHANGED <<role, reg, inst, group, iam, binary, adopted, desired, clash, excused>>
  BY DEF Release, ghost, state
<1>3. /\ op \in [CLIs -> Command] /\ op[c] \in Command /\ ShapeOK(op[c]) /\ WorldOK
      /\ op[c].mine \in Ids
  BY <1>1 DEF FleetInv, CommandsOK, ShapeOK
<1>4. op' = [op EXCEPT ![c] = Idle]
  BY <1>1, LeaveIs
<1>5. address' \in {None, address} /\ faults' \in Nat
  BY <1>3, FaultEnds DEF Release, Steady, WorldOK
<1>6. WorldOK'
  BY <1>2, <1>3, <1>5 DEF WorldOK, Address
<1>7. Calm' => Calm /\ reg # NoEntry /\ clash # "none"
  <2>1. Calm' => Calm
    BY <1>2, FaultEnds DEF Release, Calm, Steady
  <2>2. Calm => CreateOK(op[c])
    BY <1>1, CreateFacts
  <2> QED
    BY <1>1, <2>1, <2>2 DEF CreateOK
<1>8. HeldOK(Idle)'
  BY IdleIs DEF HeldOK, Working, TearsDown
<1>9. clash # "mixed" => \A i \in Ids : i = op[c].mine /\ Alive(i)' => i \in excused
  BY <1>1, <1>2, CreateFacts DEF HeldOK, Alive
<1>10. inst' = inst
  BY <1>2
<1>11. Idle.kind # "create"
  BY IdleIs
<1> QED
  BY <1>1, <1>2, <1>4, <1>6, <1>7, <1>8, <1>9, <1>10, <1>11, IdleIs, StayTurn

(* The program is killed.                                                    *)
LEMMA CrashInv == ASSUME FleetInv, NEW c \in CLIs, Crash(c) PROVE FleetInv'
<1>1. op[c] # Idle /\ Fault /\ Leave(c) /\ excused' = excused \cup ({op[c].mine} \ {None})
  BY DEF Crash
<1>2. UNCHANGED <<role, reg, inst, address, group, iam, binary, adopted, desired, clash>>
  BY DEF Crash, ghost, state, cloud
<1>3. /\ op \in [CLIs -> Command] /\ op[c] \in Command /\ ShapeOK(op[c]) /\ WorldOK
      /\ op[c].mine \in Ids \cup {None} /\ op[c].kind # "idle"
  BY <1>1 DEF FleetInv, CommandsOK, ShapeOK, StageOK, Command
<1>4. excused' \in SUBSET Ids /\ excused \subseteq excused' /\ op[c].mine \in {None} \cup excused'
  BY <1>1, <1>3 DEF WorldOK
<1>5. WorldOK' /\ ~Calm'
  BY <1>1, <1>2, <1>3, <1>4, FaultEnds DEF WorldOK
<1>6. CASE op[c].kind = "create"
  <2>1. op' = [op EXCEPT ![c] = Idle]
    BY <1>1, LeaveIs
  <2>2. HeldOK(Idle)'
    BY IdleIs DEF HeldOK, Working, TearsDown
  <2>3. iam => iam'
    BY <1>2
  <2>4. group => group'
    BY <1>2
  <2>5. \A i \in Ids : i = op[c].mine => i \in excused'
    BY <1>4, NoneIsNoId
  <2>6. /\ role' = role /\ clash' = clash /\ desired' = desired /\ inst' = inst /\ reg' = reg
    BY <1>2
  <2> QED
    BY <1>4, <1>5, <1>6, <2>1, <2>2, <2>3, <2>4, <2>5, <2>6, IdleIs, FaultTurn
<1>7. CASE op[c].kind # "create"
  <2>1. Working(op[c])
    BY <1>3, <1>7 DEF Working
  <2> QED
    BY <1>1, <1>2, <1>4, <1>5, <2>1, HaltInv
<1> QED
  BY <1>6, <1>7

-----------------------------------------------------------------------------
(* A command begins.                                                         *)
LEMMA BeginIs ==
    ASSUME FleetInv, NEW c \in CLIs, NEW k \in Kinds, NEW l \in Stages,
           NEW n \in Entry \cup {NoEntry}, NEW s \in SUBSET Services, Begin(c, k, l, n, s)
    PROVE  /\ op[c] = Idle /\ clash' = Overlap(c, k)
           /\ UNCHANGED <<role, reg, inst, address, group, iam, binary, desired, adopted, faults, excused>>
           /\ \E o \in Command :
                /\ op' = [op EXCEPT ![c] = o]
                /\ o.kind = k /\ o.at = l /\ o.seen = n /\ o.services = s
                /\ o.mine = None /\ ~o.eip
<1> DEFINE o == [Idle EXCEPT !.kind = k, !.at = l, !.seen = n, !.services = s]
<1>1. /\ op[c] = Idle /\ clash' = Overlap(c, k)
      /\ UNCHANGED <<role, reg, inst, address, group, iam, binary, desired, adopted, faults, excused>>
  BY DEF Begin, cloud, state
<1>2. op' = [op EXCEPT ![c] = o]
  BY DEF Begin
<1>3. Idle \in Command /\ Idle.mine = None /\ Idle.eip = FALSE /\ Idle.flag = FALSE
  BY IdleIs DEF Idle
<1>4. o \in Command
  BY <1>3 DEF Command
<1>5. /\ o.kind = k /\ o.at = l /\ o.seen = n /\ o.services = s
      /\ o.mine = None /\ ~o.eip
  BY <1>3 DEF Command
<1> QED
  BY <1>1, <1>2, <1>4, <1>5

(* How the overlap of commands is recorded.                                  *)
LEMMA OverlapIs ==
    ASSUME FleetInv, NEW c \in CLIs, NEW k
    PROVE  /\ (\A d \in CLIs : d # c => op[d] = Idle) => Overlap(c, k) = clash
           /\ (\E d \in CLIs : d # c /\ op[d] # Idle) =>
                \/ Overlap(c, k) = "mixed"
                \/ /\ Overlap(c, k) = "creates" /\ k = "create" /\ clash # "mixed"
                   /\ \A d \in CLIs : d # c /\ op[d] # Idle => op[d].kind = "create"
<1> DEFINE others == {op[d].kind : d \in {d \in CLIs \ {c} : op[d] # Idle}}
<1>1. Overlap(c, k) = CASE others = {} -> clash
                        [] others = {"create"} /\ k = "create" /\ clash # "mixed" -> "creates"
                        [] OTHER -> "mixed"
  BY DEF Overlap
<1>2. (\A d \in CLIs : d # c => op[d] = Idle) => others = {}
  OBVIOUS
<1>3. (\E d \in CLIs : d # c /\ op[d] # Idle) => others # {}
  OBVIOUS
<1>4. others = {"create"} => \A d \in CLIs : d # c /\ op[d] # Idle => op[d].kind = "create"
  OBVIOUS
<1> HIDE DEF others
<1> QED
  BY <1>1, <1>2, <1>3, <1>4

(* Beside another command whatever is no create mixes them.                  *)
LEMMA MixedTurn ==
    ASSUME FleetInv, NEW c \in CLIs, NEW o \in Command, op' = [op EXCEPT ![c] = o], ShapeOK(o),
           WorldOK', role' = role, clash' = "mixed"
    PROVE  FleetInv'
<1>1. /\ op' \in [CLIs -> Command] /\ op'[c] = o
      /\ \A d \in CLIs : d # c => op'[d] = op[d]
  BY DEF FleetInv, CommandsOK
<1>2. \A d \in CLIs : ShapeOK(op'[d])
  BY <1>1 DEF FleetInv, CommandsOK
<1>3. ASSUME NEW d \in CLIs PROVE ShapeOK(op[d])'
  BY <1>2 DEF ShapeOK, StageOK
<1>4. CommandsOK'
  BY <1>1, <1>3 DEF CommandsOK
<1> QED
  BY <1>4 DEF FleetInv, ClashOK, NoStray, Calm

(* A command other than a create finds the node as the registry has it.      *)
LEMMA StartWorkInv ==
    ASSUME FleetInv, NEW c \in CLIs, op[c] = Idle, NEW o \in Command,
           op' = [op EXCEPT ![c] = o], ShapeOK(o), Working(o), o.mine = None,
           clash' = Overlap(c, o.kind),
           UNCHANGED <<role, reg, inst, address, group, iam, binary, desired, adopted, faults, excused>>,
           HeldOK(o), clash = "none" => DataOK(o), TearsDown(o) => reg = NoEntry,
           Rests /\ reg # NoEntry => WorkOK(o)
    PROVE  FleetInv'
<1>1. /\ op' \in [CLIs -> Command] /\ op'[c] = o
      /\ \A d \in CLIs : d # c => op'[d] = op[d]
  BY DEF FleetInv, CommandsOK
<1>2. WorldOK /\ clash \in {"none", "creates", "mixed"}
  BY DEF FleetInv, WorldOK
<1>3. CASE \E d \in CLIs : d # c /\ op[d] # Idle
  <2>1. clash' = "mixed"
    BY <1>3, OverlapIs DEF Working
  <2>2. WorldOK'
    BY <1>2, <2>1 DEF WorldOK
  <2> QED
    BY <2>1, <2>2, MixedTurn
<1>4. CASE \A d \in CLIs : d # c => op[d] = Idle
  <2>1. clash' = clash
    BY <1>4, OverlapIs
  <2>2. WorldOK'
    BY <1>2, <2>1 DEF WorldOK
  <2>3. CASE clash = "mixed"
    BY <2>1, <2>2, <2>3, MixedTurn
  <2>4. CASE clash # "mixed"
    <3>1. \A d \in CLIs : op[d] = Idle /\ op[d].mine = None
      BY <1>4, IdleIs
    <3>2. \A d \in CLIs : d # c => op'[d] = Idle
      BY <1>1, <1>4
    <3>3. CommandsOK'
      <4>1. \A d \in CLIs : ShapeOK(op'[d])
        BY <1>1, <3>2, IdleIs
      <4>2. ASSUME NEW d \in CLIs PROVE ShapeOK(op[d])'
        BY <4>1 DEF ShapeOK, StageOK
      <4> QED
        BY <1>1, <4>2 DEF CommandsOK
    <3>4. ClashOK'
      BY <3>2, IdleIs DEF ClashOK, Active
    <3>5. OwnOK'
      BY <1>1, <3>2, IdleIs DEF OwnOK
    <3>6. NoStray'
      <4>1. \A i \in Ids : Alive(i) => reg.inst = i \/ i \in excused
        BY <2>4, <3>1, NoneIsNoId DEF FleetInv, NoStray
      <4> QED
        BY <4>1 DEF NoStray, Alive
    <3>7. ASSUME NEW d \in CLIs PROVE HeldOK(op[d])'
      <4>1. CASE d = c
        BY <1>1, <4>1 DEF HeldOK, Alive, TearsDown, Working
      <4>2. CASE d # c
        BY <3>2, <4>2, IdleIs DEF HeldOK, TearsDown, Working
      <4> QED
        BY <4>1, <4>2
    <3>8. ASSUME clash' = "none"
          PROVE ((reg = NoEntry => desired = {}) /\ \A d \in CLIs : DataOK(op[d]))'
      <4>1. reg = NoEntry => desired = {}
        BY <2>1, <3>8 DEF FleetInv
      <4>2. ASSUME NEW d \in CLIs, d # c PROVE DataOK(op[d])'
        BY <3>2, <4>1, <4>2, IdleIs DEF DataOK
      <4>3. DataOK(op[c])'
        BY <1>1, <2>1, <3>8 DEF DataOK
      <4> QED
        BY <4>1, <4>2, <4>3
    <3>9. ASSUME Calm' PROVE CalmOK'
      <4>1. CalmOK
        BY <2>1, <3>9 DEF FleetInv, Calm
      <4>2. \A d \in CLIs : op[d].kind # "create" /\ ~TearsDown(op[d]) /\ ~Working(op[d]) /\ op[d].at # "wire"
        BY <3>1, IdleIs DEF TearsDown, Working
      <4>3. /\ excused = {}
            /\ reg = NoEntry => desired = {} /\ ~adopted /\ Empty
            /\ reg # NoEntry => /\ reg.eip <=> role = "edge"
                                /\ StandsOK /\ Rests /\ (adopted <=> role = "edge")
        BY <4>1, <4>2 DEF CalmOK
      <4>4. Empty' <=> Empty
        BY DEF Empty
      <4>5. (StandsOK' <=> StandsOK) /\ (Rests' <=> Rests)
        BY <2>1 DEF StandsOK, Rests
      <4>6. ASSUME NEW d \in CLIs PROVE JobOK(op[d])'
        <5>1. CASE d = c
          <6>1. o.kind # "create" /\ (reg # NoEntry => ~TearsDown(o) /\ WorkOK(o))
            BY <4>3 DEF Working
          <6> QED
            BY <1>1, <5>1, <6>1 DEF JobOK, WorkOK, Rests, TearsDown
        <5>2. CASE d # c
          BY <3>2, <5>2, IdleIs DEF JobOK, Working
        <5> QED
          BY <5>1, <5>2
      <4> QED
        BY <4>3, <4>4, <4>5, <4>6 DEF CalmOK
    <3> QED
      BY <2>2, <3>3, <3>4, <3>5, <3>6, <3>7, <3>8, <3>9 DEF FleetInv
  <2> QED
    BY <2>3, <2>4
<1> QED
  BY <1>3, <1>4

(* A create begins on a name that is not registered.                         *)
LEMMA StartCreateInv == ASSUME FleetInv, NEW c \in CLIs, StartCreate(c) PROVE FleetInv'
<1>0. /\ Begin(c, "create", "prepare", NoEntry, {}) /\ reg = NoEntry
      /\ "create" \in Kinds /\ "prepare" \in Stages /\ {} \in SUBSET Services
  BY DEF StartCreate, Kinds, Stages
<1>1. /\ op[c] = Idle /\ clash' = Overlap(c, "create") /\ reg = NoEntry
      /\ UNCHANGED <<role, reg, inst, address, group, iam, binary, desired, adopted, faults, excused>>
  BY <1>0, BeginIs
<1>2. PICK o \in Command :
             /\ op' = [op EXCEPT ![c] = o]
             /\ o.kind = "create" /\ o.at = "prepare" /\ o.seen = NoEntry /\ o.services = {}
             /\ o.mine = None /\ ~o.eip
  BY <1>0, BeginIs
<1>3. ShapeOK(o)
  BY <1>2 DEF ShapeOK, StageOK
<1>4. WorldOK /\ clash \in {"none", "creates", "mixed"}
  BY DEF FleetInv, WorldOK
<1>5. clash' \in {"none", "creates", "mixed"}
  BY <1>1, <1>4, OverlapIs
<1>6. WorldOK'
  BY <1>1, <1>4, <1>5 DEF WorldOK
<1>7. /\ op' \in [CLIs -> Command] /\ op'[c] = o
      /\ \A d \in CLIs : d # c => op'[d] = op[d]
  BY <1>2 DEF FleetInv, CommandsOK
<1>8. CASE clash' = "mixed"
  BY <1>1, <1>2, <1>3, <1>6, <1>8, MixedTurn
<1>9. CASE clash' # "mixed"
  <2>1. /\ clash # "mixed"
        /\ \A d \in CLIs : d # c => op[d] = Idle \/ (op[d].kind = "create" /\ clash' = "creates")
        /\ clash' = "none" => clash = "none" /\ \A d \in CLIs : op[d] = Idle
    BY <1>1, <1>9, OverlapIs
  <2>2. CommandsOK'
    <3>1. \A d \in CLIs : ShapeOK(op'[d])
      BY <1>3, <1>7 DEF FleetInv, CommandsOK
    <3>2. ASSUME NEW d \in CLIs PROVE ShapeOK(op[d])'
      BY <1>1, <3>1 DEF ShapeOK, StageOK
    <3> QED
      BY <1>7, <3>2 DEF CommandsOK
  <2>3. ClashOK'
    BY <1>2, <1>7, <2>1, IdleIs DEF ClashOK, Active
  <2>4. OwnOK'
    BY <1>2, <1>7, <2>1 DEF FleetInv, OwnOK
  <2>5. NoStray'
    <3>1. \A i \in Ids : Alive(i) => \/ reg.inst = i \/ i \in excused
                                     \/ \E d \in CLIs : d # c /\ op[d].mine = i
      BY <1>1, <2>1, NoneIsNoId, IdleIs DEF FleetInv, NoStray
    <3> QED
      BY <1>1, <1>7, <3>1 DEF NoStray, Alive
  <2>6. ASSUME NEW d \in CLIs PROVE HeldOK(op[d])'
    <3>1. CASE d = c
      BY <1>2, <1>7, <3>1 DEF HeldOK, Working, TearsDown
    <3>2. CASE d # c
      BY <1>1, <1>7, <2>1, <3>2 DEF FleetInv, HeldOK, Alive, TearsDown, Working
    <3> QED
      BY <3>1, <3>2
  <2>7. ASSUME clash' = "none"
        PROVE ((reg = NoEntry => desired = {}) /\ \A d \in CLIs : DataOK(op[d]))'
    <3>1. desired = {}
      BY <1>1, <2>1, <2>7 DEF FleetInv
    <3>2. ASSUME NEW d \in CLIs PROVE op'[d].at \notin {"gate", "terminate"}
      BY <1>2, <1>7, <2>1, <2>7, IdleIs
    <3> QED
      BY <1>1, <3>1, <3>2 DEF DataOK
  <2>8. ASSUME Calm' PROVE CalmOK'
    <3>1. CalmOK
      BY <1>1, <2>1, <2>8 DEF FleetInv, Calm
    <3>2. excused' = {} /\ (reg' = NoEntry => desired' = {} /\ ~adopted')
      BY <1>1, <3>1 DEF CalmOK
    <3>3. ASSUME NEW d \in CLIs PROVE JobOK(op[d])'
      <4>1. CASE d = c
        <5>1. CreateOK(o)'
          BY <1>1, <1>2 DEF CreateOK
        <5> QED
          BY <1>1, <1>2, <1>7, <4>1, <5>1 DEF JobOK, CreateOK, Working
      <4>2. CASE d # c
        <5>1. PICK q \in Command : q = op[d] /\ op'[d] = q
          BY <1>7, <4>2 DEF FleetInv, CommandsOK
        <5>2. q.kind = "create" => CreateOK(q)
          BY <3>1, <5>1 DEF CalmOK, JobOK
        <5>3. q.kind = "create" => CreateOK(q)'
          BY <1>1, <2>1, <4>2, <5>1, <5>2, IdleIs DEF CreateOK
        <5> QED
          BY <1>1, <5>1, <5>3 DEF JobOK, CreateOK
      <4> QED
        BY <4>1, <4>2
    <3>4. op'[c].kind = "create" /\ reg' = NoEntry
      BY <1>1, <1>2, <1>7
    <3> QED
      BY <3>2, <3>3, <3>4 DEF CalmOK
  <2> QED
    BY <1>6, <2>2, <2>3, <2>4, <2>5, <2>6, <2>7, <2>8 DEF FleetInv
<1> QED
  BY <1>8, <1>9

(* Whichever command begins.                                                *)
LEMMA StartInv ==
    ASSUME FleetInv, NEW c \in CLIs, Start(c) \/ StartReconcile(c) PROVE FleetInv'
<1>1. WorldOK
  BY DEF FleetInv
<1>2. ASSUME NEW k \in Kinds, NEW l \in Stages, NEW s \in SUBSET Services, Begin(c, k, l, reg, s),
             \/ k = "destroy" /\ reg # NoEntry /\ l \in {"evacuate", "gate"} /\ s = desired
             \/ k \in {"destroy", "prune"} /\ reg = NoEntry /\ l = "sweep" /\ s = {}
             \/ /\ reg # NoEntry /\ s = {}
                /\ \/ k = "pause" /\ l = "stop"
                   \/ k = "resume" /\ l = "start"
                   \/ k = "resize" /\ l \in {"drain", "observe"}
                   \/ k = "deploy" /\ l = "publish"
                   \/ k = "reconcile" /\ l = "observe"
      PROVE  FleetInv'
  <2>1. reg \in Entry \cup {NoEntry}
    BY <1>1 DEF WorldOK
  <2>2. PICK o \in Command :
             /\ op' = [op EXCEPT ![c] = o]
             /\ o.kind = k /\ o.at = l /\ o.seen = reg /\ o.services = s
             /\ o.mine = None /\ ~o.eip
    BY <1>2, <2>1, BeginIs
  <2>3. /\ op[c] = Idle /\ clash' = Overlap(c, k)
        /\ UNCHANGED <<role, reg, inst, address, group, iam, binary, desired, adopted, faults, excused>>
    BY <1>2, <2>1, BeginIs
  <2>4. StageOK(o)
    BY <1>2, <2>2 DEF StageOK
  <2>5. ShapeOK(o)
    BY <1>2, <2>1, <2>2, <2>4 DEF ShapeOK
  <2>6. Working(o) /\ (TearsDown(o) => reg = NoEntry)
    BY <1>2, <2>2 DEF Working, TearsDown
  <2>7. HeldOK(o)
    BY <1>2, <2>2, <2>6 DEF HeldOK
  <2>8. clash = "none" => DataOK(o)
    <3>1. clash = "none" => (reg = NoEntry => desired = {})
      BY DEF FleetInv
    <3> QED
      BY <1>2, <2>2, <3>1 DEF DataOK
  <2>9. Rests /\ reg # NoEntry => WorkOK(o)
    BY <1>2, <2>2 DEF WorkOK
  <2> QED
    BY <2>2, <2>3, <2>5, <2>6, <2>7, <2>8, <2>9, StartWorkInv
<1>3. /\ {"destroy", "prune", "pause", "resume", "resize", "deploy", "reconcile"} \subseteq Kinds
      /\ {"evacuate", "gate", "sweep", "stop", "start", "drain", "observe", "publish"} \subseteq Stages
      /\ {} \in SUBSET Services /\ desired \in SUBSET Services
  BY <1>1 DEF Kinds, Stages, WorldOK
<1>4. CASE StartCreate(c)
  BY <1>4, StartCreateInv
<1>5. CASE StartDestroy(c)
  <2>1. PICK evacuate \in BOOLEAN :
       Begin(c, "destroy",
             IF reg = NoEntry THEN "sweep"
             ELSE IF evacuate /\ desired # {} THEN "evacuate" ELSE "gate",
             reg, IF reg = NoEntry THEN {} ELSE desired)
    BY <1>5 DEF StartDestroy
  <2>2. CASE reg = NoEntry
    <3>1. Begin(c, "destroy", "sweep", reg, {})
      BY <2>1, <2>2
    <3> QED
      BY <1>2, <1>3, <2>2, <3>1
  <2>3. CASE reg # NoEntry
    <3>1. Begin(c, "destroy", "evacuate", reg, desired) \/ Begin(c, "destroy", "gate", reg, desired)
      BY <2>1, <2>3
    <3> QED
      BY <1>2, <1>3, <2>3, <3>1
  <2> QED
    BY <2>2, <2>3
<1>6. CASE StartPrune(c)
  <2>1. Begin(c, "prune", "sweep", reg, {}) /\ reg = NoEntry
    BY <1>6 DEF StartPrune
  <2> QED
    BY <1>2, <1>3, <2>1
<1>7. CASE StartPause(c)
  BY <1>2, <1>3, <1>7 DEF StartPause
<1>8. CASE StartResume(c)
  BY <1>2, <1>3, <1>8 DEF StartResume
<1>9. CASE StartResize(c)
  <2>1. /\ reg # NoEntry
        /\ Begin(c, "resize", "drain", reg, {}) \/ Begin(c, "resize", "observe", reg, {})
    BY <1>9 DEF StartResize
  <2> QED
    BY <1>2, <1>3, <2>1
<1>10. CASE StartDeploy(c)
  BY <1>2, <1>3, <1>10 DEF StartDeploy
<1>11. CASE StartReconcile(c)
  BY <1>2, <1>3, <1>11 DEF StartReconcile
<1> QED
  BY <1>4, <1>5, <1>6, <1>7, <1>8, <1>9, <1>10, <1>11 DEF Start

(* What happens to an instance while every command keeps its place.          *)
LEMMA StirInv ==
    ASSUME FleetInv, UNCHANGED <<role, reg, desired, op, clash, excused>>, WorldOK',
           \A i \in Ids : Alive(i)' => Alive(i),
           \A i \in Ids : inst[i].state = "gone" => inst'[i].state = "gone",
           Calm' => Calm /\ CalmOK'
    PROVE  FleetInv'
<1>1. op \in [CLIs -> Command] /\ \A c \in CLIs : ShapeOK(op[c])
  BY DEF FleetInv, CommandsOK
<1>2. CommandsOK'
  <2>1. ASSUME NEW c \in CLIs PROVE ShapeOK(op[c])'
    BY <1>1 DEF ShapeOK, StageOK
  <2> QED
    BY <1>1, <2>1 DEF CommandsOK
<1>3. ClashOK' /\ (OwnOK => OwnOK')
  BY DEF FleetInv, ClashOK, OwnOK, Active
<1>4. NoStray'
  BY DEF FleetInv, NoStray
<1>5. ASSUME clash # "mixed", NEW c \in CLIs PROVE HeldOK(op[c])'
  <2>1. PICK q \in Command : q = op[c]
    BY <1>1
  <2>2. HeldOK(q) /\ ShapeOK(q) /\ WorldOK
    BY <1>1, <1>5, <2>1 DEF FleetInv
  <2>3. q.at = "release" => q.mine \in Ids
    BY <2>2 DEF ShapeOK
  <2>4. TearsDown(q) /\ q.seen # NoEntry => q.seen.inst \in Ids
    BY DEF Command, Entry
  <2>5. q.kind = "reconcile" /\ (q.at = "launch" \/ q.mine # None) => q.seen.inst \in Ids
    BY <2>2 DEF ShapeOK, StageOK, Entry
  <2>6. HeldOK(q)'
    BY <2>2, <2>3, <2>4, <2>5 DEF HeldOK
  <2> QED
    BY <2>1, <2>6 DEF HeldOK, Alive, TearsDown, Working
<1>6. ASSUME clash = "none"
      PROVE ((reg = NoEntry => desired = {}) /\ \A c \in CLIs : DataOK(op[c]))'
  BY <1>6 DEF FleetInv, DataOK
<1> QED
  BY <1>2, <1>3, <1>4, <1>5, <1>6 DEF FleetInv

(* EC2 finishes what it was asked.                                           *)
LEMMA SettleInv == ASSUME FleetInv, NEW i \in Ids, Settle(i) PROVE FleetInv'
<1>1. UNCHANGED <<role, reg, binary, desired, adopted, address, group, iam, op, faults, clash, excused>>
  BY DEF Settle, state
<1>2. WorldOK
  BY DEF FleetInv
<1>3. /\ inst' \in [Ids -> [state : {"pending", "running", "stopping", "stopped", "dying", "gone"},
                           type : Types]]
      /\ inst[i].state \in {"pending", "stopping", "dying"}
      /\ inst'[i].state = CASE inst[i].state = "pending" -> "running"
                            [] inst[i].state = "stopping" -> "stopped"
                            [] inst[i].state = "dying" -> "gone"
      /\ inst'[i].type = inst[i].type
      /\ \A j \in Ids : j # i => inst'[j] = inst[j]
  BY <1>2 DEF Settle, WorldOK
<1>4. WorldOK'
  BY <1>1, <1>2, <1>3 DEF WorldOK
<1>5. \A j \in Ids : Alive(j)' => Alive(j)
  BY <1>3 DEF Alive
<1>6. \A j \in Ids : inst[j].state = "gone" => inst'[j].state = "gone"
  BY <1>3
<1>7. ASSUME Calm' PROVE Calm /\ CalmOK'
  <2>1. Calm /\ CalmOK
    BY <1>1, <1>7 DEF Calm, FleetInv
  <2>2. \A j \in Ids : /\ inst'[j].type = inst[j].type
                       /\ inst[j].state \in {"running", "stopped", "gone"} => inst'[j] = inst[j]
                       /\ inst[j].state = "pending" => inst'[j].state \in {"pending", "running"}
                       /\ inst[j].state = "stopping" => inst'[j].state \in {"stopping", "stopped"}
                       /\ inst[j].state = "dying" => inst'[j].state \in {"dying", "gone"}
    BY <1>3
  <2>3. reg # NoEntry => reg.inst \in Ids
    BY <1>2 DEF WorldOK, Entry
  <2>4. Empty => Empty'
    BY <1>1, <1>6 DEF Empty
  <2>5. (StandsOK => StandsOK') /\ (reg # NoEntry /\ Rests => Rests')
    BY <1>1, <2>2, <2>3 DEF StandsOK, Rests
  <2>6. ASSUME NEW c \in CLIs PROVE JobOK(op[c])'
    <3>1. PICK q \in Command : q = op[c]
      BY DEF FleetInv, CommandsOK
    <3>2. JobOK(q) /\ ShapeOK(q)
      BY <2>1, <3>1 DEF FleetInv, CommandsOK, CalmOK
    <3>3. q.kind = "create" => CreateOK(q)'
      <4>1. q.kind = "create" /\ q.at \in {"boot", "address", "put", "wire", "cleanup"} => q.mine \in Ids
        BY <3>2 DEF ShapeOK
      <4> QED
        BY <1>1, <2>2, <3>2, <4>1 DEF JobOK, CreateOK
    <3>4. Working(q) /\ reg # NoEntry /\ TearsDown(q) => DestroyOK(q)'
      BY <1>1, <2>2, <2>3, <3>2 DEF JobOK, DestroyOK
    <3>5. Working(q) /\ reg # NoEntry /\ ~TearsDown(q) => WorkOK(q)'
      <4>1. SUFFICES ASSUME Working(q), reg # NoEntry, ~TearsDown(q) PROVE WorkOK(q)'
        OBVIOUS
      <4>2. WorkOK(q) /\ reg.inst \in Ids
        BY <2>3, <3>2, <4>1 DEF JobOK
      <4>3. /\ q.at \in {"stop", "drain", "observe", "back", "evacuate", "gate", "terminate", "publish"}
                 => Rests'
            /\ q.at = "start" =>
                 IF q.kind = "resize"
                 THEN /\ inst'[reg.inst].state = "stopped"
                      /\ inst'[reg.inst].type = Other(reg.type)
                 ELSE Rests'
        BY <2>2, <2>5, <4>1, <4>2 DEF WorkOK
      <4>4. /\ q.at \in {"stopped", "retype"} => inst'[reg.inst].type = reg.type
            /\ q.at = "stopped" => inst'[reg.inst].state \in {"stopping", "stopped"}
            /\ q.at = "retype" => inst'[reg.inst].state = "stopped"
            /\ q.at = "started" => inst'[reg.inst].state \in {"pending", "running"}
        BY <2>2, <4>2 DEF WorkOK
      <4>5. /\ q.at = "put" => inst'[reg.inst].state =
                 IF q.kind = "pause" \/ (q.kind = "resize" /\ ~q.flag) THEN "stopped" ELSE "running"
            /\ q.at \in {"started", "put"}
                 => inst'[reg.inst].type = IF q.kind = "resize" THEN Other(reg.type) ELSE reg.type
        BY <2>2, <4>2 DEF WorkOK
      <4> QED
        BY <1>1, <4>2, <4>3, <4>4, <4>5 DEF WorkOK
    <3>6. JobOK(q)'
      BY <1>1, <3>3, <3>4, <3>5 DEF JobOK
    <3> QED
      BY <1>1, <3>1, <3>6 DEF JobOK, CreateOK, WorkOK, DestroyOK, TearsDown, Working
  <2>7. excused' = {} /\ (reg' = NoEntry => desired' = {} /\ ~adopted')
    BY <1>1, <2>1 DEF CalmOK
  <2>8. reg' # NoEntry => (reg'.eip <=> role' = "edge")
    BY <1>1, <2>1 DEF CalmOK
  <2>9. reg' = NoEntry /\ (\A c \in CLIs : op'[c].kind # "create") => Empty'
    BY <1>1, <2>1, <2>4 DEF CalmOK
  <2>10. ASSUME reg # NoEntry, \A c \in CLIs : ~TearsDown(op[c])
         PROVE  /\ StandsOK'
                /\ (adopted' <=> role' = "edge") \/ \E c \in CLIs : op'[c].at = "wire"
                /\ (\A c \in CLIs : ~Working(op[c])) => Rests'
    BY <1>1, <2>1, <2>5, <2>10 DEF CalmOK
  <2>11. (\A c \in CLIs : ~TearsDown(op'[c])) => \A c \in CLIs : ~TearsDown(op[c])
    BY <1>1
  <2>12. (\A c \in CLIs : ~Working(op'[c])) => \A c \in CLIs : ~Working(op[c])
    BY <1>1
  <2> QED
    BY <1>1, <2>1, <2>6, <2>7, <2>8, <2>9, <2>10, <2>11, <2>12 DEF CalmOK, TearsDown, Working
<1> QED
  BY <1>1, <1>4, <1>5, <1>6, <1>7, StirInv

(* The console.                                                              *)
LEMMA ConsoleInv == ASSUME FleetInv, Console PROVE FleetInv'
<1>1. reg # NoEntry /\ Fault
      /\ UNCHANGED <<role, reg, binary, desired, adopted, group, iam, op, clash, excused>>
  BY DEF Console, state
<1>2. WorldOK /\ ~Calm' /\ faults' \in Nat
  BY <1>1, FaultEnds DEF FleetInv
<1>3. PICK i \in Ids : i = reg.inst
  BY <1>1, <1>2 DEF WorldOK, Entry
<1>4. CASE /\ inst[i].state \in {"running", "stopped"}
           /\ inst' = [inst EXCEPT ![i].state = IF @ = "running" THEN "stopping" ELSE "pending"]
           /\ UNCHANGED address
  <2>1. /\ inst' \in [Ids -> [state : {"pending", "running", "stopping", "stopped", "dying", "gone"},
                           type : Types]]
        /\ inst'[i].state \in {"stopping", "pending"}
        /\ \A j \in Ids : j # i => inst'[j] = inst[j]
    BY <1>2, <1>4 DEF WorldOK
  <2>2. WorldOK'
    BY <1>1, <1>2, <1>4, <2>1 DEF WorldOK
  <2>3. \A j \in Ids : Alive(j)' => Alive(j)
    BY <1>4, <2>1 DEF Alive
  <2>4. \A j \in Ids : inst[j].state = "gone" => inst'[j].state = "gone"
    BY <1>4, <2>1
  <2> QED
    BY <1>1, <1>2, <2>2, <2>3, <2>4, StirInv
<1>5. CASE Doom(i)
  <2>1. /\ inst' \in [Ids -> [state : {"pending", "running", "stopping", "stopped", "dying", "gone"},
                                 type : Types]]
        /\ \A j \in Ids : Alive(j)' => Alive(j)
        /\ \A j \in Ids : inst[j].state = "gone" => inst'[j].state = "gone"
        /\ address' \in Address /\ (address = None => address' = None)
    BY <1>2, <1>5, DoomIs
  <2>2. WorldOK'
    BY <1>1, <1>2, <2>1 DEF WorldOK
  <2> QED
    BY <1>1, <1>2, <2>1, <2>2, StirInv
<1> QED
  BY <1>3, <1>4, <1>5 DEF Console

-----------------------------------------------------------------------------
(* The beginning, and every step.                                            *)
LEMMA InitInv == ASSUME Init PROVE FleetInv
<1>1. /\ op \in [CLIs -> Command] /\ \A c \in CLIs : op[c] = Idle
      /\ clash = "none" /\ excused = {} /\ faults = 0 /\ role \in {"app", "edge"}
  BY IdleIs DEF Init
<1>2. CommandsOK /\ ClashOK /\ OwnOK
  BY <1>1, IdleIs DEF CommandsOK, ClashOK, OwnOK, Active
<1>3. \A c \in CLIs : HeldOK(op[c])
  BY <1>1, IdleIs DEF HeldOK, TearsDown, Working
<1>4. ASSUME reg = NoEntry => desired = {} PROVE \A c \in CLIs : DataOK(op[c])
  BY <1>1, <1>4, IdleIs DEF DataOK
<1>5. \A c \in CLIs : JobOK(op[c])
  BY <1>1, IdleIs DEF JobOK, Working
<1>6. CASE /\ reg = NoEntry
           /\ inst = [i \in Ids |-> [state |-> "gone", type |-> "small"]]
           /\ address = None
           /\ group = FALSE /\ iam = FALSE /\ binary = FALSE /\ adopted = FALSE
           /\ desired = {}
  <2>1. \A i \in Ids : inst[i].state = "gone"
    BY <1>6
  <2>2. inst \in [Ids -> [state : {"pending", "running", "stopping", "stopped", "dying", "gone"},
                         type : Types]]
    BY <1>6 DEF Types
  <2>3. WorldOK
    BY <1>1, <1>6, <2>2 DEF WorldOK, Address
  <2>4. NoStray
    BY <2>1 DEF NoStray, Alive
  <2>5. CalmOK
    BY <1>1, <1>5, <1>6, <2>1 DEF CalmOK, Empty
  <2> QED
    BY <1>1, <1>2, <1>3, <1>4, <1>6, <2>3, <2>4, <2>5 DEF FleetInv
<1>7. ASSUME NEW i \in Ids,
             reg = [inst |-> i, type |-> "small", eip |-> role = "edge", state |-> "ready"],
             inst = [j \in Ids |-> [state |-> IF j = i THEN "running" ELSE "gone", type |-> "small"]],
             address = IF role = "edge" THEN i ELSE None,
             group = TRUE, iam = TRUE, binary = TRUE, adopted = (role = "edge"),
             desired \in {{}, {"web"}, Services}
      PROVE FleetInv
  <2>1. /\ reg \in Entry /\ reg # NoEntry /\ reg.inst = i /\ reg.type = "small"
        /\ reg.state = "ready"
    <3>1. ASSUME NEW e \in BOOLEAN, NEW r, r = [inst |-> i, type |-> "small", eip |-> e, state |-> "ready"]
          PROVE  r \in Entry /\ r.inst = i /\ r.type = "small" /\ r.state = "ready"
      BY <3>1 DEF Entry, Types
    <3>2. (role = "edge") \in BOOLEAN
      OBVIOUS
    <3>3. /\ reg \in Entry /\ reg.inst = i /\ reg.type = "small" /\ reg.state = "ready"
      BY <1>7, <3>1, <3>2
    <3> QED
      BY <3>3, NoEntryIs
  <2>2. reg.eip <=> role = "edge"
    BY <1>7
  <2>3. inst[i].state = "running" /\ \A j \in Ids : inst[j].type = "small" /\ (j # i => inst[j].state = "gone")
    BY <1>7
  <2>4. inst \in [Ids -> [state : {"pending", "running", "stopping", "stopped", "dying", "gone"},
                         type : Types]]
    BY <1>7 DEF Types
  <2>5. adopted <=> role = "edge"
    BY <1>7
  <2>6. WorldOK
    <3>1. address \in Address /\ (role = "app" => address = None)
      BY <1>1, <1>7 DEF Address
    <3>2. adopted \in BOOLEAN
      BY <1>7
    <3>3. desired \in SUBSET Services
      BY <1>7 DEF Services
    <3>4. group \in BOOLEAN
      BY <1>7
    <3>5. iam \in BOOLEAN
      BY <1>7
    <3>6. binary \in BOOLEAN
      BY <1>7
    <3> QED
      BY <1>1, <2>1, <2>4, <2>5, <3>1, <3>2, <3>3, <3>4, <3>5, <3>6 DEF WorldOK
  <2>7. NoStray
    BY <2>1, <2>3 DEF NoStray, Alive
  <2>8. StandsOK /\ Rests
    <3>1. group /\ iam
      BY <1>7
    <3>2. address = IF role = "edge" THEN reg.inst ELSE None
      BY <1>7, <2>1
    <3> QED
      BY <2>1, <2>3, <3>1, <3>2 DEF StandsOK, Rests
  <2>9. CalmOK
    BY <1>1, <1>5, <2>1, <2>2, <2>5, <2>8 DEF CalmOK
  <2> QED
    BY <1>1, <1>2, <1>3, <1>4, <2>1, <2>6, <2>7, <2>9 DEF FleetInv
<1> QED
  BY <1>6, <1>7 DEF Init

(* Every step keeps the invariant.                                          *)
LEMMA NextInv == ASSUME FleetInv, [Next]_vars PROVE FleetInv'
<1>1. ASSUME NEW c \in CLIs, Step(c) PROVE FleetInv'
  BY <1>1, PrepareInv, GroupInv, LaunchInv, BootInv, TakeAddressInv, RegisterInv, WireInv,
     CleanupInv, ReleaseInv, EvacuateInv, GateInv, TerminateInv, UnaddressInv, UngroupInv,
     UniamInv, UnwireInv, SweepInv, ObserveInv, DrainInv, StopInv, StoppedInv, RetypeInv,
     StartUpInv, StartedInv, WriteBackInv, BackInv, PublishInv DEF Step
<1>2. CASE UNCHANGED vars
  <2>1. WorldOK'
    BY <1>2 DEF FleetInv, WorldOK, vars
  <2>2. Calm' <=> Calm
    BY <1>2 DEF vars, Calm
  <2>3. (Empty' <=> Empty) /\ (StandsOK' <=> StandsOK) /\ (Rests' <=> Rests)
    BY <1>2 DEF vars, Empty, StandsOK, Rests
  <2>4. \A c \in CLIs : JobOK(op[c])' <=> JobOK(op[c])
    BY <1>2, <2>3 DEF vars, JobOK, CreateOK, WorkOK, DestroyOK, Empty, StandsOK, Rests
  <2>5. Calm' => Calm /\ CalmOK'
    BY <1>2, <2>2, <2>3, <2>4 DEF FleetInv, CalmOK, vars
  <2> QED
    BY <1>2, <2>1, <2>5, StirInv DEF vars, Alive
<1> QED
  BY <1>1, <1>2, StartInv, CrashInv, SettleInv, ConsoleInv DEF Next

(* So it always holds.                                                      *)
LEMMA FleetAlwaysInv == Spec => []FleetInv
<1>1. Init => FleetInv
  BY InitInv
<1>2. FleetInv /\ [Next]_vars => FleetInv'
  BY NextInv
<1> QED
  BY <1>1, <1>2, PTL DEF Spec

-----------------------------------------------------------------------------
(* The invariant implies the types                                          *)
LEMMA TypesHold == ASSUME FleetInv PROVE TypeOK
<1>1. WorldOK /\ op \in [CLIs -> Command]
  BY DEF FleetInv, CommandsOK
<1>2. ASSUME NEW c \in CLIs
      PROVE  /\ op[c].kind \in Kinds \cup {"idle"}
             /\ op[c].seen \in Entry \cup {NoEntry}
             /\ op[c].mine \in Ids \cup {None}
             /\ op[c].services \subseteq Services
             /\ op[c].eip \in BOOLEAN
             /\ op[c].flag \in BOOLEAN
  BY <1>1 DEF Command
<1>3. ASSUME NEW c \in CLIs PROVE {op[c].eip, op[c].flag} \subseteq BOOLEAN
  BY <1>2
<1>4. {group, iam, binary, adopted} \subseteq BOOLEAN
  BY <1>1 DEF WorldOK
<1> QED
  BY <1>1, <1>2, <1>3, <1>4 DEF WorldOK, TypeOK

(* ... and, once the commands have ended unharmed, that the registry is     *)
(* true.                                                                    *)
LEMMA RegistryHolds == ASSUME FleetInv PROVE RegistryIsTrue
<1> SUFFICES ASSUME Quiet
             PROVE  IF reg = NoEntry
                    THEN /\ ~group /\ ~iam /\ ~adopted /\ address = None /\ desired = {}
                         /\ \A i \in Ids : inst[i].state = "gone"
                    ELSE /\ group /\ iam /\ (adopted <=> role = "edge")
                         /\ {i \in Ids : Alive(i)} = {reg.inst}
                         /\ inst[reg.inst].type = reg.type
                         /\ (inst[reg.inst].state = "stopped") <=> (reg.state = "stopped")
                         /\ clash = "none" => address = IF role = "edge" THEN reg.inst ELSE None
  BY DEF RegistryIsTrue
<1>1. CalmOK /\ NoStray /\ clash # "mixed" /\ WorldOK
  BY DEF Quiet, Calm, FleetInv
<1>2. \A c \in CLIs : /\ op[c].kind # "create" /\ ~TearsDown(op[c]) /\ ~Working(op[c])
                      /\ op[c].at # "wire" /\ op[c].mine = None
  BY IdleIs DEF Quiet, TearsDown, Working
<1>3. CASE reg = NoEntry
  BY <1>1, <1>2, <1>3 DEF CalmOK, Empty
<1>4. CASE reg # NoEntry
  <2>1. StandsOK /\ Rests /\ (adopted <=> role = "edge") /\ excused = {}
    BY <1>1, <1>2, <1>4 DEF CalmOK
  <2>2. reg.inst \in Ids /\ Alive(reg.inst)
    BY <1>1, <1>4, <2>1 DEF WorldOK, Entry, Rests, Alive
  <2>3. \A i \in Ids : Alive(i) => reg.inst = i
    BY <1>1, <1>2, <2>1, NoneIsNoId DEF NoStray
  <2>4. {i \in Ids : Alive(i)} = {reg.inst}
    BY <2>2, <2>3
  <2> QED
    BY <1>4, <2>1, <2>4 DEF StandsOK, Rests
<1> QED
  BY <1>3, <1>4

(* What is billed and what is registered agree, for any number of commands, *)
(* instances, starts and faults: a live instance is in node.json or in the  *)
(* hands of the command that launched it, unless a failed call left it      *)
(* behind or other commands than creates overlapped; and when commands have *)
(* ended unharmed node.json says what is so.                                *)
THEOREM FleetAlwaysAccountedFor == Spec => []FleetIsAccountedFor
<1>1. FleetInv => FleetIsAccountedFor
  BY TypesHold, RegistryHolds DEF FleetInv, FleetIsAccountedFor
<1> QED
  BY <1>1, FleetAlwaysInv, PTL

-----------------------------------------------------------------------------
(* Which steps terminate an instance that lives.                             *)
LEMMA DoomedBy ==
    ASSUME FleetInv, NEW c \in CLIs, Step(c), NEW i \in Ids, Alive(i), inst'[i].state = "dying"
    PROVE  Terminate(c) \/ Cleanup(c)
<1>1. inst \in [Ids -> [state : {"pending", "running", "stopping", "stopped", "dying", "gone"},
                       type : Types]]
  BY DEF FleetInv, WorldOK
<1>2. inst' # inst
  BY DEF Alive
<1>3. CASE Launch(c)
  <2>1. PICK k, t : inst' = [inst EXCEPT ![k] = [state |-> "pending", type |-> t]]
    BY <1>2, <1>3 DEF Launch
  <2> QED
    BY <1>1, <2>1 DEF Alive
<1>4. CASE Stop(c)
  <2>1. inst' = [inst EXCEPT ![op[c].seen.inst].state = IF @ = "running" THEN "stopping" ELSE @]
    BY <1>2, <1>4 DEF Stop
  <2> QED
    BY <1>1, <2>1 DEF Alive
<1>5. CASE Retype(c)
  <2>1. inst' = [inst EXCEPT ![op[c].seen.inst].type = Other(op[c].seen.type)]
    BY <1>2, <1>5 DEF Retype
  <2> QED
    BY <1>1, <2>1 DEF Alive
<1>6. CASE StartUp(c)
  <2>1. inst' = [inst EXCEPT ![op[c].seen.inst].state = IF @ = "stopped" THEN "pending" ELSE @]
    BY <1>2, <1>6 DEF StartUp
  <2> QED
    BY <1>1, <2>1 DEF Alive
<1>7. CASE Prepare(c) \/ Group(c) \/ Boot(c) \/ TakeAddress(c) \/ Register(c) \/ Wire(c) \/ Release(c)
  BY <1>2, <1>7 DEF Prepare, Group, Boot, TakeAddress, Register, Wire, Release, cloud
<1>8. CASE Evacuate(c) \/ Gate(c) \/ Unaddress(c) \/ Ungroup(c) \/ Uniam(c) \/ Unwire(c) \/ Sweep(c)
  BY <1>2, <1>8 DEF Evacuate, Gate, Unaddress, Ungroup, Uniam, Unwire, Sweep, cloud
<1>9. CASE Observe(c) \/ Drain(c) \/ Stopped(c) \/ Started(c) \/ WriteBack(c) \/ Back(c) \/ Publish(c)
  BY <1>2, <1>9 DEF Observe, Drain, Stopped, Started, WriteBack, Back, Publish, cloud
<1> QED
  BY <1>3, <1>4, <1>5, <1>6, <1>7, <1>8, <1>9 DEF Step

(* The data gate holds until the instance is terminated: a destroy that     *)
(* runs alone and was not told to delete data terminates no instance whose  *)
(* desired.json keeps a volume.                                             *)
THEOREM DataAlwaysKept == Spec => DataIsKept
<1> DEFINE Kept == \A i \in Ids :
        /\ reg.inst = i /\ Alive(i) /\ inst'[i].state = "dying"
        /\ desired \cap Volumes # {}
        /\ clash = "none" /\ op' # op
        => \E c \in CLIs : op[c].kind = "destroy" /\ op[c].flag
<1>1. ASSUME FleetInv, [Next]_vars PROVE Kept
  <2> SUFFICES ASSUME NEW i \in Ids, Alive(i), inst'[i].state = "dying",
                      desired \cap Volumes # {}, clash = "none", op' # op
               PROVE  \E c \in CLIs : op[c].kind = "destroy" /\ op[c].flag
    OBVIOUS
  <2>1. inst' # inst
    BY DEF Alive
  <2>2. ~Console /\ ~UNCHANGED vars /\ \A j \in Ids : ~Settle(j)
    BY DEF Console, Settle, vars
  <2>3. PICK c \in CLIs : Start(c) \/ StartReconcile(c) \/ Step(c) \/ Crash(c)
    BY <1>1, <2>2 DEF Next
  <2>4. ~Start(c) /\ ~StartReconcile(c) /\ ~Crash(c)
    BY <2>1 DEF Start, StartCreate, StartDestroy, StartPrune, StartPause, StartResume, StartResize,
                StartDeploy, StartReconcile, Begin, Crash, cloud
  <2>5. Terminate(c) \/ Cleanup(c)
    BY <1>1, <2>3, <2>4, DoomedBy
  <2>6. DataOK(op[c])
    BY <1>1 DEF FleetInv
  <2>7. op[c].kind # "create"
    BY <2>6 DEF DataOK
  <2>8. op[c].kind = "destroy" /\ op[c].at = "terminate"
    BY <2>5, <2>7 DEF Terminate, Cleanup, At
  <2> QED
    BY <2>6, <2>8 DEF DataOK
<1>2. FleetInv /\ [Next]_vars => [Kept]_vars
  BY <1>1
<1>3. DataIsKept <=> [][Kept]_vars
  BY DEF DataIsKept
<1> HIDE DEF Kept
<1>4. [][FleetInv /\ [Next]_vars]_vars => [][Kept]_vars
  BY <1>2, PTL
<1> QED
  BY <1>3, <1>4, FleetAlwaysInv, PTL DEF Spec

-----------------------------------------------------------------------------
(* The inductive invariant of ExternalNode.  The shape of a command: its kind tells the      *)
(* stages it goes through, which of them have a key, and whose entry it holds.*)
ExtStageOK(j) ==
    /\ j.kind = "init" => j.stage \in {"idle", "mint", "register", "write", "install",
                                      "await", "mark", "revoke", "user", "remove"}
    /\ j.kind = "rotate"    => j.stage \in {"push", "restart", "supersede", "drop"}
    /\ j.kind = "upgrade"   => j.stage \in {"swap", "record"}
    /\ j.kind = "reconcile" => j.stage = "put"
    /\ j.kind = "destroy"   => j.stage \in {"cordon", "revoke", "user", "remove"}

Enrolls(j) == j.kind = "init" /\ j.stage \in {"write", "install"}
Cleans(j)  == j.stage \in {"user", "remove"}

ExtShapeOK(j) ==
    /\ ExtStageOK(j)
    /\ j.stage = "idle" => j = Ext!Idle
    /\ j.stage \in {"register", "write", "install", "restart", "supersede", "drop"}
         => j.key # Ext!NoKey
    /\ j.stage = "mint" \/ j.kind \in {"upgrade", "reconcile", "destroy"}
         => j.key = Ext!NoKey
    /\ j.kind # "init" \/ j.stage = "mark" => j.entry \in Ext!Entry
    /\ j.stage = "mint" => j.entry = Ext!NoEntry
    /\ Enrolls(j) => j.entry \in Ext!Entry
    /\ j.kind = "init" /\ j.stage \notin {"await", "mark"}
         => j.entry = Ext!NoEntry \/ j.entry.born = j.key

(* Commands that run at the same time know of each other, and each created  *)
(* its key itself; keys are numbered as they are created.                   *)
Met == \A c, d \in HostCLIs :
         c # d /\ Ext!Active(c) /\ Ext!Active(d) => job[d].kind \in job[c].met

KeysOK ==
    /\ active \subseteq 1 .. minted
    /\ host.env \in 0 .. minted
    /\ \A c \in HostCLIs : job[c].key \in 0 .. minted
    /\ \A c, d \in HostCLIs : job[c].key = job[d].key /\ job[c].key # Ext!NoKey => c = d
    /\ \A j, k, l \in active : j = k \/ k = l \/ j = l

(* As long as no entry was removed under a command that had read it, and no *)
(* cleanup refused: the entry is that of each command's enrollment, and what *)
(* is about to remove it has left no key on the machine that is good.       *)
ListedOK ==
    "listing" \notin forgiven =>
      \A c \in HostCLIs :
        /\ job[c].kind # "init" => registry.born = job[c].entry.born
        /\ Enrolls(job[c]) => registry.born = job[c].key
        /\ job[c].kind = "init" /\ Cleans(job[c]) /\ job[c].met \subseteq {"init"}
             /\ job[c].entry # Ext!NoEntry /\ registry.born = job[c].entry.born
             => host.env \notin active
        /\ job[c].kind = "destroy" /\ Cleans(job[c]) /\ job[c].met = {} => active = {}

(* A destroy that has run alone so far has left neither key nor user; once   *)
(* it is done nothing runs until the node is enrolled anew.                  *)
GoneOK ==
    /\ \A c \in HostCLIs :
         job[c].kind = "destroy" /\ Cleans(job[c]) /\ job[c].ok /\ job[c].met = {}
         => active = {} /\ (job[c].stage = "remove" => ~user)
    /\ gone => \A c \in HostCLIs : ~Ext!Active(c)

(* The keys no command is going to delete                                   *)
Settled == {k \in active : \A c \in HostCLIs :
              job[c].key = k => job[c].stage \in {"await", "mark"}}

(* ... are one at most, and none before an agent was first started: an       *)
(* enrollment of a machine whose agent runs is rolled back.                  *)
SettledOK ==
    /\ host.unit # "none" => host.up
    /\ \A c \in HostCLIs : job[c].stage = "supersede" => host.up
    /\ "keys" \notin forgiven =>
         /\ \A c \in HostCLIs : job[c].kind = "init" /\ Cleans(job[c])
                                  => job[c].key \notin active
         /\ \A k, l \in Settled : k = l
         /\ ~host.up => Settled = {}

Rotates(c) == job[c].kind = "rotate" /\ job[c].key # Ext!NoKey

(* A rotation whose key is good has beside it one that no rotation created:  *)
(* of two keys at most, so that it is the only one.  If its key was revoked  *)
(* then so was every other; and after its push the machine starts its agent  *)
(* with its key or with one that is void, unless an enrollment ran beside it.*)
RotationOK ==
    /\ \A c \in HostCLIs : Rotates(c) /\ ~job[c].cut /\ job[c].stage \in {"push", "drop"}
                             => host.env # job[c].key
    /\ "rotation" \notin forgiven =>
         \A c \in HostCLIs : Rotates(c) =>
           /\ job[c].key \in active =>
                \E x \in active : \A d \in HostCLIs : Rotates(d) => job[d].key # x
           /\ "init" \notin job[c].met =>
                /\ job[c].key \notin active => active = {}
                /\ job[c].stage \in {"restart", "supersede"}
                     => host.env = job[c].key \/ host.env \notin active

ExternalInv ==
    /\ Ext!TypeOK /\ Ext!HostsAreListed /\ Ext!DestroyedStaysGone
    /\ \A c \in HostCLIs : ExtShapeOK(job[c])
    /\ Met /\ KeysOK /\ ListedOK /\ GoneOK /\ SettledOK /\ RotationOK

-----------------------------------------------------------------------------
(* What the invariant gives                                                  *)

(* FiniteSets is the same beside the instance as in it.                      *)
LEMMA SameCount == ASSUME NEW S PROVE Ext!Cardinality(S) = Cardinality(S)
BY DEF Cardinality, Ext!Cardinality

(* When no command runs every good key is settled, so there is one at most:  *)
(* the invariant implies the property of the runs.                           *)
LEMMA InvHolds == ExternalInv => Ext!CredentialsAreHeld
<1> SUFFICES ASSUME ExternalInv PROVE Ext!KeysDoNotPileUp
  BY DEF ExternalInv, Ext!CredentialsAreHeld
<1> SUFFICES ASSUME \A c \in HostCLIs : ~Ext!Active(c), Cardinality(active) > 1, "keys" \notin forgiven
             PROVE  FALSE
  BY SameCount DEF Ext!KeysDoNotPileUp
<1>1. \A c \in HostCLIs : job[c].key = Ext!NoKey
  BY DEF ExternalInv, ExtShapeOK, Ext!Active, Ext!At, Ext!Idle
<1>2. active \subseteq Ext!Keys /\ Ext!NoKey \notin Ext!Keys
  BY DEF ExternalInv, Ext!TypeOK, Ext!Keys, Ext!NoKey
<1>3. Settled = active
  BY <1>1, <1>2 DEF Settled
<1>4. \A k, l \in active : k = l
  BY <1>3 DEF ExternalInv, SettledOK
<1>5. CASE active = {}
  BY <1>5, FS_EmptySet
<1>6. ASSUME NEW k \in active PROVE FALSE
  <2>1. active = {k}
    BY <1>4, <1>6
  <2> QED
    BY <2>1, FS_Singleton
<1> QED
  BY <1>5, <1>6

(* A CLI that runs nothing holds nothing.                                    *)
LEMMA IdleIsJob == Ext!Idle \in Ext!Job
BY DEF Ext!Job, Ext!Idle, Ext!Kinds, Ext!Stages

(* Before anything is enrolled.                                              *)
LEMMA ExtInitInv == Ext!Init => ExternalInv
<1> SUFFICES ASSUME Ext!Init PROVE ExternalInv
  OBVIOUS
<1>1. Ext!TypeOK
  <2>1. user \in BOOLEAN /\ gone \in BOOLEAN
    BY DEF Ext!Init
  <2>2. minted \in 0 .. MaxKeys /\ hostStarts \in 0 .. MaxHostStarts /\ hostFaults \in 0 .. MaxHostFaults
    BY ExternalAssumption DEF Ext!ExternalNodeAssumption, Ext!Init
  <2>3. host \in Ext!Host /\ job \in [HostCLIs -> Ext!Job]
    BY IdleIsJob DEF Ext!Init, Ext!Host
  <2> QED
    BY <2>1, <2>2, <2>3 DEF Ext!Init, Ext!TypeOK
<1>2. \A c \in HostCLIs : job[c] = Ext!Idle
  BY DEF Ext!Init
<1>3. Ext!Idle.stage = "idle" /\ Ext!Idle.kind = "init" /\ Ext!Idle.key = Ext!NoKey /\ Ext!Idle.entry = Ext!NoEntry
  BY DEF Ext!Idle
<1>4. ExtShapeOK(Ext!Idle)
  BY <1>3 DEF ExtShapeOK, ExtStageOK, Enrolls
<1>5. Ext!HostsAreListed /\ Ext!DestroyedStaysGone /\ KeysOK
  BY <1>2, <1>3 DEF Ext!Init, Ext!HostsAreListed, Ext!DestroyedStaysGone, KeysOK, Ext!NoKey
<1>6. Met /\ ListedOK /\ GoneOK
  BY <1>2, <1>3 DEF Ext!Init, Met, ListedOK, GoneOK, Ext!Active, Ext!At, Enrolls, Cleans
<1>7. SettledOK /\ RotationOK
  BY <1>2, <1>3 DEF Ext!Init, SettledOK, RotationOK, Settled, Rotates, Cleans
<1> QED
  BY <1>1, <1>2, <1>4, <1>5, <1>6, <1>7 DEF ExternalInv

(* The stage of a command tells its kind.                                    *)
LEMMA KindOf ==
    ASSUME NEW j \in Ext!Job, ExtShapeOK(j)
    PROVE  /\ j.stage \in {"mint", "register", "write", "install", "await", "mark"}
                => j.kind = "init"
           /\ j.stage \in {"push", "restart", "supersede", "drop"} => j.kind = "rotate"
           /\ j.stage \in {"swap", "record"} => j.kind = "upgrade"
           /\ j.stage = "put" => j.kind = "reconcile"
           /\ j.stage = "cordon" => j.kind = "destroy"
           /\ j.stage \in {"revoke", "user", "remove"} => j.kind \in {"init", "destroy"}
<1>1. j.kind \in Ext!Kinds
  BY DEF Ext!Job
<1> QED
  BY <1>1 DEF Ext!Kinds, ExtShapeOK, ExtStageOK

-----------------------------------------------------------------------------
(* A turn: a step of one command that runs, which creates no key             *)

Turn(c) ==
    /\ Ext!Active(c)
    /\ job' \in [HostCLIs -> Ext!Job]
    /\ \A d \in HostCLIs : d # c => job'[d] = job[d]
    /\ ExtShapeOK(job'[c])
    /\ \/ job'[c] = Ext!Idle
       \/ /\ job'[c].kind = job[c].kind /\ job'[c].met = job[c].met
          /\ job'[c].key = job[c].key

(* The end of a command is a turn.                                           *)
LEMMA FinishTurn ==
    ASSUME ExternalInv, NEW c \in HostCLIs, Ext!Active(c), Ext!Finish(c)
    PROVE  Turn(c) /\ job'[c] = Ext!Idle
<1>1. Ext!Idle \in Ext!Job
  BY IdleIsJob
<1>2. ExtShapeOK(Ext!Idle)
  BY DEF ExtShapeOK, ExtStageOK, Enrolls, Ext!Idle
<1> QED
  BY <1>1, <1>2 DEF Turn, Ext!Finish, ExternalInv, Ext!TypeOK

(* So is a step to another stage of the command's kind.                      *)
LEMMA GotoTurn ==
    ASSUME ExternalInv, NEW c \in HostCLIs, Ext!Active(c), NEW s \in Ext!Stages \ {"idle"}, Ext!Goto(c, s),
           ExtStageOK([kind |-> job[c].kind, stage |-> s]),
           s \in {"register", "write", "install", "restart", "supersede", "drop"}
             => job[c].key # Ext!NoKey,
           s \notin {"mint", "mark"},
           s \in {"write", "install"} => job[c].entry \in Ext!Entry,
           job[c].kind = "init" /\ s # "await"
             => job[c].entry = Ext!NoEntry \/ job[c].entry.born = job[c].key
    PROVE  /\ Turn(c)
           /\ job'[c] \in Ext!Job /\ job'[c].stage = s /\ job'[c].kind = job[c].kind
           /\ job'[c].entry = job[c].entry /\ job'[c].key = job[c].key
           /\ job'[c].ok = job[c].ok /\ job'[c].cut = job[c].cut /\ job'[c].met = job[c].met
<1>1. job[c] \in Ext!Job
  BY DEF ExternalInv, Ext!TypeOK
<1>2. job'[c] = [job[c] EXCEPT !.stage = s]
  BY DEF Ext!Goto, ExternalInv, Ext!TypeOK
<1>3. /\ job'[c] \in Ext!Job /\ job'[c].stage = s /\ job'[c].kind = job[c].kind
      /\ job'[c].entry = job[c].entry /\ job'[c].key = job[c].key
      /\ job'[c].ok = job[c].ok /\ job'[c].cut = job[c].cut /\ job'[c].met = job[c].met
  BY <1>1, <1>2 DEF Ext!Job
<1>4. ExtShapeOK(job[c])
  BY DEF ExternalInv
<1>5. ExtShapeOK(job'[c])
  BY <1>3, <1>4 DEF ExtShapeOK, ExtStageOK, Enrolls, Ext!Active, Ext!At
<1>6. job' \in [HostCLIs -> Ext!Job] /\ \A d \in HostCLIs : d # c => job'[d] = job[d]
  BY <1>3 DEF Ext!Goto, ExternalInv, Ext!TypeOK
<1> QED
  BY <1>3, <1>5, <1>6 DEF Turn

(* A turn keeps every command in shape, and what they know of each other.   *)
LEMMA MetTurn ==
    ASSUME ExternalInv, NEW c \in HostCLIs, Turn(c)
    PROVE  (\A d \in HostCLIs : ExtShapeOK(job[d]))' /\ Met'
<1>1. \A d \in HostCLIs : ExtShapeOK(job'[d])
  BY DEF Turn, ExternalInv
<1>2. \A d \in HostCLIs : Ext!Active(d)' => Ext!Active(d) /\ job'[d].kind = job[d].kind
                                            /\ job'[d].met = job[d].met
  BY DEF Turn, Ext!Active, Ext!At, Ext!Idle
<1>3. Met'
  BY <1>2 DEF Met, ExternalInv
<1> QED
  BY <1>1, <1>3

(* A turn creates no key, so it may only write its own to the machine.      *)
LEMMA KeysTurn ==
    ASSUME ExternalInv, NEW c \in HostCLIs, Turn(c),
           active' \subseteq active, minted' = minted,
           host'.env \in {host.env, job[c].key}
    PROVE  KeysOK'
<1>1. \A d \in HostCLIs : job'[d].key \in {job[d].key, Ext!NoKey}
  BY DEF Turn, Ext!Idle
<1>2. minted \in Nat
  BY ExternalAssumption DEF Ext!ExternalNodeAssumption, ExternalInv, Ext!TypeOK
<1> QED
  BY <1>1, <1>2 DEF KeysOK, ExternalInv, Ext!NoKey

(* It keeps the node listed, if it does not change which enrollment the      *)
(* entry is of, and is about to remove it only once the keys are revoked.    *)
LEMMA ListedTurn ==
    ASSUME ExternalInv, NEW c \in HostCLIs, Turn(c),
           active' \subseteq active,
           "listing" \notin forgiven' => registry'.born = registry.born,
           forgiven \subseteq forgiven',
           \/ host'.env = host.env
           \/ host'.env = job[c].key /\ (Enrolls(job[c]) \/ Rotates(c)),
           job'[c].kind # "init" => job'[c].entry = job[c].entry,
           Enrolls(job'[c]) => Enrolls(job[c]),
           Cleans(job'[c]) =>
             \/ active' = {} \/ "listing" \in forgiven'
             \/ Cleans(job[c]) /\ job'[c].entry = job[c].entry /\ host' = host
    PROVE  ListedOK'
<1> SUFFICES ASSUME "listing" \notin forgiven', NEW d \in HostCLIs
             PROVE  /\ job'[d].kind # "init" => registry'.born = job'[d].entry.born
                    /\ Enrolls(job'[d]) => registry'.born = job'[d].key
                    /\ job'[d].kind = "init" /\ Cleans(job'[d]) /\ job'[d].met \subseteq {"init"}
                         /\ job'[d].entry # Ext!NoEntry /\ registry'.born = job'[d].entry.born
                         => host'.env \notin active'
                    /\ job'[d].kind = "destroy" /\ Cleans(job'[d]) /\ job'[d].met = {}
                         => active' = {}
  BY DEF ListedOK, Enrolls, Cleans
<1>1. /\ job[d].kind # "init" => registry.born = job[d].entry.born
      /\ Enrolls(job[d]) => registry.born = job[d].key
      /\ job[d].kind = "init" /\ Cleans(job[d]) /\ job[d].met \subseteq {"init"}
           /\ job[d].entry # Ext!NoEntry /\ registry.born = job[d].entry.born
           => host.env \notin active
      /\ job[d].kind = "destroy" /\ Cleans(job[d]) /\ job[d].met = {} => active = {}
  BY DEF ExternalInv, ListedOK
<1>2. CASE d = c
  <2>1. CASE job'[c] = Ext!Idle
    BY <1>2, <2>1 DEF Ext!Idle, Enrolls, Cleans
  <2>2. CASE job'[c] # Ext!Idle
    BY <1>1, <1>2, <2>2 DEF Turn
  <2> QED
    BY <2>1, <2>2
<1>3. CASE d # c
  <2>1. job'[d] = job[d]
    BY <1>3 DEF Turn
  <2>2. /\ Enrolls(job[c]) => registry.born = job[c].key
        /\ job[c].key = job[d].key => job[c].key = Ext!NoKey
        /\ Enrolls(job[c]) => job[c].key # Ext!NoKey
    BY <1>3 DEF ExternalInv, ListedOK, KeysOK, ExtShapeOK, Enrolls
  <2>3. ASSUME job[d].kind = "init", Cleans(job[d]), job[d].met \subseteq {"init"},
               job[d].entry # Ext!NoEntry, registry.born = job[d].entry.born
        PROVE  host'.env \notin active'
    <3>1. job[d].entry.born = job[d].key
      BY <2>3 DEF ExternalInv, ExtShapeOK, Cleans
    <3>2. ~Enrolls(job[c])
      BY <2>2, <2>3, <3>1
    <3>3. Ext!Active(d) /\ ExtShapeOK(job[c])
      BY <2>3 DEF Ext!Active, Ext!At, Cleans, ExternalInv
    <3>4. ~Rotates(c)
      BY <2>3, <3>3, <1>3 DEF ExternalInv, Met, Rotates, Turn
    <3> QED
      BY <1>1, <2>3, <3>2, <3>4
  <2> QED
    BY <1>1, <2>1, <2>3
<1> QED
  BY <1>2, <1>3

(* A destroy that runs alone is not disturbed, and none has run before it.  *)
LEMMA GoneTurn ==
    ASSUME ExternalInv, NEW c \in HostCLIs, Turn(c), gone' = gone,
           job'[c].kind = "destroy" /\ Cleans(job'[c]) /\ job'[c].ok =>
             active' = {} /\ (job'[c].stage = "remove" => ~user')
    PROVE  GoneOK' /\ Ext!DestroyedStaysGone'
<1>1. ~gone'
  BY DEF ExternalInv, GoneOK, Turn
<1>2. ASSUME NEW d \in HostCLIs, job'[d].kind = "destroy", Cleans(job'[d]), job'[d].ok, job'[d].met = {}
      PROVE  active' = {} /\ (job'[d].stage = "remove" => ~user')
  <2>1. CASE d # c
    <3>1. job'[d] = job[d] /\ Ext!Active(d) /\ Ext!Active(c)
      BY <1>2, <2>1 DEF Turn, Cleans, Ext!Active, Ext!At
    <3> QED
      BY <1>2, <2>1, <3>1 DEF ExternalInv, Met
  <2> QED
    BY <1>2, <2>1
<1>3. GoneOK'
  BY <1>1, <1>2 DEF GoneOK, Cleans
<1> QED
  BY <1>1, <1>3 DEF Ext!DestroyedStaysGone

(* The machine that such a turn gives a key has an entry.                    *)
LEMMA HostsTurn ==
    ASSUME ExternalInv, NEW c \in HostCLIs,
           active' \subseteq active,
           "listing" \notin forgiven' => registry'.born = registry.born,
           registry' \in Ext!Entry \cup {Ext!NoEntry}, forgiven \subseteq forgiven',
           \/ host'.env = host.env
           \/ host'.env = job[c].key /\ (Enrolls(job[c]) \/ Rotates(c))
    PROVE  Ext!HostsAreListed'
<1>1. \A e \in Ext!Entry : e.born # Ext!NoKey
  BY DEF Ext!Entry, Ext!Keys, Ext!NoKey
<1>2. Ext!NoEntry.born = Ext!NoKey
  BY DEF Ext!NoEntry
<1> SUFFICES ASSUME host'.env \in active', registry' = Ext!NoEntry, "listing" \notin forgiven'
             PROVE  FALSE
  BY DEF Ext!HostsAreListed
<1>3. registry = Ext!NoEntry
  BY <1>1, <1>2 DEF ExternalInv, Ext!TypeOK
<1>4. host.env \notin active
  BY <1>3 DEF ExternalInv, Ext!HostsAreListed
<1>5. ~Enrolls(job[c])
  BY <1>2, <1>3 DEF ExternalInv, ListedOK, ExtShapeOK, Enrolls
<1>6. ~Rotates(c)
  <2> SUFFICES ASSUME Rotates(c) PROVE FALSE
    OBVIOUS
  <2>1. job[c].entry \in Ext!Entry
    BY DEF ExternalInv, ExtShapeOK, Rotates
  <2>2. registry.born = job[c].entry.born
    BY DEF ExternalInv, ListedOK, Rotates
  <2> QED
    BY <1>1, <1>2, <1>3, <2>1, <2>2
<1> QED
  BY <1>4, <1>5, <1>6

(* A turn settles no key but where an enrollment is installed or a rotation  *)
(* has deleted the others.                                                   *)
LEMMA SettledTurn ==
    ASSUME ExternalInv, NEW c \in HostCLIs, Turn(c),
           active' \subseteq active, forgiven \subseteq forgiven',
           host'.unit # "none" => host'.up, host.up => host'.up,
           job'[c].stage = "supersede" => host'.up,
           "keys" \notin forgiven' =>
             /\ job'[c].kind = "init" /\ Cleans(job'[c]) =>
                  active' = {} \/ Cleans(job[c])
             /\ \/ host'.up /\ \A k, l \in Settled' : k = l
                \/ job'[c].stage \notin {"idle", "await", "mark"}
                \/ job[c].stage \in {"await", "mark"}
                \/ job[c].key \notin active'
    PROVE  SettledOK'
<1>1. \A d \in HostCLIs : job'[d].stage = "supersede" => host'.up
  BY DEF Turn, ExternalInv, SettledOK
<1> SUFFICES ASSUME "keys" \notin forgiven'
             PROVE  /\ \A d \in HostCLIs : job'[d].kind = "init" /\ Cleans(job'[d])
                                             => job'[d].key \notin active'
                    /\ \A k, l \in Settled' : k = l
                    /\ ~host'.up => Settled' = {}
  BY <1>1 DEF SettledOK, Cleans
<1>2. /\ \A d \in HostCLIs : job[d].kind = "init" /\ Cleans(job[d]) => job[d].key \notin active
      /\ \A k, l \in Settled : k = l
      /\ ~host.up => Settled = {}
  BY DEF ExternalInv, SettledOK
<1>3. \A d \in HostCLIs : job'[d].kind = "init" /\ Cleans(job'[d]) => job'[d].key \notin active'
  BY <1>2 DEF Turn, Ext!Idle, Cleans
<1>4. CASE host'.up /\ \A k, l \in Settled' : k = l
  BY <1>3, <1>4
<1>5. CASE \/ job'[c].stage \notin {"idle", "await", "mark"}
           \/ job[c].stage \in {"await", "mark"}
           \/ job[c].key \notin active'
  <2>1. Ext!Idle.stage = "idle"
    BY DEF Ext!Idle
  <2>2. ASSUME NEW k \in Settled' PROVE k \in Settled
    <3>1. k \in active /\ k \in active'
          /\ \A d \in HostCLIs : job'[d].key = k => job'[d].stage \in {"await", "mark"}
      BY <2>2 DEF Settled
    <3>2. ASSUME NEW d \in HostCLIs, job[d].key = k PROVE job[d].stage \in {"await", "mark"}
      BY <1>5, <2>1, <3>1, <3>2 DEF Turn
    <3> QED
      BY <3>1, <3>2 DEF Settled
  <2> QED
    BY <1>2, <1>3, <2>2
<1> QED
  BY <1>4, <1>5

(* Two rotations whose keys are both good there are not, unless one found no *)
(* key to replace: each has another beside it that no rotation created.      *)
LEMMA OneRotates ==
    ASSUME ExternalInv, "rotation" \notin forgiven, NEW c \in HostCLIs, NEW d \in HostCLIs, c # d,
           Rotates(c), Rotates(d), job[c].key \in active
    PROVE  job[d].key \notin active
<1>1. PICK x \in active : \A e \in HostCLIs : Rotates(e) => job[e].key # x
  BY DEF ExternalInv, RotationOK
<1>2. job[c].key # job[d].key
  BY DEF ExternalInv, KeysOK, Rotates
<1> QED
  BY <1>1, <1>2 DEF ExternalInv, KeysOK

(* A turn leaves the rotations what they rely on, if the machine is only     *)
(* written by an enrollment or a rotation, with its own key, and keys only   *)
(* go all together, or at the end of a rotation: its own, or all the others. *)
LEMMA RotationTurn ==
    ASSUME ExternalInv, NEW c \in HostCLIs, Turn(c), forgiven \subseteq forgiven',
           \/ active' = active
           \/ active' = {}
           \/ /\ Rotates(c) /\ job'[c] = Ext!Idle
              /\ active' \in {active \ {job[c].key}, active \cap {job[c].key}},
           \/ host'.env = host.env
           \/ /\ host'.env = job[c].key
              /\ \/ Enrolls(job[c])
                 \/ Rotates(c) /\ job'[c].stage = "restart",
           Rotates(c) /\ job'[c].stage \in {"push", "drop"} =>
             job'[c].cut \/ (host'.env = host.env /\ job[c].stage \in {"push", "drop"} /\ ~job[c].cut),
           Rotates(c) /\ job'[c].stage \in {"restart", "supersede"} =>
             \/ host'.env = job[c].key
             \/ host'.env = host.env /\ job[c].stage \in {"restart", "supersede"}
    PROVE  RotationOK'
<1>1. \A d \in HostCLIs : Rotates(d)' => /\ Rotates(d) /\ job'[d].key = job[d].key
                                         /\ job'[d].met = job[d].met
                                         /\ d = c \/ job'[d] = job[d]
  BY DEF Turn, Rotates, Ext!Idle
<1>2. \A d \in HostCLIs : d # c /\ Rotates(d) => job[d].key # job[c].key
  BY DEF ExternalInv, KeysOK, Rotates
<1>3. ASSUME NEW d \in HostCLIs, Rotates(d)', ~job'[d].cut, job'[d].stage \in {"push", "drop"}
      PROVE  host'.env # job'[d].key
  <2>1. CASE d = c
    BY <1>1, <1>3, <2>1 DEF ExternalInv, RotationOK
  <2>2. CASE d # c
    BY <1>1, <1>2, <1>3, <2>2 DEF ExternalInv, RotationOK
  <2> QED
    BY <2>1, <2>2
<1>4. ASSUME "rotation" \notin forgiven', NEW d \in HostCLIs, Rotates(d)'
      PROVE  /\ job'[d].key \in active' =>
                  \E x \in active' : \A e \in HostCLIs : Rotates(e)' => job'[e].key # x
             /\ "init" \notin job'[d].met =>
                  /\ job'[d].key \notin active' => active' = {}
                  /\ job'[d].stage \in {"restart", "supersede"}
                       => host'.env = job'[d].key \/ host'.env \notin active'
  <2> DEFINE k == job[d].key
  <2>1. /\ Rotates(d) /\ job'[d].key = k /\ job'[d].met = job[d].met
        /\ d = c \/ job'[d] = job[d]
    BY <1>1, <1>4
  <2>2. /\ k \in active => \E x \in active : \A e \in HostCLIs : Rotates(e) => job[e].key # x
        /\ "init" \notin job[d].met =>
             /\ k \notin active => active = {}
             /\ job[d].stage \in {"restart", "supersede"} => host.env = k \/ host.env \notin active
    BY <1>4, <2>1 DEF ExternalInv, RotationOK
  <2>3. ASSUME Rotates(c), job'[c] = Ext!Idle PROVE d # c
    BY <1>4, <2>3 DEF Rotates, Ext!Idle
  <2>4. ASSUME k \in active'
        PROVE  \E x \in active' : \A e \in HostCLIs : Rotates(e)' => job'[e].key # x
    <3>1. active' \subseteq active
      OBVIOUS
    <3>2. PICK x \in active : \A e \in HostCLIs : Rotates(e) => job[e].key # x
      BY <2>2, <2>4, <3>1
    <3>3. x \in active'
      BY <1>2, <2>1, <2>3, <2>4, <3>2
    <3> QED
      BY <1>1, <3>2, <3>3
  <2>5. ASSUME "init" \notin job[d].met, k \notin active' PROVE active' = {}
    <3>1. CASE active' = active \/ active' = {}
      BY <2>2, <2>5, <3>1
    <3>2. CASE Rotates(c) /\ job'[c] = Ext!Idle
               /\ active' \in {active \ {job[c].key}, active \cap {job[c].key}}
      <4>1. d # c /\ k # job[c].key
        BY <1>2, <2>1, <2>3, <3>2
      <4>2. k \notin active => active = {}
        BY <2>2, <2>5
      <4>3. k \in active => job[c].key \notin active
        BY <1>4, <2>1, <3>2, <4>1, OneRotates
      <4> QED
        BY <2>5, <3>2, <4>1, <4>2, <4>3
    <3> QED
      BY <3>1, <3>2
  <2>6. ASSUME "init" \notin job[d].met, job'[d].stage \in {"restart", "supersede"}
        PROVE  host'.env = k \/ host'.env \notin active'
    <3>1. CASE d = c
      BY <2>1, <2>2, <2>6, <3>1
    <3>2. CASE d # c
      <4>1. host.env = k \/ host.env \notin active
        BY <2>1, <2>2, <2>6, <3>2
      <4>2. CASE host'.env = host.env
        BY <4>1, <4>2
      <4>3. CASE Enrolls(job[c])
        <5>1. Ext!Active(d) /\ Ext!Active(c)
          BY <2>1, <4>3 DEF Turn, ExternalInv, ExtShapeOK, Rotates, Ext!Active, Ext!At, Ext!Idle
        <5> QED
          BY <2>6, <3>2, <4>3, <5>1 DEF ExternalInv, Met, Enrolls
      <4>4. CASE Rotates(c) /\ host'.env = job[c].key
        <5>1. k \in active => job[c].key \notin active
          BY <1>4, <2>1, <3>2, <4>4, OneRotates
        <5> QED
          BY <2>2, <2>6, <4>4, <5>1
      <4> QED
        BY <4>2, <4>3, <4>4
    <3> QED
      BY <3>1, <3>2
  <2> QED
    BY <2>1, <2>4, <2>5, <2>6
<1> QED
  BY <1>3, <1>4 DEF RotationOK

(* All of it together, for a turn that does not change which enrollment the *)
(* entry is of.                                                              *)
LEMMA TurnInv ==
    ASSUME ExternalInv, Ext!TypeOK', NEW c \in HostCLIs, Turn(c),
           minted' = minted, gone' = gone,
           "listing" \notin forgiven' => registry'.born = registry.born,
           forgiven \subseteq forgiven',
           \/ active' = active
           \/ active' = {}
           \/ /\ Rotates(c) /\ job'[c] = Ext!Idle
              /\ active' \in {active \ {job[c].key}, active \cap {job[c].key}},
           \/ host'.env = host.env
           \/ /\ host'.env = job[c].key
              /\ \/ Enrolls(job[c])
                 \/ Rotates(c) /\ job'[c].stage = "restart",
           host'.unit # "none" => host'.up, host.up => host'.up,
           job'[c].stage = "supersede" => host'.up,
           job'[c].kind # "init" => job'[c].entry = job[c].entry,
           Enrolls(job'[c]) => Enrolls(job[c]),
           Cleans(job'[c]) =>
             \/ active' = {} \/ {"listing", "keys"} \subseteq forgiven'
             \/ Cleans(job[c]) /\ job'[c].entry = job[c].entry /\ host' = host,
           job'[c].kind = "destroy" /\ Cleans(job'[c]) /\ job'[c].ok =>
             active' = {} /\ (job'[c].stage = "remove" => ~user'),
           "keys" \notin forgiven' =>
             \/ host'.up /\ \A k, l \in Settled' : k = l
             \/ job'[c].stage \notin {"idle", "await", "mark"}
             \/ job[c].stage \in {"await", "mark"}
             \/ job[c].key \notin active',
           Rotates(c) /\ job'[c].stage \in {"push", "drop"} =>
             job'[c].cut \/ (host'.env = host.env /\ job[c].stage \in {"push", "drop"} /\ ~job[c].cut),
           Rotates(c) /\ job'[c].stage \in {"restart", "supersede"} =>
             \/ host'.env = job[c].key
             \/ host'.env = host.env /\ job[c].stage \in {"restart", "supersede"}
    PROVE  ExternalInv'
<1>1. active' \subseteq active /\ host'.env \in {host.env, job[c].key}
  OBVIOUS
<1>2. (\A d \in HostCLIs : ExtShapeOK(job[d]))' /\ Met' /\ KeysOK'
  BY <1>1, MetTurn, KeysTurn
<1>3. registry' \in Ext!Entry \cup {Ext!NoEntry}
  BY DEF Ext!TypeOK
<1>4. Ext!HostsAreListed'
  BY <1>1, <1>3, HostsTurn
<1>5. ListedOK'
  BY <1>1, ListedTurn
<1>6. GoneOK' /\ Ext!DestroyedStaysGone'
  BY <1>1, GoneTurn
<1>7. SettledOK'
  BY <1>1, SettledTurn
<1>8. RotationOK'
  BY RotationTurn
<1> QED
  BY <1>2, <1>4, <1>5, <1>6, <1>7, <1>8 DEF ExternalInv

-----------------------------------------------------------------------------
(* The actions.  A destroy, or a rollback, deletes every key.                *)
LEMMA RevokeInv ==
    ASSUME ExternalInv, NEW c \in HostCLIs, Ext!Revoke(c), UNCHANGED <<hostStarts, hostFaults>>
    PROVE  ExternalInv'
<1>1. /\ job[c].stage = "revoke" /\ Ext!Active(c) /\ ExtShapeOK(job[c]) /\ Ext!Goto(c, "user")
      /\ active' = {} /\ UNCHANGED <<registry, user, minted, host, status, forgiven, gone>>
  BY DEF Ext!Revoke, Ext!history, Ext!Active, Ext!At, ExternalInv
<1>2. /\ Turn(c)
      /\ job'[c].stage = "user" /\ job'[c].kind = job[c].kind /\ job'[c].entry = job[c].entry
  BY <1>1, GotoTurn DEF ExtShapeOK, ExtStageOK, Ext!Stages
<1>3. Ext!TypeOK'
  BY <1>1, <1>2 DEF ExternalInv, Ext!TypeOK, Turn
<1>4. host'.unit # "none" => host'.up
  BY <1>1 DEF ExternalInv, SettledOK
<1> QED
  BY <1>1, <1>2, <1>3, <1>4, TurnInv DEF Enrolls, Cleans, Rotates, ExtShapeOK, ExtStageOK

(* The user goes, unless there is a key again.                               *)
LEMMA DeleteUserInv ==
    ASSUME ExternalInv, NEW c \in HostCLIs, Ext!DeleteUser(c),
           UNCHANGED <<hostStarts, hostFaults>>
    PROVE  ExternalInv'
<1> DEFINE j == [job[c] EXCEPT !.stage = "remove", !.ok = @ /\ active = {}]
<1>1. /\ job[c].stage = "user" /\ Ext!Active(c) /\ ExtShapeOK(job[c]) /\ job[c] \in Ext!Job
      /\ forgiven' = forgiven \cup (IF active = {} THEN {} ELSE {"listing", "keys"})
      /\ UNCHANGED <<registry, active, minted, host, status, gone>>
  BY DEF Ext!DeleteUser, Ext!Active, Ext!At, ExternalInv, Ext!TypeOK
<1>2. job' = [job EXCEPT ![c] = j]
  BY Zenon DEF Ext!DeleteUser
<1>3. PICK b \in BOOLEAN : b = (job[c].ok /\ active = {})
  OBVIOUS
<1>4. /\ j \in Ext!Job /\ j.stage = "remove" /\ j.kind = job[c].kind /\ j.entry = job[c].entry
      /\ j.key = job[c].key /\ j.met = job[c].met /\ j.ok = b
  BY <1>1, <1>3 DEF Ext!Job, Ext!Stages
<1> HIDE DEF j
<1>5. job'[c] = j /\ job' \in [HostCLIs -> Ext!Job] /\ \A d \in HostCLIs : d # c => job'[d] = job[d]
  BY <1>2, <1>4 DEF ExternalInv, Ext!TypeOK
<1>6. ExtShapeOK(j)
  BY <1>1, <1>4 DEF ExtShapeOK, ExtStageOK, Enrolls
<1>7. Turn(c)
  BY <1>1, <1>4, <1>5, <1>6 DEF Turn
<1>8. user' = (active # {}) /\ user' \in BOOLEAN
  BY DEF Ext!DeleteUser
<1>9. Ext!TypeOK'
  BY <1>1, <1>5, <1>8 DEF ExternalInv, Ext!TypeOK
<1>10. host'.unit # "none" => host'.up
  BY <1>1 DEF ExternalInv, SettledOK
<1>11. /\ job'[c].stage = "remove" /\ job'[c].entry = job[c].entry
       /\ job'[c].ok => active' = {} /\ ~user'
  BY <1>1, <1>3, <1>4, <1>5, <1>8
<1>12. Cleans(job[c]) /\ ~Enrolls(job'[c])
       /\ ~(Rotates(c) /\ job'[c].stage \in {"push", "drop", "restart", "supersede"})
  BY <1>1, <1>11 DEF Cleans, Enrolls
<1> QED
  BY <1>1, <1>4, <1>5, <1>7, <1>9, <1>10, <1>11, <1>12, TurnInv

(* The enrollment writes its key to the machine.                             *)
LEMMA WriteEnvInv ==
    ASSUME ExternalInv, NEW c \in HostCLIs, Ext!WriteEnv(c), UNCHANGED <<hostStarts, hostFaults>>
    PROVE  ExternalInv'
<1>1. /\ job[c].stage = "write" /\ Ext!Active(c) /\ ExtShapeOK(job[c]) /\ job[c] \in Ext!Job
      /\ Ext!Goto(c, "install") /\ host' = [host EXCEPT !.env = job[c].key]
      /\ UNCHANGED <<registry, user, active, minted, status, forgiven, gone>>
  BY DEF Ext!WriteEnv, Ext!After, Ext!aws, Ext!history, Ext!Active, Ext!At, ExternalInv, Ext!TypeOK
<1>0. job[c].kind = "init"
  BY <1>1, KindOf
<1>2. /\ Turn(c)
      /\ job'[c].stage = "install" /\ job'[c].kind = job[c].kind
      /\ job'[c].entry = job[c].entry
  BY <1>0, <1>1, GotoTurn DEF ExtShapeOK, ExtStageOK, Ext!Stages, Enrolls
<1>3. /\ host' \in Ext!Host /\ host'.env = job[c].key /\ host'.unit = host.unit /\ host'.up = host.up
  BY <1>1 DEF Ext!Host, Ext!Job, ExternalInv, Ext!TypeOK
<1>4. Ext!TypeOK'
  BY <1>1, <1>2, <1>3 DEF ExternalInv, Ext!TypeOK, Turn
<1>5. (host'.unit # "none" => host'.up) /\ (host.up => host'.up)
  BY <1>3 DEF ExternalInv, SettledOK
<1>6. Enrolls(job[c]) /\ Enrolls(job'[c]) /\ ~Cleans(job'[c]) /\ ~Rotates(c)
  BY <1>0, <1>1, <1>2 DEF Enrolls, Cleans, Rotates
<1> QED
  BY <1>1, <1>2, <1>3, <1>4, <1>5, <1>6, TurnInv

(* What the rest of the bootstrap makes of the machine: the agent runs.      *)
LEMMA InstalledOK ==
    ASSUME ExternalInv
    PROVE  Ext!Installed \in Ext!Host /\ Ext!Installed.env = host.env /\ Ext!Installed.up
BY DEF ExternalInv, Ext!TypeOK, Ext!Host, Ext!Installed

(* So does a restart, if there is a unit.                                    *)
LEMMA RestartedOK ==
    ASSUME NEW h \in Ext!Host, h.unit # "none" => h.up
    PROVE  /\ Ext!Restarted(h) \in Ext!Host /\ Ext!Restarted(h).env = h.env /\ Ext!Restarted(h).unit = h.unit
           /\ Ext!Restarted(h).unit # "none" => Ext!Restarted(h).up
           /\ h.up => Ext!Restarted(h).up
<1>1. CASE h.unit = "none"
  BY <1>1 DEF Ext!Restarted
<1>2. CASE h.unit # "none"
  <2>1. PICK k \in Ext!Keys \cup {Ext!NoKey} : k = IF h.unit = "file" THEN h.env ELSE Ext!NoKey
    BY DEF Ext!Host
  <2>2. Ext!Restarted(h) = [h EXCEPT !.up = TRUE, !.runs = k]
    BY <1>2, <2>1 DEF Ext!Restarted
  <2> QED
    BY <1>2, <2>2 DEF Ext!Host
<1> QED
  BY <1>1, <1>2

(* An upgrade leaves the key on the machine, and its agent runs.             *)
LEMMA UpgradedOK ==
    ASSUME ExternalInv
    PROVE  Ext!Upgraded \in Ext!Host /\ Ext!Upgraded.env = host.env /\ Ext!Upgraded.up
<1> DEFINE h == [host EXCEPT !.unit = "plain"]
<1>1. h \in Ext!Host /\ h.env = host.env /\ h.unit = "plain"
  BY DEF ExternalInv, Ext!TypeOK, Ext!Host
<1>2. Ext!Restarted(h) = [h EXCEPT !.up = TRUE, !.runs = Ext!NoKey]
  BY <1>1 DEF Ext!Restarted
<1>3. Ext!Restarted(h) \in Ext!Host /\ Ext!Restarted(h).env = host.env /\ Ext!Restarted(h).up
  BY <1>1, <1>2 DEF Ext!Host
<1> QED
  BY <1>3 DEF Ext!Upgraded

(* The enrollment goes on to wait where no agent ran before, and then there  *)
(* was no settled key; otherwise it is rolled back.                          *)
LEMMA InstallInv ==
    ASSUME ExternalInv, NEW c \in HostCLIs, Ext!Install(c), UNCHANGED <<hostStarts, hostFaults>>
    PROVE  ExternalInv'
<1>1. /\ job[c].stage = "install" /\ Ext!Active(c) /\ ExtShapeOK(job[c]) /\ job[c] \in Ext!Job
      /\ UNCHANGED <<registry, user, active, minted, status, forgiven, gone>>
  BY DEF Ext!Install, Ext!aws, Ext!history, Ext!Active, Ext!At, ExternalInv, Ext!TypeOK
<1>2. job[c].kind = "init" /\ ~Rotates(c)
  BY <1>1, KindOf DEF Rotates
<1>3. PICK s \in {"revoke", "await"} :
         /\ Ext!Goto(c, s)
         /\ s = "revoke" => UNCHANGED host
         /\ s = "await" => ~host.up /\ host' = Ext!Installed
  BY DEF Ext!Install, Ext!After
<1>4. /\ Turn(c) /\ job'[c].stage = s /\ job'[c].kind = job[c].kind
      /\ job'[c].entry = job[c].entry /\ job'[c].key = job[c].key
  BY <1>1, <1>2, <1>3, GotoTurn DEF ExtShapeOK, ExtStageOK, Ext!Stages
<1>5. /\ host' \in Ext!Host /\ host'.env = host.env /\ (s = "await" => host'.up)
      /\ host'.unit # "none" => host'.up
      /\ host.up => host'.up
  BY <1>3, InstalledOK DEF ExternalInv, Ext!TypeOK, SettledOK
<1>6. Ext!TypeOK'
  BY <1>1, <1>4, <1>5 DEF ExternalInv, Ext!TypeOK, Turn
<1>7. ASSUME s = "await", "keys" \notin forgiven PROVE \A k, l \in Settled' : k = l
  <2>1. Settled = {}
    BY <1>3, <1>7 DEF ExternalInv, SettledOK
  <2>2. ASSUME NEW k \in Settled' PROVE k = job[c].key
    <3> SUFFICES ASSUME k # job[c].key PROVE k \in Settled
      BY <2>1
    <3> QED
      BY <1>1, <1>4, <2>2 DEF Settled, Turn
  <2> QED
    BY <2>2
<1>8. ~Enrolls(job'[c]) /\ ~Cleans(job'[c]) /\ job'[c].stage \in {"revoke", "await"}
  BY <1>4 DEF Enrolls, Cleans
<1> QED
  BY <1>1, <1>2, <1>3, <1>4, <1>5, <1>6, <1>7, <1>8, TurnInv

(* The end of a command that leaves keys, machine and enrollment alone: its  *)
(* key is settled already, or it has none.                                   *)
LEMMA FinishInv ==
    ASSUME ExternalInv, Ext!TypeOK', NEW c \in HostCLIs, Ext!Active(c), Ext!Finish(c),
           UNCHANGED <<active, minted, host, gone>>,
           "listing" \notin forgiven' => registry'.born = registry.born,
           forgiven \subseteq forgiven',
           "keys" \notin forgiven' =>
             job[c].stage \in {"await", "mark"} \/ job[c].key \notin active
    PROVE  ExternalInv'
<1>1. Turn(c) /\ job'[c] = Ext!Idle
  BY FinishTurn
<1>2. host'.unit # "none" => host'.up
  BY DEF ExternalInv, SettledOK
<1> QED
  BY <1>1, <1>2, TurnInv DEF Ext!Idle, Enrolls, Cleans

(* The wait: a heartbeat is there, or the command ends without one.          *)
LEMMA AwaitInv ==
    ASSUME ExternalInv, NEW c \in HostCLIs, Ext!Await(c), UNCHANGED <<hostStarts, hostFaults>>
    PROVE  ExternalInv'
<1>1. /\ job[c].stage = "await" /\ Ext!Active(c) /\ ExtShapeOK(job[c]) /\ job[c] \in Ext!Job
      /\ UNCHANGED <<registry, user, active, minted, host, status, forgiven, gone>>
  BY DEF Ext!Await, Ext!aws, Ext!history, Ext!Active, Ext!At, ExternalInv, Ext!TypeOK
<1>2. CASE Ext!Finish(c)
  <2>1. Ext!TypeOK'
    BY <1>1, <1>2, FinishTurn DEF ExternalInv, Ext!TypeOK, Turn
  <2> QED
    BY <1>1, <1>2, <2>1, FinishInv
<1>3. CASE /\ registry # Ext!NoEntry
           /\ job' = [job EXCEPT ![c].entry = registry, ![c].stage = "mark"]
  <2> DEFINE j == [job[c] EXCEPT !.entry = registry, !.stage = "mark"]
  <2>1. registry \in Ext!Entry
    BY <1>3 DEF ExternalInv, Ext!TypeOK
  <2>2. /\ j \in Ext!Job /\ j.stage = "mark" /\ j.kind = job[c].kind /\ j.entry = registry
        /\ j.key = job[c].key /\ j.met = job[c].met
    BY <1>1, <2>1 DEF Ext!Job, Ext!Stages
  <2>3. job' = [job EXCEPT ![c] = j]
    BY Zenon, <1>3
  <2> HIDE DEF j
  <2>4. job'[c] = j /\ job' \in [HostCLIs -> Ext!Job] /\ \A d \in HostCLIs : d # c => job'[d] = job[d]
    BY <2>2, <2>3 DEF ExternalInv, Ext!TypeOK
  <2>5. job[c].kind = "init"
    BY <1>1, KindOf
  <2>6. ExtShapeOK(j)
    BY <1>1, <2>1, <2>2, <2>5 DEF ExtShapeOK, ExtStageOK, Enrolls
  <2>7. Turn(c)
    BY <1>1, <2>2, <2>4, <2>6 DEF Turn
  <2>8. Ext!TypeOK'
    BY <1>1, <2>4 DEF ExternalInv, Ext!TypeOK
  <2>9. /\ job'[c].stage = "mark" /\ job'[c].kind = "init"
        /\ ~Enrolls(job'[c]) /\ ~Cleans(job'[c]) /\ ~Rotates(c)
    BY <2>2, <2>4, <2>5 DEF Enrolls, Cleans, Rotates
  <2>10. host'.unit # "none" => host'.up
    BY <1>1 DEF ExternalInv, SettledOK
  <2> QED
    BY <1>1, <2>7, <2>8, <2>9, <2>10, TurnInv
<1> QED
  BY <1>2, <1>3 DEF Ext!Await

(* An entry that is put as it was read, but for its state or its version, is *)
(* of the same enrollment.                                                   *)
LEMMA PutOK ==
    ASSUME ExternalInv, NEW c \in HostCLIs, job[c].entry \in Ext!Entry
    PROVE  /\ \A s \in {"provisioning", "ready", "terminating"} :
                LET e == [job[c].entry EXCEPT !.state = s]
                IN  e \in Ext!Entry /\ e.born = job[c].entry.born
           /\ LET e == [job[c].entry EXCEPT !.upgraded = TRUE]
              IN  e \in Ext!Entry /\ e.born = job[c].entry.born
BY DEF Ext!Entry

(* markReady, upgrade-agent and reconcile put the entry and end.             *)
LEMMA MarkInv ==
    ASSUME ExternalInv, NEW c \in HostCLIs, Ext!Mark(c), UNCHANGED <<hostStarts, hostFaults>>
    PROVE  ExternalInv'
<1>1. /\ job[c].stage = "mark" /\ Ext!Active(c) /\ ExtShapeOK(job[c]) /\ Ext!Finish(c)
      /\ UNCHANGED <<user, active, minted, host, status, forgiven, gone>>
  BY DEF Ext!Mark, Ext!history, Ext!Active, Ext!At, ExternalInv
<1>2. job[c].entry \in Ext!Entry
  BY <1>1 DEF ExtShapeOK
<1>3. registry' \in Ext!Entry \cup {Ext!NoEntry} /\ registry'.born = registry.born
  BY <1>2, PutOK DEF Ext!Mark, ExternalInv, Ext!TypeOK
<1>4. Ext!TypeOK'
  BY <1>1, <1>3, FinishTurn DEF ExternalInv, Ext!TypeOK, Turn
<1> QED
  BY <1>1, <1>3, <1>4, FinishInv

(* The put of updateRegistryAgentVersion, and that of reconcile, write over  *)
(* what is there.                                                            *)
LEMMA OverwriteInv ==
    ASSUME ExternalInv, NEW c \in HostCLIs, Ext!Record(c) \/ Ext!PutReady(c),
           UNCHANGED <<hostStarts, hostFaults>>
    PROVE  ExternalInv'
<1>1. /\ job[c].stage \in {"record", "put"} /\ Ext!Active(c) /\ Ext!Finish(c)
      /\ ExtShapeOK(job[c]) /\ job[c] \in Ext!Job
      /\ UNCHANGED <<user, active, minted, host, status, forgiven, gone>>
      /\ \/ registry' = [job[c].entry EXCEPT !.upgraded = TRUE]
         \/ registry' = [job[c].entry EXCEPT !.state = "ready"]
  BY DEF Ext!Record, Ext!PutReady, Ext!history, Ext!Active, Ext!At, ExternalInv, Ext!TypeOK
<1>2. job[c].kind \in {"upgrade", "reconcile"}
  BY <1>1, KindOf
<1>3. job[c].entry \in Ext!Entry /\ job[c].key = Ext!NoKey
  BY <1>1, <1>2 DEF ExtShapeOK
<1>4. registry' \in Ext!Entry /\ registry'.born = job[c].entry.born
  BY <1>1, <1>3, PutOK
<1>5. Ext!TypeOK'
  BY <1>1, <1>4, FinishTurn DEF ExternalInv, Ext!TypeOK, Turn
<1>6. "listing" \notin forgiven' => registry'.born = registry.born
  BY <1>1, <1>2, <1>4 DEF ExternalInv, ListedOK
<1>7. Ext!NoKey \notin active
  BY DEF ExternalInv, Ext!TypeOK, Ext!Keys, Ext!NoKey
<1> QED
  BY <1>1, <1>3, <1>5, <1>6, <1>7, FinishInv

(* destroy begins: the entry is put back as read, and marked.                *)
LEMMA CordonInv ==
    ASSUME ExternalInv, NEW c \in HostCLIs, Ext!Cordon(c), UNCHANGED <<hostStarts, hostFaults>>
    PROVE  ExternalInv'
<1>1. /\ job[c].stage = "cordon" /\ Ext!Active(c) /\ ExtShapeOK(job[c]) /\ job[c] \in Ext!Job
      /\ Ext!Goto(c, "revoke") /\ registry' = [job[c].entry EXCEPT !.state = "terminating"]
      /\ UNCHANGED <<user, active, minted, host, status, forgiven, gone>>
  BY DEF Ext!Cordon, Ext!AfterCordon, Ext!history, Ext!Active, Ext!At, ExternalInv, Ext!TypeOK
<1>2. job[c].kind = "destroy"
  BY <1>1, KindOf
<1>3. job[c].entry \in Ext!Entry
  BY <1>1, <1>2 DEF ExtShapeOK
<1>4. registry' \in Ext!Entry /\ registry'.born = job[c].entry.born
  BY <1>1, <1>3, PutOK
<1>5. /\ Turn(c) /\ job'[c].stage = "revoke" /\ job'[c].kind = job[c].kind
      /\ job'[c].entry = job[c].entry
  BY <1>1, <1>2, GotoTurn DEF ExtStageOK, Ext!Stages
<1>6. Ext!TypeOK'
  BY <1>1, <1>4, <1>5 DEF ExternalInv, Ext!TypeOK, Turn
<1>7. "listing" \notin forgiven' => registry'.born = registry.born
  BY <1>1, <1>2, <1>4 DEF ExternalInv, ListedOK
<1>8. host'.unit # "none" => host'.up
  BY <1>1 DEF ExternalInv, SettledOK
<1>9. ~Enrolls(job'[c]) /\ ~Cleans(job'[c]) /\ ~Rotates(c)
  BY <1>2, <1>5 DEF Enrolls, Cleans, Rotates
<1> QED
  BY <1>1, <1>5, <1>6, <1>7, <1>8, <1>9, TurnInv

(* upgrade-agent replaces the unit and restarts the agent.                   *)
LEMMA SwapInv ==
    ASSUME ExternalInv, NEW c \in HostCLIs, Ext!Swap(c), UNCHANGED <<hostStarts, hostFaults>>
    PROVE  ExternalInv'
<1>1. /\ job[c].stage = "swap" /\ Ext!Active(c) /\ ExtShapeOK(job[c]) /\ job[c] \in Ext!Job
      /\ Ext!Goto(c, "record") /\ host' = Ext!Upgraded
      /\ UNCHANGED <<registry, user, active, minted, status, forgiven, gone>>
  BY DEF Ext!Swap, Ext!aws, Ext!history, Ext!Active, Ext!At, ExternalInv, Ext!TypeOK
<1>2. job[c].kind = "upgrade"
  BY <1>1, KindOf
<1>3. /\ Turn(c) /\ job'[c].stage = "record" /\ job'[c].kind = job[c].kind
      /\ job'[c].entry = job[c].entry
  BY <1>1, <1>2, GotoTurn DEF ExtStageOK, Ext!Stages
<1>4. host' \in Ext!Host /\ host'.env = host.env /\ host'.up
  BY <1>1, UpgradedOK
<1>5. Ext!TypeOK'
  BY <1>1, <1>3, <1>4 DEF ExternalInv, Ext!TypeOK, Turn
<1>6. ~Enrolls(job'[c]) /\ ~Cleans(job'[c]) /\ ~Rotates(c)
  BY <1>2, <1>3 DEF Enrolls, Cleans, Rotates
<1> QED
  BY <1>1, <1>3, <1>4, <1>5, <1>6, TurnInv

(* The rotation's script writes agent.env ...                                *)
LEMMA PushInv ==
    ASSUME ExternalInv, NEW c \in HostCLIs, Ext!Push(c), UNCHANGED <<hostStarts, hostFaults>>
    PROVE  ExternalInv'
<1>1. /\ job[c].stage = "push" /\ job[c].key # Ext!NoKey /\ Ext!Active(c)
      /\ ExtShapeOK(job[c]) /\ job[c] \in Ext!Job
      /\ Ext!Goto(c, "restart") /\ host' = [host EXCEPT !.env = job[c].key]
      /\ UNCHANGED <<registry, user, active, minted, status, forgiven, gone>>
  BY DEF Ext!Push, Ext!aws, Ext!history, Ext!Active, Ext!At, ExternalInv, Ext!TypeOK
<1>2. job[c].kind = "rotate"
  BY <1>1, KindOf
<1>3. /\ Turn(c) /\ job'[c].stage = "restart" /\ job'[c].kind = job[c].kind
      /\ job'[c].entry = job[c].entry
  BY <1>1, <1>2, GotoTurn DEF ExtStageOK, Ext!Stages
<1>4. host' \in Ext!Host /\ host'.env = job[c].key /\ host'.unit = host.unit /\ host'.up = host.up
  BY <1>1 DEF Ext!Host, Ext!Job, ExternalInv, Ext!TypeOK
<1>5. Ext!TypeOK'
  BY <1>1, <1>3, <1>4 DEF ExternalInv, Ext!TypeOK, Turn
<1>6. Rotates(c) /\ ~Enrolls(job'[c]) /\ ~Cleans(job'[c])
  BY <1>1, <1>2, <1>3 DEF Enrolls, Cleans, Rotates
<1>7. host'.unit # "none" => host'.up
  BY <1>4 DEF ExternalInv, SettledOK
<1> QED
  BY <1>1, <1>3, <1>4, <1>5, <1>6, <1>7, TurnInv

(* ... and restarts the agent, or fails because there is none.               *)
LEMMA RestartInv ==
    ASSUME ExternalInv, NEW c \in HostCLIs, Ext!Restart(c), UNCHANGED <<hostStarts, hostFaults>>
    PROVE  ExternalInv'
<1>1. /\ job[c].stage = "restart" /\ Ext!Active(c) /\ ExtShapeOK(job[c]) /\ job[c] \in Ext!Job
      /\ host' = Ext!Restarted(host)
      /\ UNCHANGED <<registry, user, active, minted, status, forgiven, gone>>
  BY DEF Ext!Restart, Ext!aws, Ext!history, Ext!Active, Ext!At, ExternalInv, Ext!TypeOK
<1>2. job[c].kind = "rotate" /\ job[c].key # Ext!NoKey
  BY <1>1, KindOf DEF ExtShapeOK
<1>3. /\ host' \in Ext!Host /\ host'.env = host.env /\ host'.unit = host.unit
      /\ host'.unit # "none" => host'.up
      /\ host.up => host'.up
  BY <1>1, RestartedOK DEF ExternalInv, Ext!TypeOK, SettledOK
<1>4. CASE host.unit # "none" /\ Ext!Goto(c, "supersede")
  <2>1. /\ Turn(c) /\ job'[c].stage = "supersede" /\ job'[c].kind = job[c].kind
        /\ job'[c].entry = job[c].entry
    BY <1>1, <1>2, <1>4, GotoTurn DEF ExtStageOK, Ext!Stages
  <2>2. Ext!TypeOK'
    BY <1>1, <1>3, <2>1 DEF ExternalInv, Ext!TypeOK, Turn
  <2>3. Rotates(c) /\ ~Enrolls(job'[c]) /\ ~Cleans(job'[c])
    BY <1>1, <1>2, <2>1 DEF Enrolls, Cleans, Rotates
  <2> QED
    BY <1>1, <1>3, <1>4, <2>1, <2>2, <2>3, TurnInv
<1>5. CASE job' = [job EXCEPT ![c].stage = "drop", ![c].cut = TRUE]
  <2> DEFINE j == [job[c] EXCEPT !.stage = "drop", !.cut = TRUE]
  <2>1. /\ j \in Ext!Job /\ j.stage = "drop" /\ j.kind = job[c].kind /\ j.entry = job[c].entry
        /\ j.key = job[c].key /\ j.met = job[c].met /\ j.cut = TRUE
    BY <1>1 DEF Ext!Job, Ext!Stages
  <2>2. job' = [job EXCEPT ![c] = j]
    BY Zenon, <1>5
  <2> HIDE DEF j
  <2>3. job'[c] = j /\ job' \in [HostCLIs -> Ext!Job] /\ \A d \in HostCLIs : d # c => job'[d] = job[d]
    BY <2>1, <2>2 DEF ExternalInv, Ext!TypeOK
  <2>4. ExtShapeOK(j)
    BY <1>1, <1>2, <2>1 DEF ExtShapeOK, ExtStageOK, Enrolls
  <2>5. Turn(c)
    BY <1>1, <2>1, <2>3, <2>4 DEF Turn
  <2>6. Ext!TypeOK'
    BY <1>1, <1>3, <2>3 DEF ExternalInv, Ext!TypeOK
  <2>7. /\ job'[c].stage = "drop" /\ job'[c].kind = "rotate" /\ job'[c].cut
        /\ job'[c].entry = job[c].entry
        /\ Rotates(c) /\ ~Enrolls(job'[c]) /\ ~Cleans(job'[c])
    BY <1>2, <2>1, <2>3 DEF Enrolls, Cleans, Rotates
  <2> QED
    BY <1>1, <1>3, <2>5, <2>6, <2>7, TurnInv
<1> QED
  BY <1>4, <1>5 DEF Ext!Restart

(* The keys but its own go, so that at most this one is left: the agent that *)
(* was restarted runs.                                                       *)
LEMMA SupersedeInv ==
    ASSUME ExternalInv, NEW c \in HostCLIs, Ext!Supersede(c), UNCHANGED <<hostStarts, hostFaults>>
    PROVE  ExternalInv'
<1>1. /\ job[c].stage = "supersede" /\ Ext!Active(c) /\ ExtShapeOK(job[c]) /\ job[c] \in Ext!Job
      /\ Ext!Finish(c) /\ active' = active \cap {job[c].key}
      /\ UNCHANGED <<registry, user, minted, host, status, forgiven, gone>>
  BY DEF Ext!Supersede, Ext!Superseded, Ext!history, Ext!Active, Ext!At, ExternalInv, Ext!TypeOK
<1>2. job[c].kind = "rotate" /\ Rotates(c)
  BY <1>1, KindOf DEF ExtShapeOK, Rotates
<1>3. Turn(c) /\ job'[c] = Ext!Idle
  BY <1>1, FinishTurn
<1>4. Ext!TypeOK'
  BY <1>1, <1>3 DEF ExternalInv, Ext!TypeOK, Turn
<1>5. host'.up
  BY <1>1 DEF ExternalInv, SettledOK
<1>6. \A k, l \in Settled' : k = l
  BY <1>1 DEF Settled
<1>7. job'[c].stage = "idle" /\ job'[c].kind = "init" /\ ~Enrolls(job'[c]) /\ ~Cleans(job'[c])
  BY <1>3 DEF Ext!Idle, Enrolls, Cleans
<1> QED
  BY <1>1, <1>2, <1>3, <1>4, <1>5, <1>6, <1>7, TurnInv

(* The push failed, and the replacement goes.                                *)
LEMMA DropInv ==
    ASSUME ExternalInv, NEW c \in HostCLIs, Ext!Drop(c), UNCHANGED <<hostStarts, hostFaults>>
    PROVE  ExternalInv'
<1>1. /\ job[c].stage = "drop" /\ Ext!Active(c) /\ ExtShapeOK(job[c]) /\ job[c] \in Ext!Job
      /\ Ext!Finish(c) /\ active' = active \ {job[c].key}
      /\ UNCHANGED <<registry, user, minted, host, status, forgiven, gone>>
  BY DEF Ext!Drop, Ext!Dropped, Ext!history, Ext!Active, Ext!At, ExternalInv, Ext!TypeOK
<1>2. job[c].kind = "rotate" /\ Rotates(c)
  BY <1>1, KindOf DEF ExtShapeOK, Rotates
<1>3. Turn(c) /\ job'[c] = Ext!Idle
  BY <1>1, FinishTurn
<1>4. Ext!TypeOK'
  BY <1>1, <1>3 DEF ExternalInv, Ext!TypeOK, Turn
<1>5. host'.unit # "none" => host'.up
  BY <1>1 DEF ExternalInv, SettledOK
<1>6. job'[c].stage = "idle" /\ job'[c].kind = "init" /\ ~Enrolls(job'[c]) /\ ~Cleans(job'[c])
  BY <1>3 DEF Ext!Idle, Enrolls, Cleans
<1> QED
  BY <1>1, <1>2, <1>3, <1>4, <1>5, <1>6, TurnInv

(* Where a key can be created there is one at most.                          *)
LEMMA RoomForKey ==
    ASSUME ExternalInv, Cardinality(active) < 2
    PROVE  \A k, l \in active : k = l
<1> SUFFICES ASSUME NEW k \in active, NEW l \in active, k # l PROVE FALSE
  OBVIOUS
<1>1. IsFiniteSet(Ext!Keys)
  BY ExternalAssumption, FS_Interval DEF Ext!ExternalNodeAssumption, Ext!Keys
<1>2. IsFiniteSet(active)
  BY <1>1, FS_Subset DEF ExternalInv, Ext!TypeOK
<1>3. IsFiniteSet({k}) /\ Cardinality({k}) = 1
  BY FS_Singleton
<1>4. Cardinality({k} \cup {l}) = 2
  BY <1>3, FS_AddElement
<1>5. {k} \cup {l} \subseteq active
  OBVIOUS
<1>6. Cardinality({k} \cup {l}) <= Cardinality(active)
  BY <1>2, <1>5, FS_Subset
<1>7. Cardinality(active) \in Nat
  BY <1>2, FS_CardinalityType
<1> QED
  BY <1>4, <1>6, <1>7

(* The key that a command creates is no one else's, not on the machine, and  *)
(* not settled.  That of a rotation has another beside it, which no rotation *)
(* created, unless there is none to replace.                                 *)
LEMMA CreateInv ==
    ASSUME ExternalInv, Ext!TypeOK', NEW c \in HostCLIs, NEW s \in {"register", "push"},
           Ext!CreateKey(c, s), Ext!Active(c), job[c].key = Ext!NoKey,
           \/ job[c].kind = "init" /\ job[c].stage = "mint" /\ s = "register"
           \/ job[c].kind = "rotate" /\ job[c].stage = "push" /\ s = "push",
           UNCHANGED <<registry, host, gone>>, forgiven \subseteq forgiven',
           job[c].kind = "rotate" /\ active = {} => "rotation" \in forgiven'
    PROVE  ExternalInv'
<1> DEFINE n == minted + 1
           j == [job[c] EXCEPT !.key = n, !.stage = s]
<1>1. /\ n \in Ext!Keys /\ minted \in Nat /\ minted' = n /\ active' = active \cup {n}
      /\ Cardinality(active) < 2
  BY SameCount, ExternalAssumption DEF Ext!ExternalNodeAssumption, Ext!CreateKey, Ext!CanCreateKey,
     ExternalInv, Ext!TypeOK, Ext!Keys
<1>2. job[c] \in Ext!Job /\ ExtShapeOK(job[c])
  BY DEF ExternalInv, Ext!TypeOK
<1>3. /\ j \in Ext!Job /\ j.stage = s /\ j.kind = job[c].kind /\ j.entry = job[c].entry
      /\ j.key = n /\ j.met = job[c].met
  BY <1>1, <1>2 DEF Ext!Job, Ext!Stages
<1>4. job' = [job EXCEPT ![c] = j]
  BY Zenon DEF Ext!CreateKey
<1> HIDE DEF j
<1>5. /\ job'[c].stage = s /\ job'[c].kind = job[c].kind /\ job'[c].entry = job[c].entry
      /\ job'[c].key = n /\ job'[c].met = job[c].met /\ job'[c] = j
      /\ job' \in [HostCLIs -> Ext!Job] /\ \A d \in HostCLIs : d # c => job'[d] = job[d]
  BY <1>3, <1>4 DEF ExternalInv, Ext!TypeOK
<1>6. /\ active \subseteq 1 .. minted /\ host.env \in 0 .. minted
      /\ \A d \in HostCLIs : job[d].key \in 0 .. minted
      /\ \A k, l \in active : k = l
  BY <1>1, RoomForKey DEF ExternalInv, KeysOK
<1>7. n # Ext!NoKey /\ n \notin active /\ host.env # n /\ \A d \in HostCLIs : job[d].key # n
  BY <1>1, <1>6 DEF Ext!NoKey
<1> HIDE DEF n
<1>8. (\A d \in HostCLIs : ExtShapeOK(job[d]))'
  <2>1. ExtShapeOK(j)
    BY <1>2, <1>3, <1>7 DEF ExtShapeOK, ExtStageOK, Enrolls
  <2> QED
    BY <1>5, <2>1 DEF ExternalInv
<1>9. Met'
  <2>1. \A d \in HostCLIs : /\ Ext!Active(d)' => Ext!Active(d)
                            /\ job'[d].kind = job[d].kind /\ job'[d].met = job[d].met
    BY <1>5 DEF Ext!Active, Ext!At
  <2> QED
    BY <2>1 DEF Met, ExternalInv
<1>10. KeysOK'
  <2>1. /\ active' \subseteq 1 .. n /\ host'.env \in 0 .. n
        /\ \A d \in HostCLIs : job'[d].key \in 0 .. n
    BY <1>1, <1>5, <1>6 DEF n
  <2>2. \A d, e \in HostCLIs : job'[d].key = job'[e].key /\ job'[d].key # Ext!NoKey => d = e
    BY <1>5, <1>7 DEF ExternalInv, KeysOK
  <2>3. \A k, l, m \in active' : k = l \/ l = m \/ k = m
    BY <1>1, <1>6
  <2> QED
    BY <1>1, <2>1, <2>2, <2>3 DEF KeysOK
<1>11. Ext!HostsAreListed'
  BY <1>1, <1>7 DEF ExternalInv, Ext!HostsAreListed
<1>12. \A d \in HostCLIs : Ext!Active(d) /\ d # c => job[d].met # {} /\ job[c].kind \in job[d].met
  BY DEF ExternalInv, Met
<1>13. job[c].kind # "destroy" /\ ~Enrolls(job'[c]) /\ ~Cleans(job'[c])
  BY <1>5 DEF Enrolls, Cleans
<1>14. ListedOK'
  <2> SUFFICES ASSUME "listing" \notin forgiven, NEW d \in HostCLIs
               PROVE  /\ job'[d].kind # "init" => registry.born = job'[d].entry.born
                      /\ Enrolls(job'[d]) => registry.born = job'[d].key
                      /\ job'[d].kind = "init" /\ Cleans(job'[d]) /\ job'[d].met \subseteq {"init"}
                           /\ job'[d].entry # Ext!NoEntry /\ registry.born = job'[d].entry.born
                           => host.env \notin active'
                      /\ job'[d].kind = "destroy" /\ Cleans(job'[d]) /\ job'[d].met = {}
                           => active' = {}
    BY DEF ListedOK, Enrolls, Cleans
  <2>1. CASE d = c
    BY <1>5, <1>13, <2>1 DEF ExternalInv, ListedOK
  <2>2. CASE d # c
    <3>1. job'[d] = job[d]
      BY <1>5, <2>2
    <3>2. Cleans(job[d]) => job[d].met # {}
      BY <1>12, <2>2 DEF Cleans, Ext!Active, Ext!At
    <3> QED
      BY <1>1, <1>7, <3>1, <3>2 DEF ExternalInv, ListedOK
  <2> QED
    BY <2>1, <2>2
<1>15. GoneOK' /\ Ext!DestroyedStaysGone'
  <2>1. ~gone'
    BY DEF ExternalInv, GoneOK
  <2>2. \A d \in HostCLIs : job'[d].kind = "destroy" /\ Cleans(job'[d]) => job'[d].met # {}
    BY <1>5, <1>12, <1>13 DEF Cleans, Ext!Active, Ext!At
  <2> QED
    BY <2>1, <2>2 DEF GoneOK, Ext!DestroyedStaysGone, Cleans
<1>16. SettledOK'
  <2>1. /\ \A d \in HostCLIs : job'[d].stage = "supersede" => host.up
        /\ host.unit # "none" => host.up
    BY <1>5 DEF ExternalInv, SettledOK
  <2>2. "keys" \notin forgiven =>
          \A d \in HostCLIs : job'[d].kind = "init" /\ Cleans(job'[d]) => job'[d].key \notin active'
    BY <1>1, <1>5, <1>7, <1>13 DEF ExternalInv, SettledOK
  <2>3. ASSUME NEW k \in Settled' PROVE k \in Settled
    <3>1. k \in active' /\ \A d \in HostCLIs : job'[d].key = k => job'[d].stage \in {"await", "mark"}
      BY <2>3 DEF Settled
    <3>2. k # n
      BY <1>5, <3>1
    <3>3. k \in active /\ k # Ext!NoKey
      BY <1>1, <1>6, <3>1, <3>2 DEF Ext!NoKey
    <3> QED
      BY <1>5, <3>1, <3>3 DEF Settled
  <2> QED
    BY <2>1, <2>2, <2>3 DEF ExternalInv, SettledOK, Cleans
<1>17. RotationOK'
  <2>1. \A d \in HostCLIs : d # c => (Rotates(d)' <=> Rotates(d)) /\ job'[d] = job[d]
    BY <1>5 DEF Rotates
  <2>2. \A d \in HostCLIs : Rotates(d)' /\ ~job'[d].cut /\ job'[d].stage \in {"push", "drop"}
                              => host.env # job'[d].key
    BY <1>5, <1>7, <2>1 DEF ExternalInv, RotationOK
  <2>3. ASSUME "rotation" \notin forgiven', NEW d \in HostCLIs, Rotates(d)'
        PROVE  /\ job'[d].key \in active' =>
                    \E x \in active' : \A e \in HostCLIs : Rotates(e)' => job'[e].key # x
               /\ "init" \notin job'[d].met =>
                    /\ job'[d].key \notin active' => active' = {}
                    /\ job'[d].stage \in {"restart", "supersede"}
                         => host.env = job'[d].key \/ host.env \notin active'
    <3>1. "rotation" \notin forgiven
      BY <2>3
    <3>2. ASSUME NEW x \in active, \A e \in HostCLIs : Rotates(e) => job[e].key # x
          PROVE  x \in active' /\ \A e \in HostCLIs : Rotates(e)' => job'[e].key # x
      BY <1>1, <1>5, <1>7, <2>1, <3>2
    <3>3. CASE d = c
      <4>1. PICK x \in active : TRUE
        BY <1>5, <2>3, <3>3 DEF Rotates
      <4>2. \A e \in HostCLIs : Rotates(e) => job[e].key # x
        BY <1>6, <3>1, <4>1 DEF ExternalInv, RotationOK
      <4>3. \E y \in active' : \A e \in HostCLIs : Rotates(e)' => job'[e].key # y
        BY <3>2, <4>1, <4>2
      <4>4. job'[c].key \in active' /\ job'[c].stage \notin {"restart", "supersede"}
        BY <1>1, <1>5
      <4> QED
        BY <3>3, <4>3, <4>4
    <3>4. CASE d # c
      <4>1. Rotates(d) /\ job'[d] = job[d] /\ Ext!Active(d)
        BY <2>1, <2>3, <3>4 DEF Rotates, Ext!Active, Ext!At, ExternalInv, ExtShapeOK, ExtStageOK
      <4>2. job[d].key \in active' => job[d].key \in active
        BY <1>1, <1>7
      <4>3. job[d].key \in active =>
              \E y \in active' : \A e \in HostCLIs : Rotates(e)' => job'[e].key # y
        BY <3>1, <3>2, <4>1 DEF ExternalInv, RotationOK
      <4>4. ASSUME "init" \notin job[d].met PROVE job[c].kind = "rotate" /\ active # {}
        BY <1>12, <2>3, <3>4, <4>1, <4>4
      <4>5. "init" \notin job[d].met => job[d].key \in active
        BY <3>1, <4>1, <4>4 DEF ExternalInv, RotationOK
      <4>6. "init" \notin job[d].met /\ job[d].stage \in {"restart", "supersede"}
              => host.env = job[d].key \/ host.env \notin active'
        BY <1>1, <1>7, <3>1, <4>1 DEF ExternalInv, RotationOK
      <4> QED
        BY <1>1, <4>1, <4>2, <4>3, <4>5, <4>6
    <3> QED
      BY <3>3, <3>4
  <2> QED
    BY <2>2, <2>3 DEF RotationOK
<1> QED
  BY <1>8, <1>9, <1>10, <1>11, <1>14, <1>15, <1>16, <1>17 DEF ExternalInv

(* A key that is created leaves every variable of its type.                  *)
LEMMA CreateType ==
    ASSUME ExternalInv, NEW c \in HostCLIs, NEW s \in {"register", "push"}, Ext!CreateKey(c, s),
           UNCHANGED <<registry, host, status, gone, hostStarts, hostFaults>>,
           user' \in {user, TRUE}, forgiven' \in {forgiven, forgiven \cup {"rotation"}}
    PROVE  Ext!TypeOK'
<1> DEFINE n == minted + 1
           j == [job[c] EXCEPT !.key = n, !.stage = s]
<1>1. n \in Ext!Keys /\ minted' = n /\ active' = active \cup {n} /\ n \in 0 .. MaxKeys
  BY SameCount, ExternalAssumption DEF Ext!ExternalNodeAssumption, Ext!CreateKey, Ext!CanCreateKey,
     ExternalInv, Ext!TypeOK, Ext!Keys
<1>2. job' = [job EXCEPT ![c] = j]
  BY Zenon DEF Ext!CreateKey
<1>3. job[c] \in Ext!Job
  BY DEF ExternalInv, Ext!TypeOK
<1>4. j \in Ext!Job
  BY <1>1, <1>3 DEF Ext!Job, Ext!Stages
<1> HIDE DEF j, n
<1>5. job' \in [HostCLIs -> Ext!Job]
  BY <1>2, <1>4 DEF ExternalInv, Ext!TypeOK
<1>6. user' \in BOOLEAN
  BY DEF ExternalInv, Ext!TypeOK
<1> QED
  BY <1>1, <1>5, <1>6 DEF ExternalInv, Ext!TypeOK

(* The first key of an enrollment, and that of a rotation                    *)
LEMMA MintInv ==
    ASSUME ExternalInv, NEW c \in HostCLIs, Ext!Mint(c), UNCHANGED <<hostStarts, hostFaults>>
    PROVE  ExternalInv'
<1>1. /\ job[c].stage = "mint" /\ Ext!Active(c) /\ ExtShapeOK(job[c]) /\ job[c] \in Ext!Job /\ user' = TRUE
      /\ UNCHANGED <<registry, host, status, forgiven, gone>>
  BY DEF Ext!Mint, Ext!history, Ext!Active, Ext!At, ExternalInv, Ext!TypeOK
<1>2. job[c].kind = "init" /\ job[c].key = Ext!NoKey
  BY <1>1, KindOf DEF ExtShapeOK
<1>3. CASE Ext!CreateKey(c, "register")
  <2>1. Ext!TypeOK'
    BY <1>1, <1>3, CreateType
  <2> QED
    BY <1>1, <1>2, <1>3, <2>1, CreateInv
<1>4. CASE Ext!Finish(c) /\ UNCHANGED <<minted, active>>
  <2>1. Ext!TypeOK'
    BY <1>1, <1>4, FinishTurn DEF ExternalInv, Ext!TypeOK, Turn
  <2>2. Ext!NoKey \notin active
    BY DEF ExternalInv, Ext!TypeOK, Ext!Keys, Ext!NoKey
  <2> QED
    BY <1>1, <1>2, <1>4, <2>1, <2>2, FinishInv
<1> QED
  BY <1>3, <1>4 DEF Ext!Mint, Ext!After

(* A rotation begins with a key created beside the one it is to replace.     *)
LEMMA ReplaceInv ==
    ASSUME ExternalInv, NEW c \in HostCLIs, Ext!Replace(c), UNCHANGED <<hostStarts, hostFaults>>
    PROVE  ExternalInv'
<1>1. /\ job[c].stage = "push" /\ job[c].key = Ext!NoKey /\ Ext!Active(c)
      /\ ExtShapeOK(job[c]) /\ job[c] \in Ext!Job
      /\ forgiven' = forgiven \cup (IF active = {} THEN {"rotation"} ELSE {})
      /\ UNCHANGED <<registry, user, host, status, gone>>
  BY DEF Ext!Replace, Ext!Active, Ext!At, ExternalInv, Ext!TypeOK
<1>2. job[c].kind = "rotate"
  BY <1>1, KindOf
<1>3. CASE Ext!CreateKey(c, "push")
  <2>1. Ext!TypeOK'
    BY <1>1, <1>3, CreateType
  <2> QED
    BY <1>1, <1>2, <1>3, <2>1, CreateInv
<1>4. CASE Ext!Finish(c) /\ UNCHANGED <<minted, active>>
  <2>1. Ext!TypeOK'
    BY <1>1, <1>4, FinishTurn DEF ExternalInv, Ext!TypeOK, Turn
  <2>2. Ext!NoKey \notin active
    BY DEF ExternalInv, Ext!TypeOK, Ext!Keys, Ext!NoKey
  <2> QED
    BY <1>1, <1>4, <2>1, <2>2, FinishInv
<1> QED
  BY <1>3, <1>4 DEF Ext!Replace

(* node.json is put where there was none: whoever else had read or written   *)
(* an entry has seen it removed.  The put may be done and its answer lost.   *)
LEMMA EnterInv ==
    ASSUME ExternalInv, Ext!TypeOK', NEW c \in HostCLIs, Turn(c), job[c].stage = "register",
           registry = Ext!NoEntry, registry' \in Ext!Entry, registry'.born = job[c].key,
           UNCHANGED <<active, minted, host, gone>>, forgiven \subseteq forgiven',
           job'[c].stage \in {"write", "revoke"}
    PROVE  ExternalInv'
<1>1. job[c] \in Ext!Job /\ ExtShapeOK(job[c]) /\ job'[c].stage # "idle"
  BY DEF ExternalInv, Ext!TypeOK
<1>2. job[c].kind = "init" /\ job[c].key # Ext!NoKey
  BY <1>1, KindOf DEF ExtShapeOK
<1>3. job'[c].kind = "init" /\ job'[c].key = job[c].key /\ job'[c].met = job[c].met
  BY <1>1, <1>2 DEF Turn, Ext!Idle
<1>4. ~Cleans(job'[c]) /\ ~Rotates(c)
  BY <1>2 DEF Cleans, Rotates
<1>5. Ext!NoEntry.born = Ext!NoKey /\ Ext!NoEntry \notin Ext!Entry /\ \A e \in Ext!Entry : e.born # Ext!NoKey
  BY DEF Ext!NoEntry, Ext!Entry, Ext!Keys, Ext!NoKey
<1>6. Ext!HostsAreListed'
  BY <1>5 DEF Ext!HostsAreListed
<1>7. ListedOK'
  <2> SUFFICES ASSUME "listing" \notin forgiven', NEW d \in HostCLIs
               PROVE  /\ job'[d].kind # "init" => registry'.born = job'[d].entry.born
                      /\ Enrolls(job'[d]) => registry'.born = job'[d].key
                      /\ job'[d].kind = "init" /\ Cleans(job'[d]) /\ job'[d].met \subseteq {"init"}
                           /\ job'[d].entry # Ext!NoEntry /\ registry'.born = job'[d].entry.born
                           => host.env \notin active
                      /\ job'[d].kind = "destroy" /\ Cleans(job'[d]) /\ job'[d].met = {}
                           => active = {}
    BY DEF ListedOK, Enrolls, Cleans
  <2>1. CASE d = c
    BY <1>3, <1>4, <2>1
  <2>2. CASE d # c
    <3>1. job'[d] = job[d] /\ ExtShapeOK(job[d])
      BY <2>2 DEF Turn, ExternalInv
    <3>2. /\ job[d].kind # "init" => registry.born = job[d].entry.born
          /\ Enrolls(job[d]) => registry.born = job[d].key
          /\ job[d].kind = "destroy" /\ Cleans(job[d]) /\ job[d].met = {} => active = {}
      BY DEF ExternalInv, ListedOK
    <3>3. job[d].kind = "init" /\ ~Enrolls(job[d])
      BY <1>5, <3>1, <3>2 DEF ExtShapeOK, Enrolls
    <3>4. job[d].key # job[c].key
      BY <1>2, <2>2 DEF ExternalInv, KeysOK
    <3>5. Cleans(job[d]) => job[d].entry = Ext!NoEntry \/ job[d].entry.born = job[d].key
      BY <3>1, <3>3 DEF ExtShapeOK, Cleans
    <3> QED
      BY <3>1, <3>3, <3>4, <3>5
  <2> QED
    BY <2>1, <2>2
<1>8. (\A d \in HostCLIs : ExtShapeOK(job[d]))' /\ Met' /\ KeysOK'
  BY MetTurn, KeysTurn
<1>9. GoneOK' /\ Ext!DestroyedStaysGone'
  BY <1>4, GoneTurn
<1>10. SettledOK'
  <2>1. host'.unit # "none" => host'.up
    BY DEF ExternalInv, SettledOK
  <2> QED
    BY <1>4, <2>1, SettledTurn
<1>11. RotationOK'
  BY <1>4, RotationTurn
<1> QED
  BY <1>6, <1>7, <1>8, <1>9, <1>10, <1>11 DEF ExternalInv

(* An enrollment registers the node if no entry is there, or is rolled back. *)
LEMMA ExtRegisterInv ==
    ASSUME ExternalInv, NEW c \in HostCLIs, Ext!Register(c), UNCHANGED <<hostStarts, hostFaults>>
    PROVE  ExternalInv'
<1>1. /\ job[c].stage = "register" /\ Ext!Active(c) /\ ExtShapeOK(job[c]) /\ job[c] \in Ext!Job
      /\ UNCHANGED <<user, active, minted, host, status, forgiven, gone>>
  BY DEF Ext!Register, Ext!history, Ext!Active, Ext!At, ExternalInv, Ext!TypeOK
<1>2. job[c].kind = "init" /\ job[c].key \in Ext!Keys
  BY <1>1, KindOf DEF ExtShapeOK, Ext!Job, Ext!NoKey
<1> DEFINE e == [born |-> job[c].key, state |-> "provisioning", upgraded |-> FALSE]
           j == [job[c] EXCEPT !.entry = e, !.stage = "write"]
<1>3. CASE registry = Ext!NoEntry /\ registry' = e /\ job' = [job EXCEPT ![c].entry = e, ![c].stage = "write"]
  <2>1. e \in Ext!Entry /\ e.born = job[c].key
    BY <1>2 DEF Ext!Entry
  <2>2. job' = [job EXCEPT ![c] = j]
    BY Zenon, <1>3
  <2> HIDE DEF e
  <2>3. /\ j \in Ext!Job /\ j.stage = "write" /\ j.kind = job[c].kind /\ j.entry = e
        /\ j.key = job[c].key /\ j.met = job[c].met
    BY <1>1, <2>1 DEF Ext!Job, Ext!Stages
  <2> HIDE DEF j
  <2>4. job'[c] = j /\ job' \in [HostCLIs -> Ext!Job] /\ \A d \in HostCLIs : d # c => job'[d] = job[d]
    BY <2>2, <2>3 DEF ExternalInv, Ext!TypeOK
  <2>5. ExtShapeOK(j)
    BY <1>1, <1>2, <2>1, <2>3 DEF ExtShapeOK, ExtStageOK, Enrolls
  <2>6. Turn(c)
    BY <1>1, <2>3, <2>4, <2>5 DEF Turn
  <2>7. Ext!TypeOK'
    BY <1>1, <1>3, <2>1, <2>4 DEF ExternalInv, Ext!TypeOK
  <2> QED
    BY <1>1, <1>3, <2>1, <2>3, <2>4, <2>6, <2>7, EnterInv
<1>4. CASE Ext!Goto(c, "revoke") /\ UNCHANGED registry
  <2>1. /\ Turn(c) /\ job'[c].stage = "revoke" /\ job'[c].kind = job[c].kind
        /\ job'[c].entry = job[c].entry
    BY <1>1, <1>2, <1>4, GotoTurn DEF ExtShapeOK, ExtStageOK, Ext!Stages
  <2>2. Ext!TypeOK'
    BY <1>1, <1>4, <2>1 DEF ExternalInv, Ext!TypeOK, Turn
  <2>3. ~Enrolls(job'[c]) /\ ~Cleans(job'[c]) /\ ~Rotates(c)
    BY <1>2, <2>1 DEF Enrolls, Cleans, Rotates
  <2>4. host'.unit # "none" => host'.up
    BY <1>1 DEF ExternalInv, SettledOK
  <2> QED
    BY <1>1, <1>2, <1>4, <2>1, <2>2, <2>3, <2>4, TurnInv
<1> QED
  BY <1>3, <1>4 DEF Ext!Register, Ext!After

(* The rollback removes the entry that this enrollment wrote: no other relies*)
(* on it, unless a command that was not an enrollment has read it.           *)
LEMMA UnregisterInv ==
    ASSUME ExternalInv, NEW c \in HostCLIs, Ext!Unregister(c),
           UNCHANGED <<hostStarts, hostFaults>>
    PROVE  ExternalInv'
<1>1. /\ job[c].stage = "remove" /\ job[c].kind = "init" /\ Ext!Active(c) /\ Ext!Finish(c)
      /\ ExtShapeOK(job[c]) /\ job[c] \in Ext!Job
      /\ registry' = (IF registry = job[c].entry THEN Ext!NoEntry ELSE registry)
      /\ forgiven' = forgiven \cup (IF job[c].met \subseteq {"init"} THEN {} ELSE {"listing"})
      /\ UNCHANGED <<user, active, minted, host, status, gone>>
  BY DEF Ext!Unregister, Ext!Active, Ext!At, ExternalInv, Ext!TypeOK
<1>2. Turn(c) /\ job'[c] = Ext!Idle
  BY <1>1, FinishTurn
<1>3. Ext!TypeOK'
  BY <1>1, <1>2 DEF ExternalInv, Ext!TypeOK, Turn
<1>4. "keys" \notin forgiven => job[c].key \notin active
  BY <1>1 DEF ExternalInv, SettledOK, Cleans
<1>5. CASE registry' = registry \/ "listing" \in forgiven'
  BY <1>1, <1>3, <1>4, <1>5, FinishInv
<1>6. CASE registry' # registry /\ "listing" \notin forgiven'
  <2>1. /\ registry = job[c].entry /\ registry # Ext!NoEntry /\ registry' = Ext!NoEntry
        /\ job[c].met \subseteq {"init"} /\ "listing" \notin forgiven
    BY <1>1, <1>6
  <2>2. job[c].entry.born = job[c].key /\ job[c].key # Ext!NoKey
    BY <1>1, <2>1 DEF ExtShapeOK, ExternalInv, Ext!TypeOK, Ext!Entry, Ext!Keys, Ext!NoKey
  <2>3. Ext!NoEntry.born = Ext!NoKey /\ \A e \in Ext!Entry : e.born # Ext!NoKey
    BY DEF Ext!NoEntry, Ext!Entry, Ext!Keys, Ext!NoKey
  <2>4. host.env \notin active
    BY <1>1, <2>1 DEF ExternalInv, ListedOK, Cleans
  <2>5. Ext!HostsAreListed'
    BY <1>1, <2>4 DEF Ext!HostsAreListed
  <2>6. ASSUME NEW d \in HostCLIs
        PROVE  /\ job'[d].kind # "init" => registry'.born = job'[d].entry.born
               /\ Enrolls(job'[d]) => registry'.born = job'[d].key
               /\ job'[d].kind = "init" /\ Cleans(job'[d]) /\ job'[d].met \subseteq {"init"}
                    /\ job'[d].entry # Ext!NoEntry /\ registry'.born = job'[d].entry.born
                    => host.env \notin active
               /\ job'[d].kind = "destroy" /\ Cleans(job'[d]) /\ job'[d].met = {} => active = {}
    <3>1. CASE d = c
      BY <1>2, <3>1 DEF Ext!Idle, Enrolls, Cleans
    <3>2. CASE d # c
      <4>1. job'[d] = job[d] /\ ExtShapeOK(job[d])
        BY <1>2, <3>2 DEF Turn, ExternalInv
      <4>2. Ext!Active(d) => job[d].kind \in job[c].met
        BY <1>1, <3>2 DEF ExternalInv, Met
      <4>3. job[d].kind = "init"
        BY <2>1, <4>1, <4>2 DEF ExtShapeOK, Ext!Active, Ext!At, Ext!Idle
      <4>4. ~Enrolls(job[d])
        BY <2>1, <2>2, <3>2 DEF ExternalInv, ListedOK, KeysOK
      <4> QED
        BY <2>4, <4>1, <4>3, <4>4
    <3> QED
      BY <3>1, <3>2
  <2>7. ListedOK'
    BY <1>1, <2>6 DEF ListedOK, Enrolls, Cleans
  <2>8. (\A d \in HostCLIs : ExtShapeOK(job[d]))' /\ Met' /\ KeysOK'
    BY <1>1, <1>2, MetTurn, KeysTurn
  <2>9. job'[c].stage = "idle" /\ job'[c].kind = "init" /\ ~Cleans(job'[c]) /\ ~Enrolls(job'[c])
    BY <1>2 DEF Ext!Idle, Cleans, Enrolls
  <2>10. GoneOK' /\ Ext!DestroyedStaysGone'
    BY <1>1, <1>2, <2>9, GoneTurn
  <2>11. SettledOK'
    <3>1. host'.unit # "none" => host'.up
      BY <1>1 DEF ExternalInv, SettledOK
    <3> QED
      BY <1>1, <1>2, <1>4, <2>9, <3>1, SettledTurn
  <2>12. RotationOK'
    BY <1>1, <1>2, <2>9, RotationTurn
  <2> QED
    BY <1>3, <2>5, <2>7, <2>8, <2>10, <2>11, <2>12 DEF ExternalInv
<1> QED
  BY <1>5, <1>6

(* The end of a destroy: if it ran alone then no other command is left, and  *)
(* the keys are gone or IAM refused.                                         *)
LEMMA RemoveInv ==
    ASSUME ExternalInv, NEW c \in HostCLIs, Ext!Remove(c), UNCHANGED <<hostStarts, hostFaults>>
    PROVE  ExternalInv'
<1>1. /\ job[c].stage = "remove" /\ job[c].kind = "destroy" /\ Ext!Active(c) /\ Ext!Finish(c)
      /\ ExtShapeOK(job[c]) /\ job[c] \in Ext!Job
      /\ registry' = Ext!NoEntry /\ status' = "none"
      /\ forgiven' = forgiven \cup (IF job[c].met = {} THEN {} ELSE {"listing"})
      /\ gone' = (job[c].ok /\ job[c].met = {})
      /\ UNCHANGED <<user, active, minted, host>>
  BY DEF Ext!Remove, Ext!Active, Ext!At, ExternalInv, Ext!TypeOK
<1>2. Turn(c) /\ job'[c] = Ext!Idle
  BY <1>1, FinishTurn
<1>3. gone' \in BOOLEAN
  BY DEF Ext!Remove
<1>4. Ext!TypeOK'
  BY <1>1, <1>2, <1>3 DEF ExternalInv, Ext!TypeOK, Turn
<1>5. job[c].key = Ext!NoKey /\ Ext!NoKey \notin active
  BY <1>1 DEF ExtShapeOK, ExternalInv, Ext!TypeOK, Ext!Keys, Ext!NoKey
<1>6. CASE job[c].met # {}
  <2>1. ~gone
    BY <1>1 DEF ExternalInv, GoneOK
  <2>2. gone' = gone
    BY <1>1, <1>6, <2>1 DEF ExternalInv, Ext!TypeOK
  <2> QED
    BY <1>1, <1>4, <1>5, <1>6, <2>2, FinishInv
<1>7. CASE job[c].met = {}
  <2>1. \A d \in HostCLIs : job'[d] = Ext!Idle
    BY <1>1, <1>2, <1>7 DEF ExternalInv, Met, ExtShapeOK, Turn, Ext!Active, Ext!At
  <2>2. \A d \in HostCLIs : /\ job'[d].kind = "init" /\ job'[d].stage = "idle"
                            /\ ~Cleans(job'[d]) /\ ~Enrolls(job'[d]) /\ ~Rotates(d)'
    BY <2>1 DEF Ext!Idle, Cleans, Enrolls, Rotates
  <2>3. "listing" \notin forgiven => active = {}
    BY <1>1, <1>7 DEF ExternalInv, ListedOK, Cleans
  <2>4. Ext!HostsAreListed' /\ ListedOK'
    BY <1>1, <2>2, <2>3 DEF Ext!HostsAreListed, ListedOK
  <2>5. gone' => active = {} /\ ~user
    BY <1>1, <1>7 DEF ExternalInv, GoneOK, Cleans
  <2>6. GoneOK' /\ Ext!DestroyedStaysGone'
    BY <1>1, <2>2, <2>5 DEF GoneOK, Ext!DestroyedStaysGone, Ext!Active, Ext!At, Cleans
  <2>7. SettledOK'
    <3>1. host'.unit # "none" => host'.up
      BY <1>1 DEF ExternalInv, SettledOK
    <3> QED
      BY <1>1, <1>2, <1>5, <2>2, <3>1, SettledTurn
  <2>8. RotationOK'
    BY <2>2 DEF RotationOK
  <2>9. (\A d \in HostCLIs : ExtShapeOK(job[d]))' /\ Met' /\ KeysOK'
    BY <1>1, <1>2, MetTurn, KeysTurn
  <2> QED
    BY <1>4, <2>4, <2>6, <2>7, <2>8, <2>9 DEF ExternalInv
<1> QED
  BY <1>6, <1>7

(* Where a command goes when the call it makes fails                         *)
LEMMA AfterFailureIs ==
    ASSUME NEW c \in HostCLIs
    PROVE  /\ job[c].stage \in {"register", "write", "install"} => Ext!AfterFailure(c) = "revoke"
           /\ job[c].stage \in {"revoke", "user"} => Ext!AfterFailure(c) = "remove"
           /\ job[c].stage = "cordon" => Ext!AfterFailure(c) = "revoke"
           /\ job[c].stage = "restart" => Ext!AfterFailure(c) = "drop"
           /\ job[c].stage = "push" /\ job[c].key # Ext!NoKey => Ext!AfterFailure(c) = "drop"
           /\ job[c].stage = "push" /\ job[c].key = Ext!NoKey => Ext!AfterFailure(c) = "idle"
           /\ job[c].stage \in {"mint", "await", "mark", "supersede", "drop", "swap",
                                "record", "put", "remove"} => Ext!AfterFailure(c) = "idle"
BY DEF Ext!AfterFailure, Ext!AfterCordon, Ext!At

(* A failed cleanup is held against the keys.                                *)
LEMMA FailExcuses ==
    ASSUME ExternalInv, NEW c \in HostCLIs, Ext!Fail(c)
    PROVE  /\ forgiven \subseteq forgiven' /\ forgiven' \subseteq {"listing", "keys", "rotation"}
           /\ job[c].stage \in {"revoke", "user"} => {"listing", "keys"} \subseteq forgiven'
           /\ job[c].stage \in {"supersede", "drop"} => "keys" \in forgiven'
<1>1. forgiven \subseteq {"listing", "keys", "rotation"}
  BY DEF ExternalInv, Ext!TypeOK
<1>2. CASE job[c].stage \in {"revoke", "user"}
  <2>1. forgiven' = forgiven \cup {"listing", "keys"}
    BY <1>2 DEF Ext!Fail
  <2> QED
    BY <1>1, <1>2, <2>1
<1>3. CASE job[c].stage \in {"supersede", "drop"}
  <2>1. forgiven' = forgiven \cup {"keys"}
    BY <1>3 DEF Ext!Fail
  <2> QED
    BY <1>1, <1>3, <2>1
<1>4. CASE job[c].stage \notin {"revoke", "user", "supersede", "drop"}
  <2>1. forgiven' = forgiven \cup {}
    BY <1>4 DEF Ext!Fail
  <2> QED
    BY <1>1, <1>4, <2>1
<1> QED
  BY <1>2, <1>3, <1>4

(* What a call that fails may have done nevertheless                         *)
LEMMA FailEffect ==
    ASSUME ExternalInv, NEW c \in HostCLIs, Ext!Fail(c)
    PROVE  /\ host' \in Ext!Host /\ (host'.unit # "none" => host'.up) /\ (host.up => host'.up)
           /\ host'.env = host.env \/ (job[c].stage = "write" /\ host'.env = job[c].key)
           /\ job[c].stage \in {"revoke", "user", "push"} => host' = host
           /\ \/ registry' = registry
              \/ /\ job[c].stage = "register" /\ registry = Ext!NoEntry /\ host' = host
                 /\ registry' \in Ext!Entry /\ registry'.born = job[c].key
<1>1. /\ job[c] \in Ext!Job /\ ExtShapeOK(job[c]) /\ host \in Ext!Host
      /\ host.unit # "none" => host.up
  BY DEF ExternalInv, Ext!TypeOK, SettledOK
<1>2. CASE UNCHANGED <<registry, host>>
  BY <1>1, <1>2
<1>3. CASE /\ job[c].stage = "register" /\ registry = Ext!NoEntry /\ UNCHANGED host
           /\ registry' = [born |-> job[c].key, state |-> "provisioning", upgraded |-> FALSE]
  <2>1. job[c].key \in Ext!Keys
    BY <1>1, <1>3 DEF ExtShapeOK, Ext!Job, Ext!NoKey
  <2>2. registry' \in Ext!Entry /\ registry'.born = job[c].key
    BY <1>3, <2>1 DEF Ext!Entry
  <2> QED
    BY <1>1, <1>3, <2>2
<1>4. CASE /\ job[c].stage = "write" /\ host' = [host EXCEPT !.env = job[c].key]
           /\ UNCHANGED registry
  BY <1>1, <1>4 DEF Ext!Host, Ext!Job
<1>5. CASE job[c].stage = "install" /\ host' = Ext!Installed /\ UNCHANGED registry
  BY <1>1, <1>5, InstalledOK
<1>6. CASE job[c].stage = "restart" /\ host' = Ext!Restarted(host) /\ UNCHANGED registry
  BY <1>1, <1>6, RestartedOK
<1>7. CASE job[c].stage = "swap" /\ host' = Ext!Upgraded /\ UNCHANGED registry
  BY <1>1, <1>7, UpgradedOK
<1> QED
  BY <1>2, <1>3, <1>4, <1>5, <1>6, <1>7 DEF Ext!Fail, Ext!At

(* A call fails: the command cleans up as far as it does, or ends.           *)
LEMMA ExtFailInv == ASSUME ExternalInv, NEW c \in HostCLIs, Ext!Fail(c) PROVE ExternalInv'
<1>1. /\ Ext!Active(c) /\ ExtShapeOK(job[c]) /\ job[c] \in Ext!Job /\ job[c].stage # "idle"
      /\ hostFaults' = hostFaults - 1 /\ hostFaults > 0
      /\ UNCHANGED <<user, active, minted, status, gone, hostStarts>>
  BY DEF Ext!Fail, Ext!Active, Ext!At, ExternalInv, Ext!TypeOK
<1>2. hostFaults' \in 0 .. MaxHostFaults
  BY <1>1, ExternalAssumption DEF Ext!ExternalNodeAssumption, ExternalInv, Ext!TypeOK
<1>3. /\ host' \in Ext!Host /\ (host'.unit # "none" => host'.up) /\ (host.up => host'.up)
      /\ host'.env = host.env \/ (job[c].stage = "write" /\ host'.env = job[c].key)
      /\ job[c].stage \in {"revoke", "user", "push"} => host' = host
      /\ \/ registry' = registry
         \/ /\ job[c].stage = "register" /\ registry = Ext!NoEntry /\ host' = host
            /\ registry' \in Ext!Entry /\ registry'.born = job[c].key
  BY FailEffect
<1>4. /\ forgiven \subseteq forgiven' /\ forgiven' \subseteq {"listing", "keys", "rotation"}
      /\ job[c].stage \in {"revoke", "user"} => {"listing", "keys"} \subseteq forgiven'
      /\ job[c].stage \in {"supersede", "drop"} => "keys" \in forgiven'
  BY FailExcuses
<1>5. job' \in [HostCLIs -> Ext!Job] => Ext!TypeOK'
  BY <1>1, <1>2, <1>3, <1>4 DEF ExternalInv, Ext!TypeOK
<1>6. CASE /\ Ext!Finish(c)
           /\ \/ job[c].stage = "push" /\ job[c].key = Ext!NoKey
              \/ job[c].stage \in {"mint", "await", "mark", "supersede", "drop", "swap",
                                   "record", "put", "remove"}
  <2>1. Turn(c) /\ job'[c] = Ext!Idle
    BY <1>1, <1>6, FinishTurn
  <2>2. Ext!TypeOK'
    BY <1>5, <2>1 DEF Turn
  <2>3. job'[c].stage = "idle" /\ job'[c].kind = "init" /\ ~Cleans(job'[c]) /\ ~Enrolls(job'[c])
    BY <2>1 DEF Ext!Idle, Cleans, Enrolls
  <2>4. Ext!NoKey \notin active
    BY DEF ExternalInv, Ext!TypeOK, Ext!Keys, Ext!NoKey
  <2>5. "keys" \notin forgiven' => job[c].stage \in {"await", "mark"} \/ job[c].key \notin active
    <3>1. CASE job[c].stage \in {"mint", "push", "swap", "record", "put"}
      <4>1. job[c].key = Ext!NoKey
        BY <1>1, <1>6, <3>1, KindOf DEF ExtShapeOK
      <4> QED
        BY <2>4, <4>1
    <3>2. CASE job[c].stage \in {"supersede", "drop"}
      BY <1>4, <3>2
    <3>3. CASE job[c].stage = "remove"
      <4>1. job[c].kind = "init" \/ job[c].key = Ext!NoKey
        BY <1>1, <3>3, KindOf DEF ExtShapeOK
      <4> QED
        BY <1>4, <2>4, <3>3, <4>1 DEF ExternalInv, SettledOK, Cleans
    <3> QED
      BY <1>6, <3>1, <3>2, <3>3
  <2>6. registry' = registry /\ host'.env = host.env
    BY <1>3, <1>6
  <2> QED
    BY <1>1, <1>3, <1>4, <2>1, <2>2, <2>3, <2>5, <2>6, TurnInv
<1>7. ASSUME NEW s \in {"revoke", "remove", "drop"},
             \/ s = "revoke" /\ job[c].stage \in {"register", "write", "install", "cordon"}
             \/ s = "remove" /\ job[c].stage \in {"revoke", "user"}
             \/ s = "drop" /\ (job[c].stage = "restart" \/ (job[c].stage = "push" /\ job[c].key # Ext!NoKey)),
             job' = [job EXCEPT ![c].stage = s, ![c].ok = FALSE,
                       ![c].cut = @ \/ Ext!At(c, "restart"),
                       ![c].entry = IF Ext!At(c, "register") THEN Ext!NoEntry ELSE @]
      PROVE  ExternalInv'
  <2> DEFINE j == [job[c] EXCEPT !.stage = s, !.ok = FALSE,
                     !.cut = @ \/ Ext!At(c, "restart"),
                     !.entry = IF Ext!At(c, "register") THEN Ext!NoEntry ELSE @]
  <2>1. job' = [job EXCEPT ![c] = j]
    BY Zenon, <1>7
  <2>2. PICK b \in BOOLEAN : b = (job[c].cut \/ Ext!At(c, "restart"))
    BY DEF Ext!At
  <2>3. PICK e \in Ext!Entry \cup {Ext!NoEntry} : e = IF Ext!At(c, "register") THEN Ext!NoEntry ELSE job[c].entry
    BY <1>1 DEF Ext!Job
  <2>4. j = [job[c] EXCEPT !.stage = s, !.ok = FALSE, !.cut = b, !.entry = e]
    BY Zenon, <2>2, <2>3
  <2> HIDE DEF j
  <2>5. /\ j \in Ext!Job /\ j.stage = s /\ j.kind = job[c].kind /\ j.entry = e
        /\ j.key = job[c].key /\ j.met = job[c].met /\ j.cut = b /\ j.ok = FALSE
    BY <1>1, <2>4 DEF Ext!Job, Ext!Stages
  <2>6. job'[c] = j /\ job' \in [HostCLIs -> Ext!Job] /\ \A d \in HostCLIs : d # c => job'[d] = job[d]
    BY <2>1, <2>5 DEF ExternalInv, Ext!TypeOK
  <2>7. /\ job[c].stage \in {"register", "write", "install"} => job[c].kind = "init"
        /\ job[c].stage = "cordon" => job[c].kind = "destroy"
        /\ job[c].stage \in {"revoke", "user"} => job[c].kind \in {"init", "destroy"}
        /\ job[c].stage \in {"push", "restart"} => job[c].kind = "rotate" /\ job[c].stage # "idle"
        /\ job[c].stage = "restart" => job[c].key # Ext!NoKey
    BY <1>1, KindOf DEF ExtShapeOK
  <2>8. e = Ext!NoEntry \/ e = job[c].entry
    BY <2>3
  <2>9. job[c].kind # "init" => e = job[c].entry
    BY <2>3, <2>7 DEF Ext!At
  <2>10. ExtShapeOK(j)
    BY <1>1, <1>7, <2>5, <2>7, <2>8, <2>9 DEF ExtShapeOK, ExtStageOK, Enrolls
  <2>11. Turn(c)
    BY <1>1, <2>5, <2>6, <2>10 DEF Turn
  <2>12. Ext!TypeOK'
    BY <1>5, <2>6
  <2>13. CASE registry' # registry
    <3>1. /\ job[c].stage = "register" /\ registry = Ext!NoEntry /\ host' = host
          /\ registry' \in Ext!Entry /\ registry'.born = job[c].key /\ s = "revoke"
      BY <1>3, <1>7, <2>13
    <3> QED
      BY <1>1, <1>4, <2>5, <2>6, <2>11, <2>12, <3>1, EnterInv
  <2>14. CASE registry' = registry
    <3>1. /\ job'[c].stage = s /\ job'[c].kind = job[c].kind /\ ~job'[c].ok
          /\ job'[c].kind # "init" => job'[c].entry = job[c].entry
          /\ ~Enrolls(job'[c]) /\ (Cleans(job'[c]) => {"listing", "keys"} \subseteq forgiven')
      BY <1>4, <1>7, <2>5, <2>6, <2>9 DEF Enrolls, Cleans
    <3>2. host'.env = host.env \/ (host'.env = job[c].key /\ Enrolls(job[c]))
      BY <1>3, <2>7 DEF Enrolls
    <3>3. s = "drop" => \/ job'[c].cut
                        \/ host' = host /\ job[c].stage = "push" /\ ~job[c].cut
      BY <1>3, <1>7, <2>2, <2>5, <2>6 DEF Ext!At
    <3> QED
      BY <1>1, <1>3, <1>4, <2>11, <2>12, <2>14, <3>1, <3>2, <3>3, TurnInv
  <2> QED
    BY <2>13, <2>14
<1>8. ASSUME Ext!AfterFailure(c) # "idle"
      PROVE  job' = [job EXCEPT ![c].stage = Ext!AfterFailure(c), ![c].ok = FALSE,
                       ![c].cut = @ \/ Ext!At(c, "restart"),
                       ![c].entry = IF Ext!At(c, "register") THEN Ext!NoEntry ELSE @]
  BY Zenon, <1>8 DEF Ext!Fail
<1>9. Ext!AfterFailure(c) = "idle" => Ext!Finish(c)
  BY DEF Ext!Fail
<1>10. job[c].stage \in Ext!Stages
  BY <1>1 DEF Ext!Job
<1>11. CASE job[c].stage \in {"register", "write", "install", "cordon"}
  <2>1. Ext!AfterFailure(c) = "revoke"
    BY <1>11, AfterFailureIs
  <2> QED
    BY <1>7, <1>8, <1>11, <2>1
<1>12. CASE job[c].stage \in {"revoke", "user"}
  <2>1. Ext!AfterFailure(c) = "remove"
    BY <1>12, AfterFailureIs
  <2> QED
    BY <1>7, <1>8, <1>12, <2>1
<1>13. CASE job[c].stage = "restart" \/ (job[c].stage = "push" /\ job[c].key # Ext!NoKey)
  <2>1. Ext!AfterFailure(c) = "drop"
    BY <1>13, AfterFailureIs
  <2> QED
    BY <1>7, <1>8, <1>13, <2>1
<1>14. CASE \/ job[c].stage = "push" /\ job[c].key = Ext!NoKey
            \/ job[c].stage \in {"mint", "await", "mark", "supersede", "drop", "swap",
                                 "record", "put", "remove"}
  <2>1. Ext!AfterFailure(c) = "idle"
    BY <1>14, AfterFailureIs
  <2> QED
    BY <1>6, <1>9, <1>14, <2>1
<1> QED
  BY <1>1, <1>10, <1>11, <1>12, <1>13, <1>14 DEF Ext!Stages

(* A process that is killed leaves its key behind, if it has one.            *)
LEMMA KillInv == ASSUME ExternalInv, NEW c \in HostCLIs, Ext!Kill(c) PROVE ExternalInv'
<1>1. /\ Ext!Active(c) /\ Ext!Finish(c) /\ hostFaults' = hostFaults - 1 /\ hostFaults > 0
      /\ forgiven' = forgiven \cup (IF job[c].key = Ext!NoKey THEN {} ELSE {"keys"})
      /\ UNCHANGED <<registry, user, active, minted, host, status, gone, hostStarts>>
  BY DEF Ext!Kill, Ext!aws
<1>2. hostFaults' \in 0 .. MaxHostFaults
  BY <1>1, ExternalAssumption DEF Ext!ExternalNodeAssumption, ExternalInv, Ext!TypeOK
<1>3. Ext!TypeOK'
  BY <1>1, <1>2, FinishTurn DEF ExternalInv, Ext!TypeOK, Turn
<1>4. Ext!NoKey \notin active
  BY DEF ExternalInv, Ext!TypeOK, Ext!Keys, Ext!NoKey
<1> QED
  BY <1>1, <1>3, <1>4, FinishInv

(* A command begins, with the entry as it is, or with the node's first, and  *)
(* those that run learn of it.                                               *)
LEMMA BeginInv ==
    ASSUME ExternalInv, NEW c \in HostCLIs, ~Ext!Active(c), NEW kind \in Ext!Kinds, NEW stage \in Ext!Stages,
           Ext!Begin(c, kind, stage),
           UNCHANGED <<registry, user, active, minted, host, status, forgiven, hostFaults>>,
           ~gone', hostStarts' \in 0 .. MaxHostStarts,
           \/ kind = "init" /\ stage = "mint" /\ registry = Ext!NoEntry
           \/ /\ registry # Ext!NoEntry
              /\ <<kind, stage>> \in {<<"init", "await">>, <<"rotate", "push">>,
                   <<"upgrade", "swap">>, <<"reconcile", "put">>, <<"destroy", "cordon">>},
           gone' \in BOOLEAN
    PROVE  ExternalInv'
<1> DEFINE met == {job[e].kind : e \in {e \in HostCLIs : Ext!Active(e)}}
           j == [Ext!Idle EXCEPT !.kind = kind, !.stage = stage, !.entry = registry, !.met = met]
<1>1. met \subseteq Ext!Kinds
  BY DEF ExternalInv, Ext!TypeOK, Ext!Job
<1>2. \A d \in HostCLIs : job'[d] = IF d = c THEN j
                                    ELSE IF Ext!Active(d) THEN [job[d] EXCEPT !.met = @ \cup {kind}]
                                    ELSE job[d]
  BY Zenon DEF Ext!Begin
<1>3. \A e \in HostCLIs : Ext!Active(e) => job[e].kind \in met
  OBVIOUS
<1> HIDE DEF met
<1>4. registry \in Ext!Entry \cup {Ext!NoEntry} /\ \A d \in HostCLIs : job[d] \in Ext!Job /\ ExtShapeOK(job[d])
  BY DEF ExternalInv, Ext!TypeOK
<1>5. /\ j \in Ext!Job /\ j.kind = kind /\ j.stage = stage /\ j.entry = registry
      /\ j.met = met /\ j.key = Ext!NoKey
  BY <1>1, <1>4, IdleIsJob DEF Ext!Job, Ext!Idle
<1> HIDE DEF j
<1>6. job'[c] = j
  BY <1>2
<1>7. ASSUME NEW d \in HostCLIs, d # c
      PROVE  /\ job'[d] \in Ext!Job /\ job'[d].kind = job[d].kind /\ job'[d].stage = job[d].stage
             /\ job'[d].entry = job[d].entry /\ job'[d].key = job[d].key
             /\ job'[d].ok = job[d].ok /\ job'[d].cut = job[d].cut
             /\ job[d].met \subseteq job'[d].met
             /\ Ext!Active(d) => kind \in job'[d].met
             /\ ~Ext!Active(d) => job'[d] = job[d]
  <2>1. CASE Ext!Active(d)
    <3>1. job'[d] = [job[d] EXCEPT !.met = @ \cup {kind}]
      BY <1>2, <1>7, <2>1
    <3> QED
      BY <1>4, <2>1, <3>1 DEF Ext!Job
  <2>2. CASE ~Ext!Active(d)
    BY <1>2, <1>4, <1>7, <2>2
  <2> QED
    BY <2>1, <2>2
<1>8. Ext!TypeOK'
  <2>1. job' \in [HostCLIs -> Ext!Job]
    <3>1. \A d \in HostCLIs : job'[d] \in Ext!Job
      BY <1>5, <1>6, <1>7
    <3>2. job' = [d \in HostCLIs |-> job'[d]]
      BY DEF Ext!Begin
    <3> QED
      BY <3>1, <3>2
  <2> QED
    BY <2>1 DEF ExternalInv, Ext!TypeOK
<1>9. (\A d \in HostCLIs : ExtShapeOK(job[d]))'
  <2>1. ExtShapeOK(j)
    BY <1>4, <1>5 DEF ExtShapeOK, ExtStageOK, Enrolls
  <2>2. ASSUME NEW d \in HostCLIs, d # c PROVE ExtShapeOK(job'[d])
    <3>1. CASE ~Ext!Active(d)
      BY <1>4, <1>7, <2>2, <3>1
    <3>2. CASE Ext!Active(d)
      BY <1>4, <1>7, <2>2, <3>2 DEF ExtShapeOK, ExtStageOK, Enrolls, Ext!Active, Ext!At
    <3> QED
      BY <3>1, <3>2
  <2> QED
    BY <1>6, <2>1, <2>2
<1>10. Met'
  <2> SUFFICES ASSUME NEW a \in HostCLIs, NEW b \in HostCLIs, a # b, Ext!Active(a)', Ext!Active(b)'
               PROVE  job'[b].kind \in job'[a].met
    BY DEF Met
  <2>1. \A d \in HostCLIs : d # c /\ Ext!Active(d)' => Ext!Active(d)
    BY <1>7 DEF Ext!Active, Ext!At
  <2>2. CASE a = c
    BY <1>3, <1>5, <1>6, <1>7, <2>1, <2>2
  <2>3. CASE b = c
    BY <1>5, <1>6, <1>7, <2>1, <2>3
  <2>4. CASE a # c /\ b # c
    <3>1. job[b].kind \in job[a].met
      BY <2>1, <2>4 DEF ExternalInv, Met
    <3> QED
      BY <1>7, <2>4, <3>1
  <2> QED
    BY <2>2, <2>3, <2>4
<1>11. /\ ~Enrolls(job'[c]) /\ ~Cleans(job'[c]) /\ ~Rotates(c)' /\ job'[c].key = Ext!NoKey
       /\ job'[c].stage # "supersede"
  BY <1>5, <1>6 DEF Enrolls, Cleans, Rotates
<1>12. \A d \in HostCLIs : d # c => /\ Enrolls(job'[d]) <=> Enrolls(job[d])
                                    /\ Cleans(job'[d]) <=> Cleans(job[d])
                                    /\ Rotates(d)' <=> Rotates(d)
  BY <1>7 DEF Enrolls, Cleans, Rotates
<1>13. KeysOK'
  <2>1. \A d \in HostCLIs : job'[d].key \in {job[d].key, Ext!NoKey}
    BY <1>7, <1>11
  <2>2. minted \in Nat
    BY ExternalAssumption DEF Ext!ExternalNodeAssumption, ExternalInv, Ext!TypeOK
  <2> QED
    BY <2>1, <2>2 DEF KeysOK, ExternalInv, Ext!NoKey
<1>14. Ext!HostsAreListed' /\ ListedOK'
  <2>1. Ext!HostsAreListed'
    BY DEF ExternalInv, Ext!HostsAreListed
  <2> SUFFICES ASSUME "listing" \notin forgiven, NEW d \in HostCLIs
               PROVE  /\ job'[d].kind # "init" => registry.born = job'[d].entry.born
                      /\ Enrolls(job'[d]) => registry.born = job'[d].key
                      /\ job'[d].kind = "init" /\ Cleans(job'[d]) /\ job'[d].met \subseteq {"init"}
                           /\ job'[d].entry # Ext!NoEntry /\ registry.born = job'[d].entry.born
                           => host.env \notin active
                      /\ job'[d].kind = "destroy" /\ Cleans(job'[d]) /\ job'[d].met = {}
                           => active = {}
    BY <2>1 DEF ListedOK, Enrolls, Cleans
  <2>2. CASE d = c
    BY <1>5, <1>6, <1>11, <2>2
  <2>3. CASE d # c
    BY <1>7, <1>12, <2>3 DEF ExternalInv, ListedOK
  <2> QED
    BY <2>2, <2>3
<1>15. GoneOK' /\ Ext!DestroyedStaysGone'
  <2>1. \A d \in HostCLIs :
          job'[d].kind = "destroy" /\ Cleans(job'[d]) /\ job'[d].ok /\ job'[d].met = {}
          => active = {} /\ (job'[d].stage = "remove" => ~user)
    BY <1>7, <1>11, <1>12 DEF ExternalInv, GoneOK
  <2> QED
    BY <2>1 DEF GoneOK, Ext!DestroyedStaysGone, Cleans
<1>16. SettledOK'
  <2>1. \A d \in HostCLIs : job'[d].stage = "supersede" => host.up
    BY <1>7, <1>11 DEF ExternalInv, SettledOK
  <2>2. "keys" \notin forgiven =>
          \A d \in HostCLIs : job'[d].kind = "init" /\ Cleans(job'[d]) => job'[d].key \notin active
    BY <1>7, <1>11, <1>12 DEF ExternalInv, SettledOK
  <2>3. Ext!NoKey \notin active
    BY DEF ExternalInv, Ext!TypeOK, Ext!Keys, Ext!NoKey
  <2>4. job[c].key = Ext!NoKey
    BY <1>4 DEF ExtShapeOK, Ext!Active, Ext!At, Ext!Idle
  <2>5. Settled' \subseteq Settled
    BY <1>7, <2>3, <2>4 DEF Settled
  <2> QED
    BY <2>1, <2>2, <2>5 DEF ExternalInv, SettledOK, Cleans
<1>17. RotationOK'
  <2>1. \A d \in HostCLIs : Rotates(d)' => d # c /\ Rotates(d)
    BY <1>11, <1>12
  <2>2. \A d \in HostCLIs : Rotates(d)' /\ ~job'[d].cut /\ job'[d].stage \in {"push", "drop"}
                              => host.env # job'[d].key
    BY <1>7, <2>1 DEF ExternalInv, RotationOK
  <2>3. ASSUME "rotation" \notin forgiven, NEW d \in HostCLIs, Rotates(d)'
        PROVE  /\ job'[d].key \in active =>
                    \E x \in active : \A e \in HostCLIs : Rotates(e)' => job'[e].key # x
               /\ "init" \notin job'[d].met =>
                    /\ job'[d].key \notin active => active = {}
                    /\ job'[d].stage \in {"restart", "supersede"}
                         => host.env = job'[d].key \/ host.env \notin active
    <3>1. d # c /\ Rotates(d)
      BY <2>1, <2>3
    <3>2. /\ job[d].key \in active =>
               \E x \in active : \A e \in HostCLIs : Rotates(e) => job[e].key # x
          /\ "init" \notin job[d].met =>
               /\ job[d].key \notin active => active = {}
               /\ job[d].stage \in {"restart", "supersede"}
                    => host.env = job[d].key \/ host.env \notin active
      BY <2>3, <3>1 DEF ExternalInv, RotationOK
    <3>3. \A e \in HostCLIs : Rotates(e)' => Rotates(e) /\ job'[e].key = job[e].key
      BY <1>7, <2>1
    <3> QED
      BY <1>7, <3>1, <3>2, <3>3
  <2> QED
    BY <2>2, <2>3 DEF RotationOK
<1> QED
  BY <1>8, <1>9, <1>10, <1>13, <1>14, <1>15, <1>16, <1>17 DEF ExternalInv

(* The machine and status.json change without a command, and a command may   *)
(* end without having done anything else.                                    *)
LEMMA StillInv ==
    ASSUME ExternalInv, Ext!TypeOK', Ext!DestroyedStaysGone',
           UNCHANGED <<registry, user, active, minted, job, forgiven, gone>>,
           host'.env = host.env, host'.unit # "none" => host'.up, host.up => host'.up
    PROVE  ExternalInv'
<1>1. (\A d \in HostCLIs : ExtShapeOK(job[d]))' /\ Met' /\ KeysOK'
  BY DEF ExternalInv, Met, KeysOK, Ext!Active, Ext!At
<1>2. Ext!HostsAreListed' /\ ListedOK' /\ GoneOK'
  BY DEF ExternalInv, Ext!HostsAreListed, ListedOK, GoneOK, Enrolls, Cleans, Ext!Active, Ext!At
<1>3. Settled' = Settled
  BY DEF Settled
<1>4. SettledOK'
  BY <1>3 DEF ExternalInv, SettledOK, Cleans
<1>5. RotationOK'
  BY DEF ExternalInv, RotationOK, Rotates
<1> QED
  BY <1>1, <1>2, <1>4, <1>5 DEF ExternalInv

(* What can begin                                                            *)
LEMMA ExtStartInv == ASSUME ExternalInv, NEW c \in HostCLIs, Ext!Start(c) PROVE ExternalInv'
<1>1. /\ ~Ext!Active(c) /\ hostStarts' = hostStarts - 1 /\ hostStarts > 0
      /\ UNCHANGED <<registry, user, active, minted, host, forgiven, hostFaults>>
  BY DEF Ext!Start, Ext!Active, Ext!aws
<1>2. hostStarts' \in 0 .. MaxHostStarts
  BY <1>1, ExternalAssumption DEF Ext!ExternalNodeAssumption, ExternalInv, Ext!TypeOK
<1>3. /\ registry # Ext!NoEntry => ~gone
      /\ gone => status = "none"
  BY DEF ExternalInv, Ext!DestroyedStaysGone
<1>4. gone \in BOOLEAN
  BY DEF ExternalInv, Ext!TypeOK
<1>5. CASE registry = Ext!NoEntry /\ Ext!Begin(c, "init", "mint") /\ gone' = FALSE /\ UNCHANGED status
  BY <1>1, <1>2, <1>5, BeginInv DEF Ext!Kinds, Ext!Stages
<1>6. ASSUME registry # Ext!NoEntry, UNCHANGED <<status, gone>>,
             NEW kind \in Ext!Kinds, NEW stage \in Ext!Stages, Ext!Begin(c, kind, stage),
             <<kind, stage>> \in {<<"rotate", "push">>, <<"upgrade", "swap">>,
                                  <<"reconcile", "put">>, <<"destroy", "cordon">>}
      PROVE  ExternalInv'
  BY <1>1, <1>2, <1>3, <1>4, <1>6, BeginInv
<1>7. CASE Ext!SweepOrphanPrefix /\ UNCHANGED gone
  <2>1. status' = "none" /\ UNCHANGED <<job, gone>>
    BY <1>7 DEF Ext!SweepOrphanPrefix
  <2> QED
    BY <1>1, <1>2, <2>1, StillInv DEF ExternalInv, SettledOK, Ext!TypeOK, Ext!DestroyedStaysGone
<1>8. CASE /\ Ext!BeginRotate(c) \/ Ext!BeginUpgrade(c) \/ Ext!BeginReconcile(c) \/ Ext!BeginDestroy(c)
           /\ UNCHANGED <<status, gone>>
  BY <1>6, <1>8 DEF Ext!BeginRotate, Ext!BeginUpgrade, Ext!BeginReconcile, Ext!BeginDestroy,
     Ext!AssessedReady,
                    Ext!Kinds, Ext!Stages
<1> QED
  BY <1>5, <1>7, <1>8 DEF Ext!Start, Ext!BeginInit

(* An enrollment that is resumed has no key and no entry of its own.         *)
LEMMA ResumeInv == ASSUME ExternalInv, NEW c \in HostCLIs, Ext!Resume(c) PROVE ExternalInv'
<1>1. /\ ~Ext!Active(c) /\ registry # Ext!NoEntry /\ Ext!Begin(c, "init", "await")
      /\ UNCHANGED <<registry, user, active, minted, host, status, forgiven, gone, hostStarts, hostFaults>>
  BY DEF Ext!Resume, Ext!CanResume, Ext!Active, Ext!aws, Ext!history
<1>2. ~gone /\ gone \in BOOLEAN /\ hostStarts \in 0 .. MaxHostStarts
  BY <1>1 DEF ExternalInv, Ext!DestroyedStaysGone, Ext!TypeOK
<1> QED
  BY <1>1, <1>2, BeginInv DEF Ext!Kinds, Ext!Stages

(* A step of one command                                                     *)
LEMMA StepInv == ASSUME ExternalInv, NEW c \in HostCLIs, Ext!Step(c) PROVE ExternalInv'
<1>1. UNCHANGED <<hostStarts, hostFaults>>
  BY DEF Ext!Step
<1>2. CASE Ext!Enroll(c)
  BY <1>1, <1>2, MintInv, ExtRegisterInv, WriteEnvInv, InstallInv, AwaitInv, MarkInv,
     UnregisterInv DEF Ext!Enroll
<1>3. CASE Ext!Rotate(c)
  BY <1>1, <1>3, ReplaceInv, PushInv, RestartInv, SupersedeInv, DropInv DEF Ext!Rotate
<1>4. CASE Ext!Maintain(c)
  BY <1>1, <1>4, SwapInv, OverwriteInv DEF Ext!Maintain
<1>5. CASE Ext!Destroy(c)
  BY <1>1, <1>5, CordonInv, RevokeInv, DeleteUserInv, RemoveInv DEF Ext!Destroy
<1> QED
  BY <1>2, <1>3, <1>4, <1>5 DEF Ext!Step

(* Every step of the system, of a command or of the machine                  *)
LEMMA ExtNextInv == ExternalInv /\ [Ext!Next]_(Ext!vars) => ExternalInv'
<1> SUFFICES ASSUME ExternalInv, [Ext!Next]_(Ext!vars) PROVE ExternalInv'
  OBVIOUS
<1>1. ASSUME NEW c \in HostCLIs, Ext!Start(c) \/ Ext!Resume(c) \/ Ext!Step(c) \/ Ext!Fail(c) \/ Ext!Kill(c)
      PROVE  ExternalInv'
  BY <1>1, ExtStartInv, ResumeInv, StepInv, ExtFailInv, KillInv
<1>2. CASE Ext!Reboot
  <2>1. /\ host' = Ext!Restarted(host)
        /\ UNCHANGED <<registry, user, active, minted, status, job, forgiven, gone, hostStarts, hostFaults>>
    BY <1>2 DEF Ext!Reboot, Ext!aws, Ext!history
  <2>2. host \in Ext!Host /\ (host.unit # "none" => host.up)
    BY DEF ExternalInv, Ext!TypeOK, SettledOK
  <2>3. /\ host' \in Ext!Host /\ host'.env = host.env
        /\ host'.unit # "none" => host'.up
        /\ host.up => host'.up
    BY <2>1, <2>2, RestartedOK
  <2> QED
    BY <2>1, <2>3, StillInv DEF ExternalInv, Ext!TypeOK, Ext!DestroyedStaysGone
<1>3. CASE Ext!Beat
  <2>1. /\ host.runs \in active /\ status' = "fresh"
        /\ UNCHANGED <<registry, user, active, minted, host, job, forgiven, gone, hostStarts, hostFaults>>
    BY <1>3 DEF Ext!Beat, Ext!Lives, Ext!aws, Ext!history
  <2> QED
    BY <2>1, StillInv DEF ExternalInv, Ext!TypeOK, SettledOK, Ext!DestroyedStaysGone
<1>4. CASE Ext!GoStale
  <2>1. /\ status = "fresh" /\ status' = "stale"
        /\ UNCHANGED <<registry, user, active, minted, host, job, forgiven, gone, hostStarts, hostFaults>>
    BY <1>4 DEF Ext!GoStale, Ext!aws, Ext!history
  <2> QED
    BY <2>1, StillInv DEF ExternalInv, Ext!TypeOK, SettledOK, Ext!DestroyedStaysGone
<1>5. CASE UNCHANGED Ext!vars
  <2>1. UNCHANGED <<registry, user, active, minted, host, status, job, forgiven, gone, hostStarts, hostFaults>>
    BY <1>5 DEF Ext!vars, Ext!aws, Ext!history
  <2> QED
    BY <2>1, StillInv DEF ExternalInv, Ext!TypeOK, SettledOK, Ext!DestroyedStaysGone
<1> QED
  BY <1>1, <1>2, <1>3, <1>4, <1>5 DEF Ext!Next

-----------------------------------------------------------------------------
(* The theorems                                                              *)

(* The inductive invariant holds of every behaviour.                         *)
LEMMA InvAlways == Ext!Spec => []ExternalInv
<1>1. Ext!Init => ExternalInv
  BY ExtInitInv
<1>2. ExternalInv /\ [Ext!Next]_(Ext!vars) => ExternalInv'
  BY ExtNextInv
<1> QED
  BY <1>1, <1>2, PTL DEF Ext!Spec

(* No credential of an external node is out of reach, however many commands  *)
(* enroll, rotate, upgrade, reconcile and destroy it side by side, fail and  *)
(* are killed (provision/external-bootstrap.ts, commands/node).              *)
THEOREM CredentialsAlwaysHeld == Ext!Spec => []CredentialsAreHeld
<1>1. ExternalInv => CredentialsAreHeld
  BY InvHolds DEF CredentialsAreHeld
<1> QED
  BY <1>1, InvAlways, PTL

(* A step of one command leaves every other where it is.                     *)
LEMMA StepIsAlone ==
    ASSUME ExternalInv, NEW d \in HostCLIs, Ext!Step(d), NEW c \in HostCLIs, c # d
    PROVE  job'[c] = job[c]
<1>1. job \in [HostCLIs -> Ext!Job]
  BY DEF ExternalInv, Ext!TypeOK
<1>2. CASE Ext!Enroll(d)
  BY <1>1, <1>2 DEF Ext!Enroll, Ext!Mint, Ext!Register, Ext!WriteEnv, Ext!Install, Ext!Await,
     Ext!Mark, Ext!Unregister,
                    Ext!CreateKey, Ext!Goto, Ext!Finish
<1>3. CASE Ext!Rotate(d)
  BY <1>1, <1>3 DEF Ext!Rotate, Ext!Replace, Ext!Push, Ext!Restart, Ext!Supersede, Ext!Drop,
     Ext!CreateKey, Ext!Goto, Ext!Finish
<1>4. CASE Ext!Maintain(d)
  BY <1>1, <1>4 DEF Ext!Maintain, Ext!Swap, Ext!Record, Ext!PutReady, Ext!Goto, Ext!Finish
<1>5. CASE Ext!Destroy(d)
  BY <1>1, <1>5 DEF Ext!Destroy, Ext!Cordon, Ext!Revoke, Ext!DeleteUser, Ext!Remove, Ext!Goto,
     Ext!Finish
<1> QED
  BY <1>2, <1>3, <1>4, <1>5 DEF Ext!Step

(* At its end a rotation deletes its own key, or every other.                *)
LEMMA RotationEnds ==
    ASSUME ExternalInv, NEW c \in HostCLIs, Ext!Step(c), job[c].stage \in {"supersede", "drop"}
    PROVE  /\ job[c].stage = "supersede" => active' = active \cap {job[c].key}
           /\ job[c].stage = "drop" => active' = active \ {job[c].key}
<1>1. Ext!Supersede(c) \/ Ext!Drop(c)
  BY DEF Ext!Step, Ext!Enroll, Ext!Mint, Ext!Register, Ext!WriteEnv, Ext!Install, Ext!Await,
     Ext!Mark, Ext!Unregister,
         Ext!Rotate, Ext!Replace, Ext!Push, Ext!Restart, Ext!Maintain, Ext!Swap, Ext!Record, Ext!PutReady,
         Ext!Destroy, Ext!Cordon, Ext!Revoke, Ext!DeleteUser, Ext!Remove, Ext!At
<1> QED
  BY <1>1 DEF Ext!Supersede, Ext!Superseded, Ext!Drop, Ext!Dropped, Ext!At

(* A rotation that ends does not revoke the key that the machine starts its  *)
(* agent with: it drops its own only if the push did not write it, and when  *)
(* it deletes the others the one on the machine is its own or void.          *)
LEMMA RotationKeeps ==
    ASSUME ExternalInv, [Ext!Next]_(Ext!vars), NEW c \in HostCLIs,
           job[c].kind = "rotate", job[c].stage \in {"supersede", "drop"},
           job'[c].stage = "idle", host.env \in active
    PROVE  \/ host.env \in active'
           \/ job[c].cut \/ "rotation" \in forgiven
           \/ "init" \in job[c].met
<1> SUFFICES ASSUME active' # active, ~job[c].cut, "rotation" \notin forgiven, "init" \notin job[c].met
             PROVE  host.env \in active'
  OBVIOUS
<1>1. Rotates(c)
  BY DEF ExternalInv, ExtShapeOK, Rotates
<1>2. PICK d \in HostCLIs : Ext!Start(d) \/ Ext!Resume(d) \/ Ext!Step(d) \/ Ext!Fail(d) \/ Ext!Kill(d)
  BY DEF Ext!Next, Ext!Reboot, Ext!Beat, Ext!GoStale, Ext!vars, Ext!aws
<1>3. Ext!Step(d)
  BY <1>2 DEF Ext!Start, Ext!Resume, Ext!Fail, Ext!Kill, Ext!aws
<1>4. d = c
  BY <1>3, StepIsAlone
<1>5. CASE job[c].stage = "drop"
  <2>1. active' = active \ {job[c].key}
    BY <1>3, <1>4, <1>5, RotationEnds
  <2>2. host.env # job[c].key
    BY <1>1, <1>5 DEF ExternalInv, RotationOK
  <2> QED
    BY <2>1, <2>2
<1>6. CASE job[c].stage = "supersede"
  <2>1. active' = active \cap {job[c].key}
    BY <1>3, <1>4, <1>6, RotationEnds
  <2>2. host.env = job[c].key
    BY <1>1, <1>6 DEF ExternalInv, RotationOK
  <2> QED
    BY <2>1, <2>2
<1> QED
  BY <1>5, <1>6

(* Of two keys at most, a rotation holds one and the machine the other until *)
(* it is pushed: IAM's limit is what makes rotations that run side by side   *)
(* safe (aws/iam.ts and runRotateCreds of commands/node/index.ts).           *)
THEOREM RotationAlwaysKeepsTheNodeIn == Ext!Spec => RotationKeepsTheNodeIn
<1>1. ExternalInv /\ [Ext!Next]_(Ext!vars) =>
        \A c \in HostCLIs :
          job[c].kind = "rotate" /\ job[c].stage \in {"supersede", "drop"}
          /\ job'[c].stage = "idle" /\ host.env \in active =>
            \/ host.env \in active'
            \/ job[c].cut \/ "rotation" \in forgiven
            \/ "init" \in job[c].met
  BY RotationKeeps
<1> QED
  BY <1>1, InvAlways, PTL DEF Ext!Spec, RotationKeepsTheNodeIn,
                                                              Ext!RotationKeepsTheNodeIn
=============================================================================
