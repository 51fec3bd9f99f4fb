--------------------------- MODULE AppAgentProofs ---------------------------
(***************************************************************************)
(* Safety of the app agent for every set of configurations, every replica  *)
(* and surge count and every number of deploys and faults.                 *)
(*                                                                         *)
(* The properties TLC checks are not inductive: they follow from           *)
(* BeliefsHold, which is proved in three layers, each from the ones        *)
(* before it: TypeOK with PlanOK, ViewOK with CountOK, and RoutingOK.      *)
(*                                                                         *)
(* The last part is about the host ports the agent gives its replicas.     *)
(***************************************************************************)
EXTENDS AppAgent, AgentPorts, FiniteSetTheorems, TLAPS

-----------------------------------------------------------------------------
(* Indices.                                                                 *)

(* Sets of replicas are finite and have a size.                              *)
LEMMA IndexSetsAreFinite ==
    ASSUME NEW S, S \subseteq Index
    PROVE  IsFiniteSet(S) /\ Cardinality(S) \in Nat
<1>1. IsFiniteSet(Index)
    BY FS_Interval, BoundsAssumption DEF Index
<1>2. IsFiniteSet(S)
    BY <1>1, FS_Subset
<1> QED
    BY <1>2, FS_CardinalityType

(* There is at least one replica index.                                      *)
LEMMA ZeroIsIndex == 0 \in Index
BY BoundsAssumption DEF Index

(* Every non-empty set of indices has a least element, so Least names one:   *)
(* the head of old_queue, the next Start or Create.  The sets of smaller     *)
(* indices are finite, and a minimal one of them belongs to the least index. *)
LEMMA LeastIsLeast ==
    ASSUME NEW S, S \subseteq Index, S # {}
    PROVE  Least(S) \in S /\ \A j \in S : Least(S) <= j
<1> DEFINE Upto(i) == {j \in S : j <= i}
           T == {Upto(i) : i \in S}
<1>1. S \subseteq Nat
    BY DEF Index
<1>2. IsWellFoundedOn(StrictSubsetOrdering(Index), SUBSET Index)
    BY IndexSetsAreFinite, FS_FiniteSubsetsOfFinite,
       FS_StrictSubsetOrderingWellFounded
<1>3. T \subseteq SUBSET Index /\ T # {}
    OBVIOUS
<1>4. \E x \in T : \A y \in T : ~ (<<y, x>> \in StrictSubsetOrdering(Index))
    <2> HIDE DEF T
    <2> QED BY <1>2, <1>3, WFMin
<1>5. PICK m \in S : \A y \in T : ~ (<<y, Upto(m)>> \in StrictSubsetOrdering(Index))
    BY <1>4
<1>6. \A j \in S : m <= j
    <2> SUFFICES ASSUME NEW j \in S, ~ (m <= j)
                 PROVE  FALSE
        OBVIOUS
    <2>1. j < m
        BY <1>1
    <2>2. m \in Nat /\ j \in Nat /\ \A k \in S : k \in Nat
        BY <1>1
    <2>3. \A k \in Upto(j) : k \in Upto(m)
        BY <2>1, <2>2
    <2>4. m \in Upto(m) /\ m \notin Upto(j)
        BY <2>1, <2>2
    <2>5. Upto(j) \in SUBSET Index /\ Upto(m) \in SUBSET Index
        OBVIOUS
    <2>6. <<Upto(j), Upto(m)>> \in StrictSubsetOrdering(Index)
        <3> HIDE DEF Upto
        <3> QED BY <2>3, <2>4, <2>5 DEF StrictSubsetOrdering
    <2>7. Upto(j) \in T
        OBVIOUS
    <2> QED
        BY <1>5, <2>6, <2>7
<1> QED
    BY <1>6 DEF Least

(* And a greatest one: next_index of a rollout is one above it.              *)
LEMMA GreatestIsGreatest ==
    ASSUME NEW S, S \subseteq Index, S # {}
    PROVE  Greatest(S) \in S /\ \A j \in S : j <= Greatest(S)
<1> DEFINE T == {MaxIndex - i : i \in S}
<1>1. MaxIndex \in Nat /\ S \subseteq 0 .. MaxIndex
    BY BoundsAssumption DEF Index
<1>2. T \subseteq Index /\ T # {}
    <2>1. \A i \in S : MaxIndex - i \in Index
        BY <1>1 DEF Index
    <2> QED
        BY <2>1
<1>3. Least(T) \in T /\ \A j \in T : Least(T) <= j
    <2> HIDE DEF T
    <2> QED BY <1>2, LeastIsLeast
<1>4. PICK m \in S : Least(T) = MaxIndex - m
    BY <1>3
<1>5. \A j \in S : MaxIndex - m <= MaxIndex - j
    BY <1>3, <1>4
<1>6. \E i \in S : \A j \in S : j <= i
    BY <1>1, <1>5
<1> QED
    BY <1>6 DEF Greatest

-----------------------------------------------------------------------------
(* First layer: types, and plans that are spent before the next tick.       *)

(* The initial state is well typed and has no plan.                          *)
LEMMA TypeInit == Init => TypeOK /\ PlanOK
<1> SUFFICES ASSUME Init PROVE TypeOK /\ PlanOK
    OBVIOUS
<1>1. TypeOK
    <2>1. 0 \in Index /\ deploys \in 0 .. MaxDeploys /\ faults \in Budget
        BY BoundsAssumption DEF Init, Index, Budget
    <2>2. sibling \in BOOLEAN
        BY ConfigsAssumption DEF Init
    <2>3. state \in [Index -> DockerState] /\ stamp \in [Index -> Stamp \cup {NoStamp}]
        BY DEF Init, DockerState
    <2> QED
        BY <2>1, <2>2, <2>3 DEF Init, TypeOK, Pc
<1>2. PlanOK
    BY DEF Init, PlanOK, Rolling, RolloutPc
<1> QED
    BY <1>1, <1>2

(* The budget of faults is spent one at a time.                              *)
LEMMA FaultSpent ==
    ASSUME TypeOK, NEW kind, UseFault(kind)
    PROVE  faults' \in Budget
<1>1. faults.left - 1 \in 0 .. MaxFaults
    BY BoundsAssumption DEF TypeOK, Budget, UseFault
<1>2. faults.seen \cup ({kind} \cap Misleading) \in SUBSET Misleading
    BY DEF TypeOK, Budget
<1> QED
    BY <1>1, <1>2 DEF UseFault, Budget

(* What happened has happened: a step adds misleading faults, never one less. *)
LEMMA MisledStays ==
    ASSUME [Next]_vars
    PROVE  /\ Misled("rm") => Misled("rm")'
           /\ Misled("ambiguous") => Misled("ambiguous")'
<1>1. faults' = faults \/ \E kind : UseFault(kind)
    BY DEF Next, Agent, World, Deploy, AgentCrash, BecomeReady, ContainerExit,
           DockerRestart, BeginTick, TakeTurn, SiblingPublish, Apply,
           ApplyStart, ApplyCreate, ApplyRemove, EndApply, TickPublish,
           Rollout, Pull, Surge, SurgeFails, HealthPass, HealthTimeout,
           AbortPublish, RoutePublish, TakeOld, UnroutePublish, StopOld,
           Converged, SettlePublish, RunFails, RemoveContainer, StopContainer, PublishOk,
           PublishFails, vars
<1> QED
    BY <1>1 DEF UseFault, Misled

(* A publish, whatever comes of it, leaves the routing well typed.           *)
LEMMA PublishType ==
    ASSUME TypeOK, NEW exclude,
           PublishOk(exclude) \/ PublishFails(exclude)
    PROVE  /\ desired' = desired
           /\ shard' \in SUBSET Index
           /\ lastShard' \in (SUBSET Index) \cup {Unknown}
           /\ faults' \in Budget
<1>1. Content(exclude) \subseteq Index
    BY DEF Content, Running
<1> QED
    BY <1>1, FaultSpent DEF TypeOK, PublishOk, PublishFails

(* No docker command of a well-typed agent that has a configuration leaves   *)
(* docker ill typed.                                                         *)
LEMMA DockerType ==
    ASSUME TypeOK, NEW i \in Index,
           \/ cfg \in Configs /\ RunContainer(i) /\ UNCHANGED faults
           \/ cfg \in Configs /\ RunFails(i)
           \/ RemoveContainer(i) \/ StopContainer(i)
           \/ DropContainer(i) /\ UNCHANGED faults
           \/ UseFault("slow") /\ DropContainer(i)
    PROVE  /\ state' \in [Index -> DockerState]
           /\ stamp' \in [Index -> Stamp \cup {NoStamp}]
           /\ ready' \in SUBSET Index
           /\ faults' \in Budget
<1>1. cfg \in Configs => cfg.stamp \in Stamp
    BY ConfigsAssumption
<1> QED
    BY <1>1, FaultSpent
       DEF TypeOK, RunContainer, RunFails, RemoveContainer, StopContainer, DropContainer,
           dockerVars, DockerState

(* Every step keeps the types and the plan discipline.                       *)
LEMMA TypeStep == TypeOK /\ PlanOK /\ [Next]_vars => TypeOK' /\ PlanOK'
<1> SUFFICES ASSUME TypeOK, PlanOK, [Next]_vars
             PROVE  TypeOK' /\ PlanOK'
    OBVIOUS
<1>1. CASE Deploy
    BY <1>1, BoundsAssumption DEF Deploy, TypeOK, PlanOK, Rolling, RolloutPc, dockerVars,
                planVars, rollVars
<1>2. ASSUME NEW i \in Index, BecomeReady(i) \/ ContainerExit(i) \/ DockerRestart(i)
      PROVE  TypeOK' /\ PlanOK'
    <2>1. CASE BecomeReady(i)
        BY <1>2, <2>1
           DEF BecomeReady, TypeOK, PlanOK, Rolling, s3Vars, planVars,
               rollVars, cliVars
    <2>2. CASE ContainerExit(i)
        <3>1. faults' \in Budget
            BY <2>2, FaultSpent DEF ContainerExit
        <3> QED
            BY <1>2, <2>2, <3>1
               DEF ContainerExit, TypeOK, PlanOK, Rolling, DockerState, s3Vars,
                   planVars, rollVars, cliVars
    <2>3. CASE DockerRestart(i)
        BY <1>2, <2>3
           DEF DockerRestart, TypeOK, PlanOK, Rolling, DockerState, s3Vars,
               planVars, rollVars, cliVars
    <2> QED
        BY <1>2, <2>1, <2>2, <2>3
<1>3. CASE AgentCrash
    <2>1. faults' \in Budget
        BY <1>3, FaultSpent DEF AgentCrash
    <2> QED
        BY <1>3, <2>1, ZeroIsIndex
           DEF AgentCrash, TypeOK, PlanOK, Rolling, Pc, RolloutPc, s3Vars,
               dockerVars, cliVars
<1>4. CASE BeginTick
    <2>1. Have \subseteq Index
        BY DEF Have
    <2>2. starts = {} /\ creates = {} /\ oldQueue = {}
        BY <1>4 DEF BeginTick, PlanOK
    <2>3. CASE PlanRemove
        BY <1>4, <2>1, <2>2, <2>3
           DEF BeginTick, PlanRemove, TypeOK, PlanOK, Rolling, Pc, RolloutPc,
               s3Vars, dockerVars, rollVars, cliVars
    <2>4. CASE PlanRollout(desired)
        <3>1. Drifted(desired) \subseteq Have /\ Have # {}
            BY <2>4 DEF Drifted, PlanRollout
        <3>2. Greatest(Have) + 1 \in Nat
            <4>1. Greatest(Have) \in Index
                BY <2>1, <3>1, GreatestIsGreatest
            <4> QED
                BY <4>1 DEF Index
        <3>3. Cardinality(Have \ Drifted(desired)) \in Nat
            BY <2>1, IndexSetsAreFinite
        <3> QED
            BY <1>4, <2>1, <2>2, <2>4, <3>1, <3>2, <3>3
               DEF BeginTick, PlanRollout, TypeOK, PlanOK, Rolling, Pc,
                   RolloutPc, s3Vars, dockerVars, planVars, cliVars
    <2>5. CASE PlanScale(desired)
        <3>1. \A n : LowestFree(n) \subseteq Index /\ HighestUsed(n) \subseteq Index
            BY <2>1 DEF LowestFree, HighestUsed
        <3> QED
            BY <1>4, <2>1, <2>2, <2>5, <3>1
               DEF BeginTick, PlanScale, TypeOK, PlanOK, Rolling, Pc,
                   RolloutPc, s3Vars, dockerVars, rollVars, cliVars
    <2> QED
        BY <1>4, <2>3, <2>4, <2>5 DEF BeginTick
<1>5. CASE TakeTurn
    <2>1. TypeOK'
        BY <1>5 DEF TakeTurn, TypeOK, Pc, RolloutPc, s3Vars, dockerVars,
                    planVars, rollVars, cliVars
    <2>2. PlanOK'
        BY <1>5 DEF TakeTurn, PlanOK, Rolling, RolloutPc, planVars, rollVars
    <2> QED
        BY <2>1, <2>2
<1>6. CASE SiblingPublish
    BY <1>6, PublishType
       DEF SiblingPublish, TypeOK, PlanOK, Rolling, dockerVars, planVars,
           rollVars, cliVars
<1>7. CASE Apply
    <2>1. CASE ApplyStart
        <3>1. Least(starts) \in Index
            BY <2>1, LeastIsLeast DEF ApplyStart, TypeOK
        <3> QED
            BY <2>1, <3>1, FaultSpent
               DEF ApplyStart, TypeOK, PlanOK, Rolling, RolloutPc, DockerState,
                   s3Vars, rollVars, cliVars
    <2>2. CASE ApplyCreate
        <3>1. Least(creates) \in Index /\ cfg \in Configs
            BY <2>2, LeastIsLeast DEF ApplyCreate, TypeOK, PlanOK
        <3>2. /\ state' \in [Index -> DockerState]
              /\ stamp' \in [Index -> Stamp \cup {NoStamp}]
              /\ ready' \in SUBSET Index
              /\ faults' \in Budget
            <4>1. CASE UseFault("pull") /\ UNCHANGED dockerVars
                BY <4>1, FaultSpent DEF TypeOK, dockerVars
            <4> QED
                BY <2>2, <3>1, <4>1, DockerType DEF ApplyCreate
        <3> QED
            BY <2>2, <3>1, <3>2
               DEF ApplyCreate, TypeOK, PlanOK, Rolling, RolloutPc, s3Vars,
                   rollVars, cliVars
    <2>3. CASE ApplyRemove
        <3> DEFINE i == IF cfg = NoService THEN Least(removes) ELSE Greatest(removes)
        <3>1. i \in Index
            BY <2>3, LeastIsLeast, GreatestIsGreatest DEF ApplyRemove, TypeOK
        <3>2. RemoveContainer(i)
            BY <2>3 DEF ApplyRemove
        <3> HIDE DEF i
        <3>3. /\ state' \in [Index -> DockerState]
              /\ stamp' \in [Index -> Stamp \cup {NoStamp}]
              /\ ready' \in SUBSET Index
              /\ faults' \in Budget
            BY <3>1, <3>2, DockerType
        <3> QED
            BY <2>3, <3>3
               DEF ApplyRemove, TypeOK, PlanOK, Rolling, RolloutPc, s3Vars,
                   rollVars, cliVars
    <2>4. CASE EndApply
        BY <2>4 DEF EndApply, TypeOK, PlanOK, Rolling, Pc, RolloutPc, s3Vars,
                    dockerVars, planVars, rollVars, cliVars
    <2> QED
        BY <1>7, <2>1, <2>2, <2>3, <2>4 DEF Apply
<1>8. CASE TickPublish
    BY <1>8, PublishType
       DEF TickPublish, TypeOK, PlanOK, Rolling, Pc, RolloutPc, dockerVars,
           planVars, rollVars, cliVars
<1>9. CASE Rollout
    <2> USE DEF rolloutFrame, planVars, cliVars
    <2>0. pc \in RolloutPc => cfg \in Configs /\ creates = {}
        BY DEF PlanOK, Rolling, RolloutPc
    <2>1. CASE Pull
        BY <2>1, ZeroIsIndex, FaultSpent
           DEF Pull, LeaveRollout, TypeOK, PlanOK, Rolling, Pc, RolloutPc,
               dockerVars, rollVars
    <2>2. CASE Surge
        <3>1. /\ state' \in [Index -> DockerState]
              /\ stamp' \in [Index -> Stamp \cup {NoStamp}]
              /\ ready' \in SUBSET Index
            BY <2>0, <2>2, DockerType DEF Surge, RolloutPc
        <3> QED
            BY <2>2, <3>1 DEF Surge, TypeOK, PlanOK, Rolling, Pc, RolloutPc
    <2>3. CASE SurgeFails
        <3>1. /\ state' \in [Index -> DockerState]
              /\ stamp' \in [Index -> Stamp \cup {NoStamp}]
              /\ ready' \in SUBSET Index
              /\ faults' \in Budget
            BY <2>0, <2>3, DockerType DEF SurgeFails, RolloutPc
        <3> QED
            BY <2>3, <3>1, ZeroIsIndex
               DEF SurgeFails, LeaveRollout, TypeOK, PlanOK, Rolling, Pc,
                   RolloutPc
    <2>4. CASE HealthPass
        BY <2>4 DEF HealthPass, TypeOK, PlanOK, Rolling, Pc, RolloutPc, dockerVars
    <2>5. CASE HealthTimeout
        <3>1. /\ state' \in [Index -> DockerState]
              /\ stamp' \in [Index -> Stamp \cup {NoStamp}]
              /\ ready' \in SUBSET Index
              /\ faults' \in Budget
            BY <2>5, DockerType DEF HealthTimeout, TypeOK
        <3> QED
            BY <2>5, <3>1
               DEF HealthTimeout, TypeOK, PlanOK, Rolling, Pc, RolloutPc, rollVars
    <2>6. CASE AbortPublish \/ SettlePublish
        BY <2>6, ZeroIsIndex, PublishType
           DEF AbortPublish, SettlePublish, LeaveRollout, TypeOK, PlanOK,
               Rolling, Pc, RolloutPc, dockerVars
    <2>7. CASE RoutePublish
        BY <2>7, ZeroIsIndex, PublishType
           DEF RoutePublish, LeaveRollout, TypeOK, PlanOK, Rolling, Pc,
               RolloutPc, dockerVars, rollVars
    <2>8. CASE TakeOld
        <3>1. Least(oldQueue) \in Index
            BY <2>8, LeastIsLeast DEF TakeOld, TypeOK
        <3> QED
            BY <2>8, <3>1
               DEF TakeOld, TypeOK, PlanOK, Rolling, Pc, RolloutPc, dockerVars
    <2>9. CASE UnroutePublish
        BY <2>9, ZeroIsIndex, PublishType
           DEF UnroutePublish, LeaveRollout, TypeOK, PlanOK, Rolling, Pc,
               RolloutPc, dockerVars, rollVars
    <2>10. CASE StopOld
        <3>1. /\ state' \in [Index -> DockerState]
              /\ stamp' \in [Index -> Stamp \cup {NoStamp}]
              /\ ready' \in SUBSET Index
              /\ faults' \in Budget
            BY <2>10, DockerType DEF StopOld, TypeOK
        <3> QED
            BY <2>10, <3>1
               DEF StopOld, TypeOK, PlanOK, Rolling, Pc, RolloutPc, rollVars
    <2>11. CASE Converged
        BY <2>11 DEF Converged, TypeOK, PlanOK, Rolling, Pc, RolloutPc,
                     dockerVars, rollVars
    <2> QED
        BY <1>9, <2>1, <2>2, <2>3, <2>4, <2>5, <2>6, <2>7, <2>8, <2>9, <2>10,
           <2>11 DEF Rollout
<1>10. CASE UNCHANGED vars
    BY <1>10 DEF vars, TypeOK, PlanOK, Rolling
<1> QED
    BY <1>1, <1>2, <1>3, <1>4, <1>5, <1>6, <1>7, <1>8, <1>9, <1>10
       DEF Next, Agent, World

(* The state of the agent, of docker and of S3 is always well typed: in      *)
(* particular the counters of rollout_service never go negative and the      *)
(* replica in hand is always one that exists in the index range.             *)
THEOREM TypeCorrect == Spec => []TypeOK
<1>1. Init => TypeOK /\ PlanOK
    BY TypeInit
<1>2. TypeOK /\ PlanOK /\ [Next]_vars => TypeOK' /\ PlanOK'
    BY TypeStep
<1> QED
    BY <1>1, <1>2, PTL DEF Spec

-----------------------------------------------------------------------------
(* What the docker commands do to the sets of containers.                   *)

(* docker run adds the container to the running ones.                        *)
LEMMA RunEffect ==
    ASSUME TypeOK, NEW i \in Index, RunContainer(i)
    PROVE  /\ Have' = Have \cup {i}
           /\ Running' = Running \cup {i}
           /\ ready' = ready
BY DEF TypeOK, RunContainer, Have, Running

(* A docker run that fails leaves nothing, or a container that does not run. *)
LEMMA RunFailsEffect ==
    ASSUME TypeOK, NEW i \in Index, i \notin Have, RunFails(i)
    PROVE  /\ \/ Have' = Have /\ UNCHANGED state
              \/ Have' = Have \cup {i} /\ state' = [state EXCEPT ![i] = "created"]
           /\ Running' = Running
           /\ ready' = ready
BY DEF TypeOK, RunFails, Have, Running

(* Dropping a container touches no other one.                                *)
LEMMA DropEffect ==
    ASSUME TypeOK, NEW i \in Index, DropContainer(i)
    PROVE  /\ Have' = Have \ {i}
           /\ Running' = Running \ {i}
           /\ ready' = ready \ {i}
           /\ \A j \in Index \ {i} : state'[j] = state[j]
BY DEF TypeOK, DropContainer, Have, Running

(* stop_container and remove_container drop the container or, their failure   *)
(* ignored, stop it at most.                                                 *)
LEMMA StopEffect ==
    ASSUME TypeOK, NEW i \in Index, RemoveContainer(i) \/ StopContainer(i)
    PROVE  \/ /\ Have' = Have \ {i}
              /\ Running' = Running \ {i}
              /\ ready' = ready \ {i}
           \/ /\ Misled("rm")'
              /\ Have' = Have
              /\ \/ Running' = Running /\ ready' = ready
                 \/ Running' = Running \ {i} /\ ready' = ready \ {i}
<1>1. CASE DropContainer(i)
    BY <1>1, DropEffect
<1>2. CASE UseFault("rm") /\ UNCHANGED dockerVars
    BY <1>2 DEF UseFault, Misled, Misleading, dockerVars, Have, Running
<1>3. CASE /\ UseFault("rm")
           /\ state' = [state EXCEPT ![i] = IF i \in Running THEN "exited" ELSE @]
           /\ ready' = ready \ {i}
    <2>1. Misled("rm")'
        BY <1>3 DEF UseFault, Misled, Misleading
    <2>2. Have' = Have /\ Running' = Running \ {i}
        BY <1>3 DEF TypeOK, Have, Running
    <2> QED
        BY <1>3, <2>1, <2>2
<1> QED
    BY <1>1, <1>2, <1>3 DEF StopContainer, RemoveContainer

(* A container that exits, restarts or is started stays the same container.  *)
LEMMA FlipEffect ==
    ASSUME TypeOK, NEW i \in Have,
           \/ state' = [state EXCEPT ![i] = "running"]
           \/ state' = [state EXCEPT ![i] = "exited"]
           \/ UNCHANGED state
    PROVE  /\ Have' = Have
           /\ Running \ {i} \subseteq Running'
BY DEF TypeOK, Have, Running

(* The containers docker reports are those of replicas of this service.      *)
LEMMA HaveIsIndex == Have \subseteq Index /\ Running \subseteq Have
BY DEF Have, Running

(* A step that runs no docker command leaves what docker reports alone.       *)
LEMMA SameState == UNCHANGED state => UNCHANGED <<Have, Running>>
BY DEF Have, Running

-----------------------------------------------------------------------------
(* Second layer: the agent's view of docker.                                *)

(* At the start no container exists and nothing is in hand.                  *)
LEMMA ViewInit == Init => ViewOK
BY DEF Init, ViewOK, Rolling, InHand, RolloutPc, Have, Running

(* Every step keeps the view right.                                          *)
LEMMA ViewStep == TypeOK /\ PlanOK /\ ViewOK /\ [Next]_vars => ViewOK'
<1> SUFFICES ASSUME TypeOK, PlanOK, ViewOK, [Next]_vars
             PROVE  ViewOK'
    OBVIOUS
<1> USE HaveIsIndex DEF ViewOK, Rolling, InHand
<1>1. CASE Deploy
    BY <1>1, SameState DEF Deploy, dockerVars, planVars, rollVars
<1>2. ASSUME NEW i \in Index, BecomeReady(i) \/ ContainerExit(i) \/ DockerRestart(i)
      PROVE  ViewOK'
    <2>1. CASE BecomeReady(i)
        BY <1>2, <2>1, SameState
           DEF BecomeReady, s3Vars, planVars, rollVars, cliVars
    <2>2. CASE ContainerExit(i)
        <3>1. i \in Have
            BY <2>2 DEF ContainerExit
        <3>2. Have' = Have /\ Running \ {i} \subseteq Running'
            BY <2>2, <3>1, FlipEffect DEF ContainerExit
        <3> QED
            BY <2>2, <3>2 DEF ContainerExit, planVars, rollVars
    <2>3. CASE DockerRestart(i)
        <3>1. i \in Have /\ i \notin Running
            BY <1>2, <2>3 DEF DockerRestart, Have, Running
        <3>2. Have' = Have /\ Running \ {i} \subseteq Running'
            BY <2>3, <3>1, FlipEffect DEF DockerRestart
        <3> QED
            BY <2>3, <3>1, <3>2 DEF DockerRestart, planVars, rollVars
    <2> QED
        BY <1>2, <2>1, <2>2, <2>3
<1>3. CASE AgentCrash
    BY <1>3, SameState DEF AgentCrash, dockerVars, RolloutPc
<1>4. CASE BeginTick
    <2>1. UNCHANGED <<Have, Running, ready>>
        BY <1>4, SameState DEF BeginTick, dockerVars
    <2>2. starts = {} /\ creates = {} /\ oldQueue = {}
        BY <1>4 DEF BeginTick, PlanOK
    <2>3. CASE PlanRemove
        BY <2>1, <2>2, <2>3 DEF PlanRemove, rollVars, RolloutPc
    <2>4. CASE PlanRollout(desired)
        <3>1. Drifted(desired) \subseteq Have /\ Have # {}
            BY <2>4 DEF Drifted, PlanRollout
        <3>2. /\ Greatest(Have) \in Index
              /\ \A i \in Have : i <= Greatest(Have)
            BY <3>1, GreatestIsGreatest
        <3>3. \A i \in Have : i < Greatest(Have) + 1
            BY <3>2 DEF Index
        <3> QED
            BY <2>1, <2>2, <2>4, <3>1, <3>3 DEF PlanRollout, planVars, RolloutPc
    <2>5. CASE PlanScale(desired)
        BY <2>1, <2>2, <2>5 DEF PlanScale, LowestFree, rollVars, RolloutPc
    <2> QED
        BY <1>4, <2>3, <2>4, <2>5 DEF BeginTick
<1>5. CASE TakeTurn
    BY <1>5, SameState DEF TakeTurn, dockerVars, planVars, rollVars, RolloutPc
<1>6. CASE SiblingPublish
    BY <1>6, SameState DEF SiblingPublish, dockerVars, planVars, rollVars
<1>7. CASE Apply
    <2>0. pc = "apply" /\ oldQueue = {}
        BY <1>7 DEF Apply, ApplyStart, ApplyCreate, ApplyRemove, EndApply, PlanOK
    <2>1. CASE ApplyStart
        <3> DEFINE i == Least(starts)
        <3>1. i \in starts
            BY <2>1, LeastIsLeast DEF ApplyStart, TypeOK
        <3>2. \/ state' = [state EXCEPT ![i] = "running"]
              \/ UNCHANGED state
            BY <2>1 DEF ApplyStart
        <3>3. starts' = starts \ {i}
            BY <2>1 DEF ApplyStart
        <3> HIDE DEF i
        <3>4. Have' = Have /\ Running \subseteq Running'
            BY <3>1, <3>2 DEF Have, Running, TypeOK
        <3> QED
            BY <2>0, <2>1, <3>3, <3>4 DEF ApplyStart, rollVars, RolloutPc
    <2>2. CASE ApplyCreate
        <3> DEFINE i == Least(creates)
        <3>1. i \in creates /\ i \in Index /\ i \notin Have
            BY <2>2, LeastIsLeast DEF ApplyCreate, TypeOK
        <3>2. starts = {} /\ starts' = starts /\ creates' = creates \ {i}
            BY <2>2 DEF ApplyCreate
        <3>3. RunContainer(i) \/ RunFails(i) \/ UNCHANGED dockerVars
            BY <2>2 DEF ApplyCreate
        <3> HIDE DEF i
        <3>4. /\ Have' = Have \/ Have' = Have \cup {i}
              /\ Running \subseteq Running'
              /\ ready' = ready
            BY <3>1, <3>3, RunEffect, RunFailsEffect, SameState DEF dockerVars
        <3> QED
            BY <2>0, <2>2, <3>2, <3>4 DEF ApplyCreate, rollVars, RolloutPc
    <2>3. CASE ApplyRemove
        <3> DEFINE i == IF cfg = NoService THEN Least(removes) ELSE Greatest(removes)
        <3>1. i \in Index
            BY <2>3, LeastIsLeast, GreatestIsGreatest DEF ApplyRemove, TypeOK
        <3>2. RemoveContainer(i)
            BY <2>3 DEF ApplyRemove
        <3> HIDE DEF i
        <3> QED
            BY <2>0, <2>3, <3>1, <3>2, StopEffect
               DEF ApplyRemove, rollVars, RolloutPc
    <2>4. CASE EndApply
        BY <2>0, <2>4, SameState
           DEF EndApply, dockerVars, planVars, rollVars, RolloutPc
    <2> QED
        BY <1>7, <2>1, <2>2, <2>3, <2>4 DEF Apply
<1>8. CASE TickPublish
    BY <1>8, SameState DEF TickPublish, dockerVars, planVars, rollVars, RolloutPc
<1>9. CASE Rollout
    <2> USE DEF rolloutFrame, planVars, RolloutPc
    <2>0. pc \in RolloutPc => starts = {} /\ creates = {}
        BY DEF PlanOK
    <2>1. CASE Pull
        BY <2>1, SameState DEF Pull, LeaveRollout, dockerVars, rollVars
    <2>2. CASE Surge
        <3>1. nextIndex \notin Have /\ nextIndex \in Nat /\ nextIndex \in Index
            BY <2>2 DEF Surge, TypeOK
        <3>2. /\ Have' = Have \cup {nextIndex}
              /\ Running' = Running \cup {nextIndex}
              /\ ready' = ready
            BY <2>2, <3>1, RunEffect DEF Surge
        <3>3. \A i \in Have : i < nextIndex + 1
            BY <2>2, <3>1 DEF Surge, Index
        <3> QED
            BY <2>0, <2>2, <3>1, <3>2, <3>3 DEF Surge
    <2>3. CASE SurgeFails
        <3>1. nextIndex \notin Have
            BY <2>3 DEF SurgeFails, TypeOK
        <3>2. /\ Have \subseteq Have'
              /\ Running' = Running
              /\ ready' = ready
            BY <2>3, <3>1, RunFailsEffect DEF SurgeFails
        <3> QED
            BY <2>0, <2>3, <3>2 DEF SurgeFails, LeaveRollout
    <2>4. CASE HealthPass
        BY <2>4, SameState DEF HealthPass, dockerVars
    <2>5. CASE HealthTimeout
        <3>1. cur \in Index /\ cur \notin oldQueue
            BY <2>5 DEF HealthTimeout, TypeOK
        <3>2. StopContainer(cur) \/ DropContainer(cur)
            BY <2>5 DEF HealthTimeout
        <3> QED
            BY <2>0, <2>5, <3>1, <3>2, StopEffect, DropEffect
               DEF HealthTimeout, rollVars
    <2>6. CASE AbortPublish \/ SettlePublish
        BY <2>6, SameState DEF AbortPublish, SettlePublish, LeaveRollout, dockerVars
    <2>7. CASE RoutePublish
        BY <2>7, SameState DEF RoutePublish, LeaveRollout, dockerVars, rollVars
    <2>8. CASE TakeOld
        <3>1. Least(oldQueue) \in oldQueue
            BY <2>8, LeastIsLeast DEF TakeOld, TypeOK
        <3> QED
            BY <2>8, <3>1, SameState DEF TakeOld, dockerVars
    <2>9. CASE UnroutePublish
        BY <2>9, SameState DEF UnroutePublish, LeaveRollout, dockerVars, rollVars
    <2>10. CASE StopOld
        <3>1. cur \in Index /\ cur \notin oldQueue
            BY <2>10 DEF StopOld, TypeOK
        <3> QED
            BY <2>0, <2>10, <3>1, StopEffect DEF StopOld, rollVars
    <2>11. CASE Converged
        BY <2>11, SameState DEF Converged, dockerVars, rollVars
    <2> QED
        BY <1>9, <2>1, <2>2, <2>3, <2>4, <2>5, <2>6, <2>7, <2>8, <2>9, <2>10,
           <2>11 DEF Rollout
<1>10. CASE UNCHANGED vars
    BY <1>10, SameState DEF vars
<1> QED
    BY <1>1, <1>2, <1>3, <1>4, <1>5, <1>6, <1>7, <1>8, <1>9, <1>10
       DEF Next, Agent, World

(* At the start no rollout is under way.                                     *)
LEMMA CountInit == Init => CountOK
BY DEF Init, CountOK, Rolling, RolloutPc

(* The counters of rollout_service keep bounding the containers.             *)
LEMMA CountStep ==
    TypeOK /\ PlanOK /\ ViewOK /\ CountOK /\ [Next]_vars => CountOK'
<1> SUFFICES ASSUME TypeOK, PlanOK, ViewOK, CountOK, [Next]_vars
             PROVE  CountOK'
    OBVIOUS
<1>m. Misled("rm") => Misled("rm")'
    BY MisledStays
<1> USE <1>m DEF CountOK, Rolling, InHand
<1>0. /\ IsFiniteSet(Have) /\ Cardinality(Have) \in Nat
      /\ IsFiniteSet(oldQueue) /\ Cardinality(oldQueue) \in Nat
      /\ newCount \in Nat
    BY HaveIsIndex, IndexSetsAreFinite DEF TypeOK
<1>1. CASE Deploy
    BY <1>1, SameState DEF Deploy, dockerVars, rollVars
<1>2. ASSUME NEW i \in Index, BecomeReady(i) \/ ContainerExit(i) \/ DockerRestart(i)
      PROVE  CountOK'
    <2>1. Have' = Have
        BY <1>2 DEF BecomeReady, ContainerExit, DockerRestart, Have, Running, TypeOK
    <2> QED
        BY <1>2, <2>1 DEF BecomeReady, ContainerExit, DockerRestart, rollVars
<1>3. CASE AgentCrash
    BY <1>3 DEF AgentCrash, RolloutPc
<1>4. CASE BeginTick
    <2>1. UNCHANGED Have /\ oldQueue = {}
        BY <1>4, SameState DEF BeginTick, dockerVars, PlanOK
    <2>2. CASE PlanRollout(desired)
        <3> DEFINE D == Drifted(desired)
        <3>1. D \subseteq Have
            BY DEF Drifted
        <3>2. /\ oldQueue' = D /\ newCount' = Cardinality(Have \ D)
              /\ pc' = "turn"
            BY <2>2 DEF PlanRollout
        <3> HIDE DEF D
        <3>3. /\ IsFiniteSet(Have \ D)
              /\ Cardinality(Have \ D) = Cardinality(Have) - Cardinality(Have \cap D)
            BY <1>0, FS_Difference
        <3>4. Have \cap D = D /\ Cardinality(D) \in Nat
            BY <3>1, HaveIsIndex, IndexSetsAreFinite
        <3>5. Cardinality(Have \ D) = Cardinality(Have) - Cardinality(D)
            BY <3>3, <3>4
        <3>6. Cardinality(Have') = Cardinality(Have)
            BY <2>1
        <3>7. Cardinality(Have') <= Cardinality(oldQueue') + newCount'
            BY <1>0, <3>2, <3>4, <3>5, <3>6
        <3>8. newCount' > 0 => \E i \in Have' \ oldQueue' : TRUE
            BY <2>1, <3>2, FS_EmptySet
        <3>9. ~InHand' /\ newCount' \in Nat /\ Cardinality(oldQueue') \in Nat
            BY <3>2, <3>3, <3>4, <1>0, HaveIsIndex, IndexSetsAreFinite
        <3> QED
            BY <3>7, <3>8, <3>9
    <2>3. CASE PlanRemove \/ PlanScale(desired)
        BY <2>1, <2>3 DEF PlanRemove, PlanScale, rollVars, RolloutPc
    <2> QED
        BY <1>4, <2>2, <2>3 DEF BeginTick
<1>5. CASE TakeTurn
    BY <1>5, SameState DEF TakeTurn, dockerVars, rollVars, RolloutPc
<1>6. CASE SiblingPublish
    BY <1>6, SameState DEF SiblingPublish, dockerVars, rollVars
<1>7. CASE Apply
    BY <1>7 DEF Apply, ApplyStart, ApplyCreate, ApplyRemove, EndApply, PlanOK,
                rollVars, RolloutPc
<1>8. CASE TickPublish
    BY <1>8 DEF TickPublish, PlanOK, rollVars, RolloutPc
<1>9. CASE Rollout
    <2> USE DEF rolloutFrame, RolloutPc
    <2>1. CASE Pull
        BY <2>1, SameState DEF Pull, LeaveRollout, dockerVars, rollVars
    <2>2. CASE Surge
        <3>1. nextIndex \notin Have /\ nextIndex \in Index
            BY <2>2 DEF Surge, TypeOK, ViewOK
        <3>2. Have' = Have \cup {nextIndex}
            BY <2>2, <3>1, RunEffect DEF Surge
        <3>3. Cardinality(Have') = Cardinality(Have) + 1
            BY <1>0, <3>1, <3>2, FS_AddElement
        <3> QED
            BY <1>0, <2>2, <3>1, <3>2, <3>3 DEF Surge
    <2>3. CASE SurgeFails
        BY <2>3 DEF SurgeFails, LeaveRollout
    <2>4. CASE HealthPass
        <3>1. cur \in Have \ oldQueue
            BY <2>4 DEF HealthPass, ViewOK
        <3> QED
            BY <1>0, <2>4, <3>1, SameState DEF HealthPass, dockerVars
    <2>5. CASE HealthTimeout
        <3>1. cur \in Have /\ cur \in Index
            BY <2>5 DEF HealthTimeout, ViewOK, TypeOK
        <3>2. Have' = Have \ {cur} \/ (Misled("rm")' /\ Have' = Have)
            BY <2>5, <3>1, StopEffect, DropEffect DEF HealthTimeout
        <3>3. Cardinality(Have \ {cur}) = Cardinality(Have) - 1
            BY <1>0, <3>1, FS_RemoveElement
        <3>4. Rolling /\ InHand /\ ~InHand' /\ UNCHANGED <<oldQueue, newCount>>
            BY <2>5 DEF HealthTimeout, rollVars
        <3>5. newCount' > 0 => \E i \in Have' \ oldQueue' : TRUE
            BY <3>2, <3>4
        <3>6. ~Misled("rm")' =>
                Cardinality(Have') <= Cardinality(oldQueue') + newCount'
            <4> SUFFICES ASSUME ~Misled("rm")'
                         PROVE  Cardinality(Have') <= Cardinality(oldQueue') + newCount'
                OBVIOUS
            <4>1. Cardinality(Have') = Cardinality(Have) - 1
                BY <3>2, <3>3
            <4>2. Cardinality(Have) <= Cardinality(oldQueue) + newCount + 1
                BY <3>4
            <4> QED
                BY <1>0, <3>4, <4>1, <4>2
        <3>7. newCount' \in Nat /\ Cardinality(oldQueue') \in Nat
            BY <1>0, <3>4
        <3> QED
            BY <3>4, <3>5, <3>6, <3>7
    <2>6. CASE AbortPublish \/ SettlePublish
        BY <2>6 DEF AbortPublish, SettlePublish, LeaveRollout
    <2>7. CASE RoutePublish
        BY <2>7, SameState DEF RoutePublish, LeaveRollout, dockerVars, rollVars
    <2>8. CASE TakeOld
        <3>1. cur' \in oldQueue /\ oldQueue' = oldQueue \ {cur'}
            BY <2>8, LeastIsLeast DEF TakeOld, TypeOK
        <3>2. Cardinality(oldQueue') = Cardinality(oldQueue) - 1
            BY <1>0, <3>1, FS_RemoveElement
        <3> QED
            BY <1>0, <2>8, <3>1, <3>2, SameState DEF TakeOld, dockerVars
    <2>9. CASE UnroutePublish
        BY <2>9, SameState DEF UnroutePublish, LeaveRollout, dockerVars, rollVars
    <2>10. CASE StopOld
        <3>1. cur \in Have /\ cur \in Index
            BY <2>10 DEF StopOld, ViewOK, TypeOK
        <3>2. Have' = Have \ {cur} \/ (Misled("rm")' /\ Have' = Have)
            BY <2>10, <3>1, StopEffect DEF StopOld
        <3>3. Cardinality(Have \ {cur}) = Cardinality(Have) - 1
            BY <1>0, <3>1, FS_RemoveElement
        <3> QED
            BY <1>0, <2>10, <3>2, <3>3 DEF StopOld, rollVars
    <2>11. CASE Converged
        BY <2>11, SameState DEF Converged, dockerVars, rollVars
    <2> QED
        BY <1>9, <2>1, <2>2, <2>3, <2>4, <2>5, <2>6, <2>7, <2>8, <2>9, <2>10,
           <2>11 DEF Rollout
<1>10. CASE UNCHANGED vars
    BY <1>10, SameState DEF vars
<1> QED
    BY <1>1, <1>2, <1>3, <1>4, <1>5, <1>6, <1>7, <1>8, <1>9, <1>10
       DEF Next, Agent, World

-----------------------------------------------------------------------------
(* Third layer: what a rollout that began healthy may do.                   *)

(* At the start no rollout has begun.                                        *)
LEMMA GatedInit == Init => GatedOK
BY DEF Init, GatedOK

(* A gated rollout counts on ready replicas, takes an old one out of the      *)
(* routing only when another ready one is left, and has unready ones only    *)
(* where MayBeUnready says, until docker has kept one.                       *)
LEMMA GatedStep ==
    TypeOK /\ PlanOK /\ ViewOK /\ CountOK /\ GatedOK /\ [Next]_vars => GatedOK'
<1> SUFFICES ASSUME TypeOK, PlanOK, ViewOK, CountOK, GatedOK, [Next]_vars, gated'
             PROVE  GatedOK'
    BY DEF GatedOK
<1>m. Misled("rm") => Misled("rm")'
    BY MisledStays
<1> USE <1>m, HaveIsIndex DEF GatedOK, Rolling, InHand, MayBeUnready
<1>1. CASE Deploy
    BY <1>1, SameState DEF Deploy, dockerVars, rollVars
<1>2. ASSUME NEW i \in Index, BecomeReady(i) \/ ContainerExit(i) \/ DockerRestart(i)
      PROVE  GatedOK'
    <2>1. CASE BecomeReady(i)
        BY <1>2, <2>1, SameState DEF BecomeReady, rollVars
    <2>2. CASE ContainerExit(i)
        BY <2>2 DEF ContainerExit
    <2>3. CASE DockerRestart(i)
        <3>1. Have' = Have /\ \A j \in Have : state'[j] = "created" <=> state[j] = "created"
            BY <1>2, <2>3 DEF DockerRestart, Have, TypeOK
        <3> QED
            BY <2>3, <3>1 DEF DockerRestart, rollVars
    <2> QED
        BY <1>2, <2>1, <2>2, <2>3
<1>3. CASE AgentCrash
    BY <1>3 DEF AgentCrash
<1>4. CASE BeginTick
    <2>1. PlanRollout(desired)
        BY <1>4 DEF BeginTick, PlanRemove, PlanScale
    <2>2. Have' = Have /\ desired \in Configs /\ ready' = ready
        BY <1>4, <2>1, SameState DEF BeginTick, PlanRollout, TypeOK, dockerVars
    <2>3. Have \subseteq ready /\ oldQueue' # {} /\ pc' = "turn" /\ cfg' = desired
        BY <2>1 DEF PlanRollout
    <2>4. oldQueue' \subseteq Have /\ newCount' = Cardinality(Have \ oldQueue')
        BY <2>1 DEF PlanRollout, Drifted
    <2>5. newCount' > 0 => Have \ oldQueue' # {}
        BY <2>4, FS_EmptySet
    <2>6. newCount' > 0 => \E i \in ready' \ oldQueue' : TRUE
        BY <2>2, <2>3, <2>5
    <2> QED
        BY <2>2, <2>3, <2>4, <2>6
<1>5. CASE TakeTurn
    BY <1>5, SameState DEF TakeTurn, dockerVars, rollVars, RolloutPc
<1>6. CASE SiblingPublish
    BY <1>6, SameState DEF SiblingPublish, dockerVars, rollVars
<1>7. CASE Apply
    BY <1>7 DEF Apply, ApplyStart, ApplyCreate, ApplyRemove, EndApply, RolloutPc
<1>8. CASE TickPublish
    BY <1>8 DEF TickPublish
<1>9. CASE Rollout
    <2> USE DEF rolloutFrame, RolloutPc
    <2>0. gated
        BY <1>9 DEF Rollout, Pull, Surge, SurgeFails, HealthPass, HealthTimeout,
                    AbortPublish, RoutePublish, TakeOld, UnroutePublish,
                    StopOld, Converged, SettlePublish
    <2>r. Rolling
        BY <1>9 DEF Rollout, Pull, Surge, SurgeFails, HealthPass, HealthTimeout,
                    AbortPublish, RoutePublish, TakeOld, UnroutePublish,
                    StopOld, Converged, SettlePublish
    <2>q. oldQueue \subseteq ready
        BY <2>0, <2>r
    <2>w. \E i : newCount > 0 => i \in ready \ oldQueue /\ (InHand => i # cur)
        BY <2>0, <2>r
    <2>v. PICK w : newCount > 0 => w \in ready \ oldQueue /\ (InHand => w # cur)
        BY <2>w
    <2>1. CASE Pull
        BY <2>0, <2>1, SameState DEF Pull, LeaveRollout, dockerVars, rollVars
    <2>2. CASE Surge
        <3>1. Have' = Have \cup {nextIndex} /\ ready' = ready
            BY <2>2, RunEffect DEF Surge
        <3>2. nextIndex \notin Have /\ ready \subseteq Have
            BY <2>2 DEF Surge, ViewOK, TypeOK
        <3>3. newCount' > 0 => w \in ready' \ oldQueue' /\ w # cur'
            BY <2>v, <2>2, <3>1, <3>2 DEF Surge
        <3> QED
            BY <2>0, <2>q, <2>2, <3>1, <3>3 DEF Surge
    <2>3. CASE SurgeFails
        <3>1. nextIndex \notin Have /\ nextIndex \in Index
            BY <2>3 DEF SurgeFails, ViewOK, TypeOK
        <3>2. /\ ready' = ready
              /\ \/ Have' = Have
                 \/ Have' = Have \cup {nextIndex} /\ state'[nextIndex] = "created"
            BY <2>3, <3>1, RunFailsEffect DEF SurgeFails, TypeOK
        <3> QED
            BY <2>0, <2>3, <3>2 DEF SurgeFails, LeaveRollout
    <2>4. CASE HealthPass
        <3>1. cur \in ready' \ oldQueue'
            BY <2>4 DEF HealthPass, ViewOK, dockerVars
        <3> QED
            BY <2>0, <2>q, <2>4, <3>1, SameState DEF HealthPass, dockerVars
    <2>5. CASE HealthTimeout
        <3>1. \/ Have' = Have \ {cur} /\ ready' = ready \ {cur}
              \/ Misled("rm")' /\ (ready' = ready \/ ready' = ready \ {cur})
            BY <2>5, StopEffect, DropEffect DEF HealthTimeout, TypeOK
        <3>2. ready' = ready
            BY <2>5, <3>1 DEF HealthTimeout
        <3>3. newCount' > 0 => w \in ready' \ oldQueue'
            BY <2>v, <2>5, <3>2 DEF HealthTimeout, rollVars
        <3>4. /\ pc' = "abort" /\ oldQueue' \subseteq ready' /\ cfg' \in Configs
            BY <2>0, <2>q, <2>5, <3>2 DEF HealthTimeout, rollVars
        <3>5. ~Misled("rm")' => \A i \in Have' : i \in ready'
            BY <2>0, <2>5, <3>1 DEF HealthTimeout
        <3> QED
            BY <3>3, <3>4, <3>5
    <2>6. CASE AbortPublish \/ SettlePublish
        BY <2>0, <2>6, SameState
           DEF AbortPublish, SettlePublish, LeaveRollout, dockerVars
    <2>7. CASE RoutePublish
        <3>1. CASE pc' = "rollout" /\ UNCHANGED rollVars
            <4>1. newCount' > 0 => w \in ready' \ oldQueue'
                BY <2>v, <2>7, <3>1 DEF RoutePublish, rollVars, dockerVars
            <4> QED
                BY <2>0, <2>q, <2>7, <3>1, <4>1, SameState DEF RoutePublish, rollVars, dockerVars
        <3>2. CASE LeaveRollout
            BY <2>0, <2>7, <3>2, SameState DEF RoutePublish, LeaveRollout, dockerVars
        <3> QED
            BY <2>7, <3>1, <3>2 DEF RoutePublish
    <2>8. CASE TakeOld
        <3>1. cur' \in oldQueue
            BY <2>8, LeastIsLeast DEF TakeOld, TypeOK
        <3>2. cfg.replicas \in Nat \ {0} /\ cfg.surge \in Nat \ {0}
            BY <2>0, ConfigsAssumption
        <3>3. /\ IsFiniteSet(oldQueue) /\ Cardinality(oldQueue) \in Nat
              /\ newCount \in Nat
            BY IndexSetsAreFinite DEF TypeOK
        <3>4. newCount > 0 => w \in ready \ oldQueue' /\ w # cur'
            BY <2>v, <2>8, <3>1 DEF TakeOld
        <3>5. newCount = 0 => ready \ {cur'} # {}
            <4> SUFFICES ASSUME newCount = 0 PROVE ready \ {cur'} # {}
                OBVIOUS
            <4>1. Cardinality(oldQueue) >= 2
                BY <2>8, <3>2, <3>3 DEF TakeOld, MaySurge, Total
            <4>2. Cardinality(oldQueue \ {cur'}) = Cardinality(oldQueue) - 1
                BY <3>1, <3>3, FS_RemoveElement
            <4>3. Cardinality(oldQueue \ {cur'}) # 0
                BY <3>3, <4>1, <4>2
            <4>4. oldQueue \ {cur'} # {}
                BY <4>3, FS_EmptySet
            <4> QED
                BY <2>q, <4>4
        <3>6. ready \ {cur'} # {}
            BY <3>3, <3>4, <3>5
        <3>7. newCount' > 0 => w \in ready' \ oldQueue' /\ w # cur'
            BY <2>8, <3>4 DEF TakeOld, dockerVars
        <3>8. oldQueue' \subseteq ready' /\ ready' \ {cur'} # {}
            BY <2>q, <2>8, <3>6 DEF TakeOld, dockerVars
        <3>9. ~Misled("rm")' => \A i \in Have' : i \in ready'
            BY <2>0, <2>8, SameState DEF TakeOld, dockerVars
        <3> QED
            BY <2>0, <2>8, <3>7, <3>8, <3>9 DEF TakeOld
    <2>9. CASE UnroutePublish
        <3>1. CASE pc' = "drain" /\ UNCHANGED rollVars
            <4>1. newCount' > 0 => w \in ready' \ oldQueue' /\ w # cur'
                BY <2>v, <2>9, <3>1 DEF UnroutePublish, rollVars, dockerVars
            <4> QED
                BY <2>0, <2>q, <2>9, <3>1, <4>1, SameState DEF UnroutePublish, rollVars, dockerVars
        <3>2. CASE LeaveRollout
            BY <2>0, <2>9, <3>2, SameState DEF UnroutePublish, LeaveRollout, dockerVars
        <3> QED
            BY <2>9, <3>1, <3>2 DEF UnroutePublish
    <2>10. CASE StopOld
        <3>1. \/ Have' = Have \ {cur} /\ ready' = ready \ {cur}
              \/ Misled("rm")' /\ (ready' = ready \/ ready' = ready \ {cur})
            BY <2>10, StopEffect DEF StopOld, TypeOK
        <3>2. cur \notin oldQueue
            BY <2>10 DEF StopOld, ViewOK
        <3>3. newCount' > 0 => w \in ready' \ oldQueue'
            BY <2>v, <2>10, <3>1 DEF StopOld, rollVars
        <3>4. /\ pc' = "rollout" /\ oldQueue' \subseteq ready' /\ cfg' \in Configs
            BY <2>0, <2>q, <2>10, <3>1, <3>2 DEF StopOld, rollVars
        <3>5. ~Misled("rm")' => \A i \in Have' : i \in ready'
            BY <2>0, <2>10, <3>1 DEF StopOld
        <3> QED
            BY <3>3, <3>4, <3>5
    <2>11. CASE Converged
        <3>1. newCount' > 0 => w \in ready' \ oldQueue'
            BY <2>v, <2>11 DEF Converged, rollVars, dockerVars
        <3> QED
            BY <2>0, <2>q, <2>11, <3>1, SameState DEF Converged, rollVars, dockerVars
    <2> QED
        BY <1>9, <2>1, <2>2, <2>3, <2>4, <2>5, <2>6, <2>7, <2>8, <2>9, <2>10,
           <2>11 DEF Rollout
<1>10. CASE UNCHANGED vars
    BY <1>10, SameState DEF vars
<1> QED
    BY <1>1, <1>2, <1>3, <1>4, <1>5, <1>6, <1>7, <1>8, <1>9, <1>10
       DEF Next, Agent, World

(* What a publish does when no failed PUT was applied: the shard is the old  *)
(* one or the live content, it is the live content when the publish          *)
(* succeeds, and the fingerprint stays that of the shard.                    *)
LEMMA PublishEffect ==
    ASSUME TypeOK, ~Misled("ambiguous")', Remembers, NEW exclude,
           PublishOk(exclude) \/ PublishFails(exclude)
    PROVE  /\ Remembers'
           /\ shard' = shard \/ shard' = Content(exclude)
           /\ PublishOk(exclude) => shard' = Content(exclude)
<1>1. Content(exclude) \in SUBSET Index
    BY DEF Content, Running
<1>2. Content(exclude) # Unknown
    BY <1>1, ConfigsAssumption
<1>3. CASE PublishOk(exclude)
    BY <1>2, <1>3 DEF PublishOk, MaySkip, Remembers
<1>4. CASE PublishFails(exclude)
    <2>1. shard' = shard /\ lastShard' = lastShard
        BY <1>4 DEF PublishFails, UseFault, Misled, Misleading
    <2>2. PublishOk(exclude) => shard' = Content(exclude)
        BY <1>2 DEF PublishOk, MaySkip, Remembers
    <2> QED
        BY <2>1, <2>2 DEF Remembers
<1> QED
    BY <1>3, <1>4

(* Only publishes and crashes touch what the agent remembers of the shard,   *)
(* and only a successful publish precedes a drain.                           *)
LEMMA MemoryStep ==
    ASSUME ~Misled("ambiguous")', TypeOK, Remembers,
           DrainedIsUnrouted, [Next]_vars
    PROVE  Remembers' /\ DrainedIsUnrouted'
<1>m. ~Misled("ambiguous")
    BY MisledStays
<1> USE <1>m DEF DrainedIsUnrouted
<1>1. CASE Deploy
    BY <1>1 DEF Deploy, Remembers, rollVars
<1>2. ASSUME NEW i \in Index, BecomeReady(i) \/ ContainerExit(i) \/ DockerRestart(i)
      PROVE  Remembers' /\ DrainedIsUnrouted'
    BY <1>2 DEF BecomeReady, ContainerExit, DockerRestart, Remembers, s3Vars, rollVars
<1>3. CASE AgentCrash
    BY <1>3 DEF AgentCrash, Remembers
<1>4. CASE BeginTick
    BY <1>4 DEF BeginTick, PlanRemove, PlanRollout, PlanScale, Remembers, s3Vars
<1>5. CASE TakeTurn
    BY <1>5 DEF TakeTurn, Remembers, s3Vars
<1>6. CASE SiblingPublish
    BY <1>6, PublishEffect DEF SiblingPublish
<1>7. CASE Apply
    BY <1>7 DEF Apply, ApplyStart, ApplyCreate, ApplyRemove, EndApply, Remembers, s3Vars
<1>8. CASE TickPublish
    BY <1>8, PublishEffect DEF TickPublish
<1>9. CASE Rollout
    <2>1. CASE UnroutePublish
        <3>1. Remembers'
            BY <2>1, PublishEffect DEF UnroutePublish
        <3>2. CASE PublishOk({cur}) /\ pc' = "drain" /\ UNCHANGED rollVars
            <4>1. shard' = Content({cur}) /\ cur' = cur
                BY <3>2, PublishEffect DEF rollVars
            <4>2. cur \notin Content({cur})
                BY DEF Content
            <4> QED
                BY <3>1, <4>1, <4>2
        <3> QED
            BY <2>1, <3>1, <3>2 DEF UnroutePublish, LeaveRollout
    <2>2. CASE AbortPublish \/ SettlePublish
        BY <2>2, PublishEffect DEF AbortPublish, SettlePublish, LeaveRollout
    <2>3. CASE RoutePublish
        BY <2>3, PublishEffect DEF RoutePublish, LeaveRollout
    <2>4. CASE \/ Pull \/ Surge \/ SurgeFails \/ HealthPass \/ HealthTimeout
               \/ TakeOld \/ StopOld \/ Converged
        BY <2>4 DEF Pull, Surge, SurgeFails, HealthPass, HealthTimeout, TakeOld,
                    StopOld, Converged, LeaveRollout, Remembers
    <2> QED
        BY <1>9, <2>1, <2>2, <2>3, <2>4 DEF Rollout
<1>10. CASE UNCHANGED vars
    BY <1>10 DEF vars, Remembers
<1> QED
    BY <1>1, <1>2, <1>3, <1>4, <1>5, <1>6, <1>7, <1>8, <1>9, <1>10
       DEF Next, Agent, World

(* A gated rollout never loses its last routed and healthy replica.          *)
LEMMA ServingStep ==
    ASSUME ~Misled("ambiguous")', TypeOK, PlanOK, ViewOK, GatedOK,
           Remembers, DrainedIsUnrouted, RolloutKeepsServing, [Next]_vars
    PROVE  RolloutKeepsServing'
<1> SUFFICES ASSUME gated'
             PROVE  (Serving # {})'
    BY DEF RolloutKeepsServing
<1>m. ~Misled("ambiguous")
    BY MisledStays
<1> USE <1>m DEF Serving
<1>0. ready \subseteq Running
    BY DEF ViewOK
<1>1. CASE Deploy
    BY <1>1, SameState DEF Deploy, dockerVars, RolloutKeepsServing
<1>2. ASSUME NEW i \in Index, BecomeReady(i) \/ ContainerExit(i) \/ DockerRestart(i)
      PROVE  (Serving # {})'
    <2>1. CASE BecomeReady(i)
        BY <2>1, SameState DEF BecomeReady, s3Vars, RolloutKeepsServing
    <2>2. CASE ContainerExit(i)
        BY <2>2 DEF ContainerExit
    <2>3. CASE DockerRestart(i)
        <3>1. Running \subseteq Running'
            BY <1>2, <2>3 DEF DockerRestart, Running, TypeOK
        <3> QED
            BY <2>3, <3>1 DEF DockerRestart, s3Vars, RolloutKeepsServing
    <2> QED
        BY <1>2, <2>1, <2>2, <2>3
<1>3. CASE AgentCrash
    BY <1>3 DEF AgentCrash
<1>4. CASE BeginTick
    BY <1>4, SameState
       DEF BeginTick, PlanRemove, PlanRollout, PlanScale, s3Vars, dockerVars
<1>5. CASE TakeTurn
    BY <1>5, SameState DEF TakeTurn, s3Vars, dockerVars, RolloutKeepsServing
<1>6. ASSUME gated, PublishOk({}) \/ PublishFails({}), UNCHANGED dockerVars
      PROVE  (Serving # {})'
    <2>1. Content({}) = Running
        BY <1>6, ConfigsAssumption DEF GatedOK, Content
    <2>2. shard' = shard \/ shard' = Running
        BY <1>6, <2>1, PublishEffect
    <2> QED
        BY <1>6, <2>2, SameState DEF dockerVars, RolloutKeepsServing
<1>7. CASE SiblingPublish
    BY <1>6, <1>7 DEF SiblingPublish
<1>8. CASE Apply
    BY <1>8 DEF Apply, ApplyStart, ApplyCreate, ApplyRemove, EndApply, GatedOK,
                Rolling, RolloutPc
<1>9. CASE TickPublish
    BY <1>9 DEF TickPublish
<1>10. CASE Rollout
    <2> USE DEF rolloutFrame
    <2>0. gated
        BY <1>10 DEF Rollout, Pull, Surge, SurgeFails, HealthPass, HealthTimeout,
                     AbortPublish, RoutePublish, TakeOld, UnroutePublish,
                     StopOld, Converged, SettlePublish
    <2>1. Serving # {}
        BY <2>0 DEF RolloutKeepsServing
    <2>2. CASE Pull \/ HealthPass \/ TakeOld \/ Converged
        BY <2>1, <2>2, SameState
           DEF Pull, HealthPass, TakeOld, Converged, dockerVars
    <2>3. CASE Surge
        <3>1. Running \subseteq Running' /\ ready' = ready
            BY <2>3, RunEffect DEF Surge
        <3> QED
            BY <2>1, <2>3, <3>1 DEF Surge
    <2>4. CASE SurgeFails
        <3>1. nextIndex \notin Have /\ nextIndex \in Index
            BY <2>4 DEF SurgeFails, ViewOK, TypeOK, Rolling, RolloutPc
        <3> QED
            BY <2>1, <2>4, <3>1, RunFailsEffect DEF SurgeFails
    <2>5. CASE HealthTimeout
        <3>1. \/ Running' = Running \ {cur} /\ ready' = ready \ {cur}
              \/ Running' = Running /\ ready' = ready
            BY <2>5, StopEffect, DropEffect DEF HealthTimeout, TypeOK
        <3>2. cur \notin Serving
            BY <2>5 DEF HealthTimeout
        <3> QED
            BY <2>1, <2>5, <3>1, <3>2 DEF HealthTimeout
    <2>6. CASE AbortPublish \/ SettlePublish \/ RoutePublish
        BY <1>6, <2>0, <2>6
           DEF AbortPublish, SettlePublish, RoutePublish
    <2>7. CASE UnroutePublish
        <3>1. PICK i \in ready : i # cur
            BY <2>0, <2>7 DEF UnroutePublish, GatedOK
        <3>2. i \in Running
            BY <1>0, <3>1
        <3>3. Content({cur}) = Running \ {cur}
            BY <2>0, ConfigsAssumption DEF GatedOK, Content
        <3>4. shard' = shard \/ shard' = Running \ {cur}
            BY <2>7, <3>3, PublishEffect DEF UnroutePublish
        <3>5. Running' = Running /\ ready' = ready
            BY <2>7, SameState DEF UnroutePublish, dockerVars
        <3> QED
            BY <2>1, <3>1, <3>2, <3>4, <3>5
    <2>8. CASE StopOld
        <3>1. \/ Running' = Running \ {cur} /\ ready' = ready \ {cur}
              \/ Running' = Running /\ ready' = ready
            BY <2>8, StopEffect DEF StopOld, TypeOK
        <3>2. cur \notin Serving /\ shard' = shard
            BY <2>8 DEF StopOld, DrainedIsUnrouted
        <3> QED
            BY <2>1, <3>1, <3>2
    <2> QED
        BY <1>10, <2>2, <2>3, <2>4, <2>5, <2>6, <2>7, <2>8 DEF Rollout
<1>11. CASE UNCHANGED vars
    BY <1>11, SameState DEF vars, RolloutKeepsServing
<1> QED
    BY <1>1, <1>2, <1>3, <1>4, <1>5, <1>7, <1>8, <1>9, <1>10, <1>11
       DEF Next, Agent, World

-----------------------------------------------------------------------------
(* The theorems.                                                            *)

(* At the start nothing was published and nothing drains.                    *)
LEMMA RoutingInit == Init => RoutingOK
BY GatedInit DEF Init, RoutingOK, Remembers, DrainedIsUnrouted,
                 RolloutKeepsServing

(* Every step keeps what the agent believes of the shard true, as long as    *)
(* no failing PUT was applied all the same.                                  *)
LEMMA RoutingStep == BeliefsHold /\ [Next]_vars => RoutingOK'
BY GatedStep, MemoryStep, ServingStep, MisledStays DEF BeliefsHold, RoutingOK

(* What the agent believes of docker and S3 between two of its calls is      *)
(* true, whatever crashed or failed before: the plan it applies, the         *)
(* counters of rollout_service, its memory of the published shard and the    *)
(* readiness its drains rely on.                                             *)
THEOREM BeliefsAlwaysHold == Spec => []BeliefsHold
<1>1. Init => BeliefsHold
    BY TypeInit, ViewInit, CountInit, RoutingInit DEF BeliefsHold
<1>2. BeliefsHold /\ [Next]_vars => BeliefsHold'
    <2> SUFFICES ASSUME BeliefsHold, [Next]_vars
                 PROVE  BeliefsHold'
        OBVIOUS
    <2>1. TypeOK' /\ PlanOK'
        BY TypeStep DEF BeliefsHold
    <2>2. ViewOK' /\ CountOK'
        BY ViewStep, CountStep DEF BeliefsHold
    <2>3. RoutingOK'
        BY RoutingStep
    <2> QED
        BY <2>1, <2>2, <2>3 DEF BeliefsHold
<1> QED
    BY <1>1, <1>2, PTL DEF Spec

(* rollout_service stops an old replica only once the published shard no     *)
(* longer lists it, until a PUT that reports an error is applied.            *)
THEOREM DrainedAlwaysUnrouted == Spec => []DrainedIsUnrouted
<1>1. BeliefsHold => DrainedIsUnrouted
    BY DEF BeliefsHold, RoutingOK, DrainedIsUnrouted
<1> QED
    BY <1>1, BeliefsAlwaysHold, PTL

(* A rollout that begins with every replica ready and one of them routed to  *)
(* keeps a healthy routed replica to its end, for every number of replicas,  *)
(* every surge and every combination of failing docker and S3 calls, until   *)
(* a PUT that reports an error is applied.                                   *)
THEOREM RolloutAlwaysServes == Spec => []RolloutKeepsServing
<1>1. BeliefsHold => RolloutKeepsServing
    BY DEF BeliefsHold, RoutingOK, RolloutKeepsServing
<1> QED
    BY <1>1, BeliefsAlwaysHold, PTL

(* The surge budget: a rollout never has more than replicas + max_surge      *)
(* containers when it starts one, unless docker kept one it was told to      *)
(* remove.                                                                   *)
THEOREM SurgeAlwaysBounded == Spec => SurgeIsBounded
<1>1. BeliefsHold /\ [Next]_vars =>
        (pc = "rollout" /\ pc' = "health" /\ ~Misled("rm") =>
           Cardinality(Have') <= cfg.replicas + cfg.surge)
    <2> SUFFICES ASSUME BeliefsHold, [Next]_vars,
                        pc = "rollout", pc' = "health", ~Misled("rm")
                 PROVE  Cardinality(Have') <= cfg.replicas + cfg.surge
        OBVIOUS
    <2>0. TypeOK /\ PlanOK /\ CountOK
        BY DEF BeliefsHold
    <2>1. Surge
        BY DEF Next, Agent, World, Deploy, AgentCrash, BecomeReady,
               ContainerExit, DockerRestart, BeginTick, TakeTurn,
               SiblingPublish, Apply, ApplyStart, ApplyCreate, ApplyRemove,
               EndApply, TickPublish, Rollout, Pull, SurgeFails, LeaveRollout,
               HealthPass, HealthTimeout, AbortPublish, RoutePublish, TakeOld,
               UnroutePublish, StopOld, Converged, SettlePublish, vars
    <2>2. Have' = Have \cup {nextIndex}
        BY <2>0, <2>1, RunEffect DEF Surge
    <2>3. Rolling /\ ~InHand
        BY DEF Rolling, InHand, RolloutPc
    <2>4. /\ IsFiniteSet(Have) /\ Cardinality(Have) \in Nat
          /\ Cardinality(oldQueue) \in Nat /\ newCount \in Nat
        BY <2>0, HaveIsIndex, IndexSetsAreFinite DEF TypeOK
    <2>5. Cardinality(Have) <= Cardinality(oldQueue) + newCount
        BY <2>0, <2>3, <2>4 DEF CountOK
    <2>6. Cardinality(Have') <= Cardinality(Have) + 1 /\ Cardinality(Have') \in Nat
        BY <2>2, <2>4, FS_AddElement
    <2>7. Cardinality(oldQueue) + newCount < cfg.replicas + cfg.surge
        BY <2>1 DEF Surge, MaySurge, Total
    <2>8. cfg.replicas \in Nat /\ cfg.surge \in Nat
        BY <2>0, <2>3, ConfigsAssumption DEF PlanOK
    <2> QED
        BY <2>4, <2>5, <2>6, <2>7, <2>8
<1> QED
    BY <1>1, BeliefsAlwaysHold, PTL DEF Spec, SurgeIsBounded

(* The health gate: while such a rollout lasts, the shard gains only         *)
(* replicas that have passed the health check.                               *)
THEOREM GateAlwaysHolds == Spec => GateHolds
<1>1. BeliefsHold /\ [Next]_vars =>
        (gated /\ gated' /\ faults'.seen = {} => shard' \ shard \subseteq ready')
    <2> SUFFICES ASSUME BeliefsHold, [Next]_vars, gated, gated', faults'.seen = {}
                 PROVE  shard' \ shard \subseteq ready'
        OBVIOUS
    <2>m. ~Misled("ambiguous")' /\ ~Misled("ambiguous") /\ ~Misled("rm")
        BY MisledStays DEF Misled
    <2> USE <2>m
    <2> USE DEF BeliefsHold, RoutingOK, GatedOK
    <2>1. ASSUME NEW exclude, PublishOk(exclude) \/ PublishFails(exclude),
                 UNCHANGED dockerVars, pc # "health"
          PROVE  shard' \ shard \subseteq ready'
        <3>1. Content(exclude) \subseteq Running
            BY DEF Content
        <3>2. \A i \in Running : i \in ready
            BY <2>1 DEF MayBeUnready, Have, Running
        <3> QED
            BY <2>1, <3>1, <3>2, PublishEffect DEF dockerVars
    <2>2. CASE SiblingPublish
        BY <2>1, <2>2 DEF SiblingPublish
    <2>3. CASE AbortPublish \/ SettlePublish \/ RoutePublish \/ UnroutePublish
        BY <2>1, <2>3
           DEF AbortPublish, SettlePublish, RoutePublish, UnroutePublish
    <2>4. CASE TickPublish
        BY <2>4 DEF TickPublish
    <2>5. CASE shard' = shard
        BY <2>5
    <2> QED
        BY <2>2, <2>3, <2>4, <2>5
           DEF Next, Agent, World, Deploy, AgentCrash, BecomeReady,
               ContainerExit, DockerRestart, BeginTick, TakeTurn, Apply,
               ApplyStart, ApplyCreate, ApplyRemove, EndApply, Rollout, Pull,
               Surge, SurgeFails, HealthPass, HealthTimeout, TakeOld, StopOld,
               Converged, vars, s3Vars
<1> QED
    BY <1>1, BeliefsAlwaysHold, PTL DEF Spec, GateHolds

-----------------------------------------------------------------------------
(* The host ports, for any services, number of ports and hash: what the      *)
(* agent allocates, whichever of the steps above a tick takes.               *)

(* What the agent is about to run has its record and no container yet, what  *)
(* it surged has one, and what has a container was created with a port.      *)
RunOK ==
    /\ doing.at \in {"run", "surge"} =>
          box[doing.key] = Port!NoBox /\ memory[doing.key] = doing.port
    /\ doing.at = "gate" => box[doing.key] # Port!NoBox
    /\ \A k \in Port!Key : box[k] = Port!NoBox \/ box[k].port \in Port!Ports

(* The inductive invariant of the ports.                                     *)
PortInv == Port!PortsAreTheirs /\ RunOK

(* No record is no port: HOST_PORT_COUNT is beyond the range that            *)
(* allocate_port searches.                                                   *)
LEMMA NoneIsNoPort == ASSUME Port!PortAssumption PROVE Port!None \notin Port!Ports
BY DEF Port!PortAssumption, Port!None, Port!Ports

(* At the start nothing is on record and nothing runs.                       *)
LEMMA PortInitInv == ASSUME Port!PortAssumption, Port!Init PROVE PortInv
<1>1. Port!TypeOK
  BY DEF Port!PortAssumption, Port!Init, Port!TypeOK, Port!Empty, Port!NoBox, Port!Idle,
     Port!Doing
<1>2. Port!Injective(memory) /\ Port!Injective(disk)
  BY DEF Port!Init, Port!Injective, Port!Empty
<1>3. Port!Recorded /\ Port!NoClash /\ Port!LeaksAreKnown /\ RunOK
  BY DEF Port!Init, Port!Recorded, Port!NoClash, Port!LeaksAreKnown, RunOK, Port!Empty,
     Port!NoBox, Port!Idle
<1> QED
  BY <1>1, <1>2, <1>3 DEF PortInv, Port!PortsAreTheirs

(* A fault is one of those there may be.                                     *)
LEMMA PortFaultOK ==
    ASSUME Port!PortAssumption, Port!TypeOK, Port!Fault \/ Port!Steady
    PROVE  broken' \in 0 .. MaxPortFaults
BY DEF Port!PortAssumption, Port!TypeOK, Port!Fault, Port!Steady

(* A write of state.json leaves there what memory holds, or what was there.  *)
LEMMA PortSaveOK ==
    ASSUME Port!PortAssumption, Port!TypeOK, Port!Save
    PROVE  disk' \in {memory', disk} /\ broken' \in 0 .. MaxPortFaults
BY PortFaultOK DEF Port!Save

(* allocate_port puts a port that is on no record on that of the replica, or *)
(* finds the one it has, or none: then every port is on a record.            *)
LEMMA PortAllocateInv ==
    ASSUME Port!PortAssumption, PortInv, doing = Port!Idle, NEW k \in Port!Key,
       box[k] = Port!NoBox,
           NEW then \in {"run", "surge"}, Port!Allocate(k, then),
           UNCHANGED <<box, lost, leaked, clashes>>
    PROVE  PortInv'
<1> USE DEF PortInv, Port!PortsAreTheirs
<1>0. Port!None \notin Port!Ports
  BY NoneIsNoPort
<1>1. CASE memory[k] # Port!None /\ doing' = [at |-> then, key |-> k, port |-> memory[k]]
           /\ UNCHANGED memory /\ Port!Save
  <2>1. disk' \in {memory, disk} /\ broken' \in 0 .. MaxPortFaults
    BY <1>1, PortSaveOK
  <2>2. Port!TypeOK'
    BY <1>1, <2>1 DEF Port!TypeOK, Port!Doing
  <2>3. Port!Injective(memory)' /\ Port!Injective(disk)' /\ Port!Recorded' /\ Port!NoClash'
    BY <1>1, <2>1 DEF Port!Injective, Port!Recorded, Port!NoClash
  <2>4. Port!LeaksAreKnown'
    BY <1>1 DEF Port!LeaksAreKnown, Port!Idle
  <2>5. RunOK'
    BY <1>1 DEF RunOK
  <2> QED
    BY <2>2, <2>3, <2>4, <2>5
<1>2. ASSUME memory[k] = Port!None, NEW p \in Port!Probe(k), Port!Save,
             memory' = [memory EXCEPT ![k] = p],
             doing' = [at |-> then, key |-> k, port |-> p]
      PROVE  PortInv'
  <2>1. disk' \in {memory', disk} /\ broken' \in 0 .. MaxPortFaults
    BY <1>2, PortSaveOK
  <2>2. p \in Port!Ports /\ p # Port!None /\ \A j \in Port!Key : memory[j] # p
    BY <1>2, <1>0 DEF Port!Probe, Port!Used
  <2>3. Port!TypeOK'
    BY <1>2, <2>1, <2>2 DEF Port!TypeOK, Port!Doing
  <2>4. \A j \in Port!Key : memory'[j] = IF j = k THEN p ELSE memory[j]
    BY <1>2 DEF Port!TypeOK
  <2>5. Port!Injective(memory)' /\ Port!Injective(disk)'
    BY <2>1, <2>2, <2>4 DEF Port!Injective
  <2>6. Port!Recorded' /\ Port!NoClash'
    BY <2>4 DEF Port!Recorded, Port!NoClash
  <2>7. Port!LeaksAreKnown'
    BY <1>2, <2>4 DEF Port!LeaksAreKnown, Port!Idle
  <2>8. RunOK'
    BY <1>2, <2>4 DEF RunOK
  <2> QED
    BY <2>3, <2>5, <2>6, <2>7, <2>8
<1>3. CASE memory[k] = Port!None /\ Port!Ports \subseteq Port!Used /\ doing' = [at |-> "hung",
   key |-> k]
           /\ UNCHANGED <<memory, disk>> /\ Port!Steady
  <2>1. Port!TypeOK'
    BY <1>3, PortFaultOK DEF Port!TypeOK, Port!Doing
  <2>2. Port!Injective(memory)' /\ Port!Injective(disk)' /\ Port!Recorded' /\ Port!NoClash' /\
     RunOK'
    BY <1>3 DEF Port!Injective, Port!Recorded, Port!NoClash, RunOK
  <2>3. \A p \in Port!Ports : \E j \in Port!Key : memory[j] = p /\ (box[j] # Port!NoBox \/ j
     \in leaked)
    BY <1>0, <1>3 DEF Port!Used, Port!LeaksAreKnown
  <2>4. Port!LeaksAreKnown'
    BY <1>3, <2>3 DEF Port!LeaksAreKnown, Port!Idle
  <2> QED
    BY <2>1, <2>2, <2>4
<1> QED
  BY <1>1, <1>2, <1>3 DEF Port!Allocate

(* docker run: the port it is given is free, or held by a container whose    *)
(* record was lost.                                                          *)
LEMMA PortRunInv == ASSUME Port!PortAssumption, PortInv, Port!Run PROVE PortInv'
<1> USE DEF PortInv, Port!PortsAreTheirs
<1>0. /\ Port!None \notin Port!Ports
      /\ doing.at \in {"run", "surge"} /\ doing.key \in Port!Key /\ doing.port \in Port!Ports
      /\ box[doing.key] = Port!NoBox /\ memory[doing.key] = doing.port
  BY NoneIsNoPort DEF Port!Run, RunOK, Port!TypeOK, Port!Doing, Port!Idle
<1>1. Port!Rivals(doing.key, doing.port) = {}
  <2>1. ASSUME NEW j \in Port!Holders(doing.port) \ lost PROVE FALSE
    <3>1. j \in Port!Key /\ box[j].up /\ box[j].port = doing.port /\ j \notin lost
      BY <2>1 DEF Port!Holders
    <3>2. box[j] # Port!NoBox
      BY <3>1, <1>0 DEF Port!NoBox
    <3>3. memory[j] = memory[doing.key] /\ memory[j] # Port!None
      BY <3>1, <3>2, <1>0 DEF Port!Recorded
    <3> QED
      BY <3>1, <3>2, <3>3, <1>0 DEF Port!Injective
  <2> QED
    BY <2>1 DEF Port!Rivals
<1>2. ASSUME NEW up \in BOOLEAN,
             box' = [box EXCEPT ![doing.key] = [port |-> doing.port, up |-> up]],
             doing' \in {Port!Idle, [at |-> "gate", key |-> doing.key]},
             leaked' = leaked \ {doing.key}, Port!Steady, clashes' = clashes,
             UNCHANGED <<memory, disk, lost>>
      PROVE  PortInv'
  <2>1. \A j \in Port!Key : box'[j] = IF j = doing.key THEN [port |-> doing.port,
     up |-> up] ELSE box[j]
    BY <1>2 DEF Port!TypeOK
  <2>2. Port!TypeOK'
    BY <1>0, <1>2, PortFaultOK DEF Port!TypeOK, Port!Doing
  <2>3. Port!Injective(memory)' /\ Port!Injective(disk)' /\ Port!NoClash'
    BY <1>2 DEF Port!Injective, Port!NoClash
  <2>4. [port |-> doing.port, up |-> up] # Port!NoBox
    BY <1>0 DEF Port!NoBox
  <2>5. Port!Recorded' /\ RunOK'
    BY <1>0, <1>2, <2>1, <2>4 DEF Port!Recorded, RunOK, Port!Idle
  <2>6. ASSUME NEW j \in Port!Key, memory'[j] # Port!None, box'[j] = Port!NoBox,
     j \notin leaked' PROVE FALSE
    <3>1. j # doing.key /\ box[j] = Port!NoBox
      BY <2>1, <2>4, <2>6
    <3>2. memory[j] # Port!None /\ j \notin leaked
      BY <1>2, <2>6, <3>1
    <3> QED
      BY <3>1, <3>2 DEF Port!LeaksAreKnown
  <2>7. Port!LeaksAreKnown'
    BY <1>2, <2>6 DEF Port!LeaksAreKnown, Port!Idle
  <2> QED
    BY <2>2, <2>3, <2>5, <2>7
<1>3. CASE /\ Port!Holders(doing.port) = {}
           /\ box' = [box EXCEPT ![doing.key] = [port |-> doing.port, up |-> TRUE]]
           /\ doing' = IF doing.at = "surge" THEN [at |-> "gate",
              key |-> doing.key] ELSE Port!Idle
           /\ leaked' = leaked \ {doing.key}
           /\ UNCHANGED clashes /\ Port!Steady
  BY <1>2, <1>3 DEF Port!Run
<1>4. CASE /\ Port!Holders(doing.port) # {}
           /\ box' = [box EXCEPT ![doing.key] = [port |-> doing.port, up |-> FALSE]]
           /\ doing' = Port!Idle
           /\ leaked' = leaked \ {doing.key}
           /\ clashes' = clashes \cup Port!Rivals(doing.key, doing.port)
           /\ Port!Steady
  BY <1>1, <1>2, <1>4 DEF Port!Run
<1>5. CASE /\ Port!Fault
           /\ doing' = Port!Idle
           /\ leaked' = leaked \cup {doing.key}
           /\ UNCHANGED <<box, clashes>>
  <2>1. Port!TypeOK'
    BY <1>0, <1>5, PortFaultOK DEF Port!Run, Port!TypeOK, Port!Doing
  <2>2. Port!Injective(memory)' /\ Port!Injective(disk)' /\ Port!Recorded' /\ Port!NoClash' /\
     RunOK'
    BY <1>5 DEF Port!Run, Port!Injective, Port!Recorded, Port!NoClash, RunOK, Port!Idle
  <2>3. Port!LeaksAreKnown'
    BY <1>5 DEF Port!Run, Port!LeaksAreKnown, Port!Idle
  <2> QED
    BY <2>1, <2>2, <2>3
<1> QED
  BY <1>3, <1>4, <1>5 DEF Port!Run

(* release_port, after a stop and rm that may have failed unnoticed.         *)
LEMMA PortReleaseInv == ASSUME Port!PortAssumption, PortInv, Port!Release PROVE PortInv'
<1> USE DEF PortInv, Port!PortsAreTheirs
<1>0. doing.at = "release" /\ doing.key \in Port!Key
  BY DEF Port!Release, Port!TypeOK, Port!Doing, Port!Idle
<1>1. \A j \in Port!Key : memory'[j] = IF j = doing.key THEN Port!None ELSE memory[j]
  BY DEF Port!Release, Port!Released, Port!TypeOK
<1>2. disk' \in {memory', disk} /\ broken' \in 0 .. MaxPortFaults
  BY PortSaveOK DEF Port!Release
<1>3. Port!TypeOK'
  BY <1>0, <1>2 DEF Port!Release, Port!Released, Port!TypeOK, Port!Doing
<1>4. Port!Injective(memory)' /\ Port!Injective(disk)'
  BY <1>1, <1>2 DEF Port!Injective
<1>5. Port!Recorded'
  BY <1>0, <1>1 DEF Port!Release, Port!Recorded
<1>6. Port!NoClash' /\ RunOK'
  BY DEF Port!Release, Port!NoClash, RunOK, Port!Idle
<1>7. Port!LeaksAreKnown'
  BY <1>0, <1>1 DEF Port!Release, Port!LeaksAreKnown, Port!Idle
<1> QED
  BY <1>3, <1>4, <1>5, <1>6, <1>7

(* docker start of a container on record finds its port free of others.      *)
LEMMA PortStartInv == ASSUME Port!PortAssumption, PortInv, NEW k \in Port!Key,
   Port!Start(k) PROVE PortInv'
<1> USE DEF PortInv, Port!PortsAreTheirs
<1>1. Port!Rivals(k, box[k].port) = {}
  <2>1. ASSUME k \notin lost, NEW j \in Port!Holders(box[k].port) \ lost PROVE FALSE
    <3>1. j \in Port!Key /\ box[j].up /\ box[j].port = box[k].port /\ j \notin lost
      BY <2>1 DEF Port!Holders
    <3>2. box[k] # Port!NoBox /\ box[k].port \in Port!Ports /\ box[k].port # Port!None /\
       ~box[k].up
      BY NoneIsNoPort DEF Port!Start, RunOK
    <3>3. box[j] # Port!NoBox
      BY <3>1, <3>2 DEF Port!NoBox
    <3>4. memory[j] = memory[k] /\ memory[j] # Port!None
      BY <2>1, <3>1, <3>2, <3>3 DEF Port!Recorded
    <3> QED
      BY <3>1, <3>2, <3>4 DEF Port!Injective
  <2> QED
    BY <2>1 DEF Port!Rivals
<1>2. clashes' = clashes
  BY <1>1 DEF Port!Start
<1>3. box' = box \/ box' = [box EXCEPT ![k].up = TRUE]
  BY DEF Port!Start
<1>4. ASSUME NEW j \in Port!Key
      PROVE  box'[j].port = box[j].port /\ (box'[j] = Port!NoBox <=> box[j] = Port!NoBox)
  <2>1. CASE box' = box
    BY <2>1
  <2>2. CASE box' = [box EXCEPT ![k].up = TRUE] /\ j # k
    BY <2>2 DEF Port!TypeOK
  <2>3. CASE box' = [box EXCEPT ![k].up = TRUE] /\ j = k
    <3>1. box'[k] = [box[k] EXCEPT !.up = TRUE] /\ box[k] # Port!NoBox
      BY <2>3 DEF Port!TypeOK, Port!Start
    <3>2. box'[k].port = box[k].port /\ box'[k].up = TRUE
      BY <3>1 DEF Port!TypeOK
    <3> QED
      BY <2>3, <3>1, <3>2 DEF Port!NoBox
  <2> QED
    BY <1>3, <2>1, <2>2, <2>3
<1>5. Port!TypeOK'
  BY <1>2, <1>3 DEF Port!Start, Port!TypeOK
<1>6. Port!Injective(memory)' /\ Port!Injective(disk)' /\ Port!Recorded' /\ Port!NoClash'
  BY <1>2, <1>4 DEF Port!Start, Port!Injective, Port!Recorded, Port!NoClash
<1>7. Port!LeaksAreKnown' /\ RunOK'
  BY <1>4 DEF Port!Start, Port!LeaksAreKnown, RunOK, Port!Idle
<1> QED
  BY <1>5, <1>6, <1>7

(* The health gate of a surged replica, and the call that comes after it.    *)
LEMMA PortGateInv == ASSUME Port!PortAssumption, PortInv, Port!Gate PROVE PortInv'
<1> USE DEF PortInv, Port!PortsAreTheirs
<1>1. doing.key \in Port!Key
  BY DEF Port!Gate, Port!TypeOK, Port!Doing, Port!Idle
<1>2. Port!TypeOK'
  BY <1>1 DEF Port!Gate, Port!TypeOK, Port!Doing
<1>3. Port!Injective(memory)' /\ Port!Injective(disk)' /\ Port!Recorded' /\ Port!NoClash' /\
   RunOK'
  BY DEF Port!Gate, Port!Injective, Port!Recorded, Port!NoClash, RunOK, Port!Idle
<1>4. Port!LeaksAreKnown'
  <2>1. CASE doing' = Port!Idle
    BY <2>1 DEF Port!Gate, Port!LeaksAreKnown, RunOK, Port!Idle
  <2>2. CASE doing' = [at |-> "stop", key |-> doing.key]
    BY <2>2 DEF Port!Gate, Port!LeaksAreKnown, Port!Idle
  <2> QED
    BY <2>1, <2>2 DEF Port!Gate
<1> QED
  BY <1>2, <1>3, <1>4

(* A replica is picked to be stopped.                                        *)
LEMMA PortRetireInv == ASSUME Port!PortAssumption, PortInv, NEW k \in Port!Key,
   Port!Retire(k) PROVE PortInv'
<1> USE DEF PortInv, Port!PortsAreTheirs
<1>1. Port!TypeOK'
  BY DEF Port!Retire, Port!TypeOK, Port!Doing
<1>2. Port!Injective(memory)' /\ Port!Injective(disk)' /\ Port!Recorded' /\ Port!NoClash' /\
   RunOK'
  BY DEF Port!Retire, Port!Injective, Port!Recorded, Port!NoClash, RunOK
<1>3. Port!LeaksAreKnown'
  BY DEF Port!Retire, Port!LeaksAreKnown, Port!Idle
<1> QED
  BY <1>1, <1>2, <1>3

(* stop and rm: the record stays until it is released.                       *)
LEMMA PortStopInv == ASSUME Port!PortAssumption, PortInv, Port!Stop PROVE PortInv'
<1> USE DEF PortInv, Port!PortsAreTheirs
<1>0. doing.at = "stop" /\ doing.key \in Port!Key /\ Port!NoBox \in [port : Port!Ports \cup
   {Port!None}, up : BOOLEAN]
  BY DEF Port!Stop, Port!TypeOK, Port!Doing, Port!Idle, Port!NoBox
<1>1. \A j \in Port!Key : box'[j] = box[j] \/ (j = doing.key /\ box'[j] = Port!NoBox)
  <2>1. box' = box \/ box' = [box EXCEPT ![doing.key] = Port!NoBox]
    BY DEF Port!Stop
  <2>2. box \in [Port!Key -> [port : Port!Ports \cup {Port!None}, up : BOOLEAN]]
    BY DEF Port!TypeOK
  <2> QED
    BY <1>0, <2>1, <2>2
<1>2. Port!TypeOK'
  <2>1. box' \in [Port!Key -> [port : Port!Ports \cup {Port!None},
     up : BOOLEAN]] /\ lost' \subseteq Port!Key
    BY <1>0 DEF Port!Stop, Port!TypeOK
  <2>2. doing' \in Port!Doing /\ broken' \in 0 .. MaxPortFaults
    BY <1>0, PortFaultOK DEF Port!Stop, Port!Doing
  <2> QED
    BY <2>1, <2>2 DEF Port!Stop, Port!TypeOK
<1>3. Port!Injective(memory)' /\ Port!Injective(disk)' /\ Port!NoClash'
  BY DEF Port!Stop, Port!Injective, Port!NoClash
<1>4. Port!Recorded'
  <2>1. CASE box' = [box EXCEPT ![doing.key] = Port!NoBox] /\ lost' = lost \ {doing.key}
    BY <1>0, <1>1, <2>1 DEF Port!Stop, Port!Recorded, Port!TypeOK
  <2>2. CASE UNCHANGED <<box, lost>>
    BY <2>2 DEF Port!Stop, Port!Recorded
  <2> QED
    BY <2>1, <2>2 DEF Port!Stop
<1>5. RunOK'
  BY <1>1 DEF Port!Stop, RunOK
<1>6. Port!LeaksAreKnown'
  <2>1. ASSUME NEW j \in Port!Key, memory'[j] # Port!None, box'[j] = Port!NoBox,
     j \notin leaked'
        PROVE  doing' # Port!Idle /\ doing'.key = j
    BY <1>0, <1>1, <2>1 DEF Port!Stop, Port!LeaksAreKnown, Port!Idle
  <2> QED
    BY <2>1 DEF Port!Stop, Port!LeaksAreKnown
<1> QED
  BY <1>2, <1>3, <1>4, <1>5, <1>6

(* An undeploy: the records of what went are among the leaks.                *)
LEMMA PortRemoveInv == ASSUME Port!PortAssumption, PortInv, NEW s \in WebServices,
   Port!Remove(s) PROVE PortInv'
<1> USE DEF PortInv, Port!PortsAreTheirs
<1>0. doing = Port!Idle /\ Port!NoBox \in [port : Port!Ports \cup {Port!None}, up : BOOLEAN]
  BY DEF Port!Remove, Port!NoBox
<1>1. PICK gone \in SUBSET Port!Boxes(s) :
         /\ IF gone = Port!Boxes(s) THEN Port!Steady ELSE Port!Fault
         /\ box' = [k \in Port!Key |-> IF k \in gone THEN Port!NoBox ELSE box[k]]
         /\ lost' = lost \ gone
         /\ leaked' = leaked \cup {k \in gone : memory[k] # Port!None}
  BY DEF Port!Remove
<1>2. gone \subseteq Port!Key
  BY <1>1 DEF Port!Boxes
<1>3. Port!TypeOK'
  BY <1>0, <1>1, <1>2, PortFaultOK DEF Port!Remove, Port!TypeOK
<1>4. Port!Injective(memory)' /\ Port!Injective(disk)' /\ Port!NoClash'
  BY DEF Port!Remove, Port!Injective, Port!NoClash
<1>5. Port!Recorded' /\ RunOK'
  BY <1>0, <1>1 DEF Port!Remove, Port!Recorded, RunOK, Port!Idle
<1>6. Port!LeaksAreKnown'
  BY <1>0, <1>1 DEF Port!Remove, Port!LeaksAreKnown, Port!Idle
<1> QED
  BY <1>3, <1>4, <1>5, <1>6

(* A container that goes down keeps the port it was created with.            *)
LEMMA PortGoesDownInv == ASSUME Port!PortAssumption, PortInv, NEW k \in Port!Key,
   Port!GoesDown(k) PROVE PortInv'
<1> USE DEF PortInv, Port!PortsAreTheirs
<1>0. box[k].port \in Port!Ports /\ Port!None \notin Port!Ports
  BY NoneIsNoPort DEF Port!GoesDown, RunOK, Port!NoBox
<1>1. \A j \in Port!Key : box'[j] = IF j = k THEN [box[k] EXCEPT !.up = FALSE] ELSE box[j]
  BY DEF Port!GoesDown, Port!TypeOK
<1>2. box'[k].port = box[k].port
  BY <1>1 DEF Port!TypeOK
<1>3. \A j \in Port!Key : box'[j].port = box[j].port /\ (box'[j] = Port!NoBox <=> box[j] =
   Port!NoBox)
  BY <1>0, <1>1, <1>2 DEF Port!NoBox
<1>4. Port!TypeOK'
  BY PortFaultOK DEF Port!GoesDown, Port!TypeOK
<1>5. Port!Injective(memory)' /\ Port!Injective(disk)' /\ Port!Recorded' /\ Port!NoClash'
  BY <1>3 DEF Port!GoesDown, Port!Injective, Port!Recorded, Port!NoClash
<1>6. RunOK'
  BY <1>0, <1>3 DEF Port!GoesDown, RunOK
<1>7. Port!LeaksAreKnown'
  <2>1. doing' = doing /\ memory' = memory /\ leaked' = leaked
    BY DEF Port!GoesDown
  <2> QED
    BY <1>3, <2>1 DEF Port!LeaksAreKnown
<1> QED
  BY <1>4, <1>5, <1>6, <1>7

(* The agent starts again with what state.json holds.                        *)
LEMMA PortCrashInv == ASSUME Port!PortAssumption, PortInv, Port!Crash PROVE PortInv'
<1> USE DEF PortInv, Port!PortsAreTheirs
<1>1. Port!TypeOK'
  BY PortFaultOK DEF Port!Crash, Port!TypeOK, Port!Doing
<1>2. Port!Injective(memory)' /\ Port!Injective(disk)' /\ Port!NoClash'
  BY DEF Port!Crash, Port!Injective, Port!NoClash
<1>3. Port!Recorded' /\ RunOK'
  BY DEF Port!Crash, Port!Recorded, RunOK, Port!Idle
<1>4. Port!LeaksAreKnown'
  BY DEF Port!Crash, Port!LeaksAreKnown, Port!Idle
<1> QED
  BY <1>1, <1>2, <1>3, <1>4

(* state.json is lost while the agent holds the ports in memory.             *)
LEMMA PortLoseStateInv == ASSUME Port!PortAssumption, PortInv, Port!LoseState PROVE PortInv'
<1> USE DEF PortInv, Port!PortsAreTheirs
<1>1. Port!TypeOK'
  BY PortFaultOK DEF Port!LoseState, Port!TypeOK, Port!Empty
<1>2. Port!Injective(memory)' /\ Port!Injective(disk)'
  BY DEF Port!LoseState, Port!Injective, Port!Empty
<1>3. Port!Recorded' /\ Port!NoClash' /\ RunOK'
  BY DEF Port!LoseState, Port!Recorded, Port!NoClash, RunOK
<1>4. Port!LeaksAreKnown'
  BY DEF Port!LoseState, Port!LeaksAreKnown
<1> QED
  BY <1>1, <1>2, <1>3, <1>4

(* Every step keeps the invariant.                                           *)
LEMMA PortStepInv == ASSUME Port!PortAssumption, PortInv, [Port!Next]_(Port!vars) PROVE PortInv'
<1>1. ASSUME NEW s \in WebServices, Port!Create(s) PROVE PortInv'
  <2>1. PICK i \in 0 .. MaxPortIndex : box[<<s, i>>] = Port!NoBox /\ Port!Allocate(<<s, i>>,
     "run")
    BY <1>1 DEF Port!Create
  <2>2. doing = Port!Idle /\ <<s, i>> \in Port!Key /\ UNCHANGED <<box, lost, leaked, clashes>>
    BY <1>1 DEF Port!Create, Port!Key
  <2> QED
    BY <2>1, <2>2, PortAllocateInv
<1>2. ASSUME NEW s \in WebServices, Port!Surge(s) PROVE PortInv'
  <2>1. PICK i \in 1 .. MaxPortIndex : box[<<s, i>>] = Port!NoBox /\ Port!Allocate(<<s, i>>,
     "surge")
    BY <1>2 DEF Port!Surge, Port!PortAssumption
  <2>2. doing = Port!Idle /\ <<s, i>> \in Port!Key /\ UNCHANGED <<box, lost, leaked, clashes>>
    BY <1>2 DEF Port!Surge, Port!Key
  <2> QED
    BY <2>1, <2>2, PortAllocateInv
<1>3. CASE UNCHANGED Port!vars
  BY <1>3 DEF Port!vars, PortInv, Port!PortsAreTheirs, Port!TypeOK, Port!Injective,
     Port!Recorded, Port!NoClash, Port!LeaksAreKnown, RunOK
<1> QED
  BY <1>1, <1>2, <1>3, PortRunInv, PortGateInv, PortRetireInv, PortStopInv, PortReleaseInv,
     PortRemoveInv, PortStartInv,
     PortGoesDownInv, PortCrashInv, PortLoseStateInv DEF Port!Next, Port!Agent

(* However the agent deploys, rolls, scales, dies and comes back, a          *)
(* replica's port is its own until its record is lost, and a record without  *)
(* a container is one whose release was skipped (state.rs:44-71).            *)
THEOREM PortsAlwaysTheirs == Port!Spec => []PortsAreTheirs
<1>1. PortInv => PortsAreTheirs
  BY DEF PortInv, PortsAreTheirs
<1>2. Port!Init => PortInv
  BY PortInitInv, PortsAssumption
<1>3. PortInv /\ [Port!Next]_(Port!vars) => PortInv'
  BY PortStepInv, PortsAssumption
<1> QED
  BY <1>1, <1>2, <1>3, PTL DEF Port!Spec
=============================================================================
