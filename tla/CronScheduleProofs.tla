------------------------- MODULE CronScheduleProofs -------------------------
(***************************************************************************)
(* Proofs about CronSchedule for any schedules and any length of time: a   *)
(* fire starts at most one run, none is started for a fire from before the *)
(* schedule was seen, and no run is removed to make way for the next.      *)
(* About PoolScaling, the passes that the operator's cron starts: an action *)
(* keeps the policy's bounds and its cooldown, and orphans nothing.        *)
(***************************************************************************)
EXTENDS CronSchedule, PoolScaling, FiniteSetTheorems, TLAPS, WellFoundedInduction

\* A record x is not older than any run that was started.
Covers(x) == x # None => \A t \in Minute : started[t] > 0 => t <= x

\* The agent is on its way to start the run that is due.
Starting == {"pull", "clear", "record", "run"}

(* The agent works for the schedule it saw last, on a fire of it.            *)
FlowOK ==
    /\ pc \in {"idle", "plan"} <=> due = None
    /\ pc # "idle" => sched = lastSeen
    /\ pc \notin {"idle", "plan"} => sched # NoService
    /\ pc \in Starting \cup {"skip"} => kind = "cron"
    /\ pc \in {"dump", "recordDump"} => kind = "backup"
    /\ since <= now

(* Each of the records alone, in memory, in state.json and on the container  *)
(* of a run in progress, is one from which no run is started again.          *)
RecordOK ==
    /\ Covers(fire) /\ Covers(saved)
    /\ kind = "backup" => \A t \in Minute : started[t] = 0
    /\ kind = "cron" /\ box.state = "running" => box.label # None /\ Covers(box.label)
    /\ \A t \in Minute : started[t] > 0 \/ t \in skipped => t <= now
    /\ \A t \in Minute : started[t] <= 1
    /\ pc \notin {"idle", "plan", "run"} => fire < due
    /\ pc = "run" => fire = due /\ saved = due /\ started[due] = 0

(* As long as no record was lost, a fire that was skipped is on record too.  *)
SkipOK ==
    forgot = {} =>
        /\ fire = None <=> lastSeen = NoService
        /\ \A t \in skipped : started[t] = 0 /\ (fire # None => t <= fire)
        /\ pc = "run" => due \notin skipped

(* The records are of the schedule that the agent knows, also when           *)
(* state.json was lost and the label of a run stands in for it.              *)
ReplayOK ==
    forgot \ {"file"} = {} =>
        /\ saved = fire
        /\ lastSeen = NoService => fire = None
        /\ lastSeen # NoService /\ fire # None => since <= fire
        /\ kind = "cron" /\ box.state = "running" /\ lastSeen # NoService =>
              since <= box.label
        /\ pc \in Starting => since < due

(* A run in progress is one that the tick has seen, and it starts no other.  *)
KillOK ==
    kind = "cron" =>
        /\ pc # "idle" /\ box.state = "running" => live.state = "running"
        /\ pc \in Starting => live.state # "running"

(* The inductive invariant.                                                  *)
CronInv == TypeOK /\ FlowOK /\ RecordOK /\ SkipOK /\ ReplayOK /\ KillOK
-----------------------------------------------------------------------------

(* A minute is no label and no anchor that is missing, and a schedule is not *)
(* the absence of one.                                                       *)
LEMMA Values ==
    ASSUME ScheduleAssumption, BoundsAssumption
    PROVE  /\ \A t \in Minute : t \in Nat /\ t # None
           /\ NoService \notin Schedules
           /\ \A S \in Schedules : S \subseteq Minute
           /\ 0 \in Minute
BY DEF ScheduleAssumption, BoundsAssumption, Minute

(* Missed fires collapse to one of them: a set of minutes has a latest.      *)
LEMMA LatestOf ==
    ASSUME BoundsAssumption, NEW S \in SUBSET Minute, S # {}
    PROVE  Latest(S) \in S /\ \A u \in S : u <= Latest(S)
<1> DEFINE R == OpToRel(<, Nat)
           T == {MaxNow - t : t \in S}
<1>0. MaxNow \in Nat /\ S \subseteq 0 .. MaxNow
  BY DEF BoundsAssumption, Minute
<1>1. IsWellFoundedOn(R, Nat)
  BY NatLessThanWellFounded
<1>2. T \subseteq Nat /\ T # {}
  <2>1. \A t \in S : MaxNow - t \in Nat
    BY <1>0
  <2> QED
    BY <2>1
<1>3. \A x, y \in Nat : <<x, y>> \in R <=> x < y
  BY DEF OpToRel
<1> HIDE DEF R
<1>4. PICK x \in T : \A y \in T : ~(<<y, x>> \in R)
  BY <1>1, <1>2, WFMin
<1>5. PICK t \in S : x = MaxNow - t
  OBVIOUS
<1>6. ASSUME NEW u \in S PROVE u <= t
  <2>1. MaxNow - u \in T /\ MaxNow - u \in Nat /\ MaxNow - t \in Nat /\ u \in Nat /\ t \in Nat
    BY <1>0, <1>2
  <2>2. ~(MaxNow - u < MaxNow - t)
    BY <1>3, <1>4, <1>5, <2>1
  <2> QED
    BY <1>0, <2>1, <2>2
<1>7. \E v \in S : \A u \in S : u <= v
  BY <1>6
<1> QED
  BY <1>7 DEF Latest

(* A fault is one of those there may be.                                     *)
LEMMA FaultOK ==
    ASSUME BoundsAssumption, TypeOK, NEW k,
           UNCHANGED faults \/ (HasFault(k) /\ UseFault)
    PROVE  faults' \in 0 .. MaxFaults
BY DEF BoundsAssumption, TypeOK, HasFault, UseFault

(* At the start nothing is on record and nothing was run.                    *)
LEMMA InitInv == ASSUME ScheduleAssumption, BoundsAssumption, Init PROVE CronInv
<1>0. 0 \in Minute /\ NoBox \in Boxes /\ NoBox.state = "none"
  BY Values DEF NoBox, Boxes
<1>1. TypeOK
  BY <1>0 DEF BoundsAssumption, Init, TypeOK, Pc
<1>2. FlowOK /\ KillOK
  BY <1>0 DEF Init, FlowOK, KillOK, Starting
<1>3. RecordOK
  BY <1>0 DEF Init, RecordOK, Covers
<1>4. SkipOK /\ ReplayOK
  BY <1>0 DEF Init, SkipOK, ReplayOK, Starting
<1> QED
  BY <1>1, <1>2, <1>3, <1>4 DEF CronInv

-----------------------------------------------------------------------------
(* The rest of the world                                                     *)

LEMMA ClockInv == ASSUME ScheduleAssumption, BoundsAssumption, CronInv, Clock PROVE CronInv'
<1> USE DEF CronInv
<1>0. UNCHANGED <<kind, desired, saved, box, pc, sched, live, fire, due, since, lastSeen,
                  started, skipped, attempted, wentDown, forgot, deploys, faults>>
         /\ now' = now + 1 /\ now < MaxNow
  BY DEF Clock, agentVars, historyVars
<1>1. now \in Nat /\ MaxNow \in Nat /\ now' \in Minute
  BY <1>0 DEF TypeOK, Minute, BoundsAssumption
<1>2. TypeOK'
  <2>1. due # None => due \in Nat /\ due <= now'
    BY <1>0, <1>1, Values DEF TypeOK
  <2> QED
    BY <1>0, <1>1, <2>1 DEF TypeOK
<1>3. FlowOK'
  BY <1>0, <1>1 DEF FlowOK, TypeOK, Minute
<1>4. RecordOK'
  <2>1. \A t \in Minute : started[t] > 0 \/ t \in skipped => t <= now'
    BY <1>0, <1>1, Values DEF RecordOK
  <2> QED
    BY <1>0, <2>1 DEF RecordOK, Covers
<1>5. SkipOK' /\ ReplayOK' /\ KillOK'
  BY <1>0 DEF SkipOK, ReplayOK, KillOK
<1> QED
  BY <1>2, <1>3, <1>4, <1>5

LEMMA DeployInv == ASSUME ScheduleAssumption, BoundsAssumption, CronInv, Deploy PROVE CronInv'
<1> USE DEF CronInv
<1>0. UNCHANGED <<kind, now, saved, box, pc, sched, live, fire, due, since, lastSeen,
                  started, skipped, attempted, wentDown, forgot, faults>>
         /\ desired' \in Schedules \cup {NoService} /\ deploys' \in 0 .. MaxDeploys
  BY DEF Deploy, agentVars, historyVars, TypeOK, BoundsAssumption
<1>1. TypeOK'
  BY <1>0 DEF TypeOK
<1>2. FlowOK' /\ RecordOK' /\ SkipOK' /\ ReplayOK' /\ KillOK'
  BY <1>0 DEF FlowOK, RecordOK, Covers, SkipOK, ReplayOK, KillOK
<1> QED
  BY <1>1, <1>2

(* What befalls the container between two calls of the agent starts no run.  *)
LEMMA BoxInv ==
    ASSUME ScheduleAssumption, BoundsAssumption, CronInv, box' \in Boxes,
           ~(kind = "cron" /\ box'.state = "running"), faults' \in 0 .. MaxFaults,
           UNCHANGED <<kind, now, desired, saved, agentVars, historyVars, forgot, deploys>>
    PROVE  CronInv'
<1> USE DEF CronInv
<1>0. UNCHANGED <<kind, now, desired, saved, pc, sched, live, fire, due, since, lastSeen,
                  started, skipped, attempted, wentDown, forgot, deploys>>
  BY DEF agentVars, historyVars
<1>1. TypeOK'
  BY <1>0 DEF TypeOK
<1>2. FlowOK' /\ RecordOK' /\ SkipOK' /\ ReplayOK' /\ KillOK'
  BY <1>0 DEF FlowOK, RecordOK, Covers, SkipOK, ReplayOK, KillOK
<1> QED
  BY <1>1, <1>2

LEMMA OutsideInv ==
    ASSUME ScheduleAssumption, BoundsAssumption, CronInv,
           RunExits \/ DatabaseUp \/ DatabaseDown \/ Prune
    PROVE  CronInv'
<1>0. TypeOK
  BY DEF CronInv
<1>1. faults' \in 0 .. MaxFaults
  BY <1>0, FaultOK DEF RunExits, DatabaseUp, DatabaseDown, Prune
<1>2. box' \in Boxes /\ ~(kind = "cron" /\ box'.state = "running")
  BY <1>0 DEF RunExits, DatabaseUp, DatabaseDown, Prune, TypeOK, Boxes, NoBox
<1>3. UNCHANGED <<kind, now, desired, saved, agentVars, historyVars, forgot, deploys>>
  BY DEF RunExits, DatabaseUp, DatabaseDown, Prune
<1> QED
  BY <1>1, <1>2, <1>3, BoxInv

(* The restarted agent goes on from state.json, or from nothing.             *)
LEMMA AgentCrashInv ==
    ASSUME ScheduleAssumption, BoundsAssumption, CronInv, AgentCrash PROVE CronInv'
<1> USE DEF CronInv
<1>0. /\ UNCHANGED <<kind, now, desired, box, since, lastSeen, started, skipped,
                     attempted, wentDown, deploys>>
      /\ pc' = "idle" /\ sched' = NoService /\ live' = NoBox /\ due' = None
      /\ fire' = saved'
      /\ (\/ UNCHANGED <<saved, forgot>>
          \/ saved' = None /\ forgot' = forgot \cup {"file"})
  BY DEF AgentCrash, historyVars
<1>1. faults' \in 0 .. MaxFaults /\ NoBox \in Boxes
  BY FaultOK DEF AgentCrash, NoBox, Boxes
<1>2. TypeOK'
  BY <1>0, <1>1 DEF TypeOK, Pc
<1>3. FlowOK' /\ KillOK'
  BY <1>0 DEF FlowOK, KillOK, Starting
<1>4. RecordOK'
  BY <1>0 DEF RecordOK, Covers
<1>5. SkipOK'
  <2>1. CASE forgot' = {}
    <3>1. forgot = {} /\ saved' = saved
      BY <1>0, <2>1
    <3>2. saved = fire
      BY <3>1 DEF ReplayOK
    <3> QED
      BY <1>0, <3>1, <3>2 DEF SkipOK
  <2> QED
    BY <2>1 DEF SkipOK
<1>6. ReplayOK'
  <2>1. CASE forgot' \ {"file"} = {}
    <3>1. forgot \ {"file"} = {} /\ fire' \in {fire, None}
      BY <1>0, <2>1 DEF ReplayOK
    <3> QED
      BY <1>0, <3>1 DEF ReplayOK, Starting
  <2> QED
    BY <2>1 DEF ReplayOK
<1> QED
  BY <1>2, <1>3, <1>4, <1>5, <1>6
-----------------------------------------------------------------------------
(* The agent's tick                                                          *)

(* What a tick goes on from: nothing, its record, the label of a run in      *)
(* progress, or now.  Each is no older than any run that was started.        *)
LEMMA AnchorOK ==
    ASSUME ScheduleAssumption, BoundsAssumption, CronInv, fire' = Anchor(desired, box)
    PROVE  /\ fire' \in Minute \cup {None}
           /\ desired = NoService <=> fire' = None
           /\ desired # NoService /\ fire # None => fire' = fire
           /\ desired # NoService /\ fire = None =>
                 (\/ fire' = now /\ (kind = "cron" => box.state # "running")
                  \/ fire' = now /\ kind = "backup"
                  \/ kind = "cron" /\ box.state = "running" /\ fire' = box.label)
           /\ fire' # None => \A t \in Minute : started[t] > 0 => t <= fire'
<1> USE DEF CronInv
<1>0. box \in Boxes /\ now \in Minute /\ fire \in Minute \cup {None} /\ kind \in {"cron", "backup"}
         /\ now # None /\ box.label \in Minute \cup {None}
  BY Values DEF TypeOK, Boxes, ScheduleAssumption
<1>1. kind = "cron" /\ box.state = "running" => box.label # None
  BY DEF RecordOK
<1>2. CASE desired = NoService
  BY <1>2 DEF Anchor
<1>3. CASE desired # NoService /\ fire # None
  BY <1>0, <1>3 DEF Anchor, RecordOK, Covers
<1>4. CASE desired # NoService /\ fire = None /\ kind = "cron" /\ box.state = "running"
  BY <1>0, <1>1, <1>4 DEF Anchor, RecordOK, Covers
<1>5. CASE desired # NoService /\ fire = None /\ ~(kind = "cron" /\ box.state = "running")
  BY <1>0, <1>5 DEF Anchor, RecordOK
<1> QED
  BY <1>2, <1>3, <1>4, <1>5

LEMMA SeedInv == ASSUME ScheduleAssumption, BoundsAssumption, CronInv, Seed PROVE CronInv'
<1> USE DEF CronInv
<1>0. /\ pc = "idle" /\ pc' = "plan" /\ sched' = desired /\ live' = box
      /\ fire' = Anchor(desired, box)
      /\ since' = IF desired = lastSeen THEN since ELSE now
      /\ lastSeen' = desired
      /\ UNCHANGED <<kind, now, desired, box, due, started, skipped, attempted, wentDown, deploys>>
  BY DEF Seed
<1>1. /\ saved' \in {saved, fire'}
      /\ forgot' \subseteq forgot \cup {"removal", "anchor"} /\ forgot \subseteq forgot'
      /\ Outlived => "removal" \in forgot'
      /\ "anchor" \in forgot' \/ saved' = IF fire' = fire THEN saved ELSE fire'
  BY DEF Seed, SaveAnchor
<1>2. faults' \in 0 .. MaxFaults
  BY FaultOK DEF Seed, SaveAnchor
<1>3. /\ fire' \in Minute \cup {None}
      /\ desired = NoService <=> fire' = None
      /\ desired # NoService /\ fire # None => fire' = fire
      /\ desired # NoService /\ fire = None =>
            (\/ fire' = now /\ (kind = "cron" => box.state # "running")
             \/ fire' = now /\ kind = "backup"
             \/ kind = "cron" /\ box.state = "running" /\ fire' = box.label)
      /\ fire' # None => \A t \in Minute : started[t] > 0 => t <= fire'
  BY <1>0, AnchorOK
<1>4. /\ since \in Nat /\ now \in Nat /\ now \in Minute /\ since <= now /\ due = None
      /\ since' \in Minute /\ since' <= now
  BY <1>0, Values DEF TypeOK, FlowOK
<1>5. TypeOK'
  BY <1>0, <1>1, <1>2, <1>3, <1>4 DEF TypeOK, Pc
<1>6. FlowOK'
  BY <1>0, <1>4 DEF FlowOK, Starting
<1>7. RecordOK'
  BY <1>0, <1>1, <1>3 DEF RecordOK, Covers
<1>8. SkipOK'
  <2> SUFFICES ASSUME forgot' = {} PROVE SkipOK!2'
    BY DEF SkipOK
  <2>1. forgot = {} /\ ~Outlived
    BY <1>1
  <2>2. fire' = None <=> lastSeen' = NoService
    BY <1>0, <1>3
  <2>3. ASSUME NEW t \in skipped, fire' # None PROVE t <= fire'
    <3>1. CASE fire # None
      BY <1>3, <2>1, <2>3, <3>1 DEF SkipOK
    <3>2. CASE fire = None
      <4>1. lastSeen = NoService /\ desired # lastSeen
        BY <1>3, <2>1, <2>3, <3>2 DEF SkipOK
      <4>2. ~(fire' < now)
        BY <1>0, <2>1, <4>1 DEF Outlived
      <4>3. t <= now /\ t \in Nat /\ fire' \in Nat
        BY <1>3, <2>3, Values DEF RecordOK, TypeOK
      <4> QED
        BY <1>4, <4>2, <4>3
    <3> QED
      BY <3>1, <3>2
  <2> QED
    BY <1>0, <2>1, <2>2, <2>3 DEF SkipOK
<1>9. ReplayOK'
  <2> SUFFICES ASSUME forgot' \ {"file"} = {} PROVE ReplayOK!2'
    BY DEF ReplayOK
  <2>1. forgot \ {"file"} = {} /\ ~Outlived /\ "anchor" \notin forgot'
    BY <1>1
  <2>2. saved' = fire'
    BY <1>1, <2>1 DEF ReplayOK
  <2>3. ASSUME desired # NoService, desired = lastSeen
        PROVE  /\ since <= fire'
               /\ kind = "cron" /\ box.state = "running" => since <= box.label
    BY <1>3, <1>4, <2>1, <2>3 DEF ReplayOK
  <2>4. ASSUME desired # NoService, desired # lastSeen
        PROVE  /\ now <= fire'
               /\ kind = "cron" /\ box.state = "running" => now <= box.label
    <3>1. lastSeen = NoService /\ ~(fire' < now)
      BY <1>0, <2>1, <2>4 DEF Outlived
    <3>2. fire = None
      BY <2>1, <3>1 DEF ReplayOK
    <3>3. fire' \in Nat
      BY <1>3, <2>4, Values
    <3>4. kind = "cron" /\ box.state = "running" => fire' = box.label
      BY <1>3, <2>4, <3>2
    <3> QED
      BY <1>4, <3>1, <3>3, <3>4
  <2> QED
    BY <1>0, <1>3, <2>2, <2>3, <2>4 DEF Starting
<1>10. KillOK'
  BY <1>0 DEF KillOK, Starting
<1> QED
  BY <1>5, <1>6, <1>7, <1>8, <1>9, <1>10

(* A due fire is later than every record.                                    *)
LEMMA DueOK ==
    ASSUME ScheduleAssumption, BoundsAssumption, CronInv, pc = "plan", sched # NoService,
           NEW last \in {LastFire, fire}, DueFires(last) # {}
    PROVE  /\ Latest(DueFires(last)) \in Minute /\ Latest(DueFires(last)) \in sched
           /\ Latest(DueFires(last)) # None /\ Latest(DueFires(last)) <= now
           /\ fire \in Minute /\ fire < Latest(DueFires(last))
<1> USE DEF CronInv
<1>1. sched \subseteq Minute /\ fire \in Minute /\ live.label \in Minute \cup {None}
  BY Values DEF TypeOK, Boxes
<1>2. DueFires(last) \in SUBSET Minute
  BY <1>1 DEF DueFires
<1>3. Latest(DueFires(last)) \in DueFires(last)
  BY <1>2, LatestOf
<1>4. last \in Minute /\ fire <= last
  BY <1>1, Values DEF LastFire
<1> DEFINE d == Latest(DueFires(last))
<1>5. d \in sched /\ last < d /\ d <= now
  BY <1>3 DEF DueFires
<1> HIDE DEF d
<1>6. d \in Minute /\ d # None /\ fire < d
  BY <1>1, <1>4, <1>5, Values
<1> QED
  BY <1>1, <1>5, <1>6 DEF d

LEMMA PlanInv == ASSUME ScheduleAssumption, BoundsAssumption, CronInv, Plan PROVE CronInv'
<1> USE DEF CronInv
<1>0. /\ pc = "plan" /\ due = None /\ sched = lastSeen
      /\ UNCHANGED <<kind, now, desired, saved, sched, live, fire, since, lastSeen, started,
                     skipped, attempted, wentDown, forgot, deploys>>
  BY DEF Plan, FlowOK, historyVars
<1>1. CASE /\ pc' = "idle" /\ box' \in {box, NoBox} /\ UNCHANGED due
           /\ faults' \in 0 .. MaxFaults
  <2>0. NoBox \in Boxes /\ NoBox.state # "running"
    BY DEF NoBox, Boxes
  <2>1. TypeOK'
    BY <1>0, <1>1, <2>0 DEF TypeOK, Pc
  <2>2. FlowOK' /\ SkipOK' /\ KillOK'
    BY <1>0, <1>1 DEF FlowOK, SkipOK, KillOK, Starting
  <2>3. RecordOK' /\ ReplayOK'
    BY <1>0, <1>1, <2>0 DEF RecordOK, Covers, ReplayOK, Starting
  <2> QED
    BY <2>1, <2>2, <2>3
<1>2. ASSUME sched # NoService, NEW last \in {LastFire, fire}, DueFires(last) # {},
             due' = Latest(DueFires(last)), UNCHANGED <<box, faults>>,
             \/ kind = "cron" /\ pc' = "skip"
             \/ kind = "cron" /\ pc' = "pull" /\ live.state # "running"
             \/ kind = "backup" /\ pc' = "dump"
      PROVE  CronInv'
  <2>1. due' \in Minute /\ due' \in sched /\ due' # None /\ due' <= now
           /\ fire \in Minute /\ fire < due'
    BY <1>0, <1>2, DueOK
  <2>2. TypeOK'
    BY <1>0, <1>2, <2>1 DEF TypeOK, Pc
  <2>3. FlowOK' /\ KillOK'
    BY <1>0, <1>2, <2>1 DEF FlowOK, KillOK, Starting
  <2>4. RecordOK'
    BY <1>0, <1>2, <2>1 DEF RecordOK, Covers
  <2>5. SkipOK'
    BY <1>0, <1>2, <2>1 DEF SkipOK
  <2>6. ReplayOK'
    <3>1. forgot \ {"file"} = {} => since < due'
      <4>1. fire # None /\ lastSeen # NoService
        BY <1>0, <1>2, <2>1, Values
      <4>2. forgot \ {"file"} = {} => since <= fire
        BY <4>1 DEF ReplayOK
      <4>3. since \in Nat /\ fire \in Nat /\ due' \in Nat
        BY <2>1, Values DEF TypeOK
      <4> QED
        BY <2>1, <4>2, <4>3
    <3> QED
      BY <1>0, <1>2, <3>1 DEF ReplayOK, Starting
  <2> QED
    BY <2>2, <2>3, <2>4, <2>5, <2>6
<1>3. CASE PlanRemove
  <2>1. faults' \in 0 .. MaxFaults
    BY <1>3, FaultOK DEF PlanRemove
  <2> QED
    BY <1>1, <1>3, <2>1 DEF PlanRemove
<1>4. CASE PlanCron
  <2>1. CASE PlanNothing
    BY <1>1, <2>1 DEF PlanNothing, TypeOK
  <2>2. CASE ~PlanNothing
    BY <1>2, <1>4, <2>2 DEF PlanCron
  <2> QED
    BY <2>1, <2>2
<1>5. CASE PlanBackup
  <2>1. CASE PlanNothing
    BY <1>1, <2>1 DEF PlanNothing, TypeOK
  <2>2. CASE ~PlanNothing
    BY <1>2, <1>5, <2>2 DEF PlanBackup
  <2> QED
    BY <2>1, <2>2
<1> QED
  BY <1>3, <1>4, <1>5 DEF Plan
-----------------------------------------------------------------------------
(* The action in hand                                                        *)

LEMMA PullInv == ASSUME ScheduleAssumption, BoundsAssumption, CronInv, Pull PROVE CronInv'
<1> USE DEF CronInv
<1>0. /\ pc = "pull"
      /\ (pc' = "clear" /\ due' = due) \/ (pc' = "idle" /\ due' = None)
      /\ UNCHANGED <<kind, now, desired, saved, box, sched, live, fire, since, lastSeen, started,
                     skipped, attempted, wentDown, forgot, deploys>>
  BY DEF Pull, EndAction, worldFrame
<1>1. faults' \in 0 .. MaxFaults
  BY FaultOK DEF Pull
<1>2. TypeOK'
  BY <1>0, <1>1 DEF TypeOK, Pc
<1>3. FlowOK' /\ KillOK'
  BY <1>0 DEF FlowOK, KillOK, Starting
<1>4. RecordOK' /\ SkipOK' /\ ReplayOK'
  BY <1>0 DEF RecordOK, Covers, SkipOK, ReplayOK, Starting
<1> QED
  BY <1>2, <1>3, <1>4

LEMMA ClearInv == ASSUME ScheduleAssumption, BoundsAssumption, CronInv, Clear PROVE CronInv'
<1> USE DEF CronInv
<1>0. /\ pc = "clear" /\ pc' = "record" /\ box' \in {box, NoBox}
      /\ UNCHANGED <<kind, now, desired, saved, due, sched, live, fire, since, lastSeen, started,
                     skipped, attempted, wentDown, forgot, deploys>>
  BY DEF Clear, worldFrame
<1>1. faults' \in 0 .. MaxFaults /\ NoBox \in Boxes /\ NoBox.state # "running"
  BY FaultOK DEF Clear, NoBox, Boxes
<1>2. TypeOK'
  BY <1>0, <1>1 DEF TypeOK, Pc
<1>3. FlowOK' /\ KillOK'
  BY <1>0, <1>1 DEF FlowOK, KillOK, Starting
<1>4. RecordOK' /\ SkipOK' /\ ReplayOK'
  BY <1>0, <1>1 DEF RecordOK, Covers, SkipOK, ReplayOK, Starting
<1> QED
  BY <1>2, <1>3, <1>4

(* record_cron_fire: a record moves on to the fire in hand, in memory and on *)
(* disk, or stays in both.                                                   *)
LEMMA RecordedOK ==
    ASSUME ScheduleAssumption, BoundsAssumption, CronInv,
           pc \in {"record", "skip", "recordDump"}, Recorded \/ NotRecorded
    PROVE  /\ faults' \in 0 .. MaxFaults
           /\ due \in Minute /\ due # None /\ due \in sched /\ due <= now
           /\ fire # None /\ sched # NoService /\ lastSeen = sched
           /\ (\/ fire' = due /\ saved' = due
               \/ NotRecorded /\ fire' = fire /\ saved' = saved)
<1> USE DEF CronInv
<1>1. faults' \in 0 .. MaxFaults
  BY FaultOK DEF Recorded, NotRecorded
<1>2. due \in Minute /\ due # None /\ due \in sched /\ due <= now
         /\ fire # None /\ sched # NoService /\ lastSeen = sched
  BY DEF TypeOK, FlowOK
<1> QED
  BY <1>1, <1>2 DEF Recorded, NotRecorded

LEMMA RecordInv == ASSUME ScheduleAssumption, BoundsAssumption, CronInv, Record PROVE CronInv'
<1> USE DEF CronInv
<1>0. /\ pc = "record"
      /\ (pc' = "run" /\ due' = due) \/ (pc' = "idle" /\ due' = None)
      /\ UNCHANGED <<kind, now, desired, box, sched, live, since, lastSeen, started,
                     skipped, attempted, wentDown, forgot, deploys>>
      /\ Recorded \/ NotRecorded
      /\ pc' = "run" => fire' = due /\ saved' = due
  BY DEF Record, EndAction, worldFrame, Recorded
<1>1. /\ faults' \in 0 .. MaxFaults
      /\ due \in Minute /\ due # None /\ due \in sched /\ due <= now
      /\ fire # None /\ sched # NoService /\ lastSeen = sched
      /\ (\/ fire' = due /\ saved' = due
          \/ fire' = fire /\ saved' = saved)
  BY <1>0, RecordedOK
<1>2. fire < due /\ fire \in Nat /\ due \in Nat /\ since \in Nat
  BY <1>0, <1>1, Values DEF RecordOK, TypeOK
<1>3. \A t \in Minute : t \in Nat /\ (started[t] > 0 => t < due)
  <2>1. \A t \in Minute : started[t] > 0 => t <= fire
    BY <1>1 DEF RecordOK, Covers
  <2> QED
    BY <1>2, <2>1, Values
<1>4. started[due] = 0
  <2>1. started[due] \in Nat /\ ~(due < due)
    BY <1>1, <1>2 DEF TypeOK
  <2> QED
    BY <1>1, <1>3, <2>1
<1>5. TypeOK'
  BY <1>0, <1>1 DEF TypeOK, Pc
<1>6. FlowOK' /\ KillOK'
  BY <1>0, <1>1 DEF FlowOK, KillOK, Starting
<1>7. RecordOK'
  <2>1. Covers(fire)' /\ Covers(saved)' /\ (Covers(box.label) => Covers(box.label)')
    BY <1>0, <1>1, <1>2, <1>3 DEF RecordOK, Covers
  <2> QED
    BY <1>0, <1>4, <2>1 DEF RecordOK
<1>8. SkipOK'
  <2> SUFFICES ASSUME forgot = {} PROVE SkipOK!2'
    BY <1>0 DEF SkipOK
  <2>1. ASSUME NEW t \in skipped PROVE t <= fire' /\ t # due
    <3>1. t <= fire /\ t \in Nat
      BY <1>1, <2>1, Values DEF SkipOK, TypeOK
    <3> QED
      BY <1>1, <1>2, <3>1
  <2> QED
    BY <1>0, <1>1, <2>1 DEF SkipOK
<1>9. ReplayOK'
  <2> SUFFICES ASSUME forgot \ {"file"} = {} PROVE ReplayOK!2'
    BY <1>0 DEF ReplayOK
  <2>1. since <= fire /\ since < due /\ saved = fire
    BY <1>0, <1>1 DEF ReplayOK, Starting
  <2>2. saved' = fire' /\ since <= fire'
    BY <1>1, <1>2, <2>1
  <2> QED
    BY <1>0, <1>1, <2>1, <2>2 DEF ReplayOK, Starting
<1> QED
  BY <1>5, <1>6, <1>7, <1>8, <1>9

LEMMA RunInv == ASSUME ScheduleAssumption, BoundsAssumption, CronInv, Run PROVE CronInv'
<1> USE DEF CronInv
<1>0. /\ pc = "run" /\ pc' = "idle" /\ due' = None
      /\ UNCHANGED <<kind, now, desired, saved, sched, live, fire, since, lastSeen,
                     skipped, attempted, wentDown, forgot, deploys>>
  BY DEF Run, EndAction, worldFrame
<1>1. /\ due \in Minute /\ due # None /\ due <= now /\ due \in Nat
      /\ fire = due /\ saved = due /\ started[due] = 0 /\ kind = "cron"
      /\ sched # NoService /\ lastSeen = sched
  BY <1>0, Values DEF FlowOK, TypeOK, RecordOK, Starting
<1>2. faults' \in 0 .. MaxFaults
  BY FaultOK DEF Run
<1>3. TypeOK /\ \A t \in Minute : started[t] > 0 => t <= due
  BY <1>1 DEF RecordOK, Covers
<1>4. CASE UNCHANGED started /\ box' \in Boxes /\ (box' = box \/ box'.state # "running")
  <2>1. TypeOK'
    BY <1>0, <1>2, <1>4 DEF TypeOK, Pc
  <2>2. FlowOK' /\ KillOK'
    BY <1>0 DEF FlowOK, KillOK, Starting
  <2>3. RecordOK' /\ SkipOK' /\ ReplayOK'
    BY <1>0, <1>4 DEF RecordOK, Covers, SkipOK, ReplayOK, Starting
  <2> QED
    BY <2>1, <2>2, <2>3
<1>5. CASE /\ box' = [state |-> "running", label |-> due]
           /\ started' = [started EXCEPT ![due] = @ + 1]
  <2>1. \A t \in Minute : started'[t] = IF t = due THEN 1 ELSE started[t]
    BY <1>1, <1>3, <1>5 DEF TypeOK
  <2>2. started' \in [Minute -> Nat] /\ box' \in Boxes
    BY <1>1, <1>5 DEF TypeOK, Boxes
  <2>3. TypeOK'
    BY <1>0, <1>2, <2>2 DEF TypeOK, Pc
  <2>4. FlowOK' /\ KillOK'
    BY <1>0 DEF FlowOK, KillOK, Starting
  <2>5. \A t \in Minute : started'[t] > 0 => t <= due
    BY <1>1, <1>3, <2>1
  <2>6. RecordOK'
    <3>1. Covers(fire)' /\ Covers(saved)' /\ Covers(box.label)'
      BY <1>0, <1>1, <1>5, <2>5 DEF Covers
    <3>2. \A t \in Minute : (started'[t] > 0 \/ t \in skipped => t <= now) /\ started'[t] <= 1
      BY <1>1, <2>1 DEF RecordOK
    <3> QED
      BY <1>0, <1>1, <1>5, <3>1, <3>2 DEF RecordOK
  <2>7. SkipOK'
    BY <1>0, <1>1, <2>1 DEF SkipOK, TypeOK
  <2>8. ReplayOK'
    <3>1. forgot \ {"file"} = {} => since < due /\ since <= due
      BY <1>0, <1>1, Values DEF ReplayOK, TypeOK, Starting
    <3> QED
      BY <1>0, <1>1, <1>5, <3>1 DEF ReplayOK, Starting
  <2> QED
    BY <2>3, <2>4, <2>6, <2>7, <2>8
<1>6. \/ UNCHANGED started /\ box' \in Boxes /\ (box' = box \/ box'.state # "running")
      \/ /\ box' = [state |-> "running", label |-> due]
         /\ started' = [started EXCEPT ![due] = @ + 1]
  BY <1>1 DEF Run, TypeOK, Boxes, NoBox
<1> QED
  BY <1>4, <1>5, <1>6

LEMMA SkipInv == ASSUME ScheduleAssumption, BoundsAssumption, CronInv, Skip PROVE CronInv'
<1> USE DEF CronInv
<1>0. /\ pc = "skip" /\ pc' = "idle" /\ due' = None
      /\ UNCHANGED <<kind, now, desired, box, sched, live, since, lastSeen, started,
                     attempted, wentDown, forgot, deploys>>
      /\ (\/ Recorded /\ skipped' = skipped \cup {due}
          \/ NotRecorded /\ UNCHANGED skipped)
  BY DEF Skip, EndAction, worldFrame
<1>1. /\ faults' \in 0 .. MaxFaults
      /\ due \in Minute /\ due # None /\ due \in sched /\ due <= now
      /\ fire # None /\ sched # NoService /\ lastSeen = sched
  BY <1>0, RecordedOK
<1>2. \/ fire' = due /\ saved' = due /\ skipped' = skipped \cup {due}
      \/ fire' = fire /\ saved' = saved /\ skipped' = skipped
  BY <1>0 DEF Recorded, NotRecorded
<1>3. fire < due /\ fire \in Nat /\ due \in Nat /\ since \in Nat
  <2>1. fire < due
    BY <1>0 DEF RecordOK
  <2>2. fire \in Minute /\ since \in Minute
    BY <1>1 DEF TypeOK
  <2> QED
    BY <1>1, <2>1, <2>2, Values
<1>4. \A t \in Minute : t \in Nat /\ (started[t] > 0 => t < due)
  <2>1. \A t \in Minute : started[t] > 0 => t <= fire
    BY <1>1 DEF RecordOK, Covers
  <2> QED
    BY <1>3, <2>1, Values
<1>5. started[due] = 0
  <2>1. started[due] \in Nat /\ ~(due < due)
    BY <1>1, <1>3 DEF TypeOK
  <2> QED
    BY <1>1, <1>4, <2>1
<1>6. TypeOK'
  BY <1>0, <1>1, <1>2 DEF TypeOK, Pc
<1>7. FlowOK' /\ KillOK'
  BY <1>0 DEF FlowOK, KillOK, Starting
<1>8. RecordOK'
  <2>1. Covers(fire)' /\ Covers(saved)' /\ (Covers(box.label) => Covers(box.label)')
    BY <1>0, <1>2, <1>3, <1>4 DEF RecordOK, Covers
  <2>2. \A t \in Minute : started[t] > 0 \/ t \in skipped' => t <= now
    BY <1>1, <1>2 DEF RecordOK
  <2> QED
    BY <1>0, <2>1, <2>2 DEF RecordOK
<1>9. SkipOK'
  <2> SUFFICES ASSUME forgot = {} PROVE SkipOK!2'
    BY <1>0 DEF SkipOK
  <2>1. ASSUME NEW t \in skipped' PROVE t <= fire' /\ started[t] = 0
    <3>1. CASE t = due
      BY <1>1, <1>2, <1>3, <1>5, <2>1, <3>1 DEF SkipOK
    <3>2. CASE t # due
      <4>1. t \in skipped
        BY <1>2, <2>1, <3>2
      <4>2. t <= fire /\ started[t] = 0
        BY <1>1, <4>1 DEF SkipOK
      <4>3. t \in Nat
        BY <4>1, Values DEF TypeOK
      <4> QED
        BY <1>2, <1>3, <4>2, <4>3
    <3> QED
      BY <3>1, <3>2
  <2> QED
    BY <1>0, <1>1, <1>2, <2>1 DEF SkipOK
<1>10. ReplayOK'
  <2> SUFFICES ASSUME forgot \ {"file"} = {} PROVE ReplayOK!2'
    BY <1>0 DEF ReplayOK
  <2>1. since <= fire /\ saved = fire
    BY <1>1 DEF ReplayOK
  <2>2. saved' = fire' /\ since <= fire'
    BY <1>2, <1>3, <2>1
  <2> QED
    BY <1>0, <1>1, <2>2 DEF ReplayOK, Starting
<1> QED
  BY <1>6, <1>7, <1>8, <1>9, <1>10

LEMMA DumpInv == ASSUME ScheduleAssumption, BoundsAssumption, CronInv, Dump PROVE CronInv'
<1> USE DEF CronInv
<1>0. /\ pc = "dump" /\ pc' = "recordDump"
      /\ UNCHANGED <<kind, now, desired, saved, box, due, sched, live, fire, since, lastSeen,
                     started, skipped, forgot, deploys, faults>>
  BY DEF Dump, worldFrame
<1>1. due \in Minute /\ kind = "backup"
  BY <1>0 DEF TypeOK, FlowOK
<1>2. attempted' \in SUBSET Minute /\ wentDown' \in SUBSET Minute
  BY <1>1 DEF Dump, TypeOK
<1>3. TypeOK'
  BY <1>0, <1>2 DEF TypeOK, Pc
<1>4. FlowOK' /\ KillOK'
  BY <1>0, <1>1 DEF FlowOK, KillOK, Starting
<1>5. RecordOK' /\ SkipOK' /\ ReplayOK'
  BY <1>0 DEF RecordOK, Covers, SkipOK, ReplayOK, Starting
<1> QED
  BY <1>3, <1>4, <1>5

LEMMA RecordDumpInv ==
    ASSUME ScheduleAssumption, BoundsAssumption, CronInv, RecordDump PROVE CronInv'
<1> USE DEF CronInv
<1>0. /\ pc = "recordDump" /\ pc' = "idle" /\ due' = None
      /\ UNCHANGED <<kind, now, desired, box, sched, live, since, lastSeen, started,
                     skipped, attempted, wentDown, forgot, deploys>>
      /\ Recorded \/ NotRecorded
  BY DEF RecordDump, EndAction, worldFrame
<1>1. /\ faults' \in 0 .. MaxFaults
      /\ due \in Minute /\ due # None /\ due \in sched /\ due <= now
      /\ fire # None /\ sched # NoService /\ lastSeen = sched
      /\ (\/ fire' = due /\ saved' = due
          \/ fire' = fire /\ saved' = saved)
  BY <1>0, RecordedOK
<1>2. fire < due /\ fire \in Nat /\ due \in Nat /\ since \in Nat
         /\ \A t \in Minute : t \in Nat /\ started[t] = 0
  BY <1>0, <1>1, Values DEF RecordOK, TypeOK, FlowOK
<1>3. TypeOK'
  BY <1>0, <1>1 DEF TypeOK, Pc
<1>4. FlowOK' /\ KillOK'
  BY <1>0 DEF FlowOK, KillOK, Starting
<1>5. RecordOK'
  <2>1. Covers(fire)' /\ Covers(saved)' /\ (Covers(box.label) => Covers(box.label)')
    BY <1>0, <1>2 DEF Covers
  <2> QED
    BY <1>0, <1>2, <2>1 DEF RecordOK
<1>6. SkipOK'
  <2>1. ASSUME forgot = {}, NEW t \in skipped PROVE t <= fire'
    BY <1>1, <1>2, <2>1 DEF SkipOK, TypeOK
  <2> QED
    BY <1>0, <1>1, <2>1 DEF SkipOK
<1>7. ReplayOK'
  <2> SUFFICES ASSUME forgot \ {"file"} = {} PROVE ReplayOK!2'
    BY <1>0 DEF ReplayOK
  <2>1. since <= fire /\ saved = fire
    BY <1>1 DEF ReplayOK
  <2>2. saved' = fire' /\ since <= fire'
    BY <1>1, <1>2, <2>1
  <2> QED
    BY <1>0, <1>1, <2>2 DEF ReplayOK, Starting
<1> QED
  BY <1>3, <1>4, <1>5, <1>6, <1>7

(* Every step keeps the invariant.                                           *)
LEMMA StepInv ==
    ASSUME ScheduleAssumption, BoundsAssumption, CronInv, [Next]_vars PROVE CronInv'
<1>1. CASE Agent
  BY <1>1, SeedInv, PlanInv, PullInv, ClearInv, RecordInv, RunInv, SkipInv, DumpInv,
     RecordDumpInv DEF Agent
<1>2. CASE World
  BY <1>2, ClockInv, DeployInv, OutsideInv, AgentCrashInv DEF World
<1>3. CASE UNCHANGED vars
  BY <1>3 DEF vars, agentVars, CronInv, TypeOK, FlowOK, RecordOK, Covers, SkipOK, ReplayOK, KillOK
<1> QED
  BY <1>1, <1>2, <1>3 DEF Next

(* The clock, the three records of the last fire and the step of the tick     *)
(* fit together in every reachable state.                                    *)
THEOREM Invariant == ASSUME ScheduleAssumption, BoundsAssumption PROVE Spec => []CronInv
<1>1. Init => CronInv
  BY InitInv
<1>2. CronInv /\ [Next]_vars => CronInv'
  BY StepInv
<1> QED
  BY <1>1, <1>2, PTL DEF Spec

(* record_cron_fire before docker run: whatever crashes, is lost or fails, a  *)
(* fire starts at most one run, and none if it was recorded as skipped and   *)
(* no record was lost since.                                                 *)
THEOREM FiresStartOnce ==
    ASSUME ScheduleAssumption, BoundsAssumption PROVE Spec => []AtMostOnce
<1>1. CronInv => AtMostOnce
  BY DEF CronInv, RecordOK, SkipOK, AtMostOnce
<1> QED
  BY <1>1, Invariant, PTL

(* apply_one never removes a run in progress to free the name for the next,   *)
(* and no run is started for a fire from before the agent saw the schedule,  *)
(* also when state.json is lost.                                             *)
THEOREM RunsAlwaysDue ==
    ASSUME ScheduleAssumption, BoundsAssumption PROVE Spec => RunsAreDue
<1> DEFINE Unharmed == kind = "cron" /\ box.state = "running" =>
                          box'.state \in {"running", "exited"} \/ sched = NoService
           Timely == \A t \in Minute : started'[t] > started[t] =>
                          t > since \/ forgot \ {"file"} # {}
<1>1. ASSUME CronInv, [Next]_vars PROVE Unharmed
  <2> SUFFICES ASSUME kind = "cron", box.state = "running", sched # NoService
               PROVE  box'.state \in {"running", "exited"}
    OBVIOUS
  <2>1. pc \notin Starting
    BY <1>1 DEF CronInv, KillOK, Starting
  <2>2. CASE RunExits
    BY <1>1, <2>2 DEF RunExits, CronInv, TypeOK, Boxes
  <2>3. CASE UNCHANGED box
    BY <2>3
  <2>4. RunExits \/ UNCHANGED box
    BY <1>1, <2>1 DEF Next, Agent, World, vars, Seed, Plan, PlanNothing, PlanRemove, PlanCron,
       PlanBackup, Pull, Clear, Record, Run, Skip, Dump, RecordDump, Clock, Deploy,
       DatabaseUp, DatabaseDown, Prune, AgentCrash, Starting
  <2> QED
    BY <2>2, <2>3, <2>4
<1>2. ASSUME CronInv, [Next]_vars PROVE Timely
  <2>1. CASE Run
    <3>1. due \in Minute /\ due \in Nat /\ since \in Nat /\ pc = "run"
      BY <1>2, <2>1, Values DEF Run, CronInv, FlowOK, TypeOK
    <3>2. forgot \ {"file"} = {} => since < due
      BY <1>2, <3>1 DEF CronInv, ReplayOK, Starting
    <3>3. \A t \in Minute : started'[t] > started[t] => t = due
      BY <1>2, <2>1, <3>1 DEF Run, CronInv, TypeOK
    <3> QED
      BY <3>1, <3>2, <3>3
  <2>2. CASE UNCHANGED started
    BY <1>2, <2>2 DEF CronInv, TypeOK
  <2>3. Run \/ UNCHANGED started
    BY <1>2 DEF Next, Agent, World, vars, historyVars, Seed, Plan, Pull, Clear, Record,
       Skip, Dump, RecordDump, Clock, Deploy, RunExits, DatabaseUp, DatabaseDown, Prune,
       AgentCrash
  <2> QED
    BY <2>1, <2>2, <2>3
<1>3. CronInv /\ [Next]_vars => [Unharmed]_vars /\ [Timely]_vars
  BY <1>1, <1>2
<1> QED
  BY <1>3, Invariant, PTL DEF Spec, RunsAreDue, RunsAreNotKilled, NoReplay

-----------------------------------------------------------------------------
(* Autoscale                                                                *)

\* Where a rebalance may have put the replicas
Layouts == {<<>>} \cup {Scale!Rebalanced(pool, taken) : pool \in SUBSET Names, taken \in SUBSET Names}

Pass == [stage : Scale!Stages, seen : Scale!Documents, age : Scale!Ages,
         victim : Names \cup {Scale!NoNode}, fresh : BOOLEAN, moved : BOOLEAN,
         goal : Layouts, late : BOOLEAN]

PoolType ==
    /\ nodes \subseteq Names /\ foreign \subseteq Names
    /\ DOMAIN own = Names /\ own = [n \in Names |-> own[n]]
    /\ config \in Scale!Documents
    /\ sinceClaim \in Scale!Ages
    /\ edit # <<>> => edit \in [{1} -> Scale!Documents]
    /\ pass \in [Passes -> Pass]

\* What is on record is the last claim, or newer.
SinceOK == config.age <= sinceClaim

ScaleIn == {"drain", "wait", "gate", "recheck", "teardown"}

\* A pass that observes has read a policy; one that launches has no victim, and
\* one that drains has.
RoomOK(p) ==
    /\ pass[p].stage = "observe" => pass[p].seen.policy # Scale!Off
    /\ pass[p].stage = "launch" => pass[p].victim = Scale!NoNode
    /\ pass[p].stage \in ScaleIn => pass[p].victim # Scale!NoNode

(* What is on a node at its last look is on record until it is torn down.    *)
EmptyOK(p) ==
    pass[p].stage = "teardown" => pass[p].late \/ ~Scale!Hosts(pass[p].victim)

ScalingInv ==
    /\ PoolType /\ SinceOK
    /\ \A p \in Passes : RoomOK(p) /\ EmptyOK(p)

-----------------------------------------------------------------------------
(* The course of a step: what it does to the passes, as far as what they meet *)
(* depends on it.                                                           *)

Decided == {"claim", "put", "launch"} \cup ScaleIn

Ends(p) == pass'[p].stage = "idle" /\ nodes' = nodes

Starts(p) ==
    /\ pass[p].stage = "idle" /\ pass'[p].stage = "observe"
    /\ pass'[p].seen.policy = config.policy /\ nodes' = nodes

\* What it decides fits what it has read and seen.
Resolves(p) ==
    /\ pass[p].stage = "observe" /\ pass'[p].stage = "claim" /\ nodes' = nodes
    /\ IF pass'[p].victim = Scale!NoNode THEN Cardinality(nodes) < pass[p].seen.policy.max
       ELSE Cardinality(nodes) > pass[p].seen.policy.min
    /\ Cardinality(nodes) >= pass[p].seen.policy.min => pass[p].seen.age = Cooldown

GoesOn(p) ==
    /\ pass[p].stage \in Decided /\ pass'[p].stage \in Decided
    /\ pass'[p].victim = pass[p].victim /\ nodes' = nodes

Grows(p) == pass[p].stage = "launch" /\ pass'[p].stage = "spread" /\ nodes \subseteq nodes'

Shrinks(p) == pass[p].stage = "teardown" /\ pass'[p].stage = "idle" /\ nodes' \subseteq nodes

Stays(p) ==
    /\ pass'[p].stage = pass[p].stage /\ pass'[p].victim = pass[p].victim
    /\ pass'[p].seen.policy = pass[p].seen.policy

Moves(p) ==
    /\ config'.policy = config.policy
    /\ \A q \in Passes \ {p} : Stays(q)
    /\ Ends(p) \/ Starts(p) \/ Resolves(p) \/ GoesOn(p) \/ Grows(p) \/ Shrinks(p)

\* One pass moves, or none does.
OneMoves == (\A q \in Passes : Stays(q)) \/ \E p \in Passes : Moves(p)

\* What a pass has read of the last claim stays as old as that, unless another claims.
Ages(q) ==
    pass'[q].stage = "observe" =>
      \/ pass[q].stage = "idle" /\ pass'[q].seen.age <= sinceClaim'
      \/ /\ pass[q].stage = "observe"
         /\ pass[q].seen.age <= sinceClaim => pass'[q].seen.age <= sinceClaim'
      \/ pass[q].stage = "observe" /\ \E p \in Passes \ {q} : Scale!Claims(p)

Course == OneMoves /\ \A q \in Passes : Ages(q)

-----------------------------------------------------------------------------
\* Autoscale's Cardinality is that of FiniteSets.
LEMMA SameSize == \A S : Scale!Cardinality(S) = Cardinality(S)
BY DEF Cardinality, Scale!Cardinality

\* So is its IsFiniteSet.
LEMMA SameFinite == \A S : Scale!IsFiniteSet(S) = IsFiniteSet(S)
BY DEF IsFiniteSet, Scale!IsFiniteSet

\* There are finitely many node names, and none stands for no node.
LEMMA NamesFinite == IsFiniteSet(Names) /\ Scale!NoNode \notin Names
BY ScalingAssumption, SameFinite DEF Scale!AutoscaleAssumption, Scale!NoNode

\* What may be set: a floor of at least one node, and no higher than the ceiling.
LEMMA PolicyFacts ==
    /\ Cooldown \in Nat
    /\ FirstPolicy \in Policies
    /\ Policies \subseteq [min : Nat, max : Nat]
    /\ \A x \in Policies : 1 <= x.min /\ x.min <= x.max
BY ScalingAssumption DEF Scale!AutoscaleAssumption

\* A tick ages what is not yet past the cooldown.
LEMMA OlderFacts ==
    ASSUME NEW a \in Scale!Ages
    PROVE  /\ Scale!Older(a) \in Scale!Ages
           /\ Scale!Older(a) = IF a < Cooldown THEN a + 1 ELSE Cooldown
<1> DEFINE x == IF a < Cooldown THEN a + 1 ELSE Cooldown
<1>1. Cooldown \in Nat /\ a \in 0 .. Cooldown /\ x \in 0 .. Cooldown
  BY PolicyFacts DEF Scale!Ages
<1>2. x \in {a + 1, Cooldown} /\ \A y \in {a + 1, Cooldown} : x <= y
  BY <1>1
<1>3. \A z \in {a + 1, Cooldown} : (\A y \in {a + 1, Cooldown} : z <= y) => z = x
  BY <1>1
<1>4. Scale!Min({a + 1, Cooldown}) = x
  BY <1>2, <1>3 DEF Scale!Min
<1> QED
  BY <1>1, <1>4 DEF Scale!Older, Scale!Ages

\* A rebalance that finds a place says of every node what it takes.
LEMMA RebalancedFacts ==
    ASSUME NEW pool \in SUBSET Names, NEW taken \in SUBSET Names
    PROVE  /\ Scale!Rebalanced(pool, taken) \in Layouts
           /\ Scale!Rebalanced(pool, taken) # <<>> =>
                /\ DOMAIN Scale!Rebalanced(pool, taken) = Names
                /\ Scale!Rebalanced(pool, taken) = [n \in Names |-> Scale!Rebalanced(pool, taken)[n]]
<1> DEFINE Answer(g) == IF g.error # "none" THEN <<>>
                        ELSE [n \in Names |-> IF n \in pool THEN g.plan["web"][n] ELSE 0]
<1>1. Scale!Rebalanced(pool, taken)
        = Answer(Scale!PlanClusterPlacement([n \in pool |-> Scale!Others(n, taken)], <<Scale!Input(Replicas)>>))
  BY DEF Scale!Rebalanced
<1> HIDE DEF Answer
<1>2. \A g : Answer(g) # <<>> => DOMAIN Answer(g) = Names /\ Answer(g) = [n \in Names |-> Answer(g)[n]]
  BY DEF Answer
<1>3. Scale!Rebalanced(pool, taken) \in Layouts
  BY DEF Layouts
<1> QED
  BY <1>1, <1>2, <1>3

\* A pass that has not moved anything has no goal.
LEMMA NowhereIsLayout == <<>> \in Layouts
BY DEF Layouts

\* A pass that does not run is one.
LEMMA IdlePass == Scale!Idle \in Pass
BY PolicyFacts, NowhereIsLayout DEF Scale!Idle, Pass, Scale!Stages, Scale!Unread, Scale!Documents,
   Scale!Off, Scale!Ages

\* A record of a pass that differs in its stage only
LEMMA StageType ==
    ASSUME NEW x \in Pass, NEW stage \in Scale!Stages
    PROVE  LET y == [x EXCEPT !.stage = stage] IN
             /\ y \in Pass /\ y.stage = stage
             /\ y.seen = x.seen /\ y.age = x.age /\ y.victim = x.victim /\ y.fresh = x.fresh
             /\ y.moved = x.moved /\ y.goal = x.goal /\ y.late = x.late
BY DEF Pass

\* Become changes the stage of one pass.
LEMMA BecomeFacts ==
    ASSUME pass \in [Passes -> Pass], NEW p \in Passes, NEW stage \in Scale!Stages,
           Scale!Become(p, stage)
    PROVE  /\ pass' \in [Passes -> Pass]
           /\ pass'[p] = [pass[p] EXCEPT !.stage = stage]
           /\ \A q \in Passes \ {p} : pass'[q] = pass[q]
<1>1. [pass[p] EXCEPT !.stage = stage] \in Pass
  BY StageType
<1> QED
  BY <1>1 DEF Scale!Become

\* Stop ends one pass.
LEMMA StopFacts ==
    ASSUME pass \in [Passes -> Pass], NEW p \in Passes, Scale!Stop(p)
    PROVE  /\ pass' \in [Passes -> Pass]
           /\ pass'[p] = Scale!Idle
           /\ \A q \in Passes \ {p} : pass'[q] = pass[q]
BY IdlePass DEF Scale!Stop

\* A pass that has ended has no victim.
LEMMA IdleFacts == Scale!Idle.stage = "idle" /\ Scale!Idle.victim = Scale!NoNode
BY DEF Scale!Idle

\* The invariant holds at first, with the project's service in its place.
LEMMA InitScaling == Scale!Init => ScalingInv
<1> SUFFICES ASSUME Scale!Init PROVE ScalingInv
  OBVIOUS
<1>1. Standing \in SUBSET Names /\ {} \in SUBSET Names
  BY ScalingAssumption DEF Scale!AutoscaleAssumption
<1>2. Scale!Rebalanced(Standing, {}) # <<>>
  BY ScalingAssumption DEF Scale!StandingAssumption
<1>3. DOMAIN own = Names /\ own = [n \in Names |-> own[n]]
  BY <1>1, <1>2, RebalancedFacts DEF Scale!Init
<1> QED
  BY <1>1, <1>3, PolicyFacts, IdlePass DEF Scale!Init, ScalingInv, PoolType, SinceOK, RoomOK, EmptyOK,
     Scale!Active, Scale!Idle, Scale!Documents, Scale!Ages, ScaleIn

(* A pass ends, decides, or goes on, while the others stand still.           *)
LEMMA QuietStep ==
    ASSUME ScalingInv, NEW p \in Passes, pass' \in [Passes -> Pass],
           \A q \in Passes \ {p} : pass'[q] = pass[q],
           UNCHANGED <<Scale!cloud, config, edit, sinceClaim>>,
           pass'[p].stage = "idle" \/
             (RoomOK(p)' /\ EmptyOK(p)' /\ (Resolves(p) \/ GoesOn(p)))
    PROVE  ScalingInv' /\ Course
<1>0. PoolType /\ SinceOK /\ \A q \in Passes : RoomOK(q) /\ EmptyOK(q)
  BY DEF ScalingInv
<1>1. PoolType'
  BY <1>0 DEF PoolType, Scale!cloud
<1>2. SinceOK'
  BY <1>0 DEF SinceOK
<1>3. \A q \in Passes \ {p} : RoomOK(q)' /\ EmptyOK(q)'
  BY <1>0 DEF RoomOK, EmptyOK, Scale!Hosts, Scale!cloud
<1>4. RoomOK(p)' /\ EmptyOK(p)'
  BY DEF RoomOK, EmptyOK, ScaleIn
<1>5. nodes' = nodes /\ config' = config /\ sinceClaim' = sinceClaim
  BY DEF Scale!cloud
<1>6. \A q \in Passes \ {p} : Stays(q)
  BY DEF Stays
<1>7. Moves(p)
  BY <1>5, <1>6 DEF Moves, Ends
<1>8. pass'[p].stage # "observe"
  BY DEF Resolves, GoesOn, Decided, ScaleIn
<1>9. \A q \in Passes : Ages(q)
  BY <1>5, <1>8 DEF Ages
<1> QED
  BY <1>1, <1>2, <1>3, <1>4, <1>7, <1>9 DEF ScalingInv, Course, OneMoves

\* claimScaleAction reads cluster.json again.
LEMMA ClaimReadInv == ASSUME ScalingInv, NEW p \in Passes, Scale!ClaimRead(p)
    PROVE  ScalingInv' /\ Course
<1>0. pass \in [Passes -> Pass] /\ RoomOK(p) /\ EmptyOK(p)
  BY DEF ScalingInv, PoolType
<1>1. CASE config.policy = Scale!Off
  BY <1>0, <1>1, StopFacts, IdleFacts, QuietStep DEF Scale!ClaimRead
<1>2. CASE config.policy # Scale!Off
  <2> DEFINE x == [pass[p] EXCEPT !.stage = "put", !.fresh = TRUE]
  <2>1. x \in Pass /\ x.stage = "put" /\ x.victim = pass[p].victim
    BY <1>0 DEF Pass, Scale!Stages
  <2>2. pass' = [pass EXCEPT ![p] = x]
    BY <1>0, <1>2, Zenon DEF Scale!ClaimRead
  <2>3. pass' \in [Passes -> Pass] /\ pass'[p] = x /\ \A q \in Passes \ {p} : pass'[q] = pass[q]
    BY <1>0, <2>1, <2>2
  <2> QED
    BY <1>0, <2>1, <2>3, QuietStep DEF Scale!ClaimRead, RoomOK, EmptyOK, GoesOn, Decided, ScaleIn, Scale!cloud
<1> QED
  BY <1>1, <1>2

\* The replicas run where they were moved to.
LEMMA ConfirmInv == ASSUME ScalingInv, NEW p \in Passes, Scale!Confirm(p)
    PROVE  ScalingInv' /\ Course
<1>0. pass \in [Passes -> Pass] /\ RoomOK(p) /\ EmptyOK(p)
  BY DEF ScalingInv, PoolType
<1> DEFINE x == [pass[p] EXCEPT !.stage = "gate", !.goal = <<>>]
<1>1. x \in Pass /\ x.stage = "gate" /\ x.victim = pass[p].victim
  BY <1>0, NowhereIsLayout DEF Pass, Scale!Stages
<1>2. pass' = [pass EXCEPT ![p] = x]
  BY <1>0, Zenon DEF Scale!Confirm
<1>3. pass' \in [Passes -> Pass] /\ pass'[p] = x /\ \A q \in Passes \ {p} : pass'[q] = pass[q]
  BY <1>0, <1>1, <1>2
<1> QED
  BY <1>0, <1>1, <1>3, QuietStep DEF Scale!Confirm, RoomOK, EmptyOK, GoesOn, Decided, ScaleIn, Scale!cloud

\* They do not in time.
LEMMA TimeoutInv == ASSUME ScalingInv, NEW p \in Passes, Scale!Timeout(p)
    PROVE  ScalingInv' /\ Course
<1>0. pass \in [Passes -> Pass] /\ RoomOK(p) /\ EmptyOK(p)
  BY DEF ScalingInv, PoolType
<1> QED
  BY <1>0, StopFacts, IdleFacts, QuietStep DEF Scale!Timeout

\* A call of the pass fails, or the command is killed.
LEMMA BreakInv == ASSUME ScalingInv, NEW p \in Passes, Scale!Break(p)
    PROVE  ScalingInv' /\ Course
<1>0. pass \in [Passes -> Pass] /\ RoomOK(p) /\ EmptyOK(p)
  BY DEF ScalingInv, PoolType
<1> QED
  BY <1>0, StopFacts, IdleFacts, QuietStep DEF Scale!Break

\* The orphan gate: what is still on the victim ends the pass.
LEMMA GateInv == ASSUME ScalingInv, NEW p \in Passes, Scale!Gate(p)
    PROVE  ScalingInv' /\ Course
<1>0. pass \in [Passes -> Pass] /\ RoomOK(p) /\ EmptyOK(p)
  BY DEF ScalingInv, PoolType
<1>1. CASE Scale!Hosts(pass[p].victim)
  BY <1>0, <1>1, StopFacts, IdleFacts, QuietStep DEF Scale!Gate
<1>2. CASE ~(Scale!Hosts(pass[p].victim))
  <2>1. /\ pass' \in [Passes -> Pass] /\ pass'[p] = [pass[p] EXCEPT !.stage = "recheck"]
        /\ \A q \in Passes \ {p} : pass'[q] = pass[q]
    BY <1>0, <1>2, BecomeFacts DEF Scale!Gate, Scale!Stages
  <2>2. /\ pass'[p].stage = "recheck" /\ pass'[p].victim = pass[p].victim
    BY <1>0, <2>1, StageType DEF Scale!Stages
  <2>3. RoomOK(p)'
    BY <1>0, <2>2 DEF Scale!Gate, RoomOK, ScaleIn, Scale!cloud
  <2>4. EmptyOK(p)'
    BY <1>0, <1>2, <2>2 DEF Scale!Gate, EmptyOK, Scale!StillEmpty, Scale!Hosts, Scale!cloud
  <2>5. GoesOn(p)
    BY <2>2 DEF Scale!Gate, GoesOn, Decided, ScaleIn, Scale!cloud
  <2> QED
    BY <1>0, <2>1, <2>3, <2>4, <2>5, QuietStep DEF Scale!Gate
<1> QED
  BY <1>1, <1>2

\* The last look at the victim: from there on EmptyOK speaks of it.
LEMMA RecheckInv == ASSUME ScalingInv, NEW p \in Passes, Scale!Recheck(p)
    PROVE  ScalingInv' /\ Course
<1>0. pass \in [Passes -> Pass] /\ RoomOK(p) /\ EmptyOK(p)
  BY DEF ScalingInv, PoolType
<1>1. CASE ~Scale!StillEmpty(p)
  BY <1>0, <1>1, StopFacts, IdleFacts, QuietStep DEF Scale!Recheck
<1>2. CASE ~(~Scale!StillEmpty(p))
  <2>1. /\ pass' \in [Passes -> Pass] /\ pass'[p] = [pass[p] EXCEPT !.stage = "teardown"]
        /\ \A q \in Passes \ {p} : pass'[q] = pass[q]
    BY <1>0, <1>2, BecomeFacts DEF Scale!Recheck, Scale!Stages
  <2>2. /\ pass'[p].stage = "teardown" /\ pass'[p].victim = pass[p].victim
    BY <1>0, <2>1, StageType DEF Scale!Stages
  <2>3. RoomOK(p)'
    BY <1>0, <2>2 DEF Scale!Recheck, RoomOK, ScaleIn, Scale!cloud
  <2>4. EmptyOK(p)'
    BY <1>0, <1>2, <2>2 DEF Scale!Recheck, EmptyOK, Scale!StillEmpty, Scale!Hosts, Scale!cloud
  <2>5. GoesOn(p)
    BY <2>2 DEF Scale!Recheck, GoesOn, Decided, ScaleIn, Scale!cloud
  <2> QED
    BY <1>0, <2>1, <2>3, <2>4, <2>5, QuietStep DEF Scale!Recheck
<1> QED
  BY <1>1, <1>2

-----------------------------------------------------------------------------
(* What a pass decides                                                      *)

\* The larger of two naturals
LEMMA LargerOfTwo ==
    ASSUME NEW a \in Nat, NEW b \in Nat
    PROVE  Scale!Max({a, b}) = IF a < b THEN b ELSE a
<1> DEFINE x == IF a < b THEN b ELSE a
<1>1. x \in {a, b} /\ \A y \in {a, b} : x >= y
  OBVIOUS
<1>2. \A z \in {a, b} : (\A y \in {a, b} : z >= y) => z = x
  OBVIOUS
<1> QED
  BY <1>1, <1>2 DEF Scale!Max

\* Naturals have a least among them.
LEMMA LeastNatural ==
    ASSUME NEW S \in SUBSET Nat, S # {}
    PROVE  \E x \in S : \A y \in S : x <= y
<1>1. PICK x \in S : \A y \in S : ~ (<<y, x>> \in OpToRel(<, Nat))
  BY NatLessThanWellFounded, WFMin
<1>2. \A y \in S : ~ (y < x)
  BY <1>1 DEF OpToRel
<1> QED
  BY <1>2

\* Of finitely many nodes one is the least used.
LEMMA LeastUsedExists ==
    ASSUME NEW able \in SUBSET Nat, IsFiniteSet(able), able # {},
           NEW load, \A n \in able : load[n] \in [cpu : Nat, memory : Nat]
    PROVE  Scale!LeastUsed(load, able) \in able
<1> DEFINE Lower(n, m) == \/ Scale!Use(load[n]) < Scale!Use(load[m])
                          \/ Scale!Use(load[n]) = Scale!Use(load[m]) /\ n >= m
           Has(S) == \E n \in S : \A m \in S : Lower(n, m)
           Bad == {S \in SUBSET able : S # {} /\ ~Has(S)}
           Sizes == {Cardinality(S) : S \in Bad}
<1>1. \A n \in able : Scale!Use(load[n]) \in Nat
  BY LargerOfTwo DEF Scale!Use
<1>2. \A S \in SUBSET able : IsFiniteSet(S) /\ Cardinality(S) \in Nat
  BY FS_Subset, FS_CardinalityType
<1> DEFINE use == [n \in able |-> Scale!Use(load[n])]
<1>0. /\ use \in [able -> Nat]
      /\ \A n, m \in able : Lower(n, m) <=> use[n] < use[m] \/ (use[n] = use[m] /\ n >= m)
  BY <1>1
<1> HIDE DEF use, Lower
<1>3. \A n, m \in able : Lower(n, n) /\ (Lower(n, m) \/ Lower(m, n))
  BY <1>0
<1>4. \A n, m, k \in able : Lower(n, m) /\ Lower(m, k) => Lower(n, k)
  BY <1>0
<1>5. Bad = {}
  <2> SUFFICES ASSUME Bad # {} PROVE FALSE
    OBVIOUS
  <2>1. Sizes \in SUBSET Nat /\ Sizes # {}
    BY <1>2
  <2>2. PICK S \in Bad : \A T \in Bad : Cardinality(S) <= Cardinality(T)
    <3>1. PICK k \in Sizes : \A l \in Sizes : k <= l
      BY <2>1, LeastNatural
    <3> QED
      BY <3>1
  <2>3. PICK x \in S : TRUE
    OBVIOUS
  <2>4. S \ {x} \in SUBSET able /\ Cardinality(S \ {x}) < Cardinality(S)
    BY <1>2, <2>3, FS_RemoveElement
  <2>5. S \ {x} \notin Bad
    <3>1. Cardinality(S) \in Nat /\ Cardinality(S \ {x}) \in Nat
      BY <1>2, <2>4
    <3>2. ~(Cardinality(S) <= Cardinality(S \ {x}))
      BY <2>4, <3>1
    <3> QED
      BY <2>2, <3>2
  <2>6. CASE S \ {x} = {}
    BY <1>3, <2>3, <2>6
  <2>7. CASE S \ {x} # {}
    <3>1. PICK n \in S \ {x} : \A m \in S \ {x} : Lower(n, m)
      BY <2>4, <2>5, <2>7
    <3>2. CASE Lower(n, x)
      BY <3>1, <3>2, <2>3
    <3>3. CASE Lower(x, n)
      BY <1>3, <1>4, <3>1, <3>3, <2>3
    <3> QED
      BY <1>3, <2>3, <3>1, <3>2, <3>3
  <2> QED
    BY <2>6, <2>7
<1>6. Has(able)
  BY <1>5
<1>7. \E n \in able : \A m \in able :
        \/ Scale!Use(load[n]) < Scale!Use(load[m])
        \/ Scale!Use(load[n]) = Scale!Use(load[m]) /\ n >= m
  BY <1>6 DEF Lower
<1> QED
  BY <1>7 DEF Scale!LeastUsed

\* An action stays in the policy's bounds, and respects the cooldown unless the
\* pool is below its floor.
LEMMA DecisionFacts ==
    ASSUME NEW policy \in Policies, NEW age \in Scale!Ages, nodes \subseteq Names,
           NEW able \in SUBSET nodes,
           NEW load \in [nodes -> Samples \cup {Scale!NoSample}],
           NEW d, d = Scale!PlanAutoscale(policy, age, load, able), d.action # "none"
    PROVE  /\ \/ d.victim = Scale!NoNode /\ Cardinality(nodes) < policy.max
              \/ d.victim \in nodes /\ Cardinality(nodes) > policy.min
           /\ Cardinality(nodes) >= policy.min => age = Cooldown
<1> DEFINE fresh == {n \in DOMAIN load : load[n] # Scale!NoSample}
<1>1. DOMAIN load = nodes /\ Scale!Cardinality(nodes) = Cardinality(nodes)
  BY SameSize
<1>2. IsFiniteSet(nodes) /\ Cardinality(nodes) \in Nat
  BY NamesFinite, FS_Subset, FS_CardinalityType
<1>3. policy.min \in Nat /\ policy.max \in Nat /\ policy.min <= policy.max
  BY PolicyFacts
<1>4. CASE Cardinality(nodes) < policy.min
  <2>1. d = Scale!Out
    BY <1>1, <1>2, <1>3, <1>4 DEF Scale!PlanAutoscale
  <2> QED
    BY <1>2, <1>3, <1>4, <2>1 DEF Scale!Out
<1>5. CASE ~(Cardinality(nodes) < policy.min)
  <2>1. Cardinality(nodes) >= policy.min
    BY <1>2, <1>3, <1>5
  <2>2. age = Cooldown /\ d = Scale!MetricsDecide(policy, load, fresh, able)
    <3>1. ~(age < Cooldown \/ fresh = {})
      BY <1>1, <1>5, <2>1 DEF Scale!PlanAutoscale, Scale!None
    <3> QED
      BY <1>1, <1>5, <2>1, <3>1, PolicyFacts DEF Scale!PlanAutoscale, Scale!Ages
  <2> HIDE DEF fresh
  <2>3. CASE Scale!Hot(load, fresh) /\ Cardinality(nodes) < policy.max
    BY <1>1, <2>2, <2>3 DEF Scale!MetricsDecide, Scale!Out
  <2>4. CASE ~(Scale!Hot(load, fresh) /\ Cardinality(nodes) < policy.max)
    <3>1. /\ Cardinality(nodes) > policy.min /\ Scale!Cold(load) /\ able # {}
          /\ d = Scale!In(Scale!LeastUsed(load, able))
      BY <1>1, <2>2, <2>4 DEF Scale!MetricsDecide, Scale!None
    <3>2. \A n \in able : load[n] \in [cpu : Nat, memory : Nat]
      BY <1>1, <3>1, ScalingAssumption DEF Scale!AutoscaleAssumption, Scale!Cold
    <3>3. able \in SUBSET Nat /\ IsFiniteSet(able)
      BY <1>2, FS_Subset, ScalingAssumption DEF Scale!AutoscaleAssumption
    <3>4. Scale!LeastUsed(load, able) \in able
      BY <3>1, <3>2, <3>3, LeastUsedExists
    <3> QED
      BY <2>2, <3>1, <3>4 DEF Scale!In
  <2> QED
    BY <2>3, <2>4
<1> QED
  BY <1>4, <1>5

\* Only nodes that are there can be drained.
LEMMA DrainableAreThere ==
    ASSUME NEW pool, NEW S, S = DOMAIN pool PROVE Scale!Drainable(pool) \in SUBSET S
BY DEF Scale!Drainable

\* observePool and planAutoscale: the pass has room for what it has decided.
LEMMA ObserveInv == ASSUME ScalingInv, NEW p \in Passes, Scale!Observe(p)
    PROVE  ScalingInv' /\ Course
<1>0. /\ pass \in [Passes -> Pass] /\ RoomOK(p) /\ EmptyOK(p)
      /\ nodes \subseteq Names /\ pass[p].seen \in Scale!Documents
  BY DEF ScalingInv, PoolType, Pass
<1>1. PICK able \in {Scale!Drainable([n \in nodes |-> Scale!Reserved(n)])} :
        \E d \in {Scale!PlanAutoscale(pass[p].seen.policy, pass[p].seen.age, load, able) :
                   load \in [nodes -> Samples \cup {Scale!NoSample}]} :
          IF d.action = "none" THEN Scale!Stop(p)
          ELSE pass' = [pass EXCEPT ![p].stage = "claim", ![p].age = 0, ![p].seen = Scale!Unread,
                                    ![p].victim = d.victim]
  BY Zenon DEF Scale!Observe
<1>2. PICK load \in [nodes -> Samples \cup {Scale!NoSample}] :
        \E d \in {Scale!PlanAutoscale(pass[p].seen.policy, pass[p].seen.age, load, able)} :
          IF d.action = "none" THEN Scale!Stop(p)
          ELSE pass' = [pass EXCEPT ![p].stage = "claim", ![p].age = 0, ![p].seen = Scale!Unread,
                                    ![p].victim = d.victim]
  BY <1>1
<1> DEFINE d == Scale!PlanAutoscale(pass[p].seen.policy, pass[p].seen.age, load, able)
<1>3. able \in SUBSET nodes
  BY <1>1, DrainableAreThere
<1>4. CASE d.action = "none"
  BY <1>0, <1>2, <1>4, StopFacts, IdleFacts, QuietStep DEF Scale!Observe
<1>5. CASE d.action # "none"
  <2> DEFINE x == [pass[p] EXCEPT !.stage = "claim", !.age = 0, !.seen = Scale!Unread, !.victim = d.victim]
  <2>1. pass[p].stage = "observe" /\ pass[p].seen.policy \in Policies /\ pass[p].seen.age \in Scale!Ages
    BY <1>0 DEF Scale!Observe, RoomOK, Scale!Documents
  <2>2. /\ \/ d.victim = Scale!NoNode /\ Cardinality(nodes) < pass[p].seen.policy.max
           \/ d.victim \in nodes /\ Cardinality(nodes) > pass[p].seen.policy.min
        /\ Cardinality(nodes) >= pass[p].seen.policy.min => pass[p].seen.age = Cooldown
    BY <1>0, <1>3, <1>5, <2>1, DecisionFacts
  <2> HIDE DEF d
  <2>3. pass' = [pass EXCEPT ![p] = x]
    BY <1>0, <1>2, <1>5, Zenon DEF d
  <2>4. Scale!Unread \in Scale!Documents /\ 0 \in Scale!Ages
    BY PolicyFacts DEF Scale!Unread, Scale!Documents, Scale!Ages
  <2>5. x \in Pass /\ x.stage = "claim" /\ x.victim = d.victim
    <3>1. pass[p] \in Pass /\ d.victim \in Names \cup {Scale!NoNode}
      BY <1>0, <2>2
    <3> QED
      BY <2>4, <3>1 DEF Pass, Scale!Stages
  <2>6. pass' \in [Passes -> Pass] /\ pass'[p] = x /\ \A q \in Passes \ {p} : pass'[q] = pass[q]
    BY <1>0, <2>3, <2>5
  <2>7. d.victim # Scale!NoNode <=> d.victim \in nodes
    BY <1>0, <2>2, NamesFinite
  <2>8. UNCHANGED <<Scale!cloud, config, edit, sinceClaim>>
    BY DEF Scale!Observe
  <2>9. RoomOK(p)'
    BY <1>0, <2>1, <2>2, <2>5, <2>6, <2>7, <2>8 DEF RoomOK, ScaleIn, Scale!cloud
  <2>10. EmptyOK(p)'
    BY <2>5, <2>6 DEF EmptyOK
  <2>11. Resolves(p)
    BY <2>1, <2>2, <2>5, <2>6, <2>7, <2>8 DEF Resolves, Scale!cloud
  <2> QED
    BY <1>0, <2>6, <2>8, <2>9, <2>10, <2>11, QuietStep
<1> QED
  BY <1>4, <1>5

-----------------------------------------------------------------------------
(* The other steps                                                          *)

\* The record j is that of a pass to which at most something has come.
Kept(j, i) ==
    /\ j \in Pass
    /\ j.stage = i.stage /\ j.seen = i.seen /\ j.victim = i.victim
    /\ i.late => j.late

\* A pass whose ETag is outdated is otherwise the same.
LEMMA FreshFacts ==
    ASSUME NEW x \in Pass PROVE Kept([x EXCEPT !.fresh = FALSE], x)
BY DEF Pass, Kept

\* Marking a pass leaves the rest of it.
LEMMA MarkFacts ==
    ASSUME NEW x \in Pass, NEW b \in BOOLEAN
    PROVE  LET y == [x EXCEPT !.late = x.late \/ b] IN
             /\ y \in Pass /\ y.stage = x.stage /\ y.seen = x.seen /\ y.victim = x.victim
            
             /\ b => y.late
BY DEF Pass

\* Late marks the passes whose victim has got something, and leaves the rest of them.
LEMMA LateFacts ==
    ASSUME NEW f \in [Passes -> Pass], NEW mine, NEW theirs
    PROVE  LET g == Scale!Late(f, mine, theirs) IN
             /\ g \in [Passes -> Pass]
             /\ \A q \in Passes :
                  /\ g[q].stage = f[q].stage /\ g[q].seen = f[q].seen /\ g[q].victim = f[q].victim
                  /\ g[q].stage = "teardown" /\ ~g[q].late
                       => ~(mine[g[q].victim] > 0 \/ g[q].victim \in theirs)
<1> DEFINE came(q) == f[q].stage = "teardown" /\ (mine[f[q].victim] > 0 \/ f[q].victim \in theirs)
           h(q) == [f[q] EXCEPT !.late = @ \/ came(q)]
<1>1. Scale!Late(f, mine, theirs) = [q \in Passes |-> h(q)]
  BY Zenon DEF Scale!Late
<1>2. \A q \in Passes : came(q) \in BOOLEAN
  OBVIOUS
<1>3. \A q \in Passes :
        /\ h(q) \in Pass /\ h(q).stage = f[q].stage /\ h(q).seen = f[q].seen /\ h(q).victim = f[q].victim
        /\ came(q) => h(q).late
  <2> SUFFICES ASSUME NEW q \in Passes
               PROVE  /\ h(q) \in Pass /\ h(q).stage = f[q].stage /\ h(q).seen = f[q].seen
                      /\ h(q).victim = f[q].victim
                      /\ came(q) => h(q).late
    BY Zenon
  <2>1. came(q) \in BOOLEAN
    BY <1>2, Zenon
  <2> HIDE DEF came
  <2>2. f[q] \in Pass
    OBVIOUS
  <2> QED
    BY <2>1, <2>2, MarkFacts
<1> HIDE DEF h
<1> QED
  BY <1>1, <1>3

\* requireCluster: the policy and the last claim as they are now.
LEMMA ReadInv == ASSUME ScalingInv, NEW p \in Passes, Scale!Read(p)
    PROVE  ScalingInv' /\ Course
<1>0. /\ PoolType /\ SinceOK /\ \A q \in Passes : RoomOK(q) /\ EmptyOK(q)
      /\ pass \in [Passes -> Pass] /\ config \in Scale!Documents
  BY DEF ScalingInv, PoolType
<1> DEFINE x == [Scale!Idle EXCEPT !.stage = "observe", !.seen = config]
<1>1. x \in Pass /\ x.stage = "observe" /\ x.seen = config
  BY <1>0, IdlePass DEF Pass, Scale!Stages
<1>2. pass' = [pass EXCEPT ![p] = x]
  BY Zenon DEF Scale!Read
<1> HIDE DEF x
<1>3. /\ pass' \in [Passes -> Pass] /\ pass'[p] = x
      /\ \A q \in Passes \ {p} : pass'[q] = pass[q]
  BY <1>0, <1>1, <1>2
<1>4. /\ UNCHANGED <<Scale!cloud, config, edit, sinceClaim>> /\ config.policy # Scale!Off
      /\ pass[p].stage = "idle"
  BY DEF Scale!Read, Scale!Active
<1>5. PoolType'
  BY <1>0, <1>3, <1>4 DEF PoolType, Scale!cloud
<1>6. SinceOK'
  BY <1>0, <1>4 DEF SinceOK
<1>7. \A q \in Passes : RoomOK(q)' /\ EmptyOK(q)'
  BY <1>0, <1>1, <1>3, <1>4 DEF RoomOK, EmptyOK, Scale!Hosts, Scale!cloud, ScaleIn
<1>8. Moves(p)
  <2>1. Starts(p)
    BY <1>1, <1>3, <1>4 DEF Starts, Scale!cloud
  <2>2. \A q \in Passes \ {p} : Stays(q)
    BY <1>3 DEF Stays
  <2> QED
    BY <1>4, <2>1, <2>2 DEF Moves
<1>9. \A q \in Passes : Ages(q)
  BY <1>0, <1>1, <1>3, <1>4 DEF Ages, SinceOK
<1> QED
  BY <1>5, <1>6, <1>7, <1>8, <1>9 DEF ScalingInv, Course, OneMoves

\* The conditional put of the claim, which outdates the ETags of the other passes.
LEMMA ClaimPutInv == ASSUME ScalingInv, NEW p \in Passes, Scale!ClaimPut(p)
    PROVE  ScalingInv' /\ Course
<1>0. /\ PoolType /\ SinceOK /\ \A q \in Passes : RoomOK(q) /\ EmptyOK(q)
      /\ pass \in [Passes -> Pass] /\ config \in Scale!Documents /\ pass[p] \in Pass
  BY DEF ScalingInv, PoolType
<1>1. CASE ~pass[p].fresh
  BY <1>0, <1>1, StopFacts, IdleFacts, QuietStep DEF Scale!ClaimPut
<1>2. CASE pass[p].fresh
  <2> DEFINE x == [pass[p] EXCEPT !.stage = Scale!Stage(p)]
  <2>0. Scale!Stage(p) \in {"launch", "drain"}
    BY DEF Scale!Stage
  <2>1. /\ x \in Pass /\ x.stage = Scale!Stage(p) /\ x.victim = pass[p].victim
    <3>1. pass[p] \in Pass /\ Scale!Stage(p) \in Scale!Stages
      BY <1>0, <2>0 DEF Scale!Stages
    <3> QED
      BY <3>1, StageType
  <2>2. /\ pass[p].stage = "put" /\ config' = Scale!Stamped(p) /\ sinceClaim' = pass[p].age
        /\ pass' = [q \in Passes |-> IF q = p THEN x ELSE [pass[q] EXCEPT !.fresh = FALSE]]
        /\ UNCHANGED <<Scale!cloud, edit>>
    BY <1>2 DEF Scale!ClaimPut, Scale!Put
  <2>3. /\ pass' \in [Passes -> Pass] /\ pass'[p] = x
        /\ \A q \in Passes \ {p} : Kept(pass'[q], pass[q])
    BY <1>0, <2>1, <2>2, FreshFacts DEF Kept
  <2> HIDE DEF x
  <2>4. /\ config' \in Scale!Documents /\ config'.policy = config.policy /\ config'.age = pass[p].age
        /\ pass[p].age \in Scale!Ages
    BY <1>0, <2>2 DEF Scale!Documents, Pass, Scale!Stamped
  <2>5. PoolType'
    BY <1>0, <2>2, <2>3, <2>4 DEF PoolType, Scale!cloud
  <2>6. SinceOK'
    BY <2>2, <2>4, PolicyFacts DEF SinceOK, Scale!Ages
  <2>7. \A q \in Passes \ {p} : RoomOK(q)' /\ EmptyOK(q)'
    BY <1>0, <2>2, <2>3 DEF RoomOK, EmptyOK, Kept, Scale!Hosts, Scale!cloud, ScaleIn
  <2>8. RoomOK(p)' /\ EmptyOK(p)'
    BY <1>0, <2>1, <2>2, <2>3 DEF RoomOK, EmptyOK, ScaleIn, Scale!Stage, Scale!cloud
  <2>9. Moves(p)
    <3>1. GoesOn(p)
      BY <2>0, <2>1, <2>2, <2>3 DEF GoesOn, Decided, ScaleIn, Scale!cloud
    <3>2. \A q \in Passes \ {p} : Stays(q)
      BY <2>3 DEF Stays, Kept
    <3> QED
      BY <2>4, <3>1, <3>2 DEF Moves
  <2>10. \A q \in Passes : Ages(q)
    <3>1. Scale!Claims(p)
      BY <2>0, <2>1, <2>2, <2>3 DEF Scale!Claims
    <3>2. pass'[p].stage # "observe"
      BY <2>0, <2>1, <2>3
    <3>3. \A q \in Passes \ {p} : pass'[q].stage = pass[q].stage
      BY <2>3 DEF Kept
    <3> HIDE DEF Scale!Claims
    <3> QED
      BY <3>1, <3>2, <3>3 DEF Ages
  <2> QED
    BY <2>5, <2>6, <2>7, <2>8, <2>9, <2>10 DEF ScalingInv, Course, OneMoves
<1> QED
  BY <1>1, <1>2

\* The pool or what is on it changes.
LEMMA PoolStep ==
    ASSUME ScalingInv, PoolType', UNCHANGED <<config, edit, sinceClaim>>, OneMoves,
           \A q \in Passes :
             /\ pass'[q].stage = "observe" => pass[q].stage = "observe" /\ pass'[q].seen = pass[q].seen
             /\ RoomOK(q)' /\ EmptyOK(q)'
    PROVE  ScalingInv' /\ Course
<1>1. SinceOK'
  BY DEF ScalingInv, SinceOK
<1>2. \A q \in Passes : Ages(q)
  BY DEF Ages
<1> QED
  BY <1>1, <1>2 DEF ScalingInv, Course

\* A launched node has a name that was free.
LEMMA LaunchFacts ==
    ASSUME nodes \in SUBSET Names, nodes # Names
    PROVE  Scale!Min(Names \ nodes) \in Names \ nodes
<1>1. Names \ nodes \in SUBSET Nat /\ Names \ nodes # {}
  BY ScalingAssumption DEF Scale!AutoscaleAssumption
<1>2. \E x \in Names \ nodes : \A y \in Names \ nodes : x <= y
  BY <1>1, LeastNatural
<1> QED
  BY <1>2 DEF Scale!Min

\* A node is launched; room for it was there when it was decided, and still is.
LEMMA LaunchInv == ASSUME ScalingInv, NEW p \in Passes, Scale!Launch(p)
    PROVE  ScalingInv' /\ Course
<1>0. /\ PoolType /\ SinceOK /\ \A q \in Passes : RoomOK(q) /\ EmptyOK(q)
      /\ pass \in [Passes -> Pass] /\ config \in Scale!Documents
      /\ nodes \in SUBSET Names /\ foreign \in SUBSET Names
  BY DEF ScalingInv, PoolType
<1>1. /\ nodes' \in SUBSET Names /\ pass[p].stage = "launch"
      /\ UNCHANGED <<own, foreign, running, config, edit, sinceClaim>>
  BY <1>0, LaunchFacts DEF Scale!Launch
<1>2. /\ pass' \in [Passes -> Pass] /\ pass'[p] = [pass[p] EXCEPT !.stage = "spread"]
      /\ \A q \in Passes \ {p} : pass'[q] = pass[q]
  BY <1>0, BecomeFacts DEF Scale!Launch, Scale!Stages
<1>3. /\ pass'[p].stage = "spread" /\ pass'[p].victim = pass[p].victim
  BY <1>0, <1>2, StageType DEF Scale!Stages
<1>4. OneMoves
  <2>1. nodes \subseteq nodes'
    BY DEF Scale!Launch
  <2>2. Grows(p)
    BY <1>1, <1>3, <2>1 DEF Grows
  <2>3. \A q \in Passes \ {p} : Stays(q)
    BY <1>2 DEF Stays
  <2> QED
    BY <1>1, <2>2, <2>3 DEF OneMoves, Moves
<1>5. PoolType'
  BY <1>0, <1>1, <1>2 DEF PoolType
<1>6. \A q \in Passes : RoomOK(q)' /\ EmptyOK(q)'
  <2>1. RoomOK(p)' /\ EmptyOK(p)'
    BY <1>3 DEF RoomOK, EmptyOK, ScaleIn
  <2>2. ASSUME NEW q \in Passes \ {p} PROVE RoomOK(q)' /\ EmptyOK(q)'
    <3>1. RoomOK(q) /\ EmptyOK(q) /\ pass'[q] = pass[q]
      BY <1>0, <1>2
    <3>2. RoomOK(q)'
      BY <3>1 DEF RoomOK, ScaleIn
    <3>3. EmptyOK(q)'
      BY <1>1, <3>1 DEF EmptyOK, Scale!Hosts
    <3> QED
      BY <3>2, <3>3
  <2> QED
    BY <2>1, <2>2
<1> QED
  BY <1>1, <1>2, <1>3, <1>4, <1>5, <1>6, PoolStep

\* The rebalance over the larger pool ends the pass.
LEMMA SpreadInv == ASSUME ScalingInv, NEW p \in Passes, Scale!Spread(p)
    PROVE  ScalingInv' /\ Course
<1>0. /\ PoolType /\ SinceOK /\ \A q \in Passes : RoomOK(q) /\ EmptyOK(q)
      /\ pass \in [Passes -> Pass] /\ config \in Scale!Documents
      /\ nodes \in SUBSET Names /\ foreign \in SUBSET Names
  BY DEF ScalingInv, PoolType
<1> DEFINE f == [pass EXCEPT ![p] = Scale!Idle]
           new == Scale!Rebalanced(nodes, foreign)
<1>1. /\ own' = IF Scale!Deployed /\ new # <<>> THEN new ELSE own
      /\ pass' = Scale!Late(f, own', foreign)
      /\ UNCHANGED <<nodes, foreign, running, config, edit, sinceClaim>>
  BY DEF Scale!Spread
<1>2. DOMAIN own' = Names /\ own' = [n \in Names |-> own'[n]]
  BY <1>0, <1>1, RebalancedFacts DEF PoolType
<1>3. /\ f \in [Passes -> Pass] /\ f[p] = Scale!Idle /\ \A q \in Passes \ {p} : f[q] = pass[q]
  BY <1>0, IdlePass
<1> HIDE DEF f
<1>4. /\ pass' \in [Passes -> Pass]
      /\ \A q \in Passes :
           /\ pass'[q].stage = f[q].stage /\ pass'[q].seen = f[q].seen /\ pass'[q].victim = f[q].victim
           /\ pass'[q].stage = "teardown" /\ ~pass'[q].late
                => ~(own'[pass'[q].victim] > 0 \/ pass'[q].victim \in foreign)
  BY <1>1, <1>3, LateFacts
<1>5. PoolType'
  BY <1>0, <1>1, <1>2, <1>4 DEF PoolType
<1>6. \A q \in Passes : EmptyOK(q)'
  BY <1>1, <1>4 DEF EmptyOK, Scale!Hosts
<1>7. \A q \in Passes : RoomOK(q)'
  BY <1>0, <1>1, <1>3, <1>4, IdleFacts DEF RoomOK, ScaleIn
<1>8. OneMoves
  <2>1. Ends(p)
    BY <1>1, <1>3, <1>4, IdleFacts DEF Ends
  <2>2. \A q \in Passes \ {p} : Stays(q)
    BY <1>3, <1>4 DEF Stays
  <2> QED
    BY <1>1, <2>1, <2>2 DEF OneMoves, Moves
<1> QED
  BY <1>1, <1>3, <1>4, <1>5, <1>6, <1>7, <1>8, IdleFacts, PoolStep

\* The rebalance over the pool without the victim.
LEMMA DrainInv == ASSUME ScalingInv, NEW p \in Passes, Scale!Drain(p)
    PROVE  ScalingInv' /\ Course
<1>0. /\ PoolType /\ SinceOK /\ \A q \in Passes : RoomOK(q) /\ EmptyOK(q)
      /\ pass \in [Passes -> Pass] /\ config \in Scale!Documents
      /\ nodes \in SUBSET Names /\ foreign \in SUBSET Names
  BY DEF ScalingInv, PoolType
<1> DEFINE new == Scale!Rebalanced(nodes \ {pass[p].victim}, foreign)
<1>1. /\ pass[p].stage = "drain"
      /\ UNCHANGED <<nodes, foreign, running, config, edit, sinceClaim>>
  BY DEF Scale!Drain
<1>2. CASE Scale!Stop(p) /\ UNCHANGED own
  BY <1>0, <1>1, <1>2, StopFacts, IdleFacts, QuietStep DEF Scale!cloud
<1>3. CASE Scale!Become(p, "gate") /\ UNCHANGED own
  <2>1. /\ pass' \in [Passes -> Pass] /\ pass'[p] = [pass[p] EXCEPT !.stage = "gate"]
        /\ \A q \in Passes \ {p} : pass'[q] = pass[q]
    BY <1>0, <1>3, BecomeFacts DEF Scale!Stages
  <2>2. /\ pass'[p].stage = "gate" /\ pass'[p].victim = pass[p].victim
    BY <1>0, <2>1, StageType DEF Scale!Stages
  <2>3. RoomOK(p)' /\ EmptyOK(p)'
    BY <1>0, <1>1, <2>2 DEF RoomOK, EmptyOK, ScaleIn
  <2>4. GoesOn(p)
    BY <1>1, <2>2 DEF GoesOn, Decided, ScaleIn
  <2> QED
    BY <1>1, <1>3, <2>1, <2>3, <2>4, QuietStep DEF Scale!cloud
<1>4. CASE /\ new # <<>> /\ own' = new
           /\ pass' = Scale!Late([pass EXCEPT ![p].stage = "wait", ![p].moved = TRUE,
                                              ![p].goal = new], new, foreign)
  <2> DEFINE x == [pass[p] EXCEPT !.stage = "wait", !.moved = TRUE, !.goal = new]
             f == [pass EXCEPT ![p] = x]
  <2>0. nodes \ {pass[p].victim} \in SUBSET Names
    BY <1>0
  <2>1. DOMAIN own' = Names /\ own' = [n \in Names |-> own'[n]] /\ new \in Layouts
    BY <1>0, <1>4, <2>0, RebalancedFacts
  <2>2. pass' = Scale!Late(f, own', foreign)
    BY <1>0, <1>4, Zenon
  <2> HIDE DEF new
  <2>3. x \in Pass /\ x.stage = "wait" /\ x.victim = pass[p].victim
    <3>1. pass[p] \in Pass /\ new \in Layouts
      BY <1>0, <2>1
    <3> QED
      BY <3>1 DEF Pass, Scale!Stages
  <2>4. /\ f \in [Passes -> Pass] /\ f[p] = x /\ \A q \in Passes \ {p} : f[q] = pass[q]
    BY <1>0, <2>3
  <2> HIDE DEF f, x
  <2>5. /\ pass' \in [Passes -> Pass]
        /\ \A q \in Passes :
             /\ pass'[q].stage = f[q].stage /\ pass'[q].seen = f[q].seen /\ pass'[q].victim = f[q].victim
             /\ pass'[q].stage = "teardown" /\ ~pass'[q].late
                  => ~(own'[pass'[q].victim] > 0 \/ pass'[q].victim \in foreign)
    BY <2>2, <2>4, LateFacts
  <2>6. PoolType'
    BY <1>0, <1>1, <2>1, <2>5 DEF PoolType
  <2>7. \A q \in Passes : EmptyOK(q)'
    BY <1>1, <2>5 DEF EmptyOK, Scale!Hosts
  <2>8. \A q \in Passes : RoomOK(q)'
    BY <1>0, <1>1, <2>3, <2>4, <2>5 DEF RoomOK, ScaleIn
  <2>9. OneMoves
    <3>1. GoesOn(p)
      BY <1>1, <2>3, <2>4, <2>5 DEF GoesOn, Decided, ScaleIn
    <3>2. \A q \in Passes \ {p} : Stays(q)
      BY <2>4, <2>5 DEF Stays
    <3> QED
      BY <1>1, <3>1, <3>2 DEF OneMoves, Moves
  <2> QED
    BY <1>1, <2>3, <2>4, <2>5, <2>6, <2>7, <2>8, <2>9, PoolStep
<1> QED
  BY <1>2, <1>3, <1>4 DEF Scale!Drain

\* teardownNode, with all that is recorded of the node.
LEMMA TeardownInv == ASSUME ScalingInv, NEW p \in Passes, Scale!Teardown(p)
    PROVE  ScalingInv' /\ Course
<1>0. /\ PoolType /\ SinceOK /\ \A q \in Passes : RoomOK(q) /\ EmptyOK(q)
      /\ pass \in [Passes -> Pass] /\ config \in Scale!Documents
      /\ nodes \in SUBSET Names /\ foreign \in SUBSET Names
  BY DEF ScalingInv, PoolType
<1> DEFINE v == pass[p].victim
<1>1. /\ pass[p].stage = "teardown" /\ nodes' = nodes \ {v} /\ own' = [own EXCEPT ![v] = 0]
      /\ foreign' = foreign \ {v} /\ UNCHANGED <<config, edit, sinceClaim>>
  BY DEF Scale!Teardown
<1>2. /\ pass' \in [Passes -> Pass] /\ pass'[p] = Scale!Idle
      /\ \A q \in Passes \ {p} : pass'[q] = pass[q]
  BY <1>0, StopFacts DEF Scale!Teardown
<1>3. DOMAIN own' = Names /\ own' = [n \in Names |-> own'[n]]
  BY <1>0, <1>1 DEF PoolType
<1>4. PoolType'
  BY <1>0, <1>1, <1>2, <1>3 DEF PoolType
<1>5. OneMoves
  <2>1. Shrinks(p)
    BY <1>1, <1>2, IdleFacts DEF Shrinks
  <2>2. \A q \in Passes \ {p} : Stays(q)
    BY <1>2 DEF Stays
  <2> QED
    BY <1>1, <2>1, <2>2 DEF OneMoves, Moves
<1>6. \A n \in Names : own'[n] > 0 => own[n] > 0
  BY <1>0, <1>1 DEF PoolType
<1>7. \A q \in Passes : EmptyOK(q)'
  <2> SUFFICES ASSUME NEW q \in Passes, pass'[q].stage = "teardown", ~pass'[q].late
               PROVE  ~(own'[pass'[q].victim] > 0 \/ pass'[q].victim \in foreign')
    BY DEF EmptyOK, Scale!Hosts
  <2>1. q # p /\ pass'[q] = pass[q]
    BY <1>2, IdleFacts
  <2>2. ~(own[pass[q].victim] > 0 \/ pass[q].victim \in foreign) /\ pass[q].victim # Scale!NoNode
    BY <1>0, <2>1 DEF EmptyOK, Scale!Hosts, RoomOK, ScaleIn
  <2>3. pass[q].victim \in Names
    BY <1>0, <2>2 DEF Pass
  <2> QED
    BY <1>1, <1>6, <2>1, <2>2, <2>3
<1>8. \A q \in Passes : RoomOK(q)'
  BY <1>0, <1>1, <1>2, IdleFacts DEF RoomOK, ScaleIn
<1> QED
  BY <1>1, <1>2, <1>4, <1>5, <1>7, <1>8, IdleFacts, PoolStep

\* An agent brings its node up to date.
LEMMA AgentInv == ASSUME ScalingInv, NEW n \in Names, Scale!Agent(n)
    PROVE  ScalingInv' /\ Course
<1>1. ScalingInv'
  BY DEF Scale!Agent, ScalingInv, PoolType, SinceOK, RoomOK, EmptyOK, ScaleIn, Scale!Hosts
<1>2. pass' = pass /\ sinceClaim' = sinceClaim
  BY DEF Scale!Agent
<1>3. Course
  BY <1>2 DEF Course, OneMoves, Stays, Ages
<1> QED
  BY <1>1, <1>3

\* Another command reads cluster.json.
LEMMA EditReadInv == ASSUME ScalingInv, Scale!EditRead
    PROVE  ScalingInv' /\ Course
<1>1. edit' \in [{1} -> Scale!Documents]
  BY DEF Scale!EditRead, ScalingInv, PoolType
<1>2. ScalingInv'
  BY <1>1 DEF Scale!EditRead, Scale!cloud, ScalingInv, PoolType, SinceOK, RoomOK, EmptyOK, ScaleIn, Scale!Hosts
<1>3. pass' = pass /\ sinceClaim' = sinceClaim
  BY DEF Scale!EditRead
<1>4. Course
  BY <1>3 DEF Course, OneMoves, Stays, Ages
<1> QED
  BY <1>2, <1>4

\* Another project deploys or destroys.
LEMMA ForeignPublishInv == ASSUME ScalingInv, NEW n \in Names, Scale!ForeignPublish(n)
    PROVE  ScalingInv' /\ Course
<1>0. /\ PoolType /\ SinceOK /\ \A q \in Passes : RoomOK(q) /\ EmptyOK(q)
      /\ pass \in [Passes -> Pass] /\ config \in Scale!Documents
      /\ nodes \in SUBSET Names /\ foreign \in SUBSET Names
  BY DEF ScalingInv, PoolType
<1>1. /\ n \in nodes /\ UNCHANGED <<nodes, own, running, config, edit, sinceClaim>>
      /\ foreign' \subseteq foreign \cup {n}
      /\ pass' = Scale!Late(pass, own, foreign')
  BY DEF Scale!ForeignPublish
<1>2. /\ pass' \in [Passes -> Pass]
      /\ \A q \in Passes :
           /\ pass'[q].stage = pass[q].stage /\ pass'[q].seen = pass[q].seen /\ pass'[q].victim = pass[q].victim
           /\ pass'[q].stage = "teardown" /\ ~pass'[q].late
                => ~(own[pass'[q].victim] > 0 \/ pass'[q].victim \in foreign')
  BY <1>0, <1>1, LateFacts
<1>3. PoolType'
  BY <1>0, <1>1, <1>2 DEF PoolType
<1>4. \A q \in Passes : EmptyOK(q)'
  BY <1>1, <1>2 DEF EmptyOK, Scale!Hosts
<1>5. \A q \in Passes : RoomOK(q)'
  BY <1>0, <1>1, <1>2 DEF RoomOK, ScaleIn
<1>6. OneMoves
  BY <1>2 DEF OneMoves, Stays
<1> QED
  BY <1>1, <1>2, <1>3, <1>4, <1>5, <1>6, PoolStep

\* A node is destroyed by hand.
LEMMA DestroyInv == ASSUME ScalingInv, NEW n \in Names, Scale!Destroy(n)
    PROVE  ScalingInv' /\ Course
<1>1. /\ nodes' = nodes \ {n} /\ UNCHANGED <<own, foreign, config, pass, edit, sinceClaim>>
  BY DEF Scale!Destroy
<1>2. PoolType'
  BY <1>1 DEF ScalingInv, PoolType
<1>3. \A q \in Passes : RoomOK(q)' /\ EmptyOK(q)'
  BY <1>1 DEF ScalingInv, RoomOK, EmptyOK, Scale!Hosts
<1>4. OneMoves
  BY <1>1 DEF OneMoves, Stays
<1> QED
  BY <1>1, <1>2, <1>3, <1>4, PoolStep

\* cluster.json is put by a command: ETags are outdated.
LEMMA PutStep ==
    ASSUME ScalingInv, UNCHANGED Scale!cloud, config' \in Scale!Documents,
           edit' # <<>> => edit' \in [{1} -> Scale!Documents],
           (sinceClaim' = sinceClaim /\ config'.age <= sinceClaim) \/ sinceClaim' = Cooldown,
           pass' = [q \in Passes |-> [pass[q] EXCEPT !.fresh = FALSE]]
    PROVE  ScalingInv' /\ Course
<1>0. /\ PoolType /\ SinceOK /\ \A q \in Passes : RoomOK(q) /\ EmptyOK(q)
      /\ pass \in [Passes -> Pass] /\ config \in Scale!Documents
      /\ nodes \in SUBSET Names /\ foreign \in SUBSET Names
  BY DEF ScalingInv, PoolType
<1>1. pass' \in [Passes -> Pass] /\ \A q \in Passes : Kept(pass'[q], pass[q])
  BY <1>0, FreshFacts DEF Kept
<1>2. /\ sinceClaim' \in Scale!Ages /\ config'.age <= sinceClaim' /\ sinceClaim <= sinceClaim'
  BY <1>0, PolicyFacts DEF PoolType, Scale!Ages, Scale!Documents
<1>3. PoolType'
  BY <1>0, <1>1, <1>2 DEF PoolType, Scale!cloud
<1>4. \A q \in Passes : pass[q].seen.age \in Scale!Ages
  BY <1>0 DEF Pass, Scale!Documents
<1>5. \A q \in Passes : Ages(q)
  <2> SUFFICES ASSUME NEW q \in Passes, pass'[q].stage = "observe", pass[q].seen.age <= sinceClaim
               PROVE  pass[q].stage = "observe" /\ pass'[q].seen.age <= sinceClaim'
    BY <1>1 DEF Ages, Kept
  <2>1. pass[q].stage = "observe" /\ pass'[q].seen = pass[q].seen
    BY <1>1 DEF Kept
  <2>2. pass[q].seen.age \in Nat /\ sinceClaim \in Nat /\ sinceClaim' \in Nat
    BY <1>0, <1>2, <1>4, PolicyFacts DEF PoolType, Scale!Ages
  <2> QED
    BY <1>2, <2>1, <2>2
<1>6. OneMoves
  BY <1>1 DEF OneMoves, Stays, Kept
<1>7. \A q \in Passes : EmptyOK(q)'
  BY <1>0, <1>1 DEF EmptyOK, Scale!Hosts, Kept, Scale!cloud
<1>8. \A q \in Passes : RoomOK(q)'
  BY <1>0, <1>1 DEF RoomOK, ScaleIn, Kept
<1> QED
  BY <1>2, <1>3, <1>5, <1>6, <1>7, <1>8 DEF ScalingInv, SinceOK, Course

\* autoscale set and autoscale off.
LEMMA SetPolicyInv ==
    ASSUME ScalingInv, NEW policy \in Policies \cup {Scale!Off}, Scale!SetPolicy(policy)
    PROVE  ScalingInv' /\ Course
<1>1. /\ UNCHANGED <<Scale!cloud, edit>> /\ config' = [policy |-> policy, age |-> Cooldown]
      /\ pass' = [q \in Passes |-> [pass[q] EXCEPT !.fresh = FALSE]]
      /\ sinceClaim' = Cooldown
  BY DEF Scale!SetPolicy
<1>2. config' \in Scale!Documents
  <2>1. Cooldown \in Scale!Ages
    BY PolicyFacts DEF Scale!Ages
  <2> QED
    BY <1>1, <2>1 DEF Scale!Documents
<1>3. edit' # <<>> => edit' \in [{1} -> Scale!Documents]
  BY <1>1 DEF ScalingInv, PoolType
<1> QED
  BY <1>1, <1>2, <1>3, PutStep

\* cluster.json is put back as it was read before, without a condition.
LEMMA EditWriteInv == ASSUME ScalingInv, Scale!EditWrite
    PROVE  ScalingInv' /\ Course
<1>1. /\ UNCHANGED Scale!cloud /\ edit # <<>> /\ edit' = <<>> /\ config' = edit[1]
      /\ pass' = [q \in Passes |-> [pass[q] EXCEPT !.fresh = FALSE]]
      /\ sinceClaim' = IF edit[1] = config THEN sinceClaim ELSE Cooldown
  BY DEF Scale!EditWrite
<1>2. config' \in Scale!Documents /\ (edit[1] = config => config'.age <= sinceClaim)
  BY <1>1 DEF ScalingInv, PoolType, SinceOK
<1> QED
  BY <1>1, <1>2, PutStep

\* Time passes: all ages grow alike.
LEMMA TickInv == ASSUME ScalingInv, Scale!Tick
    PROVE  ScalingInv' /\ Course
<1>0. /\ PoolType /\ SinceOK /\ \A q \in Passes : RoomOK(q) /\ EmptyOK(q)
      /\ pass \in [Passes -> Pass] /\ config \in Scale!Documents
  BY DEF ScalingInv, PoolType
<1> DEFINE later(q) == [pass[q] EXCEPT !.seen.age = Scale!Older(@),
                                       !.age = IF pass[q].stage \in {"claim", "put"} THEN Scale!Older(@) ELSE 0]
<1>1. /\ UNCHANGED Scale!cloud /\ config' = [config EXCEPT !.age = Scale!Older(@)]
      /\ edit' = [i \in DOMAIN edit |-> [edit[i] EXCEPT !.age = Scale!Older(@)]]
      /\ sinceClaim' = Scale!Older(sinceClaim)
      /\ pass' = [q \in Passes |-> later(q)]
  BY Zenon DEF Scale!Tick
<1>2. ASSUME NEW x \in Scale!Documents
      PROVE  /\ [x EXCEPT !.age = Scale!Older(@)] \in Scale!Documents
             /\ [x EXCEPT !.age = Scale!Older(@)].policy = x.policy
             /\ [x EXCEPT !.age = Scale!Older(@)].age = Scale!Older(x.age)
  <2>1. Scale!Older(x.age) \in Scale!Ages
    BY OlderFacts DEF Scale!Documents
  <2> QED
    BY <2>1 DEF Scale!Documents
<1>3. ASSUME NEW x \in Pass, NEW a \in Scale!Ages, NEW y, y = [x EXCEPT !.seen.age = Scale!Older(@), !.age = a]
      PROVE  /\ y \in Pass /\ y.stage = x.stage /\ y.victim = x.victim
             /\ y.seen.policy = x.seen.policy /\ y.seen.age = Scale!Older(x.seen.age)
             /\ x.late => y.late
  <2> DEFINE z == [x.seen EXCEPT !.age = Scale!Older(@)]
  <2>1. x.seen \in Scale!Documents
    BY DEF Pass
  <2>2. z \in Scale!Documents /\ z.policy = x.seen.policy /\ z.age = Scale!Older(x.seen.age)
    BY <1>2, <2>1
  <2>3. y = [x EXCEPT !.seen = z, !.age = a]
    BY <1>3, Zenon
  <2> HIDE DEF z
  <2> QED
    BY <2>2, <2>3 DEF Pass
<1>4. \A q \in Passes :
        /\ pass[q] \in Pass
        /\ (IF pass[q].stage \in {"claim", "put"} THEN Scale!Older(pass[q].age) ELSE 0) \in Scale!Ages
  <2>1. 0 \in Scale!Ages
    BY PolicyFacts DEF Scale!Ages
  <2>2. \A q \in Passes : pass[q] \in Pass /\ pass[q].age \in Scale!Ages
    BY <1>0 DEF Pass
  <2> QED
    BY <2>1, <2>2, OlderFacts
<1>5. \A q \in Passes :
        /\ pass'[q] \in Pass /\ pass'[q].stage = pass[q].stage /\ pass'[q].victim = pass[q].victim
        /\ pass'[q].seen.policy = pass[q].seen.policy /\ pass'[q].seen.age = Scale!Older(pass[q].seen.age)
        /\ pass[q].late => pass'[q].late
  <2> SUFFICES ASSUME NEW q \in Passes
               PROVE /\ pass'[q] \in Pass /\ pass'[q].stage = pass[q].stage /\ pass'[q].victim = pass[q].victim
                     /\ pass'[q].seen.policy = pass[q].seen.policy /\ pass'[q].seen.age = Scale!Older(pass[q].seen.age)
                     /\ pass[q].late => pass'[q].late
    OBVIOUS
  <2> DEFINE a == IF pass[q].stage \in {"claim", "put"} THEN Scale!Older(pass[q].age) ELSE 0
  <2>1. pass'[q] = [pass[q] EXCEPT !.seen.age = Scale!Older(@), !.age = a]
    BY <1>1, Zenon
  <2>2. a \in Scale!Ages /\ pass[q] \in Pass
    BY <1>4
  <2> HIDE DEF a
  <2> QED
    BY <1>3, <2>1, <2>2
<1>6. pass' \in [Passes -> Pass]
  <2> HIDE DEF later
  <2> QED
    BY <1>1, <1>5
<1>7. edit' # <<>> => edit' \in [{1} -> Scale!Documents]
  <2>1. CASE edit = <<>>
    <3> DEFINE aged(i) == [edit[i] EXCEPT !.age = Scale!Older(@)]
    <3>0. edit' = [i \in DOMAIN edit |-> aged(i)]
      BY <1>1, Zenon
    <3> HIDE DEF aged
    <3>1. DOMAIN edit = {}
      BY <2>1
    <3>2. edit' = [i \in {} |-> aged(i)]
      BY <3>0, <3>1
    <3>3. edit' = <<>>
      BY <3>2
    <3> QED
      BY <3>3
  <2>2. CASE edit # <<>>
    <3>1. DOMAIN edit = {1} /\ edit[1] \in Scale!Documents
      BY <1>0, <2>2 DEF PoolType
    <3>2. edit' = [i \in {1} |-> [edit[i] EXCEPT !.age = Scale!Older(@)]]
      BY <1>1, <3>1
    <3> QED
      BY <1>2, <3>1, <3>2
  <2> QED
    BY <2>1, <2>2
<1>8. /\ config' \in Scale!Documents /\ config'.policy = config.policy /\ config'.age = Scale!Older(config.age)
      /\ config.age \in Scale!Ages /\ sinceClaim \in Scale!Ages
  BY <1>0, <1>1, <1>2 DEF PoolType, Scale!Documents
<1>9. PoolType'
  BY <1>0, <1>1, <1>6, <1>7, <1>8, OlderFacts DEF PoolType, Scale!cloud
<1>10. \A a, b \in Scale!Ages : a <= b => Scale!Older(a) <= Scale!Older(b)
  BY OlderFacts, PolicyFacts DEF Scale!Ages
<1>11. SinceOK'
  BY <1>0, <1>1, <1>8, <1>10 DEF SinceOK
<1>12. Course
  <2>1. \A q \in Passes : pass[q].seen.age \in Scale!Ages
    BY <1>0 DEF Pass, Scale!Documents
  <2>2. \A q \in Passes : pass[q].seen.age <= sinceClaim => pass'[q].seen.age <= sinceClaim'
    BY <1>1, <1>5, <1>8, <1>10, <2>1
  <2>3. \A q \in Passes : Stays(q) /\ Ages(q)
    BY <1>5, <2>2 DEF Stays, Ages
  <2> QED
    BY <2>3 DEF Course, OneMoves
<1>13. \A q \in Passes : EmptyOK(q)'
  <2> SUFFICES ASSUME NEW q \in Passes, pass'[q].stage = "teardown", ~pass'[q].late
               PROVE  ~Scale!Hosts(pass[q].victim)
    <3>1. \A q \in Passes : pass'[q].victim = pass[q].victim
      BY <1>5
    <3>2. own' = own /\ foreign' = foreign
      BY <1>1 DEF Scale!cloud
    <3> QED
      BY <3>1, <3>2 DEF EmptyOK, Scale!Hosts
  <2>1. pass[q].stage = "teardown" /\ ~pass[q].late
    BY <1>1, <1>5
  <2> QED
    BY <1>0, <2>1 DEF EmptyOK
<1>14. \A q \in Passes : RoomOK(q)'
  <2> SUFFICES ASSUME NEW q \in Passes PROVE RoomOK(q)'
    OBVIOUS
  <2>1. RoomOK(q) /\ nodes' = nodes /\ config'.policy = config.policy
    BY <1>0, <1>1, <1>8 DEF Scale!cloud
  <2>2. pass'[q].stage = "observe" => pass[q].seen \in Scale!Documents /\ pass'[q].seen \in Scale!Documents
    BY <1>0, <1>5 DEF Pass
  <2> QED
    BY <1>5, <2>1, <2>2 DEF RoomOK, ScaleIn
<1> QED
  BY <1>9, <1>11, <1>12, <1>13, <1>14 DEF ScalingInv

\* Every step keeps the invariant, and takes its course.
LEMMA ScalingNext == ScalingInv /\ [Scale!Next]_(Scale!vars) => ScalingInv' /\ Course
<1> SUFFICES ASSUME ScalingInv, [Scale!Next]_(Scale!vars) PROVE ScalingInv' /\ Course
  OBVIOUS
<1>1. ASSUME NEW p \in Passes, Scale!Step(p) PROVE ScalingInv' /\ Course
  BY <1>1, ReadInv, ObserveInv, ClaimReadInv, ClaimPutInv, LaunchInv, SpreadInv, DrainInv, ConfirmInv,
     TimeoutInv, GateInv, RecheckInv, TeardownInv DEF Scale!Step
<1>2. CASE UNCHANGED Scale!vars
  <2>1. ScalingInv'
    BY <1>2 DEF Scale!vars, Scale!cloud, ScalingInv, PoolType, SinceOK, RoomOK, EmptyOK, ScaleIn, Scale!Hosts
  <2>2. pass' = pass /\ sinceClaim' = sinceClaim
    BY <1>2 DEF Scale!vars
  <2>3. Course
    BY <2>2 DEF Course, OneMoves, Stays, Ages
  <2> QED
    BY <2>1, <2>3
<1> QED
  BY <1>1, <1>2, BreakInv, AgentInv, ForeignPublishInv, DestroyInv, SetPolicyInv, EditReadInv, EditWriteInv,
     TickInv DEF Scale!Next

\* The pool grows by one node at most in a step, and shrinks by one at most.
LEMMA OneNodeAtATime ==
    ASSUME ScalingInv, [Scale!Next]_(Scale!vars)
    PROVE  /\ IsFiniteSet(nodes) /\ Cardinality(nodes) \in Nat
           /\ Cardinality(nodes') \in Nat
           /\ Cardinality(nodes') <= Cardinality(nodes) + 1
           /\ Cardinality(nodes') >= Cardinality(nodes) - 1
<1>1. IsFiniteSet(nodes) /\ Cardinality(nodes) \in Nat
  BY NamesFinite, FS_Subset, FS_CardinalityType DEF ScalingInv, PoolType
<1>2. \/ nodes' = nodes
      \/ \E n : nodes' = nodes \ {n}
      \/ \E n : nodes' = nodes \cup {n}
  <2>1. ASSUME NEW p \in Passes, Scale!Step(p) \/ Scale!Break(p)
        PROVE  nodes' = nodes \/ (\E n : nodes' = nodes \ {n}) \/ (\E n : nodes' = nodes \cup {n})
    BY <2>1 DEF Scale!Step, Scale!Break, Scale!Read, Scale!Observe, Scale!ClaimRead, Scale!ClaimPut, Scale!Launch,
       Scale!Spread, Scale!Drain, Scale!Confirm, Scale!Timeout, Scale!Gate, Scale!Recheck, Scale!Teardown, Scale!cloud
  <2> QED
    BY <2>1 DEF Scale!Next, Scale!vars, Scale!cloud, Scale!Agent, Scale!ForeignPublish, Scale!Destroy, Scale!SetPolicy,
       Scale!EditRead, Scale!EditWrite, Scale!Tick
<1>3. CASE nodes' = nodes
  BY <1>1, <1>3
<1>4. ASSUME NEW n, nodes' = nodes \ {n}
      PROVE  Cardinality(nodes') \in Nat /\ Cardinality(nodes') <= Cardinality(nodes)
             /\ Cardinality(nodes') >= Cardinality(nodes) - 1
  <2>1. CASE n \in nodes
    <3>1. Cardinality(nodes \ {n}) = Cardinality(nodes) - 1 /\ IsFiniteSet(nodes \ {n})
      BY <1>1, <2>1, FS_RemoveElement
    <3>2. Cardinality(nodes \ {n}) \in Nat
      BY <3>1, FS_CardinalityType
    <3> QED
      BY <1>1, <1>4, <3>1, <3>2
  <2>2. CASE n \notin nodes
    <3>1. nodes \ {n} = nodes
      BY <2>2
    <3> QED
      BY <1>1, <1>4, <3>1
  <2> QED
    BY <2>1, <2>2
<1>5. ASSUME NEW n, nodes' = nodes \cup {n}
      PROVE  Cardinality(nodes') \in Nat /\ Cardinality(nodes') <= Cardinality(nodes) + 1
             /\ Cardinality(nodes') >= Cardinality(nodes)
  <2>1. CASE n \in nodes
    <3>1. nodes \cup {n} = nodes
      BY <2>1
    <3> QED
      BY <1>1, <1>5, <3>1
  <2>2. CASE n \notin nodes
    <3>1. Cardinality(nodes \cup {n}) = Cardinality(nodes) + 1
      BY <1>1, <2>2, FS_AddElement
    <3> QED
      BY <1>1, <1>5, <3>1
  <2> QED
    BY <2>1, <2>2
<1>6. CASE \E n : nodes' = nodes \ {n}
  <2>1. PICK n : nodes' = nodes \ {n}
    BY <1>6
  <2>2. /\ Cardinality(nodes') \in Nat /\ Cardinality(nodes') <= Cardinality(nodes)
        /\ Cardinality(nodes') >= Cardinality(nodes) - 1
    BY <1>4, <2>1
  <2> QED
    BY <1>1, <2>2
<1>7. CASE \E n : nodes' = nodes \cup {n}
  <2>1. PICK n : nodes' = nodes \cup {n}
    BY <1>7
  <2>2. /\ Cardinality(nodes') \in Nat /\ Cardinality(nodes') <= Cardinality(nodes) + 1
        /\ Cardinality(nodes') >= Cardinality(nodes)
    BY <1>5, <2>1
  <2> QED
    BY <1>1, <2>2
<1> QED
  BY <1>2, <1>3, <1>6, <1>7

-----------------------------------------------------------------------------
(* Whom a pass meets                                                        *)

\* A pass meets others only, and nobody before it reads or when it has acted.
MetOK(p) ==
    /\ met[p] \subseteq (Passes \ {p}) \cup {Scale!Operator, Scale!Mover}
    /\ pass[p].stage \in {"idle", "spread"} => met[p] = {}

(* A pass that observes knows the policy in force, and of the last claim,     *)
(* unless it has met those that change them.                                *)
KnowsOK(p) ==
    pass[p].stage = "observe" =>
      /\ Scale!Crossed(p) = {} => pass[p].seen.age <= sinceClaim
      /\ Scale!Operator \notin met[p] => pass[p].seen.policy = config.policy

\* What a pass has decided fits, but for one node for each pass that it has met.
FitsOK(p) ==
    pass[p].stage \in Decided /\ Scale!Operator \notin met[p] =>
      IF pass[p].victim = Scale!NoNode
      THEN Cardinality(nodes) < config.policy.max + Cardinality(Scale!Crossed(p))
      ELSE Cardinality(nodes) + Cardinality(Scale!Crossed(p)) > config.policy.min

(* A pass that another has met, and that runs again, has met nobody since     *)
(* whom the other has not met.                                              *)
NestedOK(p) ==
    pass[p].stage \in Decided =>
      \A q \in Scale!Crossed(p) :
        /\ Scale!Operator \in met[q] => Scale!Operator \in met[p]
        /\ pass[q].stage \in Decided => Scale!Crossed(q) \subseteq Scale!Crossed(p)

MetInv ==
    /\ DOMAIN met = Passes
    /\ \A p \in Passes : MetOK(p) /\ KnowsOK(p) /\ FitsOK(p) /\ NestedOK(p)

\* There are finitely many passes, and none is called as another that is met.
LEMMA PassesFinite ==
    IsFiniteSet(Passes) /\ Scale!Operator \notin Passes /\ Scale!Mover \notin Passes
BY ScalingAssumption, SameFinite DEF Scale!AutoscaleAssumption

\* How many passes one has met.
LEMMA CrossedFinite ==
    ASSUME NEW p \in Passes
    PROVE  IsFiniteSet(Scale!Crossed(p)) /\ Cardinality(Scale!Crossed(p)) \in Nat
BY PassesFinite, FS_Subset, FS_CardinalityType DEF Scale!Crossed

\* At first nobody has met anybody.
LEMMA InitMet == Scale!Init => MetInv
BY DEF Scale!Init, MetInv, MetOK, KnowsOK, FitsOK, NestedOK, Decided, ScaleIn, Scale!Idle

\* Every step says who has met whom.
LEMMA AlwaysRemembers == Scale!Next => Scale!Remember
<1>1. ASSUME NEW p \in Passes, Scale!Step(p) \/ Scale!Break(p) PROVE Scale!Remember
  BY <1>1, Zenon DEF Scale!Step, Scale!Break, Scale!Read, Scale!Observe, Scale!ClaimRead, Scale!ClaimPut,
     Scale!Launch, Scale!Spread, Scale!Drain, Scale!Confirm, Scale!Timeout, Scale!Gate, Scale!Recheck, Scale!Teardown
<1>2. ASSUME NEW n \in Names, Scale!Agent(n) \/ Scale!ForeignPublish(n) \/ Scale!Destroy(n) PROVE Scale!Remember
  BY <1>2, Zenon DEF Scale!Agent, Scale!ForeignPublish, Scale!Destroy
<1>3. ASSUME NEW policy, Scale!SetPolicy(policy) PROVE Scale!Remember
  BY <1>3, Zenon DEF Scale!SetPolicy
<1> QED
  BY <1>1, <1>2, <1>3, Zenon DEF Scale!Next, Scale!EditRead, Scale!EditWrite, Scale!Tick

\* Passes that act are those whose step it is.
LEMMA ActsFacts ==
    ASSUME Course, NEW q \in Passes, Scale!Acts(q)
    PROVE  /\ Moves(q) /\ (Grows(q) \/ Shrinks(q)) /\ config'.policy = config.policy
           /\ \A r \in Passes : Scale!Acts(r) => r = q
<1>1. pass[q].stage \in {"launch", "teardown"} /\ pass'[q].stage \in {"spread", "idle"}
  BY DEF Scale!Acts, Scale!Launched, Scale!TornDown
<1>2. PICK p \in Passes : Moves(p)
  BY <1>1 DEF Course, OneMoves, Stays
<1>3. q = p
  BY <1>1, <1>2 DEF Moves, Stays
<1>4. Grows(q) \/ Shrinks(q)
  BY <1>1, <1>2, <1>3 DEF Moves, Scale!Acts, Scale!Launched, Scale!TornDown, Ends, Starts, Resolves, GoesOn,
     Grows, Shrinks, Decided, ScaleIn
<1>5. \A r \in Passes : Scale!Acts(r) => r = q
  BY <1>2, <1>3 DEF Moves, Stays, Scale!Acts, Scale!Launched, Scale!TornDown
<1> QED
  BY <1>2, <1>3, <1>4, <1>5 DEF Moves

\* Without the operator the policy stands, and the pool but for the act of a pass.
LEMMA UndisturbedFacts ==
    ASSUME NEW p \in Passes, met'[p] = Scale!Meets(p), pass'[p].stage \notin {"idle", "spread"},
           Scale!Operator \notin met'[p]
    PROVE  /\ Scale!Operator \notin met[p] /\ config'.policy = config.policy
           /\ nodes' = nodes \/ \E q \in Passes : Scale!Acts(q)
BY DEF Scale!Meets, Scale!Interferes

\* Who a pass that has decided has met after a step.
LEMMA CrossedFacts ==
    ASSUME NEW p \in Passes, met'[p] = Scale!Meets(p), pass[p].stage # "observe",
           pass'[p].stage \notin {"idle", "spread"}
    PROVE  /\ Scale!Crossed(p)' = Scale!Crossed(p) \cup {q \in Passes \ {p} : Scale!Acts(q)}
           /\ Scale!Operator \in met[p] => Scale!Operator \in met'[p]
           /\ Scale!Interferes => Scale!Operator \in met'[p]
BY PassesFinite DEF Scale!Meets, Scale!Crossed, Scale!Decides

\* One that decides has met nobody yet.
LEMMA DecidesFacts ==
    ASSUME Course, NEW p \in Passes, met'[p] = Scale!Meets(p), Scale!Decides(p)
    PROVE  Scale!Crossed(p)' = {} /\ Moves(p) /\ Resolves(p)
<1>1. pass[p].stage = "observe" /\ pass'[p].stage = "claim"
  BY DEF Scale!Decides
<1>2. PICK r \in Passes : Moves(r)
  BY <1>1 DEF Course, OneMoves, Stays
<1>3. r = p
  BY <1>1, <1>2 DEF Moves, Stays
<1>4. Resolves(p)
  BY <1>1, <1>2, <1>3 DEF Moves, Ends, Starts, Resolves, GoesOn, Grows, Shrinks, Decided, ScaleIn
<1>5. \A q \in Passes \ {p} : ~Scale!Claims(q)
  BY <1>2, <1>3 DEF Moves, Stays, Scale!Claims
<1>6. Scale!Crossed(p)' = {}
  BY <1>1, <1>5, PassesFinite DEF Scale!Meets, Scale!Crossed, Scale!Decides
<1> QED
  BY <1>2, <1>3, <1>4, <1>6

\* A pass that goes on after its decision has met those before, and who acts.
LEMMA DecidedBefore ==
    ASSUME Course, NEW p \in Passes, pass'[p].stage \in Decided
    PROVE  /\ pass[p].stage \in Decided \/ Scale!Decides(p)
           /\ pass[p].stage \in Decided => pass'[p].victim = pass[p].victim
<1>1. CASE \A q \in Passes : Stays(q)
  BY <1>1 DEF Stays
<1>2. ASSUME NEW r \in Passes, Moves(r), r # p PROVE Stays(p)
  BY <1>2 DEF Moves
<1>3. CASE Moves(p)
  BY <1>3 DEF Moves, Ends, Starts, Resolves, GoesOn, Grows, Shrinks, Decided, ScaleIn, Scale!Decides
<1> QED
  BY <1>1, <1>2, <1>3 DEF Course, OneMoves, Stays


\* A pass meets others, never itself, and leaves them behind when it has acted or ended.
LEMMA MetStep ==
    ASSUME MetInv, NEW p \in Passes, met'[p] = Scale!Meets(p)
    PROVE  MetOK(p)'
<1>1. MetOK(p)
  BY DEF MetInv
<1> QED
  BY <1>1 DEF MetOK, Scale!Meets

\* What a pass knows outdates only by those whom it meets.
LEMMA KnowsStep ==
    ASSUME MetInv, Course, NEW p \in Passes, met'[p] = Scale!Meets(p)
    PROVE  KnowsOK(p)'
<1> SUFFICES ASSUME pass'[p].stage = "observe"
             PROVE  /\ Scale!Crossed(p)' = {} => pass'[p].seen.age <= sinceClaim'
                    /\ Scale!Operator \notin met'[p] => pass'[p].seen.policy = config'.policy
  BY DEF KnowsOK
<1>1. MetOK(p) /\ KnowsOK(p) /\ Ages(p)
  BY DEF MetInv, Course
<1>2. CASE pass[p].stage = "observe"
  <2>1. Stays(p)
    <3>1. ASSUME NEW r \in Passes, Moves(r), r # p PROVE Stays(p)
      BY <3>1 DEF Moves
    <3>2. ~Moves(p)
      BY <1>2 DEF Moves, Ends, Starts, Resolves, GoesOn, Grows, Shrinks, Decided, ScaleIn
    <3> QED
      BY <3>1, <3>2 DEF Course, OneMoves
  <2>2. Scale!Operator \notin met'[p] => pass'[p].seen.policy = config'.policy
    BY <1>1, <1>2, <2>1, UndisturbedFacts DEF KnowsOK, Stays
  <2>3. Scale!Crossed(p)' = Scale!Crossed(p) \cup {q \in Passes \ {p} : Scale!Claims(q)}
    BY <1>2, PassesFinite DEF Scale!Meets, Scale!Crossed, Scale!Decides
  <2> QED
    BY <1>1, <1>2, <2>2, <2>3 DEF KnowsOK, Ages
<1>3. CASE pass[p].stage # "observe"
  <2>1. pass[p].stage = "idle" /\ pass'[p].seen.age <= sinceClaim'
    BY <1>1, <1>3 DEF Ages
  <2>2. Starts(p) /\ config'.policy = config.policy
    <3>1. ASSUME NEW r \in Passes, Moves(r), r # p PROVE FALSE
      BY <2>1, <3>1 DEF Moves, Stays
    <3>2. Moves(p)
      BY <2>1, <3>1 DEF Course, OneMoves, Stays
    <3> QED
      BY <2>1, <3>2 DEF Moves, Ends, Resolves, GoesOn, Grows, Shrinks, Decided, ScaleIn
  <2> QED
    BY <2>1, <2>2 DEF Starts
<1> QED
  BY <1>2, <1>3

\* The bounds hold, up to whom a pass has met, also when another acts: one that has
\* not been met before then is, and one that has been met has no more room than this.
LEMMA FitsStep ==
    ASSUME ScalingInv, ScalingInv', MetInv, Course, [Scale!Next]_(Scale!vars),
           NEW p \in Passes, met'[p] = Scale!Meets(p)
    PROVE  FitsOK(p)'
<1> DEFINE k == Cardinality(Scale!Crossed(p))
           n == Cardinality(nodes)
<1> SUFFICES ASSUME pass'[p].stage \in Decided, Scale!Operator \notin met'[p]
             PROVE  IF pass'[p].victim = Scale!NoNode
                    THEN Cardinality(nodes') < config'.policy.max + Cardinality(Scale!Crossed(p)')
                    ELSE Cardinality(nodes') + Cardinality(Scale!Crossed(p)') > config'.policy.min
  BY DEF FitsOK
<1>1. MetOK(p) /\ KnowsOK(p) /\ FitsOK(p) /\ NestedOK(p)
  BY DEF MetInv
<1>2. pass'[p].stage \notin {"idle", "spread"}
  BY DEF Decided, ScaleIn
<1>3. /\ Scale!Operator \notin met[p] /\ config'.policy = config.policy
      /\ nodes' = nodes \/ \E q \in Passes : Scale!Acts(q)
  BY <1>2, UndisturbedFacts
<1>4. /\ IsFiniteSet(nodes) /\ n \in Nat /\ Cardinality(nodes') \in Nat
      /\ Cardinality(nodes') <= n + 1 /\ Cardinality(nodes') >= n - 1
  BY OneNodeAtATime
<1>5. config.policy.min \in Nat /\ config.policy.max \in Nat
  BY PolicyFacts DEF ScalingInv, PoolType, Scale!Documents, Scale!Off
<1>6. IsFiniteSet(Scale!Crossed(p)) /\ k \in Nat
  BY CrossedFinite
<1>7. CASE Scale!Decides(p)
  <2>1. Scale!Crossed(p)' = {} /\ Resolves(p)
    BY <1>7, DecidesFacts
  <2>2. pass[p].seen.policy = config.policy /\ nodes' = nodes
    BY <1>1, <1>3, <2>1 DEF KnowsOK, Resolves
  <2>3. Cardinality(Scale!Crossed(p)') = 0
    BY <2>1, FS_EmptySet
  <2>4. IF pass'[p].victim = Scale!NoNode THEN n < config.policy.max ELSE n > config.policy.min
    BY <2>1, <2>2 DEF Resolves
  <2> QED
    BY <1>3, <1>4, <1>5, <2>2, <2>3, <2>4
<1>8. CASE ~Scale!Decides(p)
  <2>1. pass[p].stage \in Decided /\ pass'[p].victim = pass[p].victim
    BY <1>8, DecidedBefore
  <2>2. Scale!Crossed(p)' = Scale!Crossed(p) \cup {q \in Passes \ {p} : Scale!Acts(q)}
    BY <1>2, <2>1, CrossedFacts DEF Decided, ScaleIn
  <2>3. IF pass[p].victim = Scale!NoNode THEN n < config.policy.max + k ELSE n + k > config.policy.min
    BY <1>1, <1>3, <2>1 DEF FitsOK
  <2>4. CASE \A q \in Passes \ {p} : ~Scale!Acts(q)
    <3>1. Scale!Crossed(p)' = Scale!Crossed(p)
      BY <2>2, <2>4
    <3>2. ~Scale!Acts(p)
      BY <1>2 DEF Scale!Acts, Scale!Launched, Scale!TornDown
    <3>3. nodes' = nodes
      BY <1>3, <2>4, <3>2
    <3> QED
      BY <1>3, <2>1, <2>3, <3>1, <3>3
  <2>5. ASSUME NEW q \in Passes \ {p}, Scale!Acts(q)
        PROVE  IF pass'[p].victim = Scale!NoNode
               THEN Cardinality(nodes') < config'.policy.max + Cardinality(Scale!Crossed(p)')
               ELSE Cardinality(nodes') + Cardinality(Scale!Crossed(p)') > config'.policy.min
    <3>1. Grows(q) \/ Shrinks(q)
      BY <2>5, ActsFacts
    <3>2. Scale!Crossed(p)' = Scale!Crossed(p) \cup {q}
      BY <2>2, <2>5, ActsFacts
    <3>3. CASE q \notin Scale!Crossed(p)
      <4>1. Cardinality(Scale!Crossed(p)') = k + 1
        BY <1>6, <3>2, <3>3, FS_AddElement
      <4> QED
        BY <1>3, <1>4, <1>5, <1>6, <2>1, <2>3, <4>1
    <3>4. CASE q \in Scale!Crossed(p)
      <4> DEFINE j == Cardinality(Scale!Crossed(q))
      <4>1. pass[q].stage \in Decided
        BY <3>1 DEF Grows, Shrinks, Decided, ScaleIn
      <4>2. FitsOK(q) /\ MetOK(q) /\ RoomOK(q)
        BY DEF MetInv, ScalingInv
      <4>3. Scale!Operator \notin met[q] /\ Scale!Crossed(q) \subseteq Scale!Crossed(p)
        BY <1>1, <1>3, <2>1, <3>4, <4>1 DEF NestedOK
      <4>4. j \in Nat /\ j <= k - 1
        <5>1. q \notin Scale!Crossed(q)
          BY <4>2, PassesFinite DEF MetOK, Scale!Crossed
        <5>2. Scale!Crossed(q) \subseteq Scale!Crossed(p) \ {q}
          BY <4>3, <5>1
        <5>3. IsFiniteSet(Scale!Crossed(p) \ {q}) /\ Cardinality(Scale!Crossed(p) \ {q}) = k - 1
          BY <1>6, <3>4, FS_RemoveElement
        <5> QED
          BY <5>2, <5>3, CrossedFinite, FS_Subset
      <4>5. Cardinality(Scale!Crossed(p)') = k
        <5>1. Scale!Crossed(p)' = Scale!Crossed(p)
          BY <3>2, <3>4
        <5> QED
          BY <5>1
      <4>6. CASE Grows(q)
        <5>1. pass[q].victim = Scale!NoNode /\ Cardinality(nodes) <= Cardinality(nodes')
          <6>1. IsFiniteSet(nodes') /\ nodes \subseteq nodes'
            BY <4>6, NamesFinite, FS_Subset DEF Grows, ScalingInv, PoolType
          <6> QED
            BY <4>2, <4>6, <6>1, FS_Subset DEF Grows, RoomOK
        <5>2. n < config.policy.max + j
          BY <4>1, <4>2, <4>3, <5>1 DEF FitsOK
        <5> QED
          BY <1>3, <1>4, <1>5, <1>6, <2>1, <2>3, <4>4, <4>5, <5>1, <5>2
      <4>7. CASE Shrinks(q)
        <5>1. pass[q].victim # Scale!NoNode /\ Cardinality(nodes') <= Cardinality(nodes)
          <6>1. nodes' \subseteq nodes
            BY <4>7 DEF Shrinks
          <6> QED
            BY <1>4, <4>2, <4>7, <6>1, FS_Subset DEF Shrinks, RoomOK, ScaleIn
        <5>2. n + j > config.policy.min
          BY <4>1, <4>2, <4>3, <5>1 DEF FitsOK
        <5> QED
          BY <1>3, <1>4, <1>5, <1>6, <2>1, <2>3, <4>4, <4>5, <5>1, <5>2
      <4> QED
        BY <3>1, <4>6, <4>7
    <3> QED
      BY <3>3, <3>4
  <2> QED
    BY <2>4, <2>5
<1> QED
  BY <1>7, <1>8

\* A pass that has met another knows all that the other meets from then on.
LEMMA NestedStep ==
    ASSUME MetInv, Course, NEW p \in Passes, \A q \in Passes : met'[q] = Scale!Meets(q)
    PROVE  NestedOK(p)'
<1> SUFFICES ASSUME pass'[p].stage \in Decided, NEW q \in Scale!Crossed(p)'
             PROVE  /\ Scale!Operator \in met'[q] => Scale!Operator \in met'[p]
                    /\ pass'[q].stage \in Decided => Scale!Crossed(q)' \subseteq Scale!Crossed(p)'
  BY DEF NestedOK
<1>1. pass'[p].stage \notin {"idle", "spread"}
  BY DEF Decided, ScaleIn
<1>2. ~Scale!Decides(p)
  BY DecidesFacts
<1>3. pass[p].stage \in Decided
  BY <1>2, DecidedBefore
<1>4. /\ Scale!Crossed(p)' = Scale!Crossed(p) \cup {r \in Passes \ {p} : Scale!Acts(r)}
      /\ Scale!Operator \in met[p] => Scale!Operator \in met'[p]
      /\ Scale!Interferes => Scale!Operator \in met'[p]
  BY <1>1, <1>3, CrossedFacts DEF Decided, ScaleIn
<1>5. q \in Passes /\ NestedOK(p) /\ ~Scale!Acts(p)
  BY <1>1 DEF Scale!Crossed, MetInv, Scale!Acts, Scale!Launched, Scale!TornDown
<1>6. CASE pass'[q].stage \in {"idle", "spread"}
  <2>1. met'[q] = {}
    BY <1>5, <1>6 DEF Scale!Meets
  <2>2. Scale!Crossed(q)' = {}
    BY <2>1 DEF Scale!Crossed
  <2> QED
    BY <2>1, <2>2
<1>7. CASE pass'[q].stage \notin {"idle", "spread"}
  <2>1. ~Scale!Acts(q)
    BY <1>7 DEF Scale!Acts, Scale!Launched, Scale!TornDown
  <2>2. q \in Scale!Crossed(p)
    BY <1>4, <2>1
  <2>3. Scale!Operator \in met'[q] => Scale!Operator \in met[q] \/ Scale!Interferes
    <3>1. met'[q] = Scale!Meets(q) /\ Scale!Operator \notin Passes
      BY <1>5, PassesFinite
    <3>2. Scale!Operator # Scale!Mover
      BY DEF Scale!Operator, Scale!Mover
    <3> QED
      BY <1>7, <3>1, <3>2 DEF Scale!Meets
  <2>4. Scale!Operator \in met'[q] => Scale!Operator \in met'[p]
    BY <1>3, <1>4, <1>5, <2>2, <2>3 DEF NestedOK
  <2>5. ASSUME pass'[q].stage \in Decided PROVE Scale!Crossed(q)' \subseteq Scale!Crossed(p)'
    <3>1. CASE Scale!Decides(q)
      BY <1>5, <3>1, DecidesFacts
    <3>2. CASE ~Scale!Decides(q)
      <4>1. pass[q].stage \in Decided
        BY <1>5, <2>5, <3>2, DecidedBefore
      <4>2. Scale!Crossed(q)' = Scale!Crossed(q) \cup {r \in Passes \ {q} : Scale!Acts(r)}
        BY <1>5, <1>7, <4>1, CrossedFacts DEF Decided, ScaleIn
      <4>3. Scale!Crossed(q) \subseteq Scale!Crossed(p)
        BY <1>3, <1>5, <2>2, <4>1 DEF NestedOK
      <4> QED
        BY <1>4, <1>5, <4>2, <4>3
    <3> QED
      BY <3>1, <3>2
  <2> QED
    BY <2>4, <2>5
<1> QED
  BY <1>6, <1>7

\* Every step keeps what passes have met in order.
LEMMA MetNext == ScalingInv /\ MetInv /\ [Scale!Next]_(Scale!vars) => MetInv'
<1> SUFFICES ASSUME ScalingInv, MetInv, [Scale!Next]_(Scale!vars) PROVE MetInv'
  OBVIOUS
<1>1. ScalingInv' /\ Course
  BY ScalingNext
<1>2. CASE Scale!Remember
  <2>1. DOMAIN met' = Passes /\ \A q \in Passes : met'[q] = Scale!Meets(q)
    BY <1>2 DEF Scale!Remember
  <2> QED
    BY <1>1, <2>1, MetStep, KnowsStep, FitsStep, NestedStep DEF MetInv
<1>3. CASE UNCHANGED Scale!vars
  <2>1. /\ met' = met /\ pass' = pass /\ nodes' = nodes /\ config' = config /\ sinceClaim' = sinceClaim
    BY <1>3 DEF Scale!vars, Scale!cloud
  <2> QED
    BY <2>1 DEF MetInv, MetOK, KnowsOK, FitsOK, NestedOK, Scale!Crossed
<1> QED
  BY <1>2, <1>3, AlwaysRemembers

\* Whatever passes overlap, and whatever commands beside them, a victim that was
\* looked at last is empty, and what a pass has decided fits the policy but for one
\* node for each pass that it has met.
THEOREM ScalingAlwaysInv == Scale!Spec => [](ScalingInv /\ MetInv)
<1>1. Scale!Init => ScalingInv /\ MetInv
  BY InitScaling, InitMet
<1>2. ScalingInv /\ MetInv /\ [Scale!Next]_(Scale!vars) => (ScalingInv /\ MetInv)'
  BY ScalingNext, MetNext
<1> QED
  BY <1>1, <1>2, PTL DEF Scale!Spec

-----------------------------------------------------------------------------

\* What a pass launches or tears down keeps the policy's bounds, but for one node
\* for each pass that it has met.
LEMMA BoundsStep ==
    ASSUME ScalingInv, MetInv, [Scale!Next]_(Scale!vars), NEW p \in Passes, Scale!Operator \notin met[p]
    PROVE  /\ Scale!Launched(p) =>
                Scale!Cardinality(nodes') <= config.policy.max + Scale!Cardinality(Scale!Crossed(p))
           /\ Scale!TornDown(p) =>
                Scale!Cardinality(nodes') + Scale!Cardinality(Scale!Crossed(p)) >= config.policy.min
<1>1. RoomOK(p) /\ FitsOK(p) /\ config.policy \in Policies \cup {Scale!Off}
  BY DEF ScalingInv, MetInv, PoolType, Scale!Documents
<1>2. config.policy.min \in Nat /\ config.policy.max \in Nat
  BY <1>1, PolicyFacts DEF Scale!Off
<1>3. Scale!Launched(p) => Cardinality(nodes) < config.policy.max + Cardinality(Scale!Crossed(p))
  BY <1>1 DEF RoomOK, FitsOK, Decided, Scale!Launched
<1>4. Scale!TornDown(p) => Cardinality(nodes) + Cardinality(Scale!Crossed(p)) > config.policy.min
  BY <1>1 DEF RoomOK, FitsOK, Decided, Scale!TornDown, ScaleIn
<1>5. /\ Scale!Cardinality(nodes') = Cardinality(nodes')
      /\ Scale!Cardinality(Scale!Crossed(p)) = Cardinality(Scale!Crossed(p))
  BY SameSize
<1> QED
  BY <1>2, <1>3, <1>4, <1>5, OneNodeAtATime, CrossedFinite

\* What utilisation asks for is claimed a cooldown after the last claim that counts.
LEMMA CooldownStep ==
    ASSUME ScalingInv, MetInv, [Scale!Next]_(Scale!vars), NEW p \in Passes,
           Scale!Decides(p), Scale!Crossed(p) = {},
           Scale!Cardinality(nodes) >= pass[p].seen.policy.min
    PROVE  sinceClaim = Cooldown
<1>1. KnowsOK(p) /\ sinceClaim \in Scale!Ages /\ Course
  BY ScalingNext DEF ScalingInv, MetInv, PoolType
<1>2. pass[p].stage = "observe" /\ pass'[p].stage = "claim"
  BY DEF Scale!Decides
<1>3. Resolves(p)
  <2>1. PICK r \in Passes : Moves(r)
    BY <1>1, <1>2 DEF Course, OneMoves, Stays
  <2>2. r = p
    BY <1>2, <2>1 DEF Moves, Stays
  <2> QED
    BY <1>2, <2>1, <2>2 DEF Moves, Ends, Starts, GoesOn, Grows, Shrinks, Decided, ScaleIn
<1>4. Cardinality(nodes) >= pass[p].seen.policy.min
  BY SameSize
<1>5. Cooldown <= sinceClaim
  BY <1>1, <1>2, <1>3, <1>4 DEF KnowsOK, Resolves
<1> QED
  BY <1>1, <1>5, PolicyFacts DEF Scale!Ages

\* Every action of autoscale keeps the policy's bounds, but for one node for each
\* pass that acted between its observation and itself, and is claimed a cooldown
\* after the last claim, unless that came in its observation; for any nodes,
\* samples and policies, and any number of passes.
THEOREM PolicyAlwaysKept == Scale!Spec => PolicyIsKept
<1>1. ScalingInv /\ MetInv /\ [Scale!Next]_(Scale!vars) =>
        [\A p \in Passes : Scale!Operator \notin met[p] =>
           /\ Scale!Launched(p) =>
                Scale!Cardinality(nodes') <= config.policy.max + Scale!Cardinality(Scale!Crossed(p))
           /\ Scale!TornDown(p) =>
                Scale!Cardinality(nodes') + Scale!Cardinality(Scale!Crossed(p)) >= config.policy.min]_(Scale!vars)
  BY BoundsStep
<1>2. ScalingInv /\ MetInv /\ [Scale!Next]_(Scale!vars) =>
        [\A p \in Passes :
           /\ Scale!Decides(p) /\ Scale!Crossed(p) = {}
           /\ Scale!Cardinality(nodes) >= pass[p].seen.policy.min
           => sinceClaim = Cooldown]_(Scale!vars)
  BY CooldownStep
<1> QED
  BY <1>1, <1>2, ScalingAlwaysInv, PTL
     DEF Scale!Spec, PolicyIsKept, Scale!PolicyIsKept, Scale!WithinPolicy, Scale!CooldownKept

\* No node is torn down with something scheduled on it, except what was published
\* after the last look at its desired.json.
THEOREM NeverOrphaned == Scale!Spec => Scale!NothingOrphaned
<1>1. ScalingInv /\ [Scale!Next]_(Scale!vars) =>
        [\A p \in Passes : Scale!TornDown(p) /\ ~pass[p].late => ~Scale!Hosts(pass[p].victim)]_(Scale!vars)
  BY DEF ScalingInv, EmptyOK, Scale!TornDown
<1> QED
  BY <1>1, ScalingAlwaysInv, PTL DEF Scale!Spec, Scale!NothingOrphaned
=============================================================================
