---------------------------- MODULE CronSchedule ----------------------------
(***************************************************************************)
(* Scheduled work on an app node: a cron service, whose every fire is a    *)
(* container that runs once, or the backup schedule of a database, whose   *)
(* every fire is a dump out of a container that runs for long.  Both are   *)
(* planned by the agent's tick (plan_cron_service and plan_backup_service  *)
(* of reconcile.rs) from the last fire on record, which is kept twice: in  *)
(* state.json and, for a cron run, in a label of its container.            *)
(*                                                                         *)
(* Time is counted in minutes, as the cron expressions are.  The clock,    *)
(* docker, the disk and the CLI act between any two calls of the agent,    *)
(* and the agent can die between any two of them.                          *)
(***************************************************************************)
EXTENDS Naturals, FiniteSets

CONSTANTS
    Schedules,   \* the schedules the CLI deploys, each a set of minutes
    NoService,   \* desired.json does not list the service
    None,        \* no fire on record
    Kinds,       \* "cron", "backup"
    MaxNow,      \* bound: the last minute
    MaxDeploys,  \* bound: how often the CLI rewrites desired.json
    MaxFaults,   \* bound: how many faults happen
    FaultKinds   \* the faults that may happen

Minute == 0 .. MaxNow

\* crash: the agent dies; lost: it dies and state.json is gone or unreadable;
\* save: state.json cannot be written; pull, run: docker pull / run fails;
\* rm: docker rm fails (its error is ignored); prune: someone removes an
\* exited container.
Fault == {"crash", "lost", "save", "pull", "run", "rm", "prune"}

ASSUME ScheduleAssumption ==
    /\ Schedules \subseteq SUBSET (1 .. MaxNow)
    /\ \A S \in SUBSET Minute : S # NoService
    /\ None \notin Nat
    /\ Kinds \subseteq {"cron", "backup"}
ASSUME BoundsAssumption ==
    /\ MaxNow \in Nat
    /\ MaxDeploys \in Nat
    /\ MaxFaults \in Nat
    /\ FaultKinds \subseteq Fault

VARIABLES
    kind,        \* a cron service or the backups of a database
    now,         \* the clock
    desired,     \* the schedule in desired.json
    (* the disk and docker *)
    saved,       \* cron_fires entry of state.json
    box,         \* the service's container
    (* the agent *)
    pc,          \* what it is about to do
    sched,       \* self.desired: the schedule this tick works from
    live,        \* inspect_managed, as of the beginning of the tick
    fire,        \* cron_fires entry in memory: the last fire or the anchor
    due,         \* fire_ms of the action in hand
    (* bookkeeping *)
    since,       \* history: when the agent first saw the schedule
    lastSeen,    \* history: the schedule it saw last
    started,     \* history: how often a run of each fire was started
    skipped,     \* history: fires recorded as skipped
    attempted,   \* history: fires a dump of a running database was made for
    wentDown,    \* history: fires whose database went down under the pass
    forgot,      \* history: what was lost: state.json ("file"), the record of a
                 \* new or dropped anchor ("anchor"), the removal of the
                 \* service, or of its run, before it was deployed again
                 \* ("removal")
    deploys,     \* desired.json writes left
    faults       \* faults left

agentVars   == <<pc, sched, live, fire, due>>
historyVars == <<since, lastSeen, started, skipped, attempted, wentDown>>
vars == <<kind, now, desired, saved, box, pc, sched, live, fire, due, since,
          lastSeen, started, skipped, attempted, wentDown, forgot, deploys,
          faults>>

NoBox == [state |-> "none", label |-> None]
Boxes == [state : {"none", "created", "running", "exited"},
          label : Minute \cup {None}]

Pc == {"idle", "plan", "pull", "clear", "record", "run", "skip", "dump",
       "recordDump"}

TypeOK ==
    /\ kind \in Kinds
    /\ now \in Minute
    /\ desired \in Schedules \cup {NoService}
    /\ saved \in Minute \cup {None}
    /\ box \in Boxes
    /\ pc \in Pc
    /\ sched \in Schedules \cup {NoService}
    /\ live \in Boxes
    /\ fire \in Minute \cup {None}
    /\ due \in Minute \cup {None}
    /\ due # None => due \in sched /\ due <= now
    /\ pc = "idle" \/ (sched = NoService <=> fire = None)
    /\ since \in Minute
    /\ lastSeen \in Schedules \cup {NoService}
    /\ started \in [Minute -> Nat]
    /\ skipped \in SUBSET Minute
    /\ attempted \in SUBSET Minute
    /\ wentDown \in SUBSET Minute
    /\ forgot \subseteq {"file", "anchor", "removal"}
    /\ deploys \in 0 .. MaxDeploys
    /\ faults \in 0 .. MaxFaults

HasFault(k) == k \in FaultKinds /\ faults > 0
UseFault == faults' = faults - 1

Init ==
    /\ kind \in Kinds
    /\ now = 0
    /\ desired = NoService
    /\ saved = None
    /\ box = NoBox
    /\ pc = "idle" /\ sched = NoService /\ live = NoBox
    /\ fire = None /\ due = None
    /\ since = 0 /\ lastSeen = NoService
    /\ started = [t \in Minute |-> 0]
    /\ skipped = {} /\ attempted = {} /\ wentDown = {} /\ forgot = {}
    /\ deploys = MaxDeploys
    /\ faults = MaxFaults

-----------------------------------------------------------------------------
(* The rest of the world.                                                   *)

Clock ==
    /\ now < MaxNow                       \* bound
    /\ now' = now + 1
    /\ UNCHANGED <<kind, desired, saved, box, agentVars, historyVars, forgot,
                   deploys, faults>>

\* The CLI deploys the service, changes its schedule, or drops it.
Deploy ==
    /\ deploys > 0
    /\ deploys' = deploys - 1
    /\ \E d \in (Schedules \cup {NoService}) \ {desired} : desired' = d
    /\ UNCHANGED <<kind, now, saved, box, agentVars, historyVars, forgot,
                   faults>>

\* A cron run ends; it is not restarted.
RunExits ==
    /\ kind = "cron"
    /\ box.state = "running"
    /\ box' = [box EXCEPT !.state = "exited"]
    /\ UNCHANGED <<kind, now, desired, saved, agentVars, historyVars, forgot,
                   deploys, faults>>

\* The database container of a deployed service comes up, and goes down.
DatabaseUp ==
    /\ kind = "backup"
    /\ sched # NoService
    /\ box.state # "running"
    /\ box' = [state |-> "running", label |-> None]
    /\ UNCHANGED <<kind, now, desired, saved, agentVars, historyVars, forgot,
                   deploys, faults>>

DatabaseDown ==
    /\ kind = "backup"
    /\ box.state = "running"
    /\ box' = [box EXCEPT !.state = "exited"]
    /\ UNCHANGED <<kind, now, desired, saved, agentVars, historyVars, forgot,
                   deploys, faults>>

\* docker container prune
Prune ==
    /\ HasFault("prune") /\ UseFault
    /\ box.state \in {"created", "exited"}
    /\ box' = NoBox
    /\ UNCHANGED <<kind, now, desired, saved, agentVars, historyVars, forgot,
                   deploys>>

\* The restarted agent knows what state.json holds, if it still is there.
AgentCrash ==
    /\ \/ HasFault("crash") /\ UNCHANGED <<saved, forgot>>
       \/ HasFault("lost") /\ saved' = None /\ forgot' = forgot \cup {"file"}
    /\ UseFault
    /\ pc' = "idle" /\ sched' = NoService /\ live' = NoBox /\ due' = None
    /\ fire' = saved'
    /\ UNCHANGED <<kind, now, desired, box, historyVars, deploys>>

-----------------------------------------------------------------------------
(* tick_inner: read desired.json, inspect, seed or drop the anchor, plan.   *)

\* No record for a service that left; the one there is; the fire of a run in
\* progress (state.json was lost); or now, so that nothing older fires.
Anchor(d, b) ==
    IF d = NoService THEN None
    ELSE IF fire # None THEN fire
    ELSE IF kind = "cron" /\ b.state = "running" /\ b.label # None
         THEN b.label ELSE now

\* save_state: an error is ignored here
SaveAnchor(outlived) ==
    \/ /\ saved' = IF fire' = fire THEN saved ELSE fire'
       /\ forgot' = forgot \cup outlived
       /\ UNCHANGED faults
    \/ /\ fire' # fire
       /\ HasFault("save") /\ UseFault
       /\ forgot' = forgot \cup outlived \cup {"anchor"}
       /\ UNCHANGED saved

\* A schedule is there before its predecessor, or the run of an earlier life
\* of the service, was seen to be gone.
Outlived ==
    /\ desired # lastSeen /\ desired # NoService
    /\ lastSeen # NoService \/ fire' < since'

Seed ==
    /\ pc = "idle"
    /\ sched' = desired
    /\ live' = box
    /\ fire' = Anchor(desired, box)
    /\ since' = IF desired = lastSeen THEN since ELSE now
    /\ lastSeen' = desired
    /\ SaveAnchor(IF Outlived THEN {"removal"} ELSE {})
    /\ pc' = "plan"
    /\ UNCHANGED <<kind, now, desired, box, due, started, skipped, attempted,
                   wentDown, deploys>>

Latest(S) == CHOOSE t \in S : \A u \in S : u <= t

\* due_cron_fire: missed fires collapse to the latest one
DueFires(last) == {t \in sched : last < t /\ t <= now}

\* the last fire on record: in the label of a run, or in memory
LastFire ==
    IF live.label # None /\ live.label > fire THEN live.label ELSE fire

PlanNothing ==
    /\ pc' = "idle"
    /\ UNCHANGED <<box, due, faults>>

\* Undeployed: the container is removed, whatever it does.
PlanRemove ==
    /\ sched = NoService
    /\ pc' = "idle"
    /\ \/ box' = NoBox /\ UNCHANGED faults
       \/ live.state # "none" /\ HasFault("rm") /\ UseFault /\ UNCHANGED box
    /\ UNCHANGED due

\* mutant: a run in progress does not suppress the next
BugPlanCron ==
    /\ kind = "cron" /\ sched # NoService
    /\ LET D == DueFires(LastFire) IN
       \/ D = {} /\ PlanNothing
       \/ /\ D # {}
          /\ due' = Latest(D)
          /\ pc' = "pull"
          /\ UNCHANGED <<box, faults>>

\* plan_cron_service: a run in progress suppresses the due fire.
PlanCron ==
    /\ kind = "cron" /\ sched # NoService
    /\ LET D == DueFires(LastFire) IN
       \/ D = {} /\ PlanNothing
       \/ /\ D # {}
          /\ due' = Latest(D)
          /\ pc' = IF live.state = "running" THEN "skip" ELSE "pull"
          /\ UNCHANGED <<box, faults>>

DatabaseIsUp == live.state = "running"

\* mutant: a fire that finds the database down is recorded, as a cron fire
\* that finds a run in progress is
BugPlanBackup ==
    /\ kind = "backup" /\ sched # NoService
    /\ LET D == DueFires(fire) IN
       \/ D = {} /\ PlanNothing
       \/ /\ D # {}
          /\ due' = Latest(D)
          /\ pc' = IF DatabaseIsUp THEN "dump" ELSE "recordDump"
          /\ UNCHANGED <<box, faults>>

\* plan_backup_service: without a database that runs the fire stays due.
PlanBackup ==
    /\ kind = "backup" /\ sched # NoService
    /\ LET D == DueFires(fire) IN
       \/ (D = {} \/ ~DatabaseIsUp) /\ PlanNothing
       \/ /\ D # {} /\ DatabaseIsUp
          /\ due' = Latest(D)
          /\ pc' = "dump"
          /\ UNCHANGED <<box, faults>>

Plan ==
    /\ pc = "plan"
    /\ PlanRemove \/ PlanCron \/ PlanBackup
    /\ UNCHANGED <<kind, now, desired, saved, sched, live, fire, historyVars,
                   forgot, deploys>>

-----------------------------------------------------------------------------
(* apply_one.  An error ends the action; the next tick plans anew.          *)

worldFrame == <<kind, now, desired, sched, live, since, lastSeen, deploys>>

EndAction ==
    /\ pc' = "idle"
    /\ due' = None

Pull ==
    /\ pc = "pull"
    /\ \/ pc' = "clear" /\ UNCHANGED <<due, faults>>
       \/ HasFault("pull") /\ UseFault /\ EndAction
    /\ UNCHANGED <<worldFrame, saved, box, fire, started, skipped, attempted,
                   wentDown, forgot>>

\* The previous run is removed to free the container's name.
Clear ==
    /\ pc = "clear"
    /\ pc' = "record"
    /\ \/ live.state # "none" /\ box' = NoBox /\ UNCHANGED faults
       \/ live.state = "none" /\ UNCHANGED <<box, faults>>
       \/ live.state # "none" /\ HasFault("rm") /\ UseFault /\ UNCHANGED box
    /\ UNCHANGED <<worldFrame, saved, fire, due, started, skipped, attempted,
                   wentDown, forgot>>

\* record_cron_fire: in memory and on disk, or in neither
Recorded ==
    /\ fire' = due
    /\ saved' = due
    /\ UNCHANGED faults

NotRecorded ==
    /\ HasFault("save") /\ UseFault
    /\ UNCHANGED <<fire, saved>>

\* mutant: the fire is recorded in memory only
BugRecord ==
    /\ pc = "record"
    /\ fire' = due /\ pc' = "run"
    /\ UNCHANGED <<worldFrame, saved, box, due, started, skipped, attempted,
                   wentDown, forgot, faults>>

\* The fire is recorded before the container starts: a crash between the two
\* skips a run, never duplicates one.
Record ==
    /\ pc = "record"
    /\ \/ Recorded /\ pc' = "run" /\ UNCHANGED due
       \/ NotRecorded /\ EndAction
    /\ UNCHANGED <<worldFrame, box, started, skipped, attempted, wentDown, forgot>>

\* docker run, under the name the previous run had
Run ==
    /\ pc = "run"
    /\ \/ /\ box.state = "none"
          /\ box' = [state |-> "running", label |-> due]
          /\ started' = [started EXCEPT ![due] = @ + 1]
          /\ UNCHANGED faults
       \/ /\ box.state = "none"
          /\ HasFault("run") /\ UseFault
          /\ box' \in {NoBox, [state |-> "created", label |-> due]}
          /\ UNCHANGED started
       \/ /\ box.state # "none"
          /\ UNCHANGED <<box, started, faults>>
    /\ EndAction
    /\ UNCHANGED <<worldFrame, saved, fire, skipped, attempted, wentDown, forgot>>

Skip ==
    /\ pc = "skip"
    /\ \/ Recorded /\ skipped' = skipped \cup {due}
       \/ NotRecorded /\ UNCHANGED skipped
    /\ EndAction
    /\ UNCHANGED <<worldFrame, box, started, attempted, wentDown, forgot>>

\* perform_backup looks for the database again; whatever fails is reported,
\* and the fire is recorded all the same.
Dump ==
    /\ pc = "dump"
    /\ attempted' = IF box.state = "running" THEN attempted \cup {due}
                                             ELSE attempted
    /\ wentDown' = IF live.state = "running" /\ box.state # "running"
                   THEN wentDown \cup {due} ELSE wentDown
    /\ pc' = "recordDump"
    /\ UNCHANGED <<worldFrame, saved, box, fire, due, started, skipped,
                   forgot, faults>>

\* The fire is recorded after the attempt: a crash between the two repeats it.
RecordDump ==
    /\ pc = "recordDump"
    /\ Recorded \/ NotRecorded
    /\ EndAction
    /\ UNCHANGED <<worldFrame, box, started, skipped, attempted, wentDown, forgot>>

-----------------------------------------------------------------------------

Agent ==
    \/ Seed \/ Plan \/ Pull \/ Clear \/ Record \/ Run \/ Skip
    \/ Dump \/ RecordDump

World ==
    \/ Clock \/ Deploy \/ RunExits \/ DatabaseUp \/ DatabaseDown
    \/ Prune \/ AgentCrash

Next == Agent \/ World

Spec == Init /\ [][Next]_vars

\* The poll loop never stops ticking: systemd restarts the agent.
FairSpec == Spec /\ WF_vars(Agent)

-----------------------------------------------------------------------------
(* Properties.                                                              *)

(* A fire of a cron service starts at most one run, and one that was         *)
(* suppressed by a run in progress starts none, whatever crashes, failures   *)
(* to record, lost containers and lost state files there were: "a crash      *)
(* between the two skips a run, never duplicates one".                       *)
AtMostOnce ==
    /\ TypeOK
    /\ \A t \in Minute :
           /\ started[t] <= 1
           /\ t \in skipped /\ forgot = {} => started[t] = 0

(* A run in progress is removed only because its service was undeployed:     *)
(* clearing the way for the next run never kills one.                        *)
RunsAreNotKilled ==
    [][kind = "cron" /\ box.state = "running" =>
         box'.state \in {"running", "exited"} \/ sched = NoService]_vars

(* A schedule never replays history: a fire that is older than the agent's   *)
(* first sight of the schedule starts no run, also when the service was      *)
(* undeployed and deployed again, and when state.json was lost.              *)
NoReplay ==
    [][\A t \in Minute :
         started'[t] > started[t] => t > since \/ forgot \ {"file"} # {}]_vars

(* The runs that there are, are as they should be: none is killed by the      *)
(* next, none comes late.                                                    *)
RunsAreDue == RunsAreNotKilled /\ NoReplay

(* A fire that is due to a backup schedule that the agent knows.             *)
Pending(t) ==
    /\ kind = "backup"
    /\ t \in desired /\ lastSeen = desired
    /\ since < t /\ t <= now

(* A backup fire that came while its schedule was deployed is not lost: as   *)
(* long as the database keeps running a dump is attempted for it or a later  *)
(* fire, even if the agent dies before, in or after the dump, unless the     *)
(* record of the last one is lost with state.json.                           *)
BackupsAreTaken ==
    <>[](box.state = "running") =>
        \A t \in 1 .. MaxNow :
            [](desired # NoService /\ Pending(t) =>
                 <>(\/ \E u \in attempted \cup wentDown : t <= u
                    \/ forgot # {}
                    \/ desired # lastSeen \/ lastSeen = NoService))

=============================================================================
