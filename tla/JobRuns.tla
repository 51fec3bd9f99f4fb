------------------------------ MODULE JobRuns ------------------------------
(***************************************************************************)
(* One job of a footprint, run by `launchpad job run`: the CLI writes a    *)
(* run request into the node's desired.json, waits until status.json       *)
(* reports that very run, and takes the request out again.  The agent      *)
(* starts one container per request; the label of that container is the    *)
(* only record that a request was dispatched.                              *)
(*                                                                         *)
(* One S3 call, one docker call is one step.  Deploys write the same       *)
(* desired.json, commands are killed or time out, answers are lost, the    *)
(* agent and the host die.                                                 *)
(***************************************************************************)
EXTENDS Naturals, FiniteSets

CONSTANTS
    Runs,        \* the run ids: each invocation of `job run` draws a fresh one
    NoRun,       \* no request, or no container
    MAX_PUBLISH_RETRIES,
    MaxWrites,   \* bound: full deploys, and other puts of desired.json
    MaxFaults,   \* bound: faults
    FaultKinds   \* the faults that can happen

Fault == {"killed",    \* a command dies, or one of its calls fails
          "answer",    \* a put is applied but its answer is lost
           "agent",     \* the agent dies between two calls
          "split",     \* the agent dies inside docker run
          "host",      \* the node reboots
          "s3",        \* the agent cannot read desired.json or put its status
          "pull", "rm", "start"}  \* docker commands that fail

ASSUME JobAssumption ==
    /\ NoRun \notin Runs
    /\ MAX_PUBLISH_RETRIES \in Nat \ {0}
    /\ MaxWrites \in Nat /\ MaxFaults \in Nat
    /\ FaultKinds \subseteq Fault

VARIABLES
    entry,      \* the request in desired.json
    cli,        \* the command of each run
    container,  \* the container of the job
    agent,      \* the tick of the agent
    status,     \* what status.json says of the job
    begun,      \* history: how often the container of a run was started
    result,     \* history: how the container of a run ended
    excused,    \* history: the runs whose request a deploy took out
    writes, faults

vars == <<entry, cli, container, agent, status, begun, result, excused,
          writes, faults>>

Cli == [stage   : {"new", "get", "put", "wait", "regain", "remove", "done"},
        fresh   : BOOLEAN,           \* the ETag that was read is current
        seen    : Runs \cup {NoRun}, \* the request that was read
        tries   : 0 .. MAX_PUBLISH_RETRIES - 1,
        verdict : {"none", "refused", "ok", "failed", "unknown"}]

Container == [run   : Runs \cup {NoRun},
              state : {"none", "created", "running", "exited"},
              code  : 0 .. 1]

Agent == [pc    : {"idle", "remove", "pull", "clear", "run", "report"},
          want  : Runs \cup {NoRun},  \* the request as read
          error : BOOLEAN]            \* an action for the job failed

JobStatus == [run   : Runs \cup {NoRun},
              state : {"pending", "running", "succeeded", "failed"}]

TypeOK ==
    /\ entry \in Runs \cup {NoRun}
    /\ cli \in [Runs -> Cli]
    /\ container \in Container
    /\ agent \in Agent
    /\ status \in JobStatus
    /\ begun \in [Runs -> Nat]
    /\ result \in [Runs -> {"none", "ok", "bad"}]
    /\ excused \subseteq Runs
    /\ writes \in 0 .. MaxWrites /\ faults \in 0 .. MaxFaults

NoContainer == [run |-> NoRun, state |-> "none", code |-> 0]
Resting     == [pc |-> "idle", want |-> NoRun, error |-> FALSE]
Silent      == [run |-> NoRun, state |-> "pending"]

Init ==
    /\ entry = NoRun
    /\ cli = [r \in Runs |-> [stage |-> "new", fresh |-> TRUE, seen |-> NoRun,
                              tries |-> 0, verdict |-> "none"]]
    /\ container = NoContainer /\ agent = Resting /\ status = Silent
    /\ begun = [r \in Runs |-> 0] /\ result = [r \in Runs |-> "none"]
    /\ excused = {}
    /\ writes = MaxWrites /\ faults = MaxFaults

May(kind) == kind \in FaultKinds /\ faults > 0 /\ faults' = faults - 1

past == <<begun, result, excused>>

-----------------------------------------------------------------------------
(* desired.json                                                             *)

\* Everybody else's ETag is out of date; r goes on as mine says.
Stale(r, mine) ==
    cli' = [c \in Runs |-> IF c = r THEN mine ELSE [cli[c] EXCEPT !.fresh = FALSE]]

\* A full deploy of the footprint merges with mergeProjectServices, which
\* replaces everything the footprint has on the node, a job's request too.
FullDeploy ==
    /\ writes > 0 /\ writes' = writes - 1
    /\ entry' = NoRun
    /\ excused' = IF entry = NoRun THEN excused ELSE excused \cup {entry}
    /\ cli' = [c \in Runs |-> [cli[c] EXCEPT !.fresh = FALSE]]
    /\ UNCHANGED <<container, agent, status, begun, result, faults>>

\* A subset deploy, or a command of another footprint
OtherWrite ==
    /\ writes > 0 /\ writes' = writes - 1
    /\ cli' = [c \in Runs |-> [cli[c] EXCEPT !.fresh = FALSE]]
    /\ UNCHANGED <<entry, container, agent, status, past, faults>>

-----------------------------------------------------------------------------
(* runJob                                                                   *)

Goes(r, stage)   == [cli[r] EXCEPT !.stage = stage, !.tries = 0]
Ends(r, verdict) == [cli[r] EXCEPT !.stage = "done", !.verdict = verdict]
Cmd(r, c)        == cli' = [cli EXCEPT ![r] = c]

agentOnly == <<container, agent, status>>

\* The job is looked up, its secrets are there, the footprint's one node (or
\* its database's) is chosen and the image is built; or one of it fails.
Invoke(r) ==
    /\ cli[r].stage = "new"
    /\ Cmd(r, Goes(r, "get")) \/ Cmd(r, Ends(r, "refused"))
    /\ UNCHANGED <<entry, agentOnly, past, writes, faults>>

\* Another run's request is there: it is taken to be running.
Taken(r) == entry \notin {NoRun, r}

\* publishJobRun reads the node's desired.json.
Get(r) ==
    /\ cli[r].stage = "get"
    /\ Cmd(r, IF Taken(r) THEN Ends(r, "refused")
              ELSE [cli[r] EXCEPT !.stage = "put", !.fresh = TRUE, !.seen = entry])
    /\ UNCHANGED <<entry, agentOnly, past, writes, faults>>

\* A PreconditionFailedError: the next attempt, or the end
Again(r, stage, verdict) ==
    IF cli[r].tries + 1 < MAX_PUBLISH_RETRIES
    THEN [cli[r] EXCEPT !.stage = stage, !.tries = @ + 1]
    ELSE Ends(r, verdict)

\* publishJobRun puts the request.
Publish(r) ==
    /\ cli[r].stage = "put"
    /\ \/ /\ ~cli[r].fresh
          /\ Cmd(r, Again(r, "get", "refused"))
          /\ UNCHANGED <<entry, faults>>
       \/ /\ cli[r].fresh
          /\ entry' = r
          /\ \/ Stale(r, Goes(r, "wait")) /\ UNCHANGED faults
             \* The SDK repeats the put and finds its own object.
             \/ Stale(r, Again(r, "get", "refused")) /\ May("answer")
    /\ UNCHANGED <<agentOnly, past, writes>>

\* waitForJob
Verdict(r) ==
    CASE status.run = r /\ status.state = "succeeded" -> "ok"
      [] status.run = r /\ status.state = "failed"    -> "failed"
      [] OTHER -> "none"

Wait(r) ==
    /\ cli[r].stage = "wait" /\ Verdict(r) # "none"
    /\ Cmd(r, [Goes(r, "regain") EXCEPT !.verdict = Verdict(r)])
    /\ UNCHANGED <<entry, agentOnly, past, writes, faults>>

\* --no-wait, or waitForJob times out: the request stays.
GiveUp(r) ==
    /\ cli[r].stage = "wait"
    /\ Cmd(r, Ends(r, "unknown"))
    /\ UNCHANGED <<entry, agentOnly, past, writes, faults>>

\* mutant: whatever run is requested
BugMine(r) == cli[r].seen # NoRun

\* removeJobRun filters by the id of the run.
Mine(r) == cli[r].seen = r

Regain(r) ==
    /\ cli[r].stage = "regain"
    /\ Cmd(r, IF entry = NoRun THEN [Ends(r, cli[r].verdict) EXCEPT !.seen = NoRun]
              ELSE [cli[r] EXCEPT !.stage = "remove", !.fresh = TRUE, !.seen = entry])
    /\ UNCHANGED <<entry, agentOnly, past, writes, faults>>

Remove(r) ==
    /\ cli[r].stage = "remove"
    /\ \/ ~Mine(r) /\ Cmd(r, Ends(r, cli[r].verdict)) /\ UNCHANGED <<entry, faults>>
       \/ /\ Mine(r) /\ ~cli[r].fresh
          /\ Cmd(r, Again(r, "regain", cli[r].verdict))
          /\ UNCHANGED <<entry, faults>>
       \/ /\ Mine(r) /\ cli[r].fresh
          /\ entry' = NoRun
          /\ \/ Stale(r, Ends(r, cli[r].verdict)) /\ UNCHANGED faults
             \/ Stale(r, Again(r, "regain", cli[r].verdict)) /\ May("answer")
    /\ UNCHANGED <<agentOnly, past, writes>>

Killed(r) ==
    /\ cli[r].stage \notin {"new", "done"} /\ May("killed")
    /\ Cmd(r, Ends(r, cli[r].verdict))
    /\ UNCHANGED <<entry, agentOnly, past, writes>>

-----------------------------------------------------------------------------
(* The agent's tick, as far as it concerns this job                         *)

Busy == container.state = "running"

\* mutant: only a run that is still running is taken for dispatched
BugDispatched(w) == container.run = w /\ Busy

\* plan_job_service: a container with the request's label, whatever its state
Dispatched(w) == container.run = w

\* plan_reconcile: nothing, Remove, or JobRun unless it would overlap
Plan(w) ==
    IF w = NoRun
    THEN IF container = NoContainer THEN "report" ELSE "remove"
    ELSE IF Dispatched(w) \/ Busy THEN "report" ELSE "pull"

cliOnly == <<entry, cli, writes>>

BeginTick ==
    /\ agent.pc = "idle"
    /\ agent' = [pc |-> Plan(entry), want |-> entry, error |-> FALSE]
    /\ UNCHANGED <<cliOnly, container, status, past, faults>>

\* rm -f, its error ignored
Rm(next) ==
    /\ agent' = [agent EXCEPT !.pc = next]
    /\ \/ container' = NoContainer /\ UNCHANGED faults
       \/ container # NoContainer /\ UNCHANGED container /\ May("rm")
    /\ UNCHANGED <<cliOnly, status, past>>

RemoveContainer == agent.pc = "remove" /\ Rm("report")

Failing == agent' = [agent EXCEPT !.pc = "report", !.error = TRUE]

Pull ==
    /\ agent.pc = "pull"
    /\ \/ agent' = [agent EXCEPT !.pc = "clear"] /\ UNCHANGED faults
       \/ Failing /\ May("pull")
    /\ UNCHANGED <<cliOnly, container, status, past>>

\* The container of an earlier run has the name the new one needs.
Clear == agent.pc = "clear" /\ Rm("run")

Starts(w) ==
    /\ container' = [run |-> w, state |-> "running", code |-> 0]
    /\ begun' = [begun EXCEPT ![w] = @ + 1]

\* The name is taken, or there is a container now: it runs, or it is left in
\* the state created with the exit code of the failed start.
Run ==
    /\ agent.pc = "run"
    /\ \/ /\ container # NoContainer
          /\ Failing /\ UNCHANGED <<container, begun, faults>>
       \/ /\ container = NoContainer
          /\ Starts(agent.want)
          /\ agent' = [agent EXCEPT !.pc = "report"]
          /\ UNCHANGED faults
       \/ /\ container = NoContainer
          /\ container' = [run |-> agent.want, state |-> "created", code |-> 1]
          /\ Failing /\ May("start")
          /\ UNCHANGED begun
    /\ UNCHANGED <<cliOnly, status, result, excused>>

\* mutant: an exit code is one of success unless the container runs
BugRunState(w) == IF Busy THEN "running" ELSE "succeeded"

RunState(w) ==
    CASE container.run = w /\ Busy  -> "running"
      [] container.run = w /\ ~Busy -> IF container.code = 0 THEN "succeeded" ELSE "failed"
      [] OTHER -> "pending"

\* job_run_service_view, from the request as read and docker as it is
View == IF agent.want = NoRun THEN Silent
        ELSE [run   |-> agent.want,
              state |-> IF agent.error THEN "failed" ELSE RunState(agent.want)]

\* The status at the end of the tick.  If it cannot be put, the minimal
\* heartbeat is tried, which lists no service.
Report ==
    /\ agent.pc = "report"
    /\ agent' = Resting
    /\ \/ status' = View /\ UNCHANGED faults
       \/ status' \in {status, Silent} /\ May("s3")
    /\ UNCHANGED <<cliOnly, container, past>>

\* A rollout of another service re-publishes the status in the middle.
Heartbeat ==
    /\ agent.pc # "idle" /\ status # View
    /\ status' = View
    /\ UNCHANGED <<cliOnly, container, agent, past, faults>>

\* desired.json cannot be read: the tick fails, the heartbeat lists nothing.
ReadFails ==
    /\ agent.pc = "idle" /\ May("s3")
    /\ status' = Silent
    /\ UNCHANGED <<cliOnly, container, agent, past>>

AgentCrash ==
    /\ agent # Resting
    /\ agent' = Resting
    /\ \/ May("agent") /\ UNCHANGED <<container, begun, excused>>
       \/ /\ agent.pc = "run" /\ container = NoContainer /\ May("split")
          /\ \/ Starts(agent.want) /\ UNCHANGED excused
             \/ /\ container' = [run |-> agent.want, state |-> "created", code |-> 0]
                /\ excused' = excused \cup {agent.want}
                /\ UNCHANGED begun
    /\ UNCHANGED <<cliOnly, status, result>>

-----------------------------------------------------------------------------
(* The container                                                            *)

Exit(code) ==
    /\ Busy
    /\ container' = [container EXCEPT !.state = "exited", !.code = code]
    /\ result' = [result EXCEPT ![container.run] = IF code = 0 THEN "ok" ELSE "bad"]

ContainerExits ==
    /\ \E code \in 0 .. 1 : Exit(code)
    /\ UNCHANGED <<cliOnly, agent, status, begun, excused, faults>>

\* The restart policy is "no": a run does not come back with its node.
HostReboots ==
    /\ May("host") /\ agent' = Resting
    /\ Exit(1)
    /\ UNCHANGED <<cliOnly, status, begun, excused>>

-----------------------------------------------------------------------------

Command(r) ==
    \/ Invoke(r) \/ Get(r) \/ Publish(r) \/ Wait(r) \/ GiveUp(r)
    \/ Regain(r) \/ Remove(r) \/ Killed(r)

Tick ==
    \/ BeginTick \/ RemoveContainer \/ Pull \/ Clear \/ Run \/ Report

Next ==
    \/ \E r \in Runs : Command(r)
    \/ Tick \/ Heartbeat \/ ReadFails \/ AgentCrash
    \/ ContainerExits \/ HostReboots
    \/ FullDeploy \/ OtherWrite

Spec == Init /\ [][Next]_vars

\* The poll loop never ends, a command that is not killed goes on, and the
\* container of a job ends some day.
Fairness ==
    /\ WF_vars(Tick)
    /\ WF_vars(ContainerExits)
    /\ \A r \in Runs :
         WF_vars(Get(r) \/ Publish(r) \/ Wait(r) \/ Regain(r) \/ Remove(r))

FairSpec == Spec /\ Fairness

-----------------------------------------------------------------------------
(* Properties.                                                              *)

(* The state is well typed, and "run a top-level [[job]] exactly once", the   *)
(* half that forbids: however the agent dies, docker fails, answers are lost *)
(* and puts are repeated, the container of a run is started at most once.  A *)
(* run whose request a deploy took out while it was being published may be   *)
(* published again.                                                          *)
AtMostOnce ==
    /\ TypeOK
    /\ \A r \in Runs \ excused : begun[r] <= 1

(* The exit status of `job run` is that of the job: it reports success only   *)
(* of a run whose container was started and ended with exit code 0, through   *)
(* stale status documents, failing docker commands and restarted agents,      *)
(* except of a container that docker was creating when the agent died.        *)
VerdictIsTrue ==
    \A r \in Runs \ excused :
        cli[r].verdict = "ok" => begun[r] = 1 /\ result[r] = "ok"

(* A command takes out only its own request, also when another run is         *)
(* published while it retries: a request leaves desired.json by the command   *)
(* that put it, after it got its verdict, or by a deploy.                     *)
RequestsAreKept ==
    [][\A r \in Runs :
         entry = r /\ entry' # r =>
            \/ writes' # writes
            \/ cli[r].stage = "remove" /\ cli[r].verdict \in {"ok", "failed"}]_vars

(* "Exactly once", the other half: a request that is published is eventually  *)
(* started, or its container could not be, or the request is taken out: an    *)
(* agent that restarts, and the container of an earlier run, do not lose it.  *)
RequestsAreRun ==
    \A r \in Runs : (entry = r) ~> (begun[r] > 0 \/ container.run = r \/ entry # r)

(* No request is lost: none is taken out by another command, and one that     *)
(* stays is run.                                                              *)
RequestsAreServed == RequestsAreKept /\ RequestsAreRun

=============================================================================
