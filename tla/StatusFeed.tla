---------------------------- MODULE StatusFeed ----------------------------
(***************************************************************************)
(* The way back from a node: a deploy publishes a service, an SNS message  *)
(* in the node's SQS queue wakes the agent, the agent acts and puts        *)
(* status.json, and the deploy waits until that document says the service  *)
(* runs.  The same document is the node's heartbeat.                       *)
(*                                                                         *)
(* One service with one replica of one node.  Publications are numbered; a *)
(* container is named by the publication it was started for.  The unit of  *)
(* time is a fraction of the poll interval.                                *)
(***************************************************************************)
EXTENDS Naturals

CONSTANTS
    Poll,       \* LAUNCHPAD_POLL_MS
    Liveness,   \* LAUNCHPAD_LIVENESS_MS, as asked for
    Stale,      \* HEARTBEAT_STALE_MS
    MaxTick,    \* how long a tick acts before it puts a status
    MaxGen,     \* bound: publications
    MaxFaults,  \* bound: faults
    FaultKinds  \* the faults that can happen

Fault == {"sns",    \* the queue is not wired or the message is not published
          "delete", \* a message is not deleted and comes again
          "read",   \* the agent cannot read desired.json, or docker
          "act",    \* pull or health gate fails
          "put",    \* status.json cannot be put
          "crash"}  \* the agent dies

ASSUME FeedAssumption ==
    /\ Poll \in Nat \ {0} /\ Liveness \in Nat /\ Stale \in Nat \ {0}
    /\ MaxTick \in Nat /\ MaxGen \in Nat /\ MaxFaults \in Nat
    /\ FaultKinds \subseteq Fault

Gens  == 0 .. MaxGen
Kinds == {"build", "restart", "remove"}   \* deploy, deploy --restart, destroy

VARIABLES
    desired,    \* the last publication
    image,      \* the publication that built each one's image, 0: a removal
    deploy,     \* the command
    mail,       \* messages are in the node's queue
    delivered,  \* history: the last publication of which a message came
    taken,      \* the listener deleted messages, before notify_one
    permit,     \* the permit of Notify
    agent,      \* the poll loop
    box,        \* the running container, 0: none
    doc,        \* status.json
    last,       \* the agent's write tracker: what it wrote, or Nothing
    age,        \* time since doc was put
    missed,     \* history: a put failed or the agent died since
    faults

feed   == <<mail, delivered, taken, permit>>
vars   == <<desired, image, deploy, feed, agent, box, doc, last, age, missed, faults>>

\* resolve_liveness
BeatEvery == IF Liveness > Stale \div 2 \/ Liveness = 0 THEN Stale \div 2 ELSE Liveness

\* The oldest status that a tick leaves as it is
Grace == IF BeatEvery = 0 THEN 0 ELSE BeatEvery - 1

\* The longest silence of an agent whose puts succeed: the tick that put nothing,
\* the wait and the tick after it.
Silence == Grace + Poll + MaxTick

\* bound: time is not counted beyond this.
Clock == Silence + Stale + 1

\* What a status says of the service: whether it is listed, in which
\* container it runs and whether its last action failed.
Doc     == [lists : BOOLEAN, run : Gens, error : BOOLEAN]
Minimal == [lists |-> FALSE, run |-> 0, error |-> FALSE]
Nothing == [lists |-> FALSE, run |-> 0, error |-> TRUE]   \* no status is this

Agent == [pc   : {"sleep", "read", "act", "write", "beat"},
          want : Gens,        \* desired.json as read
          left : 0 .. Poll,   \* until the poll interval is over
          busy : 0 .. MaxTick,
          error : BOOLEAN,    \* an action failed
          blind : BOOLEAN]    \* desired.json could not be read

Deploy == [pc : {"idle", "look", "put", "notify", "watch"},
           kind : Kinds,
           seen : Gens,      \* previousContainerIds
           settled : BOOLEAN,
           verdict : {"none", "ok", "error", "timeout"}]

TypeOK ==
    /\ desired \in Gens /\ image \in [Gens -> Gens]
    /\ deploy \in Deploy
    /\ mail \in BOOLEAN /\ taken \in BOOLEAN /\ permit \in BOOLEAN
    /\ delivered \in Gens
    /\ agent \in Agent /\ box \in Gens
    /\ doc \in Doc /\ last \in Doc \cup {Nothing}
    /\ age \in 0 .. Clock /\ missed \in BOOLEAN
    /\ faults \in 0 .. MaxFaults

Init ==
    /\ desired = 0 /\ image = [g \in Gens |-> 0]
    /\ deploy = [pc |-> "idle", kind |-> "build", seen |-> 0, settled |-> FALSE,
                 verdict |-> "none"]
    /\ mail = FALSE /\ delivered = 0 /\ taken = FALSE /\ permit = FALSE
    /\ agent = [pc |-> "read", want |-> 0, left |-> 0, busy |-> 0,
                error |-> FALSE, blind |-> FALSE]
    /\ box = 0 /\ doc = Minimal /\ last = Nothing
    /\ age = 0 /\ missed = FALSE /\ faults = MaxFaults

May(kind) == kind \in FaultKinds /\ faults > 0 /\ faults' = faults - 1

-----------------------------------------------------------------------------
(* The command                                                              *)

node  == <<agent, box, doc, last, age, missed>>
world == <<desired, image, deploy>>

\* runDeploy or runDestroy up to the publication: what is restarted or removed
\* is there.
Begin(kind) ==
    /\ deploy.pc = "idle" /\ desired < MaxGen
    /\ kind # "build" => image[desired] # 0
    /\ deploy' = [deploy EXCEPT !.pc = "look", !.kind = kind, !.verdict = "none"]
    /\ UNCHANGED <<desired, image, feed, node, faults>>

\* What the node reports is what it runs and was told to run.
Settled ==
    doc.lists /\ doc.run = desired /\ box = desired /\ agent.want = desired

\* loadRunningContainerIds
Look ==
    /\ deploy.pc = "look"
    /\ deploy' = [deploy EXCEPT !.pc = "put", !.settled = Settled,
                    !.seen = IF deploy.kind = "restart" THEN doc.run ELSE 0]
    /\ UNCHANGED <<desired, image, feed, node, faults>>

\* publishDesired: a build has an image of its own, a restart has the
\* published one and a new restartAt.
Publish ==
    /\ deploy.pc = "put"
    /\ desired' = desired + 1
    /\ image' = [image EXCEPT ![desired + 1] =
                   CASE deploy.kind = "build"   -> desired + 1
                     [] deploy.kind = "restart" -> image[desired]
                     [] deploy.kind = "remove"  -> 0]
    /\ deploy' = [deploy EXCEPT !.pc = "notify"]
    /\ UNCHANGED <<feed, node, faults>>

\* publishDeployNotification, to a queue that ensureNodeQueue subscribed
Notice == mail' = TRUE /\ delivered' = desired

\* Best effort; a destroy sends no message.
Notify ==
    /\ deploy.pc = "notify"
    /\ deploy' = [deploy EXCEPT !.pc = "watch"]
    /\ \/ deploy.kind # "remove" /\ Notice /\ UNCHANGED faults
       \/ deploy.kind # "remove" /\ May("sns") /\ UNCHANGED <<mail, delivered>>
       \/ deploy.kind = "remove" /\ UNCHANGED <<mail, delivered, faults>>
    /\ UNCHANGED <<desired, image, taken, permit, node>>

\* mutant: the containers the restart shall replace are not looked at
BugConverged ==
    doc.lists /\ ~doc.error /\ doc.run # 0 /\ image[doc.run] = image[desired]

\* evaluate
Converged ==
    /\ doc.lists /\ ~doc.error /\ doc.run # 0
    /\ image[doc.run] = image[desired]
    /\ deploy.kind = "restart" => doc.run # deploy.seen

Failed == doc.lists /\ doc.error

Ends(verdict) ==
    /\ deploy' = [deploy EXCEPT !.pc = "idle", !.verdict = verdict]
    /\ UNCHANGED <<desired, image, feed, node, faults>>

\* waitForConvergence: all well, an error, or the deadline
Watch ==
    /\ deploy.pc = "watch" /\ deploy.kind # "remove"
    /\ \/ Converged /\ Ends("ok")
       \/ Failed /\ Ends("error")
       \/ ~Converged /\ ~Failed /\ Ends("timeout")

\* drained
Drained == ~(doc.lists /\ doc.run # 0)

\* waitForDrain
WatchDrain ==
    /\ deploy.pc = "watch" /\ deploy.kind = "remove"
    /\ Ends(IF Drained THEN "ok" ELSE "timeout")

-----------------------------------------------------------------------------
(* run_sqs_listener                                                         *)

\* receive_message and delete_message
Receive ==
    /\ mail /\ ~taken
    /\ taken' = TRUE
    /\ \/ mail' = FALSE /\ UNCHANGED faults
       \/ UNCHANGED mail /\ May("delete")
    /\ UNCHANGED <<world, delivered, permit, node>>

NotifyOne ==
    /\ taken
    /\ taken' = FALSE /\ permit' = TRUE
    /\ UNCHANGED <<world, mail, delivered, node, faults>>

-----------------------------------------------------------------------------
(* run_poll_loop and the tick                                               *)

\* wait_or_wake: the permit, or the interval
Wake ==
    /\ agent.pc = "sleep"
    /\ permit \/ agent.left = 0
    /\ permit' = FALSE \/ (agent.left = 0 /\ permit' = permit)
    /\ agent' = [agent EXCEPT !.pc = "read", !.left = 0, !.error = FALSE]
    /\ UNCHANGED <<world, mail, delivered, taken, box, doc, last, age, missed, faults>>

\* mutant: a wake-up that came during the tick is forgotten
BugSleep(a) ==
    agent' = [a EXCEPT !.pc = "sleep", !.left = Poll, !.busy = 0] /\ permit' = FALSE

\* The permit of a wake-up that came during the tick is kept.
Sleep(a) ==
    agent' = [a EXCEPT !.pc = "sleep", !.left = Poll, !.busy = 0] /\ permit' = permit

here == <<world, mail, delivered, taken, permit>>

Read ==
    /\ agent.pc = "read"
    /\ \/ agent' = [agent EXCEPT !.pc = "act", !.want = desired, !.blind = FALSE]
          /\ UNCHANGED faults
       \/ agent' = [agent EXCEPT !.pc = "beat", !.blind = TRUE] /\ May("read")
    /\ UNCHANGED <<here, box, doc, last, age, missed>>

\* mutant: restartAt is not part of what makes a container out of date
BugOutdated == image[box] # image[agent.want]

\* replica_needs_replace: another image, or another config stamp; a service
\* that is not desired has no container.
Outdated == box # IF image[agent.want] = 0 THEN 0 ELSE agent.want

\* plan_reconcile and apply_actions: the container is replaced, or the pull or
\* the health gate fails and the old one is kept.
Act ==
    /\ agent.pc = "act"
    /\ \/ /\ agent' = [agent EXCEPT !.pc = "write"]
          /\ box' = IF Outdated THEN (IF image[agent.want] = 0 THEN 0 ELSE agent.want)
                    ELSE box
          /\ UNCHANGED faults
       \/ /\ Outdated /\ UNCHANGED box
          /\ agent' = [agent EXCEPT !.pc = "write", !.error = TRUE]
          /\ May("act")
    /\ UNCHANGED <<here, doc, last, age, missed>>

\* build_status
View == IF image[agent.want] = 0 THEN Minimal
        ELSE [lists |-> TRUE, run |-> box, error |-> agent.error]

\* mutant: the heartbeat is due only above the window of the CLI
BugDue(d) == last = Nothing \/ last # d \/ age > Stale

\* decide_status_write: the first, a changed one, or a heartbeat
Due(d) == last = Nothing \/ last # d \/ age >= BeatEvery

Put(d) == doc' = d /\ last' = d /\ age' = 0 /\ missed' = FALSE
Lost   == missed' = TRUE /\ UNCHANGED <<last, age>>

\* write_status_maybe: the tracker moves only with a put that succeeded.
Write ==
    /\ agent.pc = "write"
    /\ UNCHANGED <<world, mail, delivered, taken, box>>
    /\ \/ Due(View) /\ Put(View) /\ Sleep(agent) /\ UNCHANGED faults
       \/ /\ Due(View) /\ May("put") /\ Lost /\ UNCHANGED <<doc, permit>>
          /\ agent' = [agent EXCEPT !.pc = "beat"]
       \/ ~Due(View) /\ Sleep(agent) /\ UNCHANGED <<doc, last, age, missed, faults>>

\* The minimal heartbeat after a tick that failed, best effort
Beat ==
    /\ agent.pc = "beat"
    /\ Sleep(agent)
    /\ \/ Put(Minimal) /\ UNCHANGED faults
       \/ May("put") /\ Lost /\ UNCHANGED doc
    /\ UNCHANGED <<world, mail, delivered, taken, box>>

\* heartbeat(): another service's rollout puts a status in the middle.
MidTick ==
    /\ agent.pc = "act"
    /\ Put(View)
    /\ UNCHANGED <<here, agent, box, faults>>

\* systemd starts the agent again.
Crash ==
    /\ May("crash")
    /\ agent' = [pc |-> "read", want |-> 0, left |-> 0, busy |-> 0, error |-> FALSE,
                 blind |-> FALSE]
    /\ taken' = FALSE /\ permit' = FALSE /\ last' = Nothing /\ missed' = TRUE
    /\ UNCHANGED <<world, mail, delivered, box, doc, age>>

\* wait_or_wake sleeps.
Asleep == agent.pc = "sleep" /\ ~permit /\ agent.left > 0

\* Time passes while the agent sleeps or acts.
Elapse ==
    /\ \/ /\ Asleep
          /\ agent' = [agent EXCEPT !.left = @ - 1]
       \/ /\ agent.pc = "act" /\ agent.busy < MaxTick
          /\ agent' = [agent EXCEPT !.busy = @ + 1]
    /\ age' = IF age < Clock THEN age + 1 ELSE age
    /\ UNCHANGED <<here, box, doc, last, missed, faults>>

-----------------------------------------------------------------------------

Command == Look \/ Publish \/ Notify \/ Watch \/ WatchDrain
Tick    == Wake \/ Read \/ Act \/ Write \/ Beat

Next ==
    \/ \E kind \in Kinds : Begin(kind)
    \/ Command \/ Receive \/ NotifyOne \/ Tick \/ MidTick \/ Crash \/ Elapse

Spec == Init /\ [][Next]_vars

\* The loop and the listener never stop, and time passes.
Fairness == WF_vars(Command) /\ WF_vars(Receive) /\ WF_vars(NotifyOne)
            /\ WF_vars(Tick) /\ WF_vars(Elapse)

FairSpec == Spec /\ Fairness

-----------------------------------------------------------------------------
(* Properties.                                                              *)

(* The listener deletes a message before it wakes the loop, and one permit    *)
(* stands for many messages: still the agent never sleeps on a publication    *)
(* whose message reached its queue, unless it could not read desired.json.    *)
WakeIsKept ==
    agent.pc = "sleep" /\ agent.want < delivered =>
        mail \/ taken \/ permit \/ agent.blind

\* isHeartbeatStale
TakenForDead == age > Stale

(* docs/agent.md:111-113: between changes the agent "still re-publishes every  *)
(* LIVENESS_HEARTBEAT_MS (30s) as a liveness heartbeat so the CLI's staleness *)
(* check (60s) stays reliable": the CLI takes no node for dead whose puts     *)
(* succeed.  With the defaults of types.rs it does: liveness fires per tick,  *)
(* and the poll is as long as the window.                                    *)
FreshWhileAlive == TakenForDead => missed

(* How long decide_status_write lets an agent be silent whose puts succeed:   *)
(* a status too young for a heartbeat, the wait and the tick after it.        *)
SilenceIsBounded == ~missed => age <= Silence

(* The agent keeps in touch both ways: it hears of every publication, and is  *)
(* heard of within the silence that the cadences allow.                       *)
StaysInTouch == TypeOK /\ WakeIsKept /\ SilenceIsBounded

(* A deploy that waited and reports convergence: a container of what it       *)
(* published was started, through heartbeats that list nothing, writes in     *)
(* the middle of a tick and restarts of the agent.  Of a restart it holds if  *)
(* the status it looked at was the truth.                                     *)
ConvergedMeansRan ==
    /\ deploy.verdict = "ok"
    /\ deploy.kind = "build" \/ (deploy.kind = "restart" /\ deploy.settled)
    => box = desired

(* When the deploys end, the node runs the last publication and status.json   *)
(* comes to say so, after any failing reads, puts and actions.                *)
StatusCatchesUp ==
    <>[](doc = IF image[desired] = 0 THEN Minimal
               ELSE [lists |-> TRUE, run |-> desired, error |-> FALSE])

=============================================================================
