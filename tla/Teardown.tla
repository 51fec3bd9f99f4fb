------------------------------ MODULE Teardown ------------------------------
(***************************************************************************)
(* Taking deployments down: destroy of a base footprint, of a named        *)
(* environment (--env), of every expired one (--prune-expired) and of a    *)
(* whole project (--project), against the deploys that put them up.        *)
(*                                                                         *)
(* A footprint is known by its owner name alone.  What says that it exists *)
(* is spread over the bucket: its services in desired.json, a              *)
(* configuration baseline, an environment's marker with its time to live,  *)
(* its component's entry in the project's index, its secrets in SSM.  A    *)
(* deploy writes them one after the other, a teardown removes them one     *)
(* after the other, and a removal goes by what it read at its beginning.   *)
(* Two footprints of different projects can have one owner name: the       *)
(* environment "app" of "my", and the project "my-app".                    *)
(*                                                                         *)
(* The loop that puts one desired.json is DesiredStore's; here a           *)
(* footprint's services are one object, published and removed in a step.   *)
(***************************************************************************)
EXTENDS Naturals, FiniteSets

CONSTANTS
    Bases, Envs,     \* footprints: of components, and of their environments
    Projects, Owners,
    ProjectOf,       \* the project of each footprint
    BaseOf,          \* the base footprint of its component
    OwnerOf,         \* its owner name
    NoFootprint,
    CLIs,            \* processes that run commands
    MaxStarts,       \* bound: commands started, other than prunes of something
    MaxFaults        \* bound: calls that fail, processes killed

Footprints == Bases \cup Envs

ASSUME TeardownAssumption ==
    /\ Bases \cap Envs = {}
    /\ ProjectOf \in [Footprints -> Projects]
    /\ OwnerOf \in [Footprints -> Owners]
    /\ BaseOf \in [Footprints -> Bases]
    /\ Bases # {}
    /\ \A b \in Bases : BaseOf[b] = b
    /\ \A f \in Footprints : ProjectOf[BaseOf[f]] = ProjectOf[f]
    /\ NoFootprint \notin Footprints
    /\ MaxStarts \in Nat /\ MaxFaults \in Nat

VARIABLES
    desired,     \* whose services are published under each owner
    baseline,    \* whose configuration baseline is there
    marker,      \* the environment's marker
    index,       \* the components in each project's index; empty: no index
    secrets,     \* whether the owner's secrets are in SSM
    job,         \* the command each CLI runs
    sound,       \* history: the owner's last deploy ended, and by itself
    starts, faults

state == <<desired, baseline, marker, index, secrets>>
vars  == <<state, job, sound, starts, faults>>

Marker   == [of : Envs, ttl : {"none", "runs", "expired"}]
NoMarker == [of |-> NoFootprint, ttl |-> "none"]

Kinds  == {"deploy", "base", "env", "prune", "project"}
Stages == {"idle", "lock", "secrets", "publish", "baseline", "index", "marker",
           "list", "next", "check", "plan", "remove", "unlock", "wait", "purge",
           "keys", "sweep", "unregister"}

Job == [kind    : Kinds,
        of      : Footprints,             \* deployed, or the one in hand
        ttl     : BOOLEAN,                \* deploy --ttl
        purge   : BOOLEAN,                \* --purge-secrets
        stage   : Stages,
        todo    : SUBSET Footprints,      \* to be torn down
        keys    : SUBSET {"baseline", "marker"},  \* the sweep's listing
        failed  : BOOLEAN,                \* one of the teardowns failed
        alone   : BOOLEAN]                \* history: nobody met the deploy

TypeOK ==
    /\ desired \in [Owners -> Footprints \cup {NoFootprint}]
    /\ baseline \in [Owners -> Footprints \cup {NoFootprint}]
    /\ marker \in [Owners -> Marker \cup {NoMarker}]
    /\ index \in [Projects -> SUBSET Bases]
    /\ secrets \in [Owners -> BOOLEAN]
    /\ job \in [CLIs -> Job]
    /\ sound \in [Owners -> BOOLEAN]
    /\ starts \in 0 .. MaxStarts /\ faults \in 0 .. MaxFaults

Idle == [kind |-> "deploy", of |-> CHOOSE f \in Footprints : TRUE, ttl |-> FALSE,
         purge |-> FALSE, stage |-> "idle", todo |-> {},
         keys |-> {}, failed |-> FALSE, alone |-> TRUE]

Init ==
    /\ desired = [o \in Owners |-> NoFootprint]
    /\ baseline = [o \in Owners |-> NoFootprint]
    /\ marker = [o \in Owners |-> NoMarker]
    /\ index = [p \in Projects |-> {}]
    /\ secrets = [o \in Owners |-> TRUE]
    /\ job = [c \in CLIs |-> Idle]
    /\ sound = [o \in Owners |-> FALSE]
    /\ starts = MaxStarts /\ faults = MaxFaults

Owner(c)   == OwnerOf[job[c].of]
Project(c) == ProjectOf[job[c].of]
At(c, s)   == job[c].stage = s
Active(c)  == ~At(c, "idle")

\* The owners a command deals with, once it has listed them
Targets(j) == {OwnerOf[f] : f \in j.todo \cup
                 IF j.kind \in {"env", "prune", "project"} /\ j.stage \in {"list", "next"}
                 THEN {} ELSE {j.of}}

\* Two commands are in each other's way: one owner, or a whole project
Meet(i, j) ==
    \/ Targets(i) \cap Targets(j) # {}
    \/ /\ "project" \in {i.kind, j.kind}
       /\ ProjectOf[i.of] = ProjectOf[j.of]

\* c's command becomes j; no deploy it meets is alone any more.
Becomes(c, j) ==
    LET met == {d \in CLIs \ {c} : Active(d) /\ j.stage # "idle" /\ Meet(j, job[d])}
        Met(i, others) == [i EXCEPT !.alone = @ /\ (i.kind = "deploy" => others = {})]
    IN  job' = [d \in CLIs |-> IF d = c THEN Met(j, met) ELSE Met(job[d], met \cap {d})]

Goto(c, s) == Becomes(c, [job[c] EXCEPT !.stage = s])
Finish(c)  == Becomes(c, Idle)

-----------------------------------------------------------------------------
(* Deploy: lock check, publish, baseline, index, marker                     *)

\* The baseline is locked to a project and component.  Without one the
\* published services stand in for it; another project's may have their names.
LockAllows(f) ==
    baseline[OwnerOf[f]] # NoFootprint => BaseOf[baseline[OwnerOf[f]]] = BaseOf[f]

Lock(c) ==
    /\ At(c, "lock")
    /\ \/ LockAllows(job[c].of) /\ Goto(c, "secrets")
       \/ ~LockAllows(job[c].of) /\ Finish(c)
       \/ /\ baseline[Owner(c)] = NoFootprint
          /\ desired[Owner(c)] \notin {job[c].of, NoFootprint}
          /\ Finish(c)
    /\ UNCHANGED <<state, sound>>

SecretsPresent(f) == secrets[OwnerOf[f]]

AssertSecrets(c) ==
    /\ At(c, "secrets")
    /\ \/ SecretsPresent(job[c].of) /\ Goto(c, "publish")
       \/ ~SecretsPresent(job[c].of) /\ Finish(c)
    /\ UNCHANGED <<state, sound>>

Publish(c) ==
    /\ At(c, "publish")
    /\ desired' = [desired EXCEPT ![Owner(c)] = job[c].of]
    /\ sound' = [sound EXCEPT ![Owner(c)] = FALSE]
    /\ Goto(c, "baseline")
    /\ UNCHANGED <<baseline, marker, index, secrets>>

WriteBaseline(c) ==
    /\ At(c, "baseline")
    /\ baseline' = [baseline EXCEPT ![Owner(c)] = job[c].of]
    /\ Goto(c, "index")
    /\ UNCHANGED <<desired, marker, index, secrets, sound>>

\* The deploy is over but for the wait, which changes nothing.
Done(c) ==
    /\ sound' = [sound EXCEPT ![Owner(c)] = job[c].alone]
    /\ Finish(c)

\* An environment's deploy, too, registers the component.
UpsertIndex(c) ==
    /\ At(c, "index")
    /\ index' = [index EXCEPT ![Project(c)] = @ \cup {BaseOf[job[c].of]}]
    /\ \/ job[c].of \in Envs /\ Goto(c, "marker") /\ UNCHANGED sound
       \/ job[c].of \in Bases /\ Done(c)
    /\ UNCHANGED <<desired, baseline, marker, secrets>>

\* --ttl re-arms the deadline; without it the prior one stands.
BuildPreviewMarker(c) ==
    [of |-> job[c].of, ttl |-> IF job[c].ttl THEN "runs" ELSE marker[Owner(c)].ttl]

RecordPreviewState(c) ==
    /\ At(c, "marker")
    /\ marker' = [marker EXCEPT ![Owner(c)] = BuildPreviewMarker(c)]
    /\ Done(c)
    /\ UNCHANGED <<desired, baseline, index, secrets>>

Deploy(c) ==
    \/ Lock(c) \/ AssertSecrets(c) \/ Publish(c) \/ WriteBaseline(c)
    \/ UpsertIndex(c) \/ RecordPreviewState(c)

-----------------------------------------------------------------------------
(* What a teardown command takes on                                         *)

Marked == {marker[o].of : o \in Owners} \ {NoFootprint}

Expired == {f \in Marked : marker[OwnerOf[f]].ttl = "expired"}

OfProject(p) == index[p] \cup {f \in Marked : ProjectOf[f] = p}

\* The markers and the index are read once; the confirmation prompt is here.
List(c) ==
    /\ At(c, "list")
    /\ LET j == job[c]
           all == CASE j.kind = "env"     -> Marked \cap {j.of}
                    [] j.kind = "prune"   -> Expired
                    [] j.kind = "project" -> OfProject(Project(c))
       IN  \/ all = {} /\ Finish(c)
           \/ j.kind = "project" /\ index[Project(c)] = {} /\ Finish(c)
           \/ /\ all # {}
              /\ j.kind = "project" => index[Project(c)] # {}
              /\ Becomes(c, [j EXCEPT !.todo = all, !.stage = "next"])
    /\ UNCHANGED <<state, sound>>

\* Environments first, so that a failed base teardown does not orphan them
NextTarget(j) ==
    IF j.todo \cap Envs # {} THEN j.todo \cap Envs ELSE j.todo

\* Only an environment's teardown checks whose the footprint is.
Take(c) ==
    /\ At(c, "next")
    /\ \E f \in NextTarget(job[c]) :
         Becomes(c, [job[c] EXCEPT
            !.todo = @ \ {f}, !.of = f, !.keys = {},
            !.stage = IF f \in Envs THEN "check" ELSE "plan"])
    /\ UNCHANGED <<state, sound>>

\* mutant: the index goes though a teardown has failed
BugIndexGoes(c) == TRUE

IndexGoes(c) == ~job[c].failed

\* The index goes last, whatever is in it by now.
Last(c) ==
    /\ At(c, "next") /\ job[c].todo = {}
    /\ IF job[c].kind = "project" /\ IndexGoes(c)
       THEN index' = [index EXCEPT ![Project(c)] = {}]
       ELSE UNCHANGED index
    /\ Finish(c)
    /\ UNCHANGED <<desired, baseline, marker, secrets, sound>>

-----------------------------------------------------------------------------
(* One footprint: check, plan, applyUndeploy, wait, purge, sweep            *)

\* mutant: the marker's word is taken for it
BugVerified(f) == TRUE

Verified(f) ==
    baseline[OwnerOf[f]] # NoFootprint =>
      ProjectOf[baseline[OwnerOf[f]]] = ProjectOf[f]

NextOrEnd(c, failed) ==
    IF job[c].kind = "base" THEN Finish(c)
    ELSE Becomes(c, [job[c] EXCEPT !.stage = "next", !.failed = @ \/ failed])

Check(c) ==
    /\ At(c, "check")
    /\ \/ Verified(job[c].of) /\ Goto(c, "plan")
       \/ ~Verified(job[c].of) /\ NextOrEnd(c, TRUE)
    /\ UNCHANGED <<state, sound>>

\* mutant: nothing to remove, nothing to sweep
BugNothingToRemove(c) == NextOrEnd(c, FALSE)

\* A base footprint is left as it is; an environment's state is swept.
NothingToRemove(c) == IF job[c].kind = "base" THEN Finish(c) ELSE Goto(c, "keys")

Plan(c) ==
    /\ At(c, "plan")
    /\ IF desired[Owner(c)] # NoFootprint THEN Goto(c, "remove") ELSE NothingToRemove(c)
    /\ UNCHANGED <<state, sound>>

\* servicesAfterRemoval: everything published under the owner name
Remove(c) ==
    /\ At(c, "remove")
    /\ desired' = [desired EXCEPT ![Owner(c)] = NoFootprint]
    /\ Goto(c, "unlock")
    /\ UNCHANGED <<baseline, marker, index, secrets, sound>>

\* Deleted if nobody has put it since it was read, a moment ago
UpdateBaseline(c) ==
    /\ At(c, "unlock")
    /\ baseline' = [baseline EXCEPT ![Owner(c)] = NoFootprint]
    /\ Goto(c, "wait")
    /\ UNCHANGED <<desired, marker, index, secrets, sound>>

AfterWait(c) ==
    IF job[c].purge THEN "purge" ELSE IF job[c].kind = "base" THEN "unregister" ELSE "keys"

\* Until the containers are seen to stop, or the timeout, or not at all
\* (--no-wait): the rest is done in any case, so that the wait is a delay.
WaitForDrain(c) ==
    /\ At(c, "wait")
    /\ Goto(c, AfterWait(c))
    /\ UNCHANGED <<state, sound>>

Purge(c) ==
    /\ At(c, "purge")
    /\ secrets' = [secrets EXCEPT ![Owner(c)] = FALSE]
    /\ Goto(c, IF job[c].kind = "base" THEN "unregister" ELSE "keys")
    /\ UNCHANGED <<desired, baseline, marker, index, sound>>

\* deletePrefix lists the keys ...
ListKeys(c) ==
    /\ At(c, "keys")
    /\ Becomes(c, [job[c] EXCEPT !.stage = "sweep",
         !.keys = {k \in {"baseline", "marker"} :
                     \/ k = "baseline" /\ baseline[Owner(c)] # NoFootprint
                     \/ k = "marker" /\ marker[Owner(c)] # NoMarker}])
    /\ UNCHANGED <<state, sound>>

\* ... and deletes what they name by then.
Sweep(c) ==
    /\ At(c, "sweep")
    /\ baseline' = [baseline EXCEPT
         ![Owner(c)] = IF "baseline" \in job[c].keys THEN NoFootprint ELSE @]
    /\ marker' = [marker EXCEPT
         ![Owner(c)] = IF "marker" \in job[c].keys THEN NoMarker ELSE @]
    /\ NextOrEnd(c, FALSE)
    /\ UNCHANGED <<desired, index, secrets, sound>>

RemoveFromProjectIndex(c) ==
    /\ At(c, "unregister")
    /\ index' = [index EXCEPT ![Project(c)] = @ \ {job[c].of}]
    /\ Finish(c)
    /\ UNCHANGED <<desired, baseline, marker, secrets, sound>>

Destroy(c) ==
    \/ List(c) \/ Take(c) \/ Last(c)
    \/ Check(c) \/ Plan(c) \/ Remove(c) \/ UpdateBaseline(c) \/ WaitForDrain(c)
    \/ Purge(c) \/ ListKeys(c) \/ Sweep(c) \/ RemoveFromProjectIndex(c)

-----------------------------------------------------------------------------
(* Commands, failures, and what goes on beside them                         *)

Start(c) ==
    /\ At(c, "idle")
    /\ starts > 0 /\ starts' = starts - 1
    /\ \E k \in Kinds \ {"prune"}, f \in Footprints, ttl, purge \in BOOLEAN :
         /\ k = "deploy" => ~purge
         /\ ttl => k = "deploy" /\ f \in Envs
         /\ k = "base" => f \in Bases
         /\ k = "project" => f = CHOOSE b \in Bases : ProjectOf[b] = ProjectOf[f]
         /\ k = "env" => f \in Envs
         /\ Becomes(c, [Idle EXCEPT !.kind = k, !.of = f, !.ttl = ttl, !.purge = purge,
              !.stage = CASE k = "deploy" -> "lock"
                          [] k = "base" -> "plan"
                          [] OTHER -> "list"])
    /\ UNCHANGED <<state, sound, faults>>

\* The scheduled destroy --prune-expired --yes
Prune(c) ==
    /\ At(c, "idle") /\ Expired # {}
    /\ Becomes(c, [Idle EXCEPT !.kind = "prune", !.stage = "list"])
    /\ UNCHANGED <<state, sound, starts, faults>>

\* A call fails.  A marker that cannot be written is only warned about, a purge
\* that fails is reported, and one footprint's failure is not the next one's.
Fail(c) ==
    /\ Active(c) /\ faults > 0 /\ faults' = faults - 1
    /\ CASE job[c].kind = "deploy" -> Finish(c)
         [] At(c, "purge") -> Goto(c, IF job[c].kind = "base" THEN "unregister" ELSE "keys")
         [] At(c, "list") \/ At(c, "next") -> Finish(c)
         [] OTHER -> NextOrEnd(c, TRUE)
    /\ UNCHANGED <<state, sound, starts>>

Kill(c) ==
    /\ Active(c) /\ faults > 0 /\ faults' = faults - 1
    /\ Finish(c)
    /\ UNCHANGED <<state, sound, starts>>

Expire(o) ==
    /\ marker[o].ttl = "runs"
    /\ marker' = [marker EXCEPT ![o].ttl = "expired"]
    /\ UNCHANGED <<desired, baseline, index, secrets, job, sound, starts, faults>>

\* secret set
SetSecrets(o) ==
    /\ ~secrets[o]
    /\ secrets' = [secrets EXCEPT ![o] = TRUE]
    /\ UNCHANGED <<desired, baseline, marker, index, job, sound, starts, faults>>

Step(c) == (Deploy(c) \/ Destroy(c)) /\ UNCHANGED <<starts, faults>>

Next ==
    \/ \E c \in CLIs : Start(c) \/ Prune(c) \/ Step(c) \/ Fail(c) \/ Kill(c)
    \/ \E o \in Owners : Expire(o) \/ SetSecrets(o)

\* Commands go on, and the prune is scheduled: it runs as long as anything has
\* expired and some process is free to run it.
Fairness ==
    \A c \in CLIs : WF_vars(Step(c)) /\ WF_vars(Prune(c))

Spec == Init /\ [][Next]_vars /\ Fairness

-----------------------------------------------------------------------------
(* Properties                                                               *)

\* What says that the footprint under an owner's name is there
Accounted(o) ==
    LET f == desired[o] IN
      /\ IF f \in Envs THEN marker[o].of = f ELSE f \in index[ProjectOf[f]]
      /\ baseline[o] = f
      /\ secrets[o]

\* What a deploy that ran by itself has put up stays accounted for until it is
\* removed: the project's index or its marker lists it, its baseline locks it
\* and its secrets are there, whatever is torn down beside it and wherever a
\* teardown fails or is killed (a partial teardown keeps the registry so that a
\* retry can finish).
LiveIsAccountedFor ==
    /\ TypeOK
    /\ \A o \in Owners : sound[o] /\ desired[o] # NoFootprint => Accounted(o)

\* A teardown of an environment never removes another project's footprint that
\* has its name, and the prune no environment whose time is not up, except when
\* a deploy of that owner failed or went on at the same time.
TeardownsSpareOthers ==
    [][\A c \in CLIs :
         At(c, "remove") /\ job'[c].stage = "unlock" /\ job[c].of \in Envs =>
           LET o == Owner(c) IN
             sound[o] /\ desired[o] # NoFootprint =>
                         /\ ProjectOf[desired[o]] = Project(c)
                         /\ job[c].kind = "prune" => marker[o].ttl = "expired"]_vars

\* A project destroy that says so has left nothing of the project behind, but
\* for what a deploy put up in the meantime or what a failed one left.
GoneMeansGone ==
    [][\A c \in CLIs :
         At(c, "next") /\ job[c].kind = "project" /\ job[c].todo = {} /\ ~job[c].failed
         /\ job'[c].stage = "idle" /\ faults' = faults =>
           \A o \in Owners :
             desired[o] # NoFootprint /\ ProjectOf[desired[o]] = Project(c)
               => ~sound[o]]_vars

\* A teardown removes all of what it is about and nothing else.
TeardownsAreExact == TeardownsSpareOthers /\ GoneMeansGone

\* The scheduled prune reaps every environment that has expired, failed
\* attempts notwithstanding, unless another project's footprint has its name.
Reaped ==
    \A o \in Owners :
      marker[o].ttl = "expired" ~>
        \/ marker[o].ttl # "expired"
        \/ /\ baseline[o] # NoFootprint
           /\ ProjectOf[baseline[o]] # ProjectOf[marker[o].of]
=============================================================================
