------------------------------ MODULE Release ------------------------------
(***************************************************************************)
(* From a checkout to a published image (cli: commands/deploy.ts up to the *)
(* publish, rollback.ts, scale.ts, config.ts; deploy/build.ts,             *)
(* changed-services.ts, remote-build.ts; aws/ecr.ts, codebuild.ts).        *)
(*                                                                         *)
(* Several command lines, each with a checkout of its own, choose the      *)
(* services of a deploy (all, one, or those that changed since a ref),     *)
(* tag them from git, build and push what ECR has no such tag of - with    *)
(* the local Docker or on CodeBuild - and publish.  A restart and a        *)
(* rollback publish an image that is there already; scale and config edit  *)
(* launch-pad.toml and deploy one service.  Meanwhile checkouts change,    *)
(* commands fail, are killed or time out.                                  *)
(*                                                                         *)
(* A footprint is published in one step: DesiredStore has the conditional  *)
(* writes, Scheduler the placement, StatusFeed the wait that follows.      *)
(***************************************************************************)
EXTENDS Naturals, FiniteSets, Sequences

CONSTANTS CLIs,
          Services,     \* numbers, in the order of launch-pad.toml
          Footprints, Base,    \* the environments; the one without --env
          Platform,     \* of the nodes that each footprint is placed on
          Touches,      \* for each commit, the services whose build inputs it changes
          Remote,       \* the command lines without a Docker: they use --remote-build
          MaxStarts,    \* commands that are started
          MaxEdits,     \* changes of the checkouts
          MaxFaults     \* calls that fail, commands that are killed

Commits == DOMAIN Touches

ReleaseAssumption ==
  /\ Services \subseteq Nat /\ IsFiniteSet(Services) /\ Services # {}
  /\ Base \in Footprints
  /\ Touches \in Seq(SUBSET Services) /\ Touches # <<>> /\ Touches[1] = Services
  /\ Remote \subseteq CLIs
  /\ {MaxStarts, MaxEdits, MaxFaults} \subseteq Nat

VARIABLES tree,       \* each checkout: its commit and the edits on top of it
          ecr,        \* each service's repository: its images in the order of the pushes
          uploads,    \* the context tarballs under builds/
          builds,     \* the builds that CodeBuild has not ended
          desired,    \* the tag that each footprint runs of each service
          job,        \* the command that each command line runs
          lost,       \* history: the tarballs of commands that were killed
          starts, edits, faults

outside == <<tree, edits>>
aws == <<ecr, uploads, builds, desired>>
vars == <<outside, aws, job, lost, starts, faults>>

-----------------------------------------------------------------------------
(* Checkouts, tags and contents                                             *)

\* A tag is the commit's, or for a dirty checkout one of its own.
Clean(k) == [commit |-> k, dev |-> 0]
NoTag == Clean(0)

\* What an image is made of: the last commit that changed the service, and
\* the edit on top of it, if any
LastTouch(s, k) == CHOOSE i \in 1..k : s \in Touches[i] /\ \A j \in i+1..k : s \notin Touches[j]
Source(s, k) == [commit |-> LastTouch(s, k), edit |-> 0]
Content(t, s) == [Source(s, t.head) EXCEPT !.edit = t.edited[s]]

\* toml: launch-pad.toml has an edit that is not committed.
Dirty(t) == t.toml \/ \E s \in Services : t.edited[s] # 0

\* A dirty checkout gets a tag that no other command has.
ComputeImageTag(t, serial) == [commit |-> t.head, dev |-> IF Dirty(t) THEN serial ELSE 0]

\* The commits by which a checkout and a ref differ
Between(a, b) == (a+1..b) \cup (b+1..a)

\* mutant: files that are not committed are overlooked
BugChangedServices(t, ref) == {s \in Services : \E k \in Between(ref, t.head) : s \in Touches[k]}

\* Committed since the ref, edited, or not tracked yet
ChangedServices(t, ref) ==
  {s \in Services : t.edited[s] # 0 \/ \E k \in Between(ref, t.head) : s \in Touches[k]}

Images(s) == {ecr[s][i] : i \in DOMAIN ecr[s]}

ImageExists(s, tag) == \E image \in Images(s) : image.tag = tag
ImageOf(s, tag) == CHOOSE image \in Images(s) : image.tag = tag
PushedAt(s, tag) == CHOOSE i \in DOMAIN ecr[s] : ecr[s][i].tag = tag

\* The image that was pushed last before this one
PreviousTag(s, tag) ==
  IF ImageExists(s, tag) /\ PushedAt(s, tag) > 1 THEN ecr[s][PushedAt(s, tag) - 1].tag ELSE NoTag

-----------------------------------------------------------------------------
(* Commands                                                                 *)

\* A build context; still (history): the checkout had not changed since the tag
\* was computed.
NoContext == [content |-> [commit |-> 0, edit |-> 0], still |-> TRUE]

\* todo: services whose image may have to be built yet.  context: of the build
\* that runs.  ref (history): of a --changed deploy whose footprint ran what the
\* ref has when it began, else 0.  alone (history): no other command has run
\* since; still: nor has the checkout changed.
Idle == [stage |-> "idle", kind |-> "none", footprint |-> Base, remote |-> FALSE, serial |-> 0, ref |-> 0,
         tags |-> [s \in Services |-> NoTag], todo |-> {}, context |-> NoContext,
         alone |-> TRUE, still |-> TRUE]

Active(c) == job[c].stage # "idle"
Min(S) == CHOOSE x \in S : \A y \in S : x <= y
Current(c) == Min(job[c].todo)
Chosen(c) == {s \in Services : job[c].tags[s] # NoTag}
Key(c, s) == [footprint |-> job[c].footprint, service |-> s, tag |-> job[c].tags[s]]

Init ==
  /\ tree = [c \in CLIs |-> [head |-> Len(Touches), edited |-> [s \in Services |-> 0], toml |-> FALSE]]
  /\ ecr = [s \in Services |->
              <<[tag |-> Clean(1), context |-> [NoContext EXCEPT !.content = Source(s, 1)],
                 platform |-> Platform[Base]]>>]
  /\ uploads = {} /\ builds = {}
  /\ desired = [f \in Footprints |-> [s \in Services |-> IF f = Base THEN Clean(1) ELSE NoTag]]
  /\ job = [c \in CLIs |-> Idle]
  /\ lost = {}
  /\ starts = 0 /\ edits = 0 /\ faults = 0

\* A command begins and passes its checks - the config lock, the names of its
\* services, its secrets.  It is not alone if there is another.
Begin(c, record) ==
  /\ ~Active(c) /\ starts < MaxStarts
  /\ starts' = starts + 1
  /\ job' = [d \in CLIs |->
       IF d = c THEN [record EXCEPT !.serial = starts + 1, !.alone = \A o \in CLIs \ {c} : ~Active(o)]
       ELSE [job[d] EXCEPT !.alone = @ /\ ~Active(d)]]

Deploying(f, services, remote) ==
  [Idle EXCEPT !.stage = "tag", !.kind = "build", !.footprint = f, !.todo = services, !.remote = remote]

\* deploy, or deploy --service
Deploy(c) ==
  /\ \E f \in Footprints, services \in {Services} \cup {{s} : s \in Services} :
       Begin(c, Deploying(f, services, c \in Remote))
  /\ UNCHANGED <<outside, aws, lost, faults>>

\* deploy --changed: with nothing changed it ends before it touches AWS.
DeployChanged(c) ==
  /\ \E f \in Footprints, ref \in Commits :
       /\ ChangedServices(tree[c], ref) # {}
       /\ Begin(c, [Deploying(f, ChangedServices(tree[c], ref), c \in Remote) EXCEPT
                      !.ref = IF \A s \in Services : /\ desired[f][s] # NoTag
                                                    /\ ImageOf(s, desired[f][s]).context.content = Source(s, ref)
                              THEN ref ELSE 0])
  /\ UNCHANGED <<outside, aws, lost, faults>>

\* launch-pad.toml is written back, unless it has the value already.
Edited(t, new) == [t EXCEPT !.toml = @ \/ new]

\* scale and config set edit launch-pad.toml, and run deploy --service; they know
\* no --env and build with the local Docker.
EditDeploy(c) ==
  /\ c \notin Remote
  /\ \E s \in Services : Begin(c, [Deploying(Base, {s}, FALSE) EXCEPT !.kind = "edit"])
  /\ \E new \in BOOLEAN : tree' = [tree EXCEPT ![c] = Edited(@, new)]
  /\ UNCHANGED <<aws, lost, edits, faults>>

\* deploy --restart finds each service's published image, rollback the one
\* before it; both fail where there is none.
Restart(c) ==
  /\ \E f \in Footprints, services \in {Services} \cup {{s} : s \in Services} :
       /\ \A s \in services : desired[f][s] # NoTag
       /\ Begin(c, [Idle EXCEPT !.stage = "publish", !.kind = "restart", !.footprint = f,
                      !.tags = [s \in Services |-> IF s \in services THEN desired[f][s] ELSE NoTag]])
  /\ UNCHANGED <<outside, aws, lost, faults>>

Rollback(c) ==
  /\ \E f \in Footprints, s \in Services :
       \E target \in {PreviousTag(s, desired[f][s])} :
         /\ target # NoTag
         /\ Begin(c, [Idle EXCEPT !.stage = "check", !.kind = "rollback", !.footprint = f,
                        !.tags[s] = target])
  /\ UNCHANGED <<outside, aws, lost, faults>>

\* deploy --image and rollback --to name a tag, which may not exist.
Override(c) ==
  /\ \E f \in Footprints, s \in Services, k \in Commits :
       /\ desired[f][s] \notin {NoTag, Clean(k)}
       /\ Begin(c, [Idle EXCEPT !.stage = "check", !.kind = "image", !.footprint = f,
                      !.tags[s] = Clean(k)])
  /\ UNCHANGED <<outside, aws, lost, faults>>

\* mutant: the tag is taken as it is given
BugOverrideIsThere(c) == TRUE

\* loadOverrideImage: the image is one of the service's own, and is there.
OverrideIsThere(c) == \A s \in Chosen(c) : ImageExists(s, job[c].tags[s])

Stop(c) == job' = [job EXCEPT ![c] = Idle]

Check(c) ==
  /\ job[c].stage = "check"
  /\ IF OverrideIsThere(c) THEN job' = [job EXCEPT ![c].stage = "publish"] ELSE Stop(c)
  /\ UNCHANGED <<outside, aws, lost, starts, faults>>

\* ensureRepository and computeImageTag of every service; then the capacity
\* and the platform are checked, and the builder is prepared.
Tag(c) ==
  /\ job[c].stage = "tag"
  /\ job' = [job EXCEPT ![c].stage = IF job[c].remote THEN "pending" ELSE "build",
       ![c].tags = [s \in Services |->
          IF s \in job[c].todo THEN ComputeImageTag(tree[c], job[c].serial) ELSE NoTag]]
  /\ UNCHANGED <<outside, aws, lost, starts, faults>>

-----------------------------------------------------------------------------
(* Builds                                                                   *)

Push(s, image) == ecr' = [ecr EXCEPT ![s] = Append(@, image)]

\* The files as they are now
Context(c) == [content |-> Content(tree[c], Current(c)), still |-> job[c].still]

\* The services are done one after the other; when none is left the command
\* goes on to publish.
Onward(c, working) ==
  job' = [job EXCEPT ![c].todo = @ \ {Current(c)},
            ![c].stage = IF job[c].todo = {Current(c)} THEN "publish" ELSE working]

\* An image that ECR has is not built again.
Skip(c) ==
  /\ job[c].stage = "build" /\ ImageExists(Current(c), job[c].tags[Current(c)])
  /\ Onward(c, "build")
  /\ UNCHANGED <<outside, aws, lost, starts, faults>>

\* buildAndPush takes the context ...
Build(c) ==
  /\ job[c].stage = "build" /\ ~ImageExists(Current(c), job[c].tags[Current(c)])
  /\ job' = [job EXCEPT ![c].stage = "push", ![c].context = Context(c)]
  /\ UNCHANGED <<outside, aws, lost, starts, faults>>

\* ... and pushes; a tag that is there by now cannot be overwritten.
PushBuilt(c) ==
  /\ job[c].stage = "push"
  /\ IF ImageExists(Current(c), job[c].tags[Current(c)])
     THEN Stop(c) /\ UNCHANGED ecr
     ELSE /\ Push(Current(c), [tag |-> job[c].tags[Current(c)], context |-> job[c].context,
                               platform |-> Platform[job[c].footprint]])
          /\ Onward(c, "build")
  /\ UNCHANGED <<outside, uploads, builds, desired, lost, starts, faults>>

\* runRemoteBuilds first asks which images are missing, and readies the
\* CodeBuild project if some are, ...
Pending(c) ==
  /\ job[c].stage = "pending"
  /\ \E missing \in {{s \in job[c].todo : ~ImageExists(s, job[c].tags[s])}} :
       job' = [job EXCEPT ![c].todo = missing,
                          ![c].stage = IF missing = {} THEN "publish" ELSE "upload"]
  /\ UNCHANGED <<outside, aws, lost, starts, faults>>

\* ... then packs and uploads a context, ...
Upload(c) ==
  /\ job[c].stage = "upload"
  /\ uploads' = {u \in uploads : u.key # Key(c, Current(c))}
                  \cup {[key |-> Key(c, Current(c)), context |-> Context(c)]}
  /\ job' = [job EXCEPT ![c].stage = "start"]
  /\ UNCHANGED <<outside, ecr, builds, desired, lost, starts, faults>>

StartBuild(c) ==
  /\ job[c].stage = "start"
  /\ builds' = builds \cup {[by |-> c, serial |-> job[c].serial, key |-> Key(c, Current(c)),
                             platform |-> Platform[job[c].footprint],
                             status |-> "queued", context |-> NoContext]}
  /\ job' = [job EXCEPT ![c].stage = "run"]
  /\ UNCHANGED <<outside, ecr, uploads, desired, lost, starts, faults>>

\* CodeBuild fetches the context, ...
Fetch(b) ==
  /\ b.status = "queued"
  /\ builds' = (builds \ {b}) \cup
       {IF \E u \in uploads : u.key = b.key
        THEN LET u == CHOOSE u \in uploads : u.key = b.key
             IN [b EXCEPT !.status = "building", !.context = u.context]
        ELSE [b EXCEPT !.status = "failed"]}
  /\ UNCHANGED <<outside, ecr, uploads, desired, job, lost, starts, faults>>

\* ... builds and pushes, for which a failure of the build counts as a fault.
Ended(b) ==
  /\ b.status = "building"
  /\ IF ImageExists(b.key.service, b.key.tag)
     THEN builds' = (builds \ {b}) \cup {[b EXCEPT !.status = "failed"]} /\ UNCHANGED ecr
     ELSE /\ Push(b.key.service, [tag |-> b.key.tag, context |-> b.context,
                                  platform |-> b.platform])
          /\ builds' = (builds \ {b}) \cup {[b EXCEPT !.status = "succeeded"]}
  /\ UNCHANGED <<outside, uploads, desired, job, lost, starts, faults>>

CodeBuild == \E b \in builds : Fetch(b) \/ Ended(b)

Mine(c) == CHOOSE b \in builds : b.by = c /\ b.serial = job[c].serial

\* deleteBuildContext, however the build has ended
Cleaned(c, succeeded) == {u \in uploads : u.key # Key(c, Current(c))}

Succeeded(b) == b.status = "succeeded"

\* runRemoteBuild: the build has ended.
Poll(c) ==
  /\ job[c].stage = "run" /\ Mine(c).status \in {"succeeded", "failed"}
  /\ IF Succeeded(Mine(c)) THEN Onward(c, "upload") ELSE Stop(c)
  /\ builds' = builds \ {Mine(c)}
  /\ uploads' = Cleaned(c, Succeeded(Mine(c)))
  /\ UNCHANGED <<outside, ecr, desired, lost, starts, faults>>

\* mutant: the wait has no deadline
BugPastDeadline(b) == FALSE

PastDeadline(b) == b.status \in {"queued", "building"}

\* It has not ended in half an hour: the command fails, the build goes on.
Deadline(c) ==
  /\ job[c].stage = "run" /\ PastDeadline(Mine(c))
  /\ Stop(c)
  /\ uploads' = Cleaned(c, FALSE)
  /\ UNCHANGED <<outside, ecr, builds, desired, lost, starts, faults>>

-----------------------------------------------------------------------------
(* Publish, and what happens around the commands                            *)

\* The services of the command are replaced, the others are kept: of a full
\* deploy there are none.
Publish(c) ==
  /\ job[c].stage = "publish"
  /\ desired' = [desired EXCEPT ![job[c].footprint] =
       [s \in Services |-> IF s \in Chosen(c) THEN job[c].tags[s] ELSE @[s]]]
  /\ Stop(c)
  /\ UNCHANGED <<outside, ecr, uploads, builds, lost, starts, faults>>

\* A call fails; what was uploaded is removed.
Fail(c) ==
  /\ Active(c) /\ faults < MaxFaults
  /\ faults' = faults + 1
  /\ Stop(c)
  /\ uploads' = IF job[c].stage \in {"upload", "start", "run"} THEN Cleaned(c, FALSE) ELSE uploads
  /\ UNCHANGED <<outside, ecr, builds, desired, lost, starts>>

\* The command is killed; nothing is.
Kill(c) ==
  /\ Active(c) /\ faults < MaxFaults
  /\ faults' = faults + 1
  /\ Stop(c)
  /\ lost' = lost \cup IF job[c].stage \in {"start", "run"} THEN {Key(c, Current(c))} ELSE {}
  /\ UNCHANGED <<outside, aws, starts>>

\* The checkout changes, under a command too.
Change(c, t) ==
  /\ edits < MaxEdits
  /\ edits' = edits + 1
  /\ tree' = [tree EXCEPT ![c] = t]
  /\ job' = [job EXCEPT ![c].still = @ /\ ~Active(c)]
  /\ UNCHANGED <<aws, lost, starts, faults>>

Edit(c) == \E s \in Services : Change(c, [tree[c] EXCEPT !.edited[s] = edits + 1])
Checkout(c) == \E k \in Commits \ {tree[c].head} : ~Dirty(tree[c]) /\ Change(c, [tree[c] EXCEPT !.head = k])

BuildStep(c) == Skip(c) \/ Build(c) \/ PushBuilt(c) \/ Pending(c) \/ Upload(c) \/ StartBuild(c) \/ Poll(c)
Step(c) == Check(c) \/ Tag(c) \/ BuildStep(c) \/ Deadline(c) \/ Publish(c)
Start(c) == Deploy(c) \/ DeployChanged(c) \/ EditDeploy(c) \/ Restart(c) \/ Rollback(c) \/ Override(c)

Next ==
  \/ \E c \in CLIs : Step(c) \/ Start(c) \/ Fail(c) \/ Kill(c) \/ Edit(c) \/ Checkout(c)
  \/ CodeBuild

\* A command goes on until it ends, by its deadline if nothing else; CodeBuild
\* is not relied on.
Fairness == \A c \in CLIs : WF_vars(Step(c))

Spec == Init /\ [][Next]_vars /\ Fairness

-----------------------------------------------------------------------------
(* Properties                                                               *)

Tags == [commit : 0..Len(Touches), dev : 0..MaxStarts]
Contexts == [content : [commit : 0..Len(Touches), edit : 0..MaxEdits], still : BOOLEAN]
Keys == [footprint : Footprints, service : Services, tag : Tags]

\* The variables have their types, a tag names one image of its repository
\* (aws/ecr.ts:30) and no two builds share a watcher.
TypeOK ==
  /\ tree \in [CLIs -> [head : Commits, edited : [Services -> 0..MaxEdits], toml : BOOLEAN]]
  /\ \A s \in Services : \A i, j \in DOMAIN ecr[s] :
       ecr[s][i].tag \in Tags /\ (i # j => ecr[s][i].tag # ecr[s][j].tag)
  /\ \A u \in uploads : u.key \in Keys /\ u.context \in Contexts
  /\ \A b \in builds : b.key \in Keys /\ b.context \in Contexts
  /\ desired \in [Footprints -> [Services -> Tags]]
  /\ \A c \in CLIs : job[c].todo \subseteq Services /\ job[c].context \in Contexts
  /\ lost \subseteq Keys
  /\ starts \in 0..MaxStarts /\ edits \in 0..MaxEdits /\ faults \in 0..MaxFaults

\* No desired.json names an image that ECR does not have: nothing is published
\* of a deploy whose build failed, timed out or was overtaken, nor of a
\* rollback to a tag that is not there (deploy.ts:418, 1766, 940).
PublishedIsPushed ==
  \A f \in Footprints, s \in Services :
    desired[f][s] # NoTag => ImageExists(s, desired[f][s])

\* An image under a commit's tag is made of that commit, as long as nobody
\* touched the checkout between the tag and the build (build.ts:54).
TagsAreTrue ==
  \A s \in Services : \A image \in Images(s) :
    image.tag.dev = 0 /\ image.context.still => image.context.content = Source(s, image.tag.commit)

\* What runs is there to be pulled and is what its tag says.
ImagesAreSound == TypeOK /\ PublishedIsPushed /\ TagsAreTrue

\* A tarball is there only for the command that has uploaded it, or because
\* that was killed (deploy.ts:943).
UploadsAreCleaned ==
  \A u \in uploads :
    \/ u.key \in lost
    \/ \E c \in CLIs : job[c].stage \in {"start", "run"} /\ Key(c, Current(c)) = u.key

Published(c) == job[c].stage = "publish" /\ job'[c].stage = "idle" /\ faults' = faults

\* No checkout changed between a tag and a build.
StillWhenBuilt == \A s \in Services : \A image \in Images(s) : image.context.still

\* Where a footprint runs what the ref has, deploy --changed brings all of it
\* to what the checkout has, the services it leaves alone included
\* (changed-services.ts:74, 112; docs/cli.md:252).
ChangedIsEnough ==
  [][\A c \in CLIs :
       Published(c) /\ job[c].ref # 0 /\ job[c].alone /\ job[c].still /\ StillWhenBuilt
       => \A s \in Services : ImageOf(s, desired'[job[c].footprint][s]).context.content = Content(tree[c], s)]_vars

\* rollback publishes an image that was pushed before the one that ran (rollback.ts:62,
\* ecr.ts:59).
RollbackGoesBack ==
  [][\A c \in CLIs : Published(c) /\ job[c].kind = "rollback" /\ job[c].alone =>
       \E s \in Services : /\ desired'[job[c].footprint][s] # desired[job[c].footprint][s]
                           /\ PushedAt(s, desired'[job[c].footprint][s]) < PushedAt(s, desired[job[c].footprint][s])]_vars

\* Forward to the checkout, or back to what was before it.
DeploysArrive == ChangedIsEnough /\ RollbackGoesBack

\* A command ends, whatever becomes of its builds (codebuild.ts:291).
CommandsEnd == \A c \in CLIs : Active(c) ~> ~Active(c)

\* Neither a command nor an upload is left for ever.
NothingLingers == []UploadsAreCleaned /\ CommandsEnd
============================================================================
